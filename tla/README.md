# Verification of the Wi-Fi portal game channel

TLA+ modules of the platform API (`src/apps/platform-api`), the TLC
configurations that check them on small instances, and TLAPS proofs of what must
hold for every instance. Sources are cited as files of that directory unless a
longer path is given.

## 1. The system

A NestJS process serves the game channel of an aircraft's Wi-Fi portal. Passengers
open a channel page, create or join rooms over HTTP, play over a websocket, earn
points from game reports and redeem them for rewards; operators edit the channel
content and push points to the airline's own system. All state is JSON documents
in a key-value store, in memory or in Redis (`repositories/json-state-store.ts`).

| Component | State it keeps | Operations | Talks to |
| --- | --- | --- | --- |
| RoomService (`room.service.ts`) | one document for each room: players in order, host, status, deadlines, `updated_at` | create, join, join by invite, leave, ready, reconnect, disconnect, get, cleanup, maintenance sweep every 30 s | store; room events to listeners |
| RealtimeServer (`realtime.server.ts`) | registry of clients by room and by socket, the connection metric | connect, register and replace, message, close, broadcast | RoomService (calls and events), GameRuntime |
| GameRuntime (`game-runtime.service.ts`) | set of rooms whose match is initialised | room events, first snapshot, game events | 15 adapters, RoomService |
| Game adapters (`game-adapters/*`) | one match document for each room | create, join, reconnect, action, finish | store |
| Points (`points.service.ts`) | a summary for each passenger with the last 50 report ids | report, summary, leaderboard | points rules, airline sync, game events |
| Points rules and audit (`points-rules.service.ts`) | rule sets, an audit entry for each report | evaluate, update | store |
| Game events (`game-events.service.ts`) | events by id | record, list, leaderboard | store |
| Rewards (`rewards.service.ts`) | a ledger for each passenger, an inventory record for each offer | catalog, wallet, redeem | points summary |
| Airline points sync (`airline-points.service.ts`) | a sync record for each report, a config for each airline | sync, dispatch pending, retry | the airline's adapter |
| Channel content (`channel-content.service.ts`) | draft and published state, revisions | get, update, publish | store |
| Admin sessions and audit (`admin-auth.*`, `admin-audit.service.ts`) | sessions, audit list | login, logout, guard, record | store |
| Web frontend (`src/apps/channel-web/src`) | a page of each game: its run, or the match it was sent; the administrators' page: session and document | clicks, timers, reports, saves | all of the above, over HTTP and websockets |
| Metrics, diagnostics, app service, SDK schemas | counters, static data | reading | all of the above |

What is hard here. Nothing locks a document: each operation reads it, awaits, and
writes it whole. With the memory store a handler's awaits are microtasks and two
handlers do not interleave; with Redis each await is an interleaving point, and
the process may stop there. Sockets close at any time, also while their handler is
awaiting something. Timers, deadlines and retries act on what an earlier read
said. `PROJECT.json` lists the hazards, each at its line.

What makes each part correct:

- **RoomService**: no second host, capacity, a status that fits the players, deadlines
  for exactly those away; a member loses its seat only by leaving, by staying away
  past the window or with a stale room; listeners end up with what is stored;
  expired players, emptied rooms and idle rooms go away.
- **RealtimeServer**: one client for each player; live clients see the stored
  room; a live socket keeps its player's seat, and the seat its session; a lost client
  is marked away.
- **Points and Rewards**: a report counts once; nobody overspends; a redemption is
  charged once; stock and session limits hold.
- **GameRuntime and adapters**: the stored match is one its adapter's operations lead
  to; everybody in the room is in the match; a match whose players are there can go
  on to its end; its result stands; pages offer what the adapter takes; a match is
  credited once to each of its players.
- **Single-player games, points and events**: no order of clicks leaves a board
  stuck; what is credited is a run that was finished, once, by rules in force; the
  summary, the audit and the events tell one story.
- **Airline sync**: a record claims what the airline answered and no more; one that
  is synced stays synced; a report is accepted once unless the process stopped
  before the answer was stored; every attempt is counted.
- **Channel content**: passengers never see a draft; the document knows whether its
  draft is published; every change has its entry in the admin audit, by somebody who
  may make it.

## 2. Modules

| Module | Models | Extended by |
| --- | --- | --- |
| `RoomService` | `room.service.ts` over its repository, one room | `MCRoomService`, `RoomServiceProofs` |
| `Realtime` | `realtime.server.ts` for one room, with the room operations it meets | `MCRealtime`, `RealtimeProofs` |
| `Rewards` | `points.service.ts` `reportPoints` and `rewards.service.ts` `redeem` | `MCRewards`, `RewardsProofs` |
| `AirlinePoints` | `airline-points.service.ts` with its adapters and sync records | `MCAirlinePoints`, `AirlinePointsProofs` |
| `GameRuntime` | `game-runtime.service.ts`, the match documents, and the clients of a match, for any adapter | `MCMatches`, `GameRuntimeProofs` |
| `Match`, `AnswerRounds` | what the adapters have in common; the games of prompts | the games |
| `QuizDuel`, `WordRally`, `AirlineTriviaTeams`, `SkylineDefenseLite`, `SeatMapStrategy`, `RouteBuilderDuel`, `MiniGomoku`, `CrewCoordination`, `CabinCardClash`, `BaggageSortShowdown`, `MemoryMatchDuel`, `PuzzleRaceGrid`, `SignalScramble`, `SpotTheDifferenceRace`, `TapBeatBattle` | the adapter of each game and what its package page offers and reports | (instances in `GameAdapters`) |
| `GameAdapters` | the registry of adapters, by the id of the game | (instance in `MCMatches`, `GameRuntimeProofs`) |
| `SoloRounds`, `SoloPaths`, `SoloBoards` | the pages of the single-player games: questions, picks in an order, boards | (instances in `SoloGames`) |
| `SoloGames` | those pages by the id of the game | (instance in `MCPortal`, `SoloPlayProofs`) |
| `PaidRuns` | abstract: finished runs are paid once | (instance in `SoloPlay`) |
| `PointsRules` | `points-rules.service.ts` as functions | (instance in `MCPortal`) |
| `GameEvents` | `game-events.service.ts` | `SoloPlay` |
| `SoloPlay` | a page, its reports, and `reportPoints` with rules, audit, summary and events | `SoloPlayProofs`; instance in `MCPortal` |
| `ChannelContent` | channel content, admin sessions and audit, the administrators' page | `MCPortal`, `ChannelContentProofs` |
| `FiniteSums` | no code: facts about sums over finite sets | `RewardsProofs`, `SoloPlayProofs` |

In all of them an action is the code between two awaits on the store, and a handler
is a record (a *slot*, or the socket itself) with the point it waits at and what it
holds until its write. Definitions marked *Mutant* in their comments are changed
copies of a definition; they stand for plausible bugs and are used by no action.

**RoomService.** `room` is the stored document or `None`; the `players` array is a
function of the player with a `seat`, so order survives `filter`. Rooms are
separate documents under random ids, so one stands for each. Instants are kept
relative to now: a deadline is the time left, `age` the time since `updated_at`.
`Tick` is one interval of the maintenance timer. `leaveRoom`, `setReady`,
`reconnect` and `disconnect` are `ReadThenWrite` and `Persist`; `joinRoom` keeps
the copy it read while its `cleanupRoom` runs (`CleanupRead`, `CleanupWrite`) and
judges by that copy (`Admitted`). `getRoom` and `joinRoomByInvite` go through
`cleanup` and then `ReadAfterCleanup`, which merges the invite lookup's read with
`joinRoom`'s own. `Restart` drops all handlers and may lose the room, when the
outage outlasts its two hours in the store; that is the only place the time to
live is modelled. `published` is the room of the last event: all of it but
`updated_at`, which every sweep renews without an event. A deadline in it comes nearer
with each `Tick`, as it does in the room.

**Realtime.** A socket is its handler: `Connect`, the cleanup and read of
`getRoom`, `Get` (reject, reconnect or register), `ReconnectRead`/`Write`,
`Listen` after the first game snapshot, and, after `CloseEvent`, `DisconnectRead`/
`Write`. `clients` is the registry, `active` the metric, `seen` what a socket was
last sent. The room document is reduced to session and connection of each seat;
`Cleaned`, `Away` and `Back` are what `RoomService`'s `Cleaned`, `Disconnected`
and `Reconnected` do to it. `Cleaned` does not delete a stale waiting room
(`room.service.ts:482`): on a running server each sweep refreshes the timestamp that
test reads (`room_stale`). In `Init` some players have joined, and some of them are away
again, by the HTTP call. HTTP calls on the room (`Join`, `Leave`, `Reconnect`,
`Disconnect`, `Sweep`) are single steps here; `RoomService` splits them. A read of
`clients` after an await is the current one, as in the code. Relayed game events
and presence messages keep no state and are left out.

**Rewards.** `points`, `ledger` and `inventory` are the three kinds of documents.
`redeem` is `Redeem`, `ReadPoints`, `ReadLedger` (with all checks, in `Permitted`),
`StoreLedger`, `StoreInventory`; `reportPoints` is `ReportPoints`, `StoreSummary`.
A redemption id names one request (`asked`), as the frontend's
`createClientId("redeem")` makes it; it may be sent again at any time. What the
rules award is a constant of the report. `Crash` stops all handlers and keeps the
documents. `earned` and `granted` are history variables.

**AirlinePoints.** `records` has the sync record of each report, `config` the
airline's configuration, which operators change at any moment. `syncReportedPoints`
is `SyncReportedPoints`, `Lookup`, `Create` and, in realtime mode, a dispatch;
`retrySync` is a dispatch; `dispatchPending` picks the eligible records once and
dispatches one after another. A dispatch is `DispatchRead`, `Send` (it reads the
configuration anew and calls the adapter, whose answer follows from the configured
simulation) and `Store`. `RetryDue` is the clock reaching `next_retry_at`. `calls`
and `delivered` are history variables: what the airline saw of a report. The
listing's limit and order are left out, and reports without an airline code, for
which nothing happens.

**GameRuntime.** `match` is the stored document of one room. A room event or a socket
message starts a handler: a list of tasks (`create`, `join`, `play`, `send`, ...) that
is done in order, and dropped from a task that throws. `ensureRoomInitialized` is
`Ensure`, which looks at the key, and a `seed` task, which reads the room and becomes
the tasks of `Seating`. With the memory driver nothing new starts before a handler is
through; with Redis `ReadMatch` and `WriteMatch` are steps of their own and handlers
interleave. The room is what the runtime is told of it: `CreateRoom`, `JoinRoom`,
`LeaveRoom`, `DeleteRoom` and `ReconnectRoom` are events `RoomService` emits. Clients
are either the games' own pages, which offer moves of the state they were sent last
(`OfferedMoves`) and number their events from 1, or any client of the SDK, which sends
any legal payload, out of turn and repeated. Either kind is a member of the room
(`PlayAny`, `RequestState`): a passenger who has left over HTTP while its
socket stays open could still send, because the socket server compares a message with
the socket and not with the room (`realtime.server.ts:412-431`); that is left out. The
answer to any client is not followed (`SendTo`), and with it the write `getSnapshot` makes
in spot-the-difference-race (`game-runtime.service.ts:123`, `161`); with pages it is a step. The adapters are operator constants, so
the module says nothing of a single game.

**The games.** A match document is a record with the adapter's fields; each module has
`Created`, `Joined`, `Played` (the whole of `handlePlayerAction`), what `getSnapshot`
stores, the page's `Offered` moves and its `Report`, and `Sound`, which says what a
match of the game is. A move is what the adapter tells apart: an answer is right or
wrong, a tap is a beat, a cell is its id. Revisions and dates are left out except in
`MemoryMatchDuel`, whose page names its report by the revision. In
`SpotTheDifferenceRace` the deadline has passed or has not.

**Single-player games.** The state of a page is a record with its `stage`; `...Clicks`
is the set of states a click or a timeout may lead to, `...Report` the points and the
part of the report id the page makes. `SoloPlay` takes these as operator constants:
`Click`, `Start`, `Reload` of the page, `PressReport`, and the request's steps
`ReadSummary`, `ReadRules`, `WriteAudit`, `WriteSummary`, `RecordScore`,
`RecordLifecycle`, `Answer`. `LoseRequest` and `FailRequest` end it early. `finished`
and `answered` are history variables. The solution of `quiet-cabin-sudoku` is a set of
cells that are filled; `meal-cart-match` keeps its pending timers.

**PaidRuns** has three variables: finished reports, paid ids, the total. A run may be
finished at any time, and a finished report is paid once, for an amount of some rules
in force. `SoloPlay` implements it with `paid <- summary.processed` and
`total <- summary.total` (`ImplementsPaidRuns`).

**ChannelContent.** `content` is the document of one airline and locale, a catalog of
entries and a title standing for the rest of the configuration. `requests` has the one
request each browser (and the passenger) may have under way, with what it read (`held`);
`Begin` is the guard and the role, `ReadContent`, `SeedContent`, `SaveDraft`,
`PublishDraft`, `ReplaceRules` the services, `WriteAudit` the controllers' record.
`pages` is what the administrators' page shows, `seen` what the passenger was shown,
`released` the states somebody published. Login and logout are single steps. A browser
waits for an answer before its next request; the page itself only disables its buttons
for each other, so a load that is answered late could replace a saved document on the
screen, which the model leaves out.

**MCPortal** composes `ChannelContent` with `SoloPlay` over the stored points rules,
and looks at three parts, one for each initial value of `part`: administrators alone,
players whose rules change by themselves, and a player while an operator who logged in
replaces the rules.

The functions React's `useEffectEvent` returns are in the dependencies of the pages'
effects; the models take them as stable, so a page keeps its socket while it is open.

## 3. Runs

| Run | Setting | Shows |
| --- | --- | --- |
| `room_serial` | 2 players, one handler at a time, 1 restart, fairness | `ListenersAgreeWithStore`, `SeatIsHeld`, `ExpiredPlayerIsRemoved`, `EmptiedRoomIsDeleted`, `HostlessRoomGetsAHost` |
| `room_race` | 3 players for 2 seats, a request and the sweep at every interleaving | `TypeOK`, `StoredRoomIsWellFormed`, and `RoomInv`, the invariant that is proved |
| `room_revival` | as above, one handler at a time | **violated**: `joinRoom` writes back a player its own cleanup removed |
| `room_stale` | no client at all | **violated**: an idle waiting room is never deleted, because each sweep refreshes `updated_at` |
| `realtime_memory` | 2 players, 2 sessions, 2 sockets, memory store, fairness | `ClientsSeeStoredRoom`, `LiveSocketKeepsSeat`, `LiveSeatKeepsSession`, `LostClientIsMarkedAway` |
| `realtime_redis` | 2 players, 2 sockets, every await an interleaving point, all HTTP calls, failing snapshots | `TypeOK`, `OneClientPerPlayer`, `MetricCoversClients` |
| `realtime_resume` | 1 player, 2 sockets, Redis | **violated** `LiveSocketKeepsSeat`: a closed socket's late write marks the player's new socket away, and the sweep removes it |
| `rewards_serial` | 2 passengers, 3 redemption ids, 2 sessions, one handler, 1 crash | `NotOverdrawn`, `ReportsCountOnce`, `GrantsAreCharged`, `StockHolds`, `SessionLimitHolds`, `RecordsAreConsistent`, `TypeOK` |
| `rewards_oversell` | two handlers | **violated** `StockHolds`: two requests both take the last unit |
| `airline_outbox` | 2 reports, one handler, 1 crash, every configuration | `RecordsAreEarned`, `SyncedStays`, `DeliveredOnce`, `AttemptsAreCounted`, `NoneForgotten`, `TypeOK` |
| `matches` | the 15 games, memory driver, with any client and with the games' pages; `cabin-card-clash` also with Redis and restarts | `MatchIsSound`, `MembersAreSeated`, `NoStuckMatch`, `ResultStands`, `PagesAgreeWithAdapters`, `RewardedOnceElsewhere`, `TypeOK` |
| `portal` | administrators, the 10 single-player games, and an operator who changes the rules | `ImplementsPaidRuns`, `LedgersAgree`, `RunsCanBeFinished`, `DraftsStayHidden`, `AuditTrailIsComplete` |

The four violated properties are the findings of `PROJECT.json`, each with the doc
or test line it contradicts. `room_revival` and `room_stale` need no concurrency.
`realtime_resume` and `rewards_oversell` need the Redis store.
One connection to Redis answers in order while the models let any awaited call be
late; what `realtime_resume` needs is only that the close event is handled within
the round trip of the new socket's last read.

What the properties leave out, because there they do not hold of the code:

- `ListenersAgreeWithStore` once the process has restarted, of one field. When it stops
  between the write that empties a room and the delete, the last player is still
  `host_player_id`; if that player joins again, `joinRoom` seats it without the host
  flag, and the next sweep sets the flag. `cleanupRoom` compares the players it removed,
  the status and `host_player_id` (`room.service.ts:533-536`) and sends no event, so the
  listeners go on showing a room in which nobody has the flag. The property names this
  one write (`FlagRestored`) and allows it after a restart only; nothing else may differ.
- `LiveSeatKeepsSession` with the timing of Redis: `realtime_resume` marks a live socket's
  player away, and `reconnect` lets such a player back under any session
  (`room.service.ts:301`). Nor does it speak of the reconnect call over HTTP, which
  needs no socket, or hold where a player is marked away over HTTP.
- `LostClientIsMarkedAway` with the timing of Redis: a socket that closes while its
  first game snapshot is awaited has no listener yet, and is never marked away.
- `MatchIsSound` of `tap-beat-battle` with Redis and three players: a late write of a
  round's end meets a join. Late writes break it in `airline-trivia-teams` and
  `puzzle-race-grid` too.
- `NoStuckMatch` of `cabin-card-clash` with three players: one who joins while a card
  is on the table is dealt a hand for the whole match.
- `NoStuckMatch` when somebody of the match has left the room, or is still in it but
  was never shown that a second player joined: `room.joined` sends no game state, and
  `PagesAgreeWithAdapters` speaks of pages that show the match as it is.
- `RewardedOnce` of `memory-match-duel`: its report is named by the revision, which
  goes on growing after the end (`RewardedOnceElsewhere` is the same for the others).
  Report ids have no room in them, so a second match or run of one session with the
  same numbers is not credited; `ImplementsPaidRuns` promises one payment for each id.
- `AuditTrailIsComplete` with Redis: the content is written before its audit entry.

### Bounds

- `Window` 0 and `StaleAfter` 1 ticks: a deadline passes at the next tick and a
  room becomes stale after two, so each threshold has a state on either side.
- `MaxPlayers` 2 (the smallest the code allows) with 3 players: a full room, a
  joiner turned away, a host and a successor. The serial run needs no third player:
  its properties speak of one player and a host that changes.
- `Concurrency` 2 of `room_race` is a request against the sweep. All request pairs
  exceed seven million states; `RoomServiceProofs` covers any number.
- `SlowCalls` FALSE: a store call is shorter than the 30 s interval. `room_stale`
  sets it TRUE so that the bound cannot be the reason the room stays.
- `MaxRestarts`, `MaxCrashes` 1: the interesting stop is between two writes.
- A socket is used once; two of them give every replacement and every race of a
  closing socket with its successor. `Calls` selects the HTTP calls of a run.
  `realtime_memory` leaves out `leave` and `disconnect` calls to afford liveness;
  they are in `realtime_redis`.
- `HistoryLength` 1 and `ProcessedLength` 3 stand for 10 and 50: an id can have
  left the history and not yet the processed ids. Past 50 ids a retry counts anew
  (a listed hazard); the run keeps to at most as many ids as the list holds.
- `MaxCalls` 3 calls of the airline for one report: with two attempts allowed, a
  failure to be retried, the last attempt and a manual retry after it. The
  configurations differ in all that decides a step.
- One offer with one unit and one that a session may have once; points for
  either, or for both only after both reports.

- `matches`: `SeatLimit` 2 passengers take part, 3 in `cabin-card-clash`, so that a
  hand is dealt late; `Slots` 2 handlers, the most a page's opening starts; `SeqLimit`
  events for each player, enough for every match to end (on Redis one event each);
  `FaultLimit` 1 or 2 departures, closed pages or restarts. Decks have two rounds,
  boards three or four cells, so that a match has a middle; `MaxRevision` 12 is more
  than any match of two pairs has.
- `portal`, administrators: 2 browsers, two users of different roles, 2 games, 1 title,
  a catalog that misses a game, `EditLimit` 1, `LoginLimit` 2; 3 requests and 1 fault
  with the memory driver, 4 requests of one user and no fault with Redis, which is a
  save against a publication, each with its load.
- `portal`, players: `TileCount` 3 and `MealPairs` 2; `SlipLimit` 3 mistakes (1 in the
  sudoku, 2 in the puzzle); `RunLimit` 2 runs, so that one can be begun while the
  report of the other is under way; 1 fault (none in the sudoku); 1 change of the rules
  by themselves, in `star-map-relax`. The part with an operator has `luggage-logic` on
  Redis with 1 run and 1 fault on either side. The 50 ids and 10 reports a summary
  keeps are more than the runs there are; `Rewards` looks at their ends.

`CHECK_DEADLOCK FALSE` in the matches and portal runs: a room can be gone for good, and
what is bounded ends. `CHECK_DEADLOCK FALSE` in the realtime runs: sockets are used once
and the room may empty, after which nothing happens.

### Fairness

Awaited store calls return (`WF` of `Continue`) and the interval timer fires (`SF`
of `Tick` and `SweepExpiredRooms` in `RoomService`; strong, because the models' own
bounds can disable a step that the code does not hold back). A closing socket
raises its close event (`WF` of `CloseEvent`): `pingClients` writes to the
connection every interval, so a dead link fails. No client is ever assumed to act.
For the same reason `NoStuckMatch` and `RunsCanBeFinished` are no liveness properties:
players may stop at any time. They say that there always is a move that brings the
match or the run on (for a run, within three clicks), which no fairness is needed for.

## 4. Proofs

| Theorem | Module | Says |
| --- | --- | --- |
| `RoomInvariant`, `TypeCorrect`, `StoredRoom` | `RoomServiceProofs` | `RoomInv`, `TypeOK`, `StoredRoomIsWellFormed` are invariants |
| `ListenersAgree`, `SeatsAreHeld` | `RoomServiceProofs` | one handler at a time: `ListenersAgreeWithStore` is an invariant, with its exception for a flag restored after a restart; `SeatIsHeld`: no step takes a member's seat but those that may |
| `RealtimeInvariant`, `RealtimeTypeCorrect`, `OneClientForEach`, `MetricCovers` | `RealtimeProofs` | `RealtimeInv`, `TypeOK`, `OneClientPerPlayer`, `MetricCoversClients` are invariants |
| `MemoryInvariant`, `ClientsSee`, `LiveSocketsKeepSeats`, `LiveSeatsKeepSessions` | `RealtimeProofs` | memory store: `ClientsSeeStoredRoom` is an invariant, and `LiveSocketKeepsSeat` and `LiveSeatKeepsSession` hold of every step |
| `RewardsInvariant`, `RewardsTypeCorrect`, `StoredRecords` | `RewardsProofs` | `RewardsInv`, `TypeOK`, `RecordsAreConsistent` are invariants |
| `OneHandlerInvariant`, `NobodyOverdraws`, `InventoryHolds`, `SessionLimits` | `RewardsProofs` | one handler: `NotOverdrawn`, `StockHolds`, `SessionLimitHolds` are |
| `EveryReportCountsOnce`, `EveryGrantIsCharged` | `RewardsProofs` | one handler, lists long enough: `ReportsCountOnce`, `GrantsAreCharged` are |
| `AirlineInvariant`, `AirlineTypeCorrect`, `EarnedRecords` | `AirlinePointsProofs` | `AirlineInv`, `TypeOK`, `RecordsAreEarned` are |
| `OneHandlerInvariant`, `AcceptedOnce`, `AttemptsCounted`, `NoneIsForgotten`, `SyncedIsFinal` | `AirlinePointsProofs` | one handler: `DeliveredOnce`, `AttemptsAreCounted`, `NoneForgotten` are, and `SyncedStays` holds of every step |
| `SoloPlayInvariant`, `PaidRunsAreImplemented`, `TheLedgersAgree` | `SoloPlayProofs` | of any page that reports as it should: what is credited comes from finished runs; `ImplementsPaidRuns`: `SoloPlay` refines `PaidRuns`; `LedgersAgree` |
| `ReportsOfPagesStand`, `PagesBeginRuns`, `PagesArePaid`, `LedgersOfThePagesAgree` | `SoloPlayProofs` | the ten pages do, so both hold of them |
| `PassengersSeeWhatIsPublished`, `AuditListsEveryChange` | `ChannelContentProofs` | `DraftsStayHidden`, with either store, and `AuditTrailIsComplete` are invariants |
| `EverybodyIsSeated`, `PlayersOfTheGamesAreSeated` | `GameRuntimeProofs` | `MembersAreSeated` is, for adapters that keep seats; the 15 adapters do |
| `DocumentsOfTheGames` | `GameRuntimeProofs` | `TypeOK` is, of the 15 games with either store: every document is one of its game |
| `ResultsOfTheGamesStand` | `GameRuntimeProofs` | memory driver: `ResultStands` holds of every step of the 15 games |
| `MatchesAreReportedOnce` | `GameRuntimeProofs` | memory driver, pages: `RewardedOnceElsewhere` is an invariant of the 14 games it is about |
| `PagesAgree` | `GameRuntimeProofs` | memory driver: `PagesAgreeWithAdapters` is an invariant of the 15 games |

They hold for any number of players, sessions, sockets, offers, reports, browsers and
games, from the named assumption of each module (finite players, constants of their
kinds, `None` different from everything) and the hypotheses a theorem states. Those that
state none about handlers or the store hold for any number of concurrent handlers at
every interleaving. The hypotheses are these:

- `Concurrency = 1`, `Slot = {s}`, `Interleave = FALSE`: one handler is through before the
  next starts, as with the memory store, whose promises are resolved when they are
  awaited. `room_race`, `rewards_oversell` and `realtime_resume` show what becomes of
  these properties otherwise. Crashes and restarts may still cut the handler short.
- `SlowCalls = FALSE`: no tick of the clock falls within the handler.
- `Calls \subseteq {"join", "reconnect"}`: nobody asks over HTTP to leave or to be marked
  away while its own socket is open; then of course its seat is not kept, or is free to
  be taken back under another session.
- `FewReports`, `FewRedemptions`: no more ids than the list of processed ids holds (50).
  Past that a repeated report counts anew (a listed hazard), so they cannot be dropped.
- `NoneIsNoDocument`, `RegistryIsUsed`, `PagesAreUsed`, `ReportsAreUsed`: the operator constants of a module
  are those of the games, and `null` is none of the documents. The MC modules give them
  so. `RulesAwardNumbers`: the rules award a natural number of points.
- `PagesInMemory`: pages are looked at with the memory driver, as in the setups of `MCMatches`.
- `BoardsFit`: the board of a game is not larger than the source's own table of it.
- `None \notin {"right", "wrong"}`: `null` is not an answer. `NullIsNothing`: nor a player, a
  number, a list of players, a team, a mark or what a page makes of a state.
- `IsFiniteSet(Player)`, `IsFiniteSet(Spots)`, `Spots # {}`: there are finitely many
  passengers, and in the picture of spot-the-difference-race something to find.
- `TurnGames = Reg!GamesOfTurns`: the games of turns are the seven of `GameAdapters`.

The arguments:

- *Room.* The stored room alone is not inductive: a handler writes what it computed
  from a read that others have overtaken. The invariant therefore says that every
  document a handler holds is well formed too, and the proof strengthens it with
  what each waiting handler's operation needs. `Joined`, `Left`, `Readied`,
  `Reconnected`, `Disconnected`, `Cleaned` and `Older` each have a lemma: a
  well-formed document in, a well-formed one out. The join's capacity check on a
  stale copy is enough because the same copy is written.
- *Room, one handler* (`Serial`, `AllLed`, `Seated`). Only one handler is past its first
  read, it holds the stored room but for the change it is about to write, and what was
  published last is the stored room, or lacks the host's flag (`Matches`), unless the room
  is about to be deleted. That a cleanup which sends no event changes nothing but that flag
  is a lemma about its comparison: no player removed, the status and the host id as they
  were, and seats that were counted already leave `is_host` alone. That the flag is missing
  after a restart only is the part `AllLed`: as long as there was none, some player carries
  the flag in every document, stored or held, but one that is about to be deleted. For the seats the
  invariant says of a held document which members it lacks: the one that leaves, or
  those expired when they were read.
- *Realtime.* One client for each player is inductive with the types, because
  registration removes the player's others in the same step it adds the new one.
  The metric covers the clients because each addition counts one, and a close
  subtracts one only with a client it removes.
- *Realtime, memory store* (`InMemory`, `ClientsConnected`). One handler is midway, it holds
  the stored room with its own change, and every open client was sent the stored room;
  a client's player is connected, and a handler that goes to mark a player away finds
  no client of that player, because registering another would have been a step in
  between. A handler that takes a player back found the player away (`Returners`), so that
  player has no client, and the session it writes is nobody's live seat.
- *Rewards.* A handler holds an inventory record within its offer's limits from its
  read to its write, whatever others write meanwhile; the checks make the new
  record fit. A ledger's history is a front part of its processed ids because both
  lists grow by the same id and the history is cut first. So the *records* never
  contradict an offer, though `rewards_oversell` shows that what was granted can.
- *Rewards, one handler* (`Alone`). What the handler has read is still stored: its ledger
  is within the points, its record is the stored one. Grants exceed the record by the
  one unit the handler is about to write, and by one for each crash that came between.
- *Rewards, what is counted* (`PointsCounted`, `ChargesCounted`). The list of processed ids
  has each report earned, once, and the total is their sum; so an id that comes again
  is found, or adds its own award. The same for the ledger and the prices of what was
  granted. `FiniteSums` has the facts about sums.
- *Airline.* What the airline answered never shrinks, so a record that was earned
  when a handler read it is earned when it is written, however late. The invariant
  carries that for every held record, and `Send` is the one step that has to show
  it anew.
- *Airline, one handler* (`Alone`). The handler's copy is the stored record; a call or an
  acceptance the record does not tell is the one the handler is about to store, or is
  owed to a crash; a pending record nobody will try again is in the handler's hand, or
  is one of at most as many as there were crashes.
- *Paid runs.* The refinement needs that the report a request carries is one of a run
  that was finished, although the page may have begun another since, and that what the
  request read of the summary is still stored when it writes. Both are in the
  invariant, with what the rules may award. It is proved for any page of two
  properties, stated as hypotheses: a run that is over goes on reporting what it
  reported (`ReportsStand`), and no page begins with one (`RunsBegin`).
  `ReportsOfPagesStand` and `PagesBeginRuns` prove both of the ten pages,
  `meal-cart-match`'s late timers included, for boards of every size. With two requests
  of a passenger at once the refinement does not hold on Redis; `SoloPlay` has one at a
  time.
- *Ledgers* (`LedgersInv`). Every amount in a document is backed by a finished run and, until they
  change, by the rules of the beginning; there is one event for each event id; the
  request under way has brought its report to the documents before the one it waits for,
  and answered reports are in all of them. The summary's total is the sum of what its
  ids are worth, and the board's that of the ids whose score is recorded. That the
  amounts agree needs that a report id says how many points it stands for
  (`ReportsAreClear`), which is proved of each of the ten pages from what its board can
  look like (`PageDoc`).
- *Content.* Handlers overwrite each other's documents, so the stored one is not
  inductive by itself: the invariant says that every document a request holds is
  proper too, which `Updated` and `Published` preserve whatever happened since the
  read. It grows with `released`, which never shrinks.
- *Audit* (`AuditInv`). With the memory store one request is under way; what it is about to
  write follows from the stored document, its user has logged in and may make the change,
  and the entries name every revision, but for the one it has still to record.
- *Matches.* While a handler is under way the match may lack members of the room:
  `createMatch` throws away a match that others had joined, and the joins follow. So
  the invariant speaks of the tasks still to be done (`Story`): they are ordinary ones
  and every member is in the match or about to join; or they create a match and go on
  so; or nobody is left and they end the match. `Seating` is of the second kind because
  it joins all that `ensureRoomInitialized` read. It needs the memory driver, where the
  room cannot change before the tasks are done. `EverybodyIsSeated` takes what adapters
  do with `players` as a hypothesis (`AdaptersKeepSeats`); a lemma for each of the 15
  games proves it of its adapter, for boards of every size, and
  `PlayersOfTheGamesAreSeated` is the result for the registry.
- *Documents.* The types of the matches need those of the tasks (`play` carries a payload
  that parses), of the pages, which offer moves of what they show, and of each adapter:
  a document and a payload in, a document out. The lemma of each game has one step for
  each operation; four games of boards need more than the type for that, so `Documents`
  adds that such a match is over exactly when nothing is left on its board.
- *Results* (`OrderInv`, `GoodInv`). An adapter scores for whoever the runtime names, a
  player of the match or not. So the invariant orders the tasks still to be done: a match is created
  first of all and only where there is none, its key is in memory or about to be, and who
  plays is a member with nobody left to join; by `Story` it is a player then.
  `ResultsStand` takes what adapters do as a hypothesis (`AdaptersStand`), and a lemma for
  each game proves it: who is no player has no points (`OnlyPlayersScore`; the joins of
  six games set points to zero), and a match that is over gives none. The three games
  of rounds do give some afterwards, to who joins late and answers the last round: there
  the invariant (`RoundsStand`) says that the last round is never left and that whoever
  has no answer in it has no points, so that only points of nobody can change.
- *Reports* (`ShownInv`, `OnceInv`). A report is named by what the page got, so a match is
  credited once if nothing the name is made of changes after its end. A join or a
  reconnection leaves it alone; in the two races that needs that who is no player has
  no progress (`OnlyPlayersProgress`), in tap-beat-battle that it has no points. In 13
  games a move alone ends a match, and what `EndsByMove` says of their adapters is enough:
  every open page knows that the match is over or will be told by the send that follows
  the move, and a page that knows offers no move, so none is under way afterwards.
  spot-the-difference-race also ends by its clock, while a move may be under way; there
  such a move changes nothing but the last sequence number.
- *Pages.* What a page offers follows from the state it was sent, and what the adapter
  takes from the match it was sent of: when the two are the same, each game has a lemma
  (`QuizAgrees` and so on) that compares them. Eleven games need nothing but the type. In
  airline-trivia-teams everybody must have been dealt a team, in mini-gomoku a mark; an open
  card of memory-match-duel must be somebody's; and a match of spot-the-difference-race that
  goes on must have spots left to find and no winner yet (`Agreeing`, which every operation of
  the adapters keeps). That the members a page is for are players of the match is `Story`
  again, with no task left.

Sums and counts are proved by induction, though the provers cannot instantiate the
library's induction theorems, which take an operator: `FiniteSums` states induction of
sets of numbers (a set with 0 and with each number the next has all of them, by the
well-foundedness of `<`), and unfolds the community modules' folds from there.

Only model-checked: liveness (fairness and `ENABLED` are out of the prover's reach);
`MatchIsSound` and `NoStuckMatch` of `matches`; and
`RunsCanBeFinished`, which asks for a sequence of moves that a proof would have to give
for each board.

## 5. What is left

1. `AirlinePoints` with two dispatchers at once, and `dispatchPending`'s limit (old
   records that are never served), with fairness of a periodic dispatch.
2. An abstract room (atomic operations) that `RoomService` with one handler implements,
   with `GameRuntime` and `Realtime` on top of one and the same room.
3. Proofs of `Sound` for the single games, which would make `MatchIsSound` a theorem with
   the memory driver. On Redis `matches` checks it of cabin-card-clash alone: two handlers
   that rewrite one match can break it in other games (tap-beat-battle,
   airline-trivia-teams, puzzle-race-grid), and a run for each would say in which.
4. Two requests of one passenger at once in `SoloPlay` on Redis, where one report is
   lost.

## 6. Not modelled

Expiry of documents after hours or days (outside `Restart` and `ExpireSession`),
connecting to Redis and its failures as a whole (single calls fail), invite codes
(fresh, and they identify the room), message formats, logging, counters other than the
connection metric, the data of the static catalog, events that clients report by
themselves (`reportEvent`), the lobby (`App.tsx`), the passengers' portal pages, the
operators' page except that it replaces rules, the parts of a page that only render,
and the mode of the spot-the-difference page that is played without a room (its state is
the page's alone). `listRooms`,
the reward catalog, the wallet and the leaderboards of points only read. The schemas of
the SDK are where the modules' record types come from.
