# Verification of the social-media server

TLA+ models, TLC runs and TLAPS proofs about the club, event and fixture server
under `src/server` (Rust: axum, tokio, SQLite through sqlx) and about the parts of
the web client (`src/web`) that take part in its protocols. Paths below are
relative to the repository; `domain/` is `server/src/domain/`.

## 1. The system

### 1.1 How it runs

One process serves HTTP on a multi-threaded runtime. All state is in one SQLite
database behind a pool of five connections (`server/src/db.rs:13-27`: foreign keys
on, a busy timeout of five seconds). A handler is a chain of SQL statements with an
await after each; every statement commits on its own, and in the whole server only
account erasure (`domain/auth.rs:1107`) opens a transaction. There is no scheduler:
what must happen with time happens when somebody lists events. Four consequences
shape every model here:

- the statements of concurrent requests interleave, so a test made on a row that was
  read is made on what may no longer be so when the UPDATE runs;
- a request can stop between two statements (the process stops, the client
  disconnects and the future is dropped, a statement fails): what it wrote stays;
- the schema's keys and checks are the only protection that holds across requests;
- time is read by each handler for itself, and midnight falls between statements.

### 1.2 Components

| component | state | operations | hard behaviour | what makes it correct | status |
|---|---|---|---|---|---|
| Club fixtures and the club ladder: `domain/fixtures.rs`, `domain/club_elo.rs`, migration 0011 | `club_fixtures`, `fixture_games`, `result_confirmations`, `club_elo` | propose, accept, decline, cancel, record a game, confirm (and settle) | two clubs act at once; a settlement is seven statements; NULL game types | a result counts once, only when both clubs confirmed it; a confirmed fixture is closed; no confirmation is missed | modelled, proved |
| Event series and lazy generation: `domain/events.rs`, migration 0009 | `event_series`, `events.series_id` | create and cancel a series; generation in every listing | the watermark is read first and written last; horizon, month lengths, midnight | every date due is generated, once, in step with the start; deleted dates do not come back; generation ends | modelled, proved (but that it ends) |
| Event life cycle and auto-management: `domain/events.rs` | `events` rows and flags | create, start, complete, settings; in every listing activate, complete, delete | test on a count, then a delete; toggles on what was read | no event with games is deleted; the past is cleared | partly: `event_active`, settings and the `final_elo` snapshot are left |
| Event session: `domain/games.rs`, `domain/events.rs`, migration 0004 | active, in-game and played-one-match sets; games and teams; seven JSON maps of statistics | activate, deactivate, invite; create games (skill-based, social, peg board); complete, delete | members move between sets by separate statements; maps are read and written back whole; completion asks neither whether the game is open nor whether it is of the event named | a member plays in one game at a time and can leave it; a completed game counts once; streaks are made of wins | modelled but for the `initial_elo` and `final_elo` snapshots; proved |
| Player ratings: `domain/games.rs`, `domain/elo.rs`, migrations 0003, 0008, 0010 | `elo`, `user_elos`, `elo_game_wins`, `elo_game_loses` | rating update after a game, per scope and game type; a row made when a member is activated | read, recompute, write back, one player after another; a row looked for, then inserted | each game counts once for each player; one row per player, sport and scope; overlaps may lose results only | modelled but for the value of a rating; proved |
| Skill models: `skill/*.rs`, `rating.rs` | none | Elo, Glicko-2, Weng-Lin | floating point | - | not modelled: numeric formulas |
| Matchmaking: `matchmaking.rs`, `domain/games.rs` | none of its own; reads the active members | skill-based, mixed and social games, even teams | random draws, cuts, rosters just large enough; a game type that does not tell its size | two full teams of different members, who has played least among them; even teams are the most even | modelled, proved |
| Clubs and membership: `domain/clubs.rs`, `domain/events.rs`, migration 0002 | `clubs`, `members`, `member_requests`, `dummy_users`, `club_bots` | found, delete, request, cancel, invite, accept, reject, remove, leave, promote, demote, placeholder members | no unique key on members; rights read once, on the club of the path, for a row of any club; half-made placeholders | one membership per user and club; no plain admin unmakes another; a president belongs to the club; a placeholder is whole or gone | partly: the descriptive columns are left; proved: the president, the admins, one row each, placeholders |
| Accounts and sessions: `domain/auth.rs`, `web/src/api/http.ts` | `users`, `tokens`, `email_verify`, `password_reset`; the cookies of a browser | register, login, refresh, logout, verify, reset, edit the profile; the extractor `AuthUser`; the browser's retry | the access token rotates while two tabs use it; a refused request is retried after a refresh; a reset writes, then revokes | the cookies are of one session; a session ends only for a reason; none outlives a reset | modelled but for the consent log; proved |
| Account erasure and export: `domain/auth.rs` | everything of a user | export, erase (one transaction) | requests of the erased user in flight, mailed tokens still out | nothing comes back to an erased account | partly: over the tables of accounts and of clubs; proved |
| Logos: `domain/clubs.rs`, `media.rs` | the column `clubs.logo`; the files in store | upload, remove | the file and the row that names it are written one after the other | a logo that is shown is in store | modelled but for the signed links; proved |
| Opaque ids, geocoding, e-mail, error mapping, routing, posts | none, or files | - | - | - | not modelled: no shared state of their own, or pure I/O (reasons in `PROJECT.json`) |
| Web interface, deployment, lint scripts | copies of the server's answers | - | - | - | not modelled |

### 1.3 How they interact

- A fixture's recorded game is a `games` row of external scope; recording it updates
  the players' ratings through `games::update_elo`, settling it updates the clubs'.
- An event's games are linked by `event_games`. Auto-management asks that table
  whether an event is empty; cancelling a series asks it which instances to keep.
- A listing of a club's events first generates the instances of its series, then
  manages the past events, then reads. Creating a series generates as well.
- Games move members between an event's sets and feed its statistics and the ratings.
- Who may do what is read from the membership tables at the start of each handler,
  after `AuthUser` has found the session of the access cookie (and deleted it, when it
  had expired).
- An erasure takes the sessions, the mailed tokens and the requests to join of its user.
- Placeholder members are `users` rows that a club makes and removes.

## 2. Plan

In order, the most important behaviour first:

| module | of | with | status |
|---|---|---|---|
| `Fixtures` | the fixture handlers, statement by statement | - | done |
| `FixtureLifecycle` | what a fixture's life promises (abstract) | - | done |
| `FixtureRefinement` | the mapping between the two | both | done |
| `FixturesProofs` | theorems about `Fixtures`, its refinement included | `FixtureRefinement` | done: eight properties |
| `Calendar` | dates and recurrence rules | - | done |
| `EventSeries` | series, events, listings | `Calendar` | done |
| `EventSession` | sets, games and statistics of one event | - | done |
| `SessionLifecycle`, `SessionRefinement` | what a session promises (abstract), and the mapping | `EventSession` | done |
| `InFlight` | requests in flight, shared by the modules below | - | done |
| `Accounts` | accounts, sessions, mailed tokens, cookies | `InFlight` | done |
| `Membership` | clubs, members, requests to join, placeholders | `Accounts` (rights) | done |
| `Logos` | the logos of clubs and their files | `Membership` | done |
| `Ratings` | rating rows, updates of concurrent games | `InFlight` | done |
| `Matchmaking` | team formation | `InFlight` | done |
| `ClubServer` | the five together; the erasure of an account | all five | done |
| `AccountsProofs`, `MembershipProofs`, `MemberRowsProofs`, `RatingsProofs` | theorems about `ClubServer` | `ClubServer` | done: ten properties |
| `ClubServerProofs` | theorems about the games that are made up, and about all tables and their bounds | `MemberRowsProofs`, `RatingsProofs` | done: three properties |
| `EventSessionProofs` | theorems about `EventSession`, its refinement included | `SessionRefinement` | done: seven properties |
| `EventSeriesProofs` | theorems about the rules and about `EventSeries` | `EventSeries` | done: nine properties, and that rules move on |

What is left of the plan: `event_active` and the snapshots of ratings around an event. Every
safety property of a passing run is proved; the two liveness properties are model-checked only.

## 3. The models and the code

Common to the models (`InFlight` states it for those of 3.4 to 3.7):

- **A request in flight** is a program counter `pc[r]` and the locals `loc[r]` of its
  handler. An action is one SQL statement together with the code up to the next one.
  Statements whose result no other request can change are joined to their neighbour.
- **A request the handler refuses** writes nothing and is not a step.
- **A request that stops half-way** is `Drop`, at most `MaxDrops` times in a behaviour.
- **Fairness**, where a run has a liveness property, is `WF_vars(Step(r))` for each request: once accepted, a request goes on,
  because the runtime polls its future until it ends and SQLite waits for the lock.
  Nothing forces a client to send a request, midnight to come, or a request to stop.
- **Ids** come from bounded sets; a bounded supply stands in the guard of what uses it.

### 3.1 Fixtures

`fixture`, `confirmations`, `fixtureGames`, `clubElo` are the tables of migration 0011;
`game` and `ratedGames` what matters of `games` and of the players' ratings. A
club's rating is abstracted to *what has been folded into it*: the fixtures won and
lost and the number of updates. This is what the properties tell apart; the numbers
are those of the skill models. `clubElo[c][t]` is a sequence of rows, because nothing
but the upsert's key makes it one, and a NULL game type (`None`) is never in conflict.

| actions | code (`fixtures.rs`) |
|---|---|
| `ProposeFixture` | `propose` 270-317 (its reads never change, so it is its INSERT) |
| `BeginAnswer`, `WriteAccepted`, `WriteDeclined` | `accept`, `decline`, `set_proposal_status` 320-358 |
| `BeginCancel`, `WriteCancelled` | `cancel` 361-389 |
| `BeginRecord`, `InsertGame`, `LinkGame`, `RatePlayers`, `WritePlayed` | `record_fixture_game` 527-631 |
| `BeginConfirm`, `UpsertConfirmation`, `CountConfirmations` | `confirm`, `both_confirmed` 698-772 |
| `TallyGames`, `LoadHome`, `LoadAway`, `SaveHome`, `SaveAway`, `WriteConfirmed` | `settle`, `load_club_state`, `save_club_state` 774-884; `club_elo.rs` |

`accepted`, `settled`, `vouched`, `dropped` are history, written by the actions and
read by the properties only. Who administers which club is the constant `AdminOf`;
the updates of the players' ratings (`games::update_elo`) are the one step
`RatePlayers`; their interleaving belongs to `Ratings`.

`FixtureLifecycle` states the promise of the header of `fixtures.rs` and of migration
0011 with atomic operations. `FixtureRefinement` maps the handlers to it: the
linearization point of a recording and of a settlement is the UPDATE of the status
that ends the handler.

### 3.2 Calendar and EventSeries

A date is a day number and a calendar the list of the days on which months begin, so
that a calendar of two or three short months keeps the clamping of `add_months`. The
horizon (56 days), the grace (2 days) and the week are constants, scaled with it.
`series` is `event_series`; `events` is the sequence of all `events` rows ever
inserted (`live` says whether the row is still there), with the number of `event_games`
rows of each, which only the guard of `BeginGame` bounds. `cancelledOn` is history: the day on
which a series was first cancelled. The dates of a rule are `Occurrences`: the least set
that holds its start and is closed under `next_occurrence`. What is *aligned to the
start* is defined apart from that iteration: `Nth(rule, k)` is the date `k` steps from the
start, computed in one leap. `CadenceIsAligned` asks every instance to be such a date, as
the comment at 562-563 says; `InstancesAreAligned` says how far from it the code goes: after
a month too short for the day, earlier in the right month, and never otherwise.

| actions | code (`events.rs`) |
|---|---|
| `BeginList`, `CreateSeries` | `club_events` 703-710, `create_series` 1005-1085, up to the clock that is read at 565 |
| `ReadSeries`, `SkipPast`, `InsertInstance`, `WriteWatermark`, `Materialized` | `materialize_series` 564-639 |
| `SelectEvents`, `CompletePast`, `CountGames`, `DeleteEmpty` | `auto_manage_events` 644-700 |
| `BeginCancel`, `DropFuture` | `cancel_series` 1148-1182 |
| `CreateEvent` | `create_event` 886-974; the date is any text, so it may be no date |
| `BeginToggle`, `WriteComplete` | `complete_event` 1470-1498 |
| `BeginGame`, `LinkGame`, `UnlinkGame` | `games.rs`: `create_game_for_event` 302-336, `delete_game` 621-679, for their effect on `event_games` |
| `Midnight` | the clock (`AsOf`), read at 565, 649 and 1170: a request keeps the day it read, in `now`, over the statements that follow, the DELETE of `DropFuture` included |

`Room` keeps the number of events within `MaxEvents` by letting a request begin only
when all it and the others may still insert (`PerRequest` each) fits: no request is cut
off in the middle by the bound. Left out: `event_active` and its activation by a
listing, which nothing here reads; authorization (whoever acts is authorized); the other columns.

### 3.3 EventSession

The tables of one event, and games of that event and of others. `active`, `inGame` and
`playedOnce` are its three member tables, `game` the `games` rows with their teams and their
link in `event_games`: made, `removed` (which is told from one never made: clients know the
ids of games they were once listed), or `elsewhere`, to another event. A completion takes the
game and the event from the request (`here` says whether it names this event) and nothing
compares them, so with `OtherEvents` games of others are completed for this event and games
of this one for others. `counts` and `stats` are the JSON maps of statistics.

Histories, which only the properties read: `scored` counts how often a win was entered in a
member's rating row (the row written and the game marked there); `blurred` are the winners of
completions that overlapped over the statistics, failed or stopped; `astray` who is in a
game that was completed through another event; `dropped` the players of the games on
which a request stopped. `RaiseBest` states what the loop of `update_best_winstreak` comes to,
whatever the order it takes the winners in.

| actions | code |
|---|---|
| `BeginCreate`, `ChooseTeams`, `CreatePeg` | `games.rs`: `create_sbmm` 430-478, `create_social` 481-532, `create_peg` 585-608, up to the INSERT of `create_game_for_event` 302-317 |
| `TakeFromActive`, `PutInGame`, `LinkGame` | `create_game_for_event` 319-336, `move_active_to_in_game` 373-393 |
| `BeginComplete`, `SetScore`, `ReadTeam1`, `ReadTeam2`, `RatePlayer`, `MarkResult`, `Reactivate`, `LeaveGame`, `MarkPlayed`, `ReadStats`, `WriteStats` | `complete_game` 694-778, `update_event_stats` 1090-1131; the transforms are `events.rs` 69-164 |
| `BeginDelete`, `ReadTeam1`, `ReadTeam2`, `Reactivate`, `LeaveGame`, `Unlink`, `DeleteGame` | `delete_game` 621-679 |
| `BeginActivate`, `CheckPlayed`, `SeedCount`, `Join` | `events.rs`: `add_member_to_active_set` 1195-1296, called by `activate_member` and `invite_member` |
| `DeactivateMember` | `deactivate_member` 1408-1431 |
| `CreateElsewhere`, `DeleteElsewhere` | `create_peg` 585-608 and `delete_game` 621-679, in another event |

The teams a matchmaker picks are any of the right size with one of the least played
members, which is what `pick_player_1` (397-411) fixes. Of `update_elo`, each player's row
(`RatePlayer`) and its mark (`MarkResult`, 904-951) are steps, the winners' before the losers'. The
rating itself moves only where matching is by skill (738, 847), and two overlapping updates
may lose one; the row and the mark are written in every case, so a win is counted by them. The mark
refers to the game and fails when that was deleted meanwhile, which ends the request. What
the rows then hold is the subject of `Ratings`. `Panel` restricts requests to what the matchmaking panel of the web
client offers when they are made (`MatchmakingPanel.tsx:185-187`: members in neither set
can be activated; games without a score can be completed or deleted); without it, any
request the server accepts.

`SessionLifecycle` does each operation at once: a member is away, waits or plays.
`SessionRefinement` maps the handlers to it, with the link of a creation, its removal
by a deletion and the statistics of a completion as linearization points.

### 3.4 Accounts

`users`, `tokens`, `letters` (the rows of `email_verify` and `password_reset`) are tables
of `auth.rs`; `jar[b]` the cookies of a browser, which its tabs share. A session is a row
of `tokens`: its refresh token never changes and stands for the row, its access token is a
pair of the session and a number that is new at every refresh. Passwords are numbers in
the order they were set; `Unusable` is the hash `!`.

| actions | code (`auth.rs` unless said) |
|---|---|
| `Send`, `GiveUp`, `AskRefresh`, `Resend` | `web/src/api/http.ts` 53-73: a refused call, one refresh, one more attempt |
| `Authenticate`, `Sweep` | `AuthUser::from_request_parts` 310-338: the row is looked up by its access token, and deleted by it when it has expired |
| `FindSession`, `SweepOld`, `Rotate` | `refresh` 563-615 |
| `BeginLogin`, `IssueSession`, `SignIn` | `login` 457-488, `issue_session` 500-544 |
| `BeginLogout`, `Logout`, `ClearCookies` | `logout` 547-560 |
| `Register`, `RequestLetter`, `Mail` | `register` 373-438, `request_verify`, `request_reset` 617-707 |
| `UseLetter`, `DiscardLetter`, `SetVerified`, `SetPassword`, `SpendLetter`, `RevokeSessions` | `verify_email` 647-678, `reset_password` 710-751 |
| `EditProfile` | `update_me` 841-884 |
| `CheckPassword`, `Tombstone` | `account_delete` 1107-1172 |
| `AccessExpires`, `RefreshExpires`, `LetterExpires`, `DropAccess`, `DropRefresh` | the clock: `is_expired` 128-132, the `Max-Age` of the cookies 345-358 |

A call to the API at large is `EditProfile`, the one that writes what an erasure clears.
The answer to a request, with the cookies it sets, is a step of its own (`Resend`,
`SignIn`, `ClearCookies`), so answers may arrive in another order than the statements
were executed in. The histories `late`, `cut` and `crossed` name the exceptions of the
properties: sessions a login in flight issued on a password that was reset meanwhile, users
with a reset that stopped before it revoked, browsers where a login was answered during a
refresh. `final` are the users erased while no other request of theirs was in flight.

### 3.5 Membership

`clubs`, `members`, `memberRequests`, `dummies`, `placeholders` (the `users` rows of
placeholder members) and `bots` are the tables of migration 0002; ids grow and are
not reused. `is_member` and `is_admin` read the first row there is, which is why they are
existential here. The handlers with two ids (accept, reject, remove, promote, demote) read the
caller's right on the club of the path and then act on the row of the other id, without
asking whether it is of that club: in the model any club the caller has the right in will
do (`\E c \in Clubs : IsAdmin(c, u)`). `remove_member` alone looks again, for the president
of the row's own club.

| actions | code (`clubs.rs`) |
|---|---|
| `CreateClub`, `FoundMember`; `DeleteClub` | `create_club` 620-668; `delete_club` 599-610, with the cascades of the schema |
| `RequestToJoin`, `Apply`; `CancelRequest` | `create_request` 959-983; `cancel_request` 990-1011 |
| `AcceptRequest`, `RejectRequest`, `FindMember`, `Admit`, `ClearRequest` | `accept_request`, `reject_request`, `accept_member_request` 1015-1084 |
| `Invite`, `RecordInvitation`, `FindInvited`, `SeatInvited` | `invite_member` of `events.rs` 1333-1394, up to the activation (which is `EventSession`'s); anybody who is active, members included |
| `DeleteMember`, `LeaveClub`, `ReadMember`, `Unseat`, `DropDummy`, `DropUser` | `delete_member`, `leave_club`, `remove_member` 1086-1181 |
| `CreateDummy`, `InsertDummy`, `InsertPlaceholder`, `SeatDummy`, `AddBot` | `create_dummy_user` 1195-1277 |
| `PromoteMember`, `MakeAdmin`, `DemoteMember`, `UnmakeAdmin` | `promote_member`, `demote_member` 1279-1332 |

`disturbed` are the memberships that two requests worked on at once or that one stopped
at, `stopped` the placeholders a request stopped at, `invited` the requests to join that an
invitation recorded for somebody who was a member: what the properties except.

An invitation is a request to join that an admin makes for somebody, with a `members` row
that is no membership yet (`is_member` 0) so that the guest may play. A member may be invited too (the page that offers guests may be
old): the membership is reused, and the request to join is recorded all the same. It is the one statement
that gives a club a row of a person who did not ask, and it is in flight for its guest too
(`InFlightFor` of `Accounts`): an erasure of the guest that overlaps it is not `final`.

`Logos`: `logo` is the column of `clubs`, `files` what is in store, each file named after
its club and type. `UploadLogo`, `PutLogo`, `SetLogo` are `upload_logo` (`clubs.rs`
1518-1554), `RemoveLogo`, `ReadLogo`, `DropLogo`, `ClearLogo` are `remove_logo` (1557-1576);
`PutLogo` and `DropLogo` the calls of the store (`media.rs` 93-120). `smudged` are the clubs
where a removal overlapped an upload or stopped: what `LogosAreThere` excepts.

### 3.6 Ratings and Matchmaking

`elos`, `userElos`, `wins` and `loses` are the rating tables. The value of a rating is left
to the skill models; a row's number of games, its streak and its best streak tell apart what
has been counted. A request reads a row for every player (`Fetch`, `InsertElo`,
`LinkElo`: `elo_row_for_member`, `games.rs` 1001-1086) before it writes any (`Save`,
`Mark`: `update_elo` 835-952). `CompleteGame`, `SeatPlayer` and `DeleteGame` are who calls
them, and what takes a game away meanwhile. `ledger` is the history of the
results written; `Written` is a row once the next of them is in. Nothing keeps a user off both
teams (as a member of two clubs, or named twice on a peg board), so a request may read one row
twice: the history `blurred` notes those (`Twice`) with the ratings two requests worked on at once.

`Matchmaking` has the algorithms of `matchmaking.rs` as operators (`Sbmm`, `MixedSbmm`,
`EvenTeams`, `SocialCount`, ...) and the two handlers that call them: `CreateSbmm` is one
step, the search of `create_social` is one step per round (`Swap`), with its last split
(`Split`). A random draw is a choice of anything the code may draw. `BestSplits` is the loop of
`even_teams` over its masks, as a recursive function, and `Weigh` one round of it. The distance of a win
probability from one half is compared by `Gap`, an integer that grows with it.

### 3.7 ClubServer

The five modules put together: a step of one leaves the variables of the others alone,
but for `Erase`, the one transaction of the server, which takes the account (`Tombstone`)
and the user's requests to join. The rights that `Membership` reads are those of `Accounts`'
sessions. Each behaviour is of one *workload* (`asked`): a set of operations that clients ask
for. `MCClubServer` lists two dozen, each of them operations that touch the same rows;
operations of different workloads have no row in common, or meet in another workload.
The theorems of section 5 hold for any set of workloads, the one of all operations
included.

## 4. What is checked

| run | instance | shows |
|---|---|---|
| `fixtures_serial` | two clubs, an admin of each and one of both; two fixtures, two games; one request at a time | the handlers implement `FixtureLifecycle` (`ImplementsLifecycle`); the ladder is exactly the list of settled results (`LadderRecordsEachResultOnce`) |
| `fixtures_concurrent` | two clubs and their admins, one fixture, one game, two requests interleaved, one may stop | what every overlap leaves true: `SettlementNeedsBothClubs`, `ConfirmedIsSettled`, `NoMissedSettlement`, `PlayNeedsAcceptance`, `GamesPlayedCoversFolds`; and that an agreed result is eventually settled unless its request stopped (`AgreedIsEventuallySettled`) |
| `fixtures_cancel_race` | as above, none stops | violated: a confirmed fixture can become cancelled |
| `fixtures_late_game` | serial, two games | violated: a settlement counts a game recorded after a club's confirmation |
| `series_concurrent` | one series, a rule every second day or monthly on the last day of the month, a following month that is shorter; two requests, one may stop; two days | `WatermarkIsCovered`: no date at or below the watermark is missing; `InstancesAreAligned`; `OnlyPastOrCancelledAreDeleted`, midnight between any two statements |
| `series_serial` | two series (weekly, monthly), a single event, one game; one request at a time; two days | listings are idempotent (`EachOccurrenceOnce`), generate what is due (`ListingGeneratesWhatIsDue`), clear the past (`ListingClearsThePast`), end (`RequestsEnd`); no event with games is deleted (`GamesKeepTheirEvent`); a cancelled series gets no more events (`CancelledSeriesIsClosed`) |
| `series_duplicates` | one series, two requests | violated: two listings insert a date twice |
| `series_month_ends` | one series, one request, one day | violated: after a short month a monthly series is off the cadence of its start (`CadenceIsAligned`) |
| `session_overlap` | two members, two games of both, two requests interleaved, any request the server accepts | `NobodyIsStuckInGame`: whoever is in the in-game set is in a game that is open or in the hands of a request |
| `session_repeat` | two members, one game completed up to twice, here or through another event, deleted, two requests, one may stop | `StreaksAreWins`, `PlayedWithIsMutual`, `WinsFollowRatings`: the statistics never count a win that was not entered in the rating row, and lose one only where completions overlapped over the statistics, failed or stopped; `NobodyIsStuckInGame` with completions that name the wrong event either way: only such a completion leaves somebody behind, a deletion, which tests the event, never |
| `session_serial` | three members, two singles games, one request at a time, what the panel offers | the handlers implement `SessionLifecycle` (`ImplementsSession`); nobody who has played is taken for a newcomer (`CountsCoverGames`) |
| `club_server` | two users, one browser with its tabs, two clubs, two requests interleaved, one may stop; two dozen workloads; two types of logo; three games of two players; rosters of two to seven members | of sessions: `JarIsOneSession`, `NoSessionOfOldPassword`, `OnlyTheSpentEnd`; of erasure: `CleanErasureIsFinal`; of clubs: `OneMembershipEach`, `OnlyPresidentsUnmakeAdmins`, `PlaceholdersAreWhole`, `PresidentsBelong`; of logos: `LogosAreThere`; of ratings: `RatingsCountGames`, that overlaps may lose results and never count one that was not; of matchmaking: `TeamsAreFair`, `EvenTeamsAreMostEven` |

Why the bounds are enough to be interesting. A fixture concerns two clubs and races
are between two requests: with two, each read-test-write of a handler has another's
write between its parts; a third request adds nothing a pair of them does not show in
these handlers, whose locals hold what one row was. Two fixtures of the same clubs are
needed for a ladder to hold more than one result, and the serial run has them. For the
series, the calendar has a month shorter than the one before, so that the monthly
rule clamps; two days on which the system runs, far enough apart for an event of the
first to be past its grace on the second; a horizon that both exceeds
and falls short of the end of a rule. One stop half-way is the number that makes a
behaviour interesting; the theorems of section 5 hold for any number. For the session,
two games of the same two members make creations and completions overlap, two
completions of one game make it count twice, one game of another event is enough for a
request to confuse it with one of this, and a third member makes the panel have somebody to leave out; teams of two differ from teams of one only in the maps,
which are changed member by member. For `club_server`: two requests are two tabs of one
browser, or two people at one club; of two clubs one is there and the other can be founded, so
that a right in one meets a row of the other; two sessions and three access tokens let a session
be refreshed while the other call uses the old token, and a login be answered during
a refresh; four `members` rows let a person be removed and admitted again, and a double
admission happen, also of a guest who was invited; two types of logo let an upload leave a file no row names; four rating rows let two requests insert a row for the same player.
Rosters have up to five members whose ratings differ by less than a streak is worth, so
that ties and reversals occur, and seven, enough for each of the cuts to closest players.

Deadlock is checked in every run but `club_server`, where clients may have nothing more to
ask for: a workload ends when its bounded supply of ids does. `SYMMETRY` permutes requests in the safety runs of
the series, requests, games and members in `session_overlap` and
`session_repeat`, and requests and clubs in `club_server`;
no run with a temporal property beyond `[][A]_v` uses it.

### 4.1 Where the code disagrees with what it says

Each is a run that must find the violation, and a finding in `PROJECT.json`.

- **Confirmed, then cancelled** (`fixtures.rs:378-382`): the cancel tests a row it read
  earlier and updates unconditionally.
- **A game after the confirmation** (`fixtures.rs:543`): recording is open until the
  settlement, and does not withdraw the confirmation already given.
- **Duplicate instances** (`events.rs:597-636`): the watermark is read first and written
  last and `events` has no unique key on series and date.
- **Month ends** (`events.rs:587-594, 620`): the next date is computed from the last one, clamped
  as it was, so a series from 31 January goes on from 28 February to 28 March; the comment at
  562-563 has the cadence aligned to the start date.

Noted while modelling `ClubServer`, without a run, because no text of the repository says
otherwise: `AuthUser` deletes the row of an expired access token, and with it the refresh
token the browser would use next (`auth.rs:331`), so that a call made with the expired
cookie ends the session, and only a call after the cookie itself is gone refreshes it;
`logout` deletes by the access token, so it spares a session that was refreshed meanwhile; two
tabs' refreshes answered in the other order leave a stale access cookie; a login in
flight across a reset or an erasure leaves a live session (`late`); accepting one request
twice at once inserts the member twice (`disturbed`); an admin may accept the request he made by
inviting somebody, though `events.rs:1329-1331` has it await the user's consent; a member who
is invited keeps a request to join that nobody needs to answer (`invited`); a row id of another club is
accepted, answered, removed, promoted or demoted on the right held in the club of the path; an upload of
another type, and the deletion of a club, leave the old file in store; an upload that a removal
overlaps can leave a row that names no file (`smudged`); `leave_club` asks for an admin and then
finds that he may not be one, so that hardly anybody can leave; `delete_club` asks for no right
but a session, and leaves the `users` rows of placeholders; a removed member can be
promoted, and a president can demote himself; a game type that does not tell its size makes
a game of one player through `create_sbmm`; a game completed twice counts twice in
`games_played` and is marked once; overlapping rating updates lose results (`blurred`).

Three more disagreements have no run of their own, for they follow from one statement each:

- **Players before clubs** (`fixtures.rs:592-603`): the header of `fixtures.rs` (9-10) and migration
  0011 (5-6) have both clubs confirm before any rating moves; the players' ratings move when the
  game is recorded, and stay so if the fixture is cancelled. Only the ladder waits, so no property
  here speaks of the players' ratings after a recording (`ratedGames`).
- **Several ratings on one ladder** (`fixtures.rs:836, 865`): a fixture without a game type
  never conflicts in the upsert, so every settlement adds a row, where `club_elo.rs:3` speaks of
  one state per club and game type, and the next settlement reads whichever row comes first.
  The steps are in `SaveHome`, `SaveAway`, `LoadHome` and `LoadAway`; the properties that
  count the results of a row are about the real game types for this reason.
- **A completion through another event** (`games.rs:705`): game and event are taken from
  the request and not compared, unlike in a deletion (637-650), so the game is closed and its
  players are never reactivated in their own event (692-693). `astray` names them;
  `NobodyIsStuckInGame` says that nobody else is left behind.

Noted while modelling the others, without a run: `delete_game` accepts a completed game and leaves
its ratings and statistics, though `web/src/api/games.ts:38` speaks of an in-progress
game and `games.rs:1-3` of a reversal; `complete_game` does not ask that the game is open
(`games.rs:711`), so a repeated request counts twice; where matching is not by skill, a win is
counted in the event and in the rating row's streak while the rating stays as it is
(`games.rs:847`), which is meant; two creations from one active set put a member in two games; a
member whose creation stopped half-way is in the in-game set without a game, and the panel offers
no way out; an activation writes back the match counts it read before a completion
(`events.rs:1200`, 1283); a game linked between the count and the delete of
`auto_manage_events` (685-693) disappears from its event with it, so `GamesKeepTheirEvent`
holds of serial requests only.

## 5. What is proved

TLAPS checks the following for every set of clubs, users, fixtures, games, game types
and requests, any `AdminOf` and any `MaxDrops`, from the three assumptions of
`Fixtures` (`None` is none of the values, `AdminOf` maps users to sets of clubs,
`MaxDrops` is a natural number).

| theorem (`FixturesProofs`) | says |
|---|---|
| `TypeCorrect` | `Spec => []TypeOK` |
| `PlayIsConsented` | `Spec => []PlayNeedsAcceptance` |
| `ConfirmedMeansSettled` | `Spec => []ConfirmedIsSettled` |
| `ConfirmationsCannotMiss` | `Spec => []NoMissedSettlement` |
| `LadderNeedsBothClubs` | `Spec => []SettlementNeedsBothClubs` |
| `GamesPlayedNeverBehind` | `Spec => []GamesPlayedCoversFolds` |

None of the properties is inductive as it stands, because it says nothing of the
requests in flight. The argument adds that, layer by layer:

- `TypeInv` is `TypeOK` with what the locals of each label hold (a request past its
  first statement has a fixture, a confirming one a club, a recording one a game) and
  with what a row that exists holds (`LocalsOK`, `RowsOK`).
- `AcceptInv`: a fixture whose status is `accepted` or later, or which a request is
  recording or confirming, has been accepted at some time, and what has been
  accepted exists (nothing becomes `absent` again).
- `ConfirmInv`: a request in a settlement found both clubs' confirmations, one about to
  write `confirmed` has settled, and one that read `confirmed` when it began did so
  after a settlement. With `NoMissedSettlement` it is inductive because confirmations are
  only ever added and each request counts after its own upsert: whichever counts last
  sees both.
- `SoundInv`: what a settling request has loaded, updated or is about to save holds
  only results of fixtures both clubs confirmed, as the rows do.
- `FoldInv`: a ladder of a real game type has one row at most, and a rating in flight
  is at most its own settlement ahead of `games_played`.

Each layer has one lemma for the initial states, one per kind of step, and the
theorem follows from the layers below it by `PTL`.

The last theorems of `FixturesProofs` are about the server answering one request at a time,
with none that stops half-way. That is a hypothesis of each theorem (`Requests = {r0}`,
`MaxDrops = 0`), because neither holds otherwise: a cancellation that overlaps a settlement
reopens a confirmed fixture (4.1), and two settlements that overlap load the same rows. Clubs,
fixtures, games, game types and users are any; the ladder is that of the game types there are,
not of `None` (4.1).

| theorem | says |
|---|---|
| `SerialRequestsKeepTheLifecycle` | `Spec => ImplementsLifecycle`: the refinement, initial states and every step |
| `SerialLadderIsExact` | `Spec => []LadderRecordsEachResultOnce` |

- `SerialInv`: the status the request read is still the fixture's, and the game it inserted is
  in no fixture yet (`Alone`); a fixture that was played has a game besides the one in hand, and
  one that is confirmed has both clubs' confirmations (`Standing`).
- The life cycle sees of a fixture its `View`: the status, the games but for the one in the
  hands of a recording that has not written `played` yet, who endorsed it, and how often it was
  settled but for the settlement that has not written `confirmed` yet. A statement that changes
  the view of one fixture leaves those of all others (`Only`); the UPDATE of the status that ends
  a recording or a settlement changes it by the whole operation, every statement before it not
  at all.
- `LadderInv`: a fixture is settled once if it is confirmed and not at all otherwise, the one
  in hand excepted (`SettledOnce`); the one row of a club sums up the decided
  results of the settled fixtures (`RowsFolded`), with one more for the home club between the two saves; and what a
  settlement has loaded, and later computed, is that of the rows (`Carried`).

`AccountsProofs`, `MembershipProofs`, `MemberRowsProofs`, `RatingsProofs` and `ClubServerProofs`
are about `ClubServer`, for every set of users, browsers, clubs, games, rosters, workloads
and any number of requests and any bounds, from `InFlightAssumption`, `AccountsAssumption`,
`MembershipAssumption`, `RatingsAssumption` and `MatchmakingAssumption` (requests are finitely
many, bounds are positive, browsers are numbered, the first president and his helper are two
users, placeholders are numbered and users are not numbers, every game has a scope and a player;
rosters are finite, members are numbered, of one of two genders, and their ratings are integers,
as in `Player` of `matchmaking.rs`).

| theorem | says | module |
|---|---|---|
| `CookiesOfOneSession` | `Spec => []JarIsOneSession` | `AccountsProofs` |
| `SessionsFollowThePassword` | `Spec => []NoSessionOfOldPassword` | `AccountsProofs` |
| `SessionsEndSpent` | `Spec => OnlyTheSpentEnd` | `AccountsProofs` |
| `ErasureIsFinal` | `Spec => []CleanErasureIsFinal` | `AccountsProofs` |
| `PresidentsStay` | `Spec => []PresidentsBelong` | `MembershipProofs` |
| `LogosStay` | `Spec => []LogosAreThere` | `MembershipProofs` |
| `AdminsStay` | `Spec => OnlyPresidentsUnmakeAdmins` | `MemberRowsProofs` |
| `OneRowEach` | `Spec => []OneMembershipEach` | `MemberRowsProofs` |
| `WholeOrGone` | `Spec => []PlaceholdersAreWhole` | `MemberRowsProofs` |
| `RatingsAreExact` | `Spec => []RatingsCountGames` | `RatingsProofs` |
| `GamesAreFair` | `Spec => []TeamsAreFair` | `ClubServerProofs` |
| `SplitsAreMostEven` | `Spec => []EvenTeamsAreMostEven` | `ClubServerProofs` |
| `EverythingIsTyped` | `Spec => []TypeOK` | `ClubServerProofs` |

- `FlightOK` and `TablesOK` are the types, as far as the proofs need them: what the locals
  of each label hold, and rows of unbounded ids. They are weaker than `TypeOK`, whose
  bounds on ids need more (`SupplyOK`, below). Requests of
  the other modules move between labels of their own (`ForeignMove`), so that
  `AccountNext` leaves one case for each statement of `auth.rs`.
- `JarInv`: besides the cookies, the two tokens in an answer that has not arrived are of
  one session, and a refresh in flight is of the session whose refresh cookie is there,
  on a browser that is not `crossed`.
- `PasswordInv`: sessions and logins in flight are of accounts that are registered, because
  a registration sets a password and must not find a session.
- `SpentInv`: access tokens are unique and new at every refresh, so whatever row still has
  the token that a request found expired has expired; likewise for a refresh token.
- `ErasureInv` and `OthersOK`: every request in flight is labelled with who acts, so that
  nobody acts for an account that was erased with nothing in flight, and no session or
  letter is left that a new request could begin with; nor is an invitation of it in flight
  (`Invited`), because only active users can be invited.
- `ClubsOK` and `PresidentInv`: a `members` row is of a club that exists, the row a removal
  is about is still the same person's (`SameRow`), and that person is not the president once
  the right was read: nothing changes a club's president after it is founded.
- `FoundedInv`: whatever club its other ids are of, the club a request is about has been
  founded, and nothing makes it free again; so a foundation, the one write of a president, is
  never of the club of a row that a removal has in hand.
- `LogoInv`: requests about the logo of one club that is not `smudged` are of one kind while any
  is in flight (`OneKind`), so nobody deletes the file an upload has written and is about to
  show (`Stored`), and a removal that has deleted the file is still there to clear the row. A club
  that is founded again has no logo (`Unborn`).
- `AdminsInv`: a removal reads the right of the row's own president with the row and uses it
  later. In between the row stays the same person's in the same club (`AimInv`), and the only thing
  that could give the person an admin's rights is a promotion in flight about that row, which the
  later of the two requests notes (`OverlapInv`); so the right read is still the president's when
  it is used, or the membership was disturbed (`RightInv`). A demotion asks less: that
  the caller presides over some club (`Presides`), which stays so, because no club changes its
  president. A placeholder is deleted by its `users` row, which takes every `members` row of it
  along: it has no other (`SeatInv`), because its number is new and its one request seats it
  once. In `club_server` there is one placeholder; the theorem holds of any number.
- `RowsInv`: of a membership that is not disturbed at most one request is in flight
  (`PairOK`), so what the request looked up still holds when it writes (`CallOK`: no row
  before it inserts one, no other request to join than the one it will clear, not a member
  before it records one, but for an invitation, whose request is then one of the `invited`).
  Every other step leaves the person no more rows, memberships and requests to join than
  before (`Shrinks`). A request that would begin about the same membership finds the first in
  flight (`BegunAlone`), and one that stops is noted, which is exactly when a member may keep a
  pending request of the member's own or get a second row. A placeholder's number is new, so nothing was
  ever about it (`KnownInv`); ids of requests to join are not reused, so an `invited` one
  stays the one it was (`ClaimedInv`); the row that an acceptance found is still that person's
  (`FoundRowInv`).
- `PlacesInv`: a placeholder's `dummy_users` row is of a club that goes on, its `users` row is
  dropped after it, and nobody removes it the way people are removed. There is a number left
  for each request that is about to make one (`CountInv`), which takes finitely many requests
  to say. `WholeInv` adds where each placeholder is: whole, gone, left over by a deleted club,
  or exactly as far as the request that makes (`Building`) or removes it (`Razing`) has come.
  A removal may begin while the `club_bots` row is still to be inserted: it starts from the
  `members` row, which is the third. The foreign key then refuses the bot of a `users` row
  that is gone, or deletes the bot along with it, so nothing is left behind.

- `RatingInv`: a completion reads the rows of all players before it writes any, so the argument
  is about its locals. Whoever else is at work, a row it has read is its player's, of the scope,
  and counted no more results than there are now, and a row it inserted is nobody's until it is
  linked (`Linked`, `Backed`). Of a rating that is not `blurred`, no other request is at work on it
  (`Apart`) and this one not twice (`Once`); so what was read is still so until it is written, and
  a row that was missed is still missing (`Exact`). The rows then sum up the results one at a time
  (`Tallied`), the mark of the result just written counting as made (`Pending`). What overlaps
  may lose never runs ahead: `NeverAhead` holds of blurred ratings too. That one more
  result lengthens a streak or ends it, and what becomes of the longest, are lemmas about
  sequences proved first.
- `MatchInv`: a sample of players has one place less than the two teams, repeats nobody and
  leaves out the one who has played least (`SamplesOK`), before and after every swap, because as
  many leave it as come in. The cuts of `sbmm` and `mixed_sbmm` leave just enough players, so
  the teams are full.
- `even_teams` is a recursive function over the masks. `Induction` is the library's fact that
  the order of the naturals is well founded, said of a set instead of a predicate; with it, the
  split kept after `m` masks is at most as uneven as that of each mask so far
  (`MostEvenUpTo`). Every team of half the line-up stands at the places of a mask
  (`EveryMask`: there are as many masks as sets of places, and none is met twice). A team's
  sum of ratings is a fold over the team, an integer by induction over its size (`EloSumIsInt`).
- `SupplyOK`, `RoomInv`, `EloRoom`: a bounded supply stands in the guard of what *begins* a request, so
  that none is cut off in its middle. What is left of a supply covers the requests that may still
  draw on it: tokens and letters (`Owing`), memberships and requests to join (`Seaters`,
  `Askers`), rating rows (`Debts`). A request that is retried after a refresh
  is not refreshed again (`Retrying`), so it draws one access token. The guard for rating
  rows adds up, with a fold, the players all requests still have to fetch, which `RoomCounts`
  shows to be the number of `Debts`.
- `GivenOut`, `NamesInv`, `LogoTypesInv`, `MarksOK`: whatever a row, a cookie or a request
  names is there, or was given out. With the supplies they make up `TypeOK`.

`EventSessionProofs` is about `EventSession`, for every set of members, games, team sizes and
finite set of requests, from `SessionAssumption`. The first five theorems hold whatever overlaps
or stops, whether or not requests keep to what the panel offers. The last two have the hypothesis
`ServedAlone(r0)`: one request at a time, none stops half-way, what the panel offers, no peg
board (`Panel = TRUE`, `PegTeams = {}`), as in `session_serial`; otherwise two creations that
overlap, or a peg board that names somebody who plays, put a member in two games.

| theorem | says |
|---|---|
| `SessionIsTyped` | `Spec => []TypeOK` |
| `NobodyIsLeftInGame` | `Spec => []NobodyIsStuckInGame` |
| `PlayingTogetherIsMutual` | `Spec => []PlayedWithIsMutual` |
| `StreaksStayWins` | `Spec => []StreaksAreWins` |
| `WinsAreRated` | `Spec => []WinsFollowRatings` |
| `SerialCountsCover` | served alone, `Spec => []CountsCoverGames` |
| `SerialSessionIsAtomic` | served alone, `Spec => ImplementsSession`: the refinement, initial states and every step |

- `FlightOK` has the types of the tables and of what requests have read.
- `GamesInv`: a creation has its game to itself and the game is not linked yet
  (`CreationsOK`); a completion or a deletion is of a game that was linked, and the teams it has
  read are the game's unless the game is gone (`HandlersOK`). Teams are written once, so
  overlapping handlers of a game agree on them.
- `HeldInv`: whoever is in the in-game set, and was not left there by a request that
  stopped or a completion for another event (`astray`), is held by a game: one that is linked
  and open, or one in the hands of a request that has not passed him yet. The handler that
  closes a game for this event is the one that goes on to take its players out; one that
  closes it for another notes them in the same statement.
- For `PlayedWithIsMutual`, the maps that requests have read and are about to write back
  are symmetric as well; for `StreaksAreWins`, the streaks read are made of the wins read
  (`AreWins`), as those stored are: the maps are read and written whole.
- `SessionOK` has the types of locals and histories.
- `CreditInv`: the completions that have entered a member's win in the rating row and not in the
  statistics owe it (`Owing`). Stored wins and owed ones together are never more than those
  entered, and the same holds of the wins a request has read and is about to write back
  (`Behind`): two that overlap lose a win, no order of them makes one. Of a winner who is not
  `blurred`, at most one request has read the statistics, and what it read is still so; then the two
  sides are equal.
- `SerialInv` (served alone, so no other events: `Panel`): nobody is in two games, and who plays does not wait, the players of
  the game in hand excepted, who are as far as the request has come with them (`TablesInv`,
  `TakingIn`, `TakingOut`); what the request read is still so (`AloneInv`); a member's count of
  matches covers the games completed, the one in hand excepted (`CoverInv`). A member's place in
  `SessionLifecycle` follows from it statement by statement; the link of a creation, the removal
  of the link by a deletion and the statistics of a completion are the steps that move it.

`EventSeriesProofs` is about `EventSeries`, for every calendar, set of series, templates, horizon
and bounds, from `CalendarAssumption`, `TemplatesAssumption` and `BoundsAssumption` (a rule's
interval is positive, its dates are in the calendar, there are finitely many series).

| theorem | says |
|---|---|
| `SeriesAreTyped` | `Spec => []TypeOK` |
| `NothingIsDeletedBeforeItsTime` | `Spec => OnlyPastOrCancelledAreDeleted` |
| `WatermarksAreCovered` | `Spec => []WatermarkIsCovered` |
| `InstancesStayAligned` | `Spec => []InstancesAreAligned` |
| `ListingsGenerateWhatIsDue` | one request at a time, `Spec => []ListingGeneratesWhatIsDue` |
| `GamesAreKept` | one request at a time, `Spec => GamesKeepTheirEvent` |
| `CancelledSeriesAreClosed` | one request at a time, `Spec => CancelledSeriesIsClosed` |
| `ListingsClearThePast` | one request at a time, each to its end, `Spec => ListingClearsThePast` |
| `OccurrencesAreOnce` | one request at a time, each to its end, `Spec => []EachOccurrenceOnce` |

The first four hold whatever overlaps, stops or writes a watermark computed from an old one. "One
request at a time" is the hypothesis `Requests = {r0}`, "each to its end" is `MaxDrops = 0`;
`series_duplicates` and the note on `auto_manage_events` in 4.1 show why they are there.

- `SeriesInv` says what a request may still rely on after the statement that read it: the events
  a listing has left to manage were overdue when it read them and still are, because an event
  keeps its date and days only pass (`Onward`); the series a cancellation has written is still
  cancelled, because no statement makes a row active again, and the day that it read after its UPDATE
  is not before `cancelledOn`, so the DELETE takes nothing that was not still to come when the
  series was first cancelled, though midnight may strike before it (`DeletedInTime`). The rest of it are types, for
  which `ConsideredType` shows, from `NextOccurrenceMovesOn`, that generation inserts dates of
  the calendar only.
- The dates of a rule are a least set, so what holds of the start and passes from a date to the
  next holds of all (`OccurrencesAreLeast`); twice used, this shows that no date lies between one
  and the next (`NothingBetween`). `FirstDateIsNext`: wherever generation resumes from, it is at
  the next date.
- `StepsStayNear`: if a date is `k` steps from the start, or in the month of that step and no
  later for want of days in a month before, then the date after it is so for `k + 1`: daily and weekly steps add
  up exactly, and a monthly step keeps the day it has or loses some of it, and it loses some only in
  a month too short for it. `OccurrencesAreNear` has it of all dates of a rule.
- `RuleInv`: every watermark stored, every watermark read and not yet used, and the date each
  request has reached are dates of the rule up to which everything from today on has been
  generated (`GeneratedTo`). This stays true of what was read long ago, because events keep their
  series and date and days only pass; so a watermark that a slower request writes over a newer one
  is covered too.
- `AloneInv`: alone, the rows a listing has still to generate are as they were read and active
  (`AsRead`), and a series that is not among them is generated to the horizon (`AllDue`); an
  overdue event is complete with games, gone, or among the rows still to be managed (`Clearing`),
  and the one about to be deleted has no games.
- `OnceOK`: no event of a series is later than its `Frontier`, which is the date the request has
  reached for the series it is at and the watermark for the others, and no two are on one date. A
  request that stopped would leave the watermark behind the events, which is why it needs each
  request to end.

The module also proves, for every calendar that satisfies `CalendarAssumption`
(months begin on growing days and cover the days between), `NextOccurrenceMovesOn`: a
rule takes each date to a later date or past the calendar's end. It is why the loop of
`materialize_series` ends; that requests end (`RequestsEnd`) is checked by TLC.

**Model-checked only.** Liveness (`AgreedIsEventuallySettled`, `RequestsEnd`), which the
provers installed do not reach. That the calls of `ClubServer` end is neither checked nor proved; each is a chain of
statements without a loop, but for the search of `create_social`, whose rounds `MaxSwaps` bounds.

## 6. What is not modelled

- Of the event session: the snapshots of ratings at its start and end (`initial_elo`,
  `final_elo`), its settings and its `event_active` flag: columns that no property here is
  about and that nothing else in the models reads.
- Of accounts: the consent log, which is only appended to; the wording
  of mails; the export, which only reads; the columns of fixtures that an erasure clears.
- Of clubs: `edit_club` and `add_address`, which write descriptive columns; searches,
  details and attendance, which read.
- Of ratings: the values. The skill models (`skill/*.rs`, `rating.rs`) are floating-point
  formulas, out of reach of TLC and of the provers; so are the win probabilities, which
  `Matchmaking` compares by an integer that grows with them.
- Of matchmaking: `greedy_split`, which no caller reaches (none has more than twelve players).
- Requests the handlers refuse, except those of a browser whose session has ended: they
  write nothing.
- Of logos: the signed links, which are computed from the key and stored nowhere, and the
  store in the cloud, which is a stub (`media.rs:137-166`).
- Opaque ids, geocoding and e-mail keep no state that others share; error mapping
  is formatting; rendering, deployment and lint scripts are not part of the server's
  behaviour.

The hazards of `PROJECT.json` that name no property say why.

## 7. Running

In this directory: `tlc -config fixtures_concurrent.cfg MCFixtures`, and likewise for
the other configurations (`series_*` with `MCEventSeries`, `session_*` with `MCEventSession`, `club_server` with `MCClubServer`; the longest take two minutes);
`tlapm FixturesProofs.tla` (some five minutes, the larger ones ten) and likewise the other modules of proofs. The mutants in `PROJECT.json` replace
one definition by a faulty form kept beside it and marked `Mutant`; the
property named must then fail in its run.
