# Specifications of the AgenticAI-KSP

TLA+ models of the parts of this repository in which order matters: what
concurrent requests, several server processes, background tasks, time-outs,
crashes and a browser's callbacks may do to shared state. Each module
translates code under `src/`; TLC checks it on small instances, and TLAPS proves
every safety property of the runs for every value of the constants.

`PROJECT.json` lists, for each definition, the source lines it stands for, and
for each property a plausible slip of the code (a `\* Slip:` definition in the
module) with which TLC finds the property violated.

    tlc -workers 2 -config ChatStore.cfg ChatStoreMC     # a run; section 3 has them all
    tlapm QueryPipelineProofs.tla                        # a proof module

## 1. The system

Officers ask questions in natural language in a React chat window. A FastAPI
backend, started with two uvicorn workers (`main.py:505`) and deployable as
several AppSail instances, turns each question into SQL with a language model,
runs it on MySQL within the officer's station scope and answers. Catalyst
(Zoho) provides the model, a NoSQL store, a cache, speech and OAuth tokens.

A worker is one asyncio event loop. What a coroutine does between two awaits
is atomic within the worker; at every await other requests and the background
tasks run. Workers share MySQL and Catalyst, and one port of the SQL gRPC
server, but no memory. In all modules **a step is what one coroutine (or one
event handler of the browser) does between two awaits**; where the split
matters, a call is two steps, one where the server executes it and one where
the process handles the reply.

| Component | State | Operations | Talks to | What is hard | Module |
|---|---|---|---|---|---|
| Station rate limiter (`pipeline/rate_limiter.py`) | counters per station and 6-hour window; `rate_limits` table | request check, background pass, start, stop | MySQL, units | passes interleave with requests and other processes; lost replies; rollover; shutdown | RateLimiter |
| Chat persistence (`routers/chat.py`, `db/chat_store.py`, `pipeline/evidence_trail.py`, `routers/reports.py`) | 4 tables; three caches per process | look up, create, save pair, trail, count, list, load, report | MySQL | racing first turns, disconnects, half-written turns, stale caches | ChatStore |
| Conversation history (`conversation/history.py`, `session_store.py`) | 2 NoSQL documents, each with a shared and a local fallback copy | save turn, read history, sync metadata, create session | NoSQL, Catalyst Cache | read-modify-write in unawaited tasks, update-or-insert | ConversationHistory |
| Access token and its clients (`config/catalyst_token.py`, `llm/`, `voice/`, the NoSQL and cache clients) | cached token, lock | get token, refresh, eight kinds of call | Zoho OAuth, Catalyst | stampede, token ending mid-call, failing refresh, a deadline that cancels a caller in the lock | TokenService, CatalystToken |
| Query pipeline (`pipeline/query_pipeline.py`, `llm/sql_generator.py`) | answer cache per process | `run_pipeline` and its fallbacks | model, RAG, MySQL, scope | shared call budget, statement and rows assigned apart, answers shared by key | QueryPipeline |
| Role scope (`auth/role_guard.py`, `db/lookup_cache.py`) | Unit table in memory | scoped units, access to a case or accused, lookups from memory | MySQL | a table with cycles; requests before it is loaded; failures must refuse | UnitTree, ScopeService, UnitHierarchy |
| Login (`auth/`, `routers/auth.py`, `useAuth.js`, `api/auth.js`) | attempts per badge, the tab's token | login, logout, reload, 401 | MySQL | window and reset against attempts in flight; two halves of a logout | Login |
| Chat window (`ChatWindow.jsx`, `api/chat.js`, `Composer.jsx`) | messages, active session, stream | ask, switch, new chat, load, retry, report | HTTP, SSE | late callbacks, loads out of order | ChatWindow |
| Database access, start and stop (`db/connection.py`, `connection_real.py`, `db/grpc_server.py`, `main.py`) | pool, gRPC server, background tasks | calls with their fallbacks and limits, lifespan | MySQL, the other workers | cancellation on both sides of a call, order of the shutdown | Backend |
| Risk scores (`pipeline/risk_scoring.py`, `routers/profiling.py`) | `offender_risk_scores` | score of one, of all | MySQL | three reads and a write, computed by several at once | Insights |
| Case network (`graph/network_builder.py`) | none | around a case, around a person | MySQL | joins that repeat rows, namesakes | Insights |
| Intelligence ticker (`pipeline/intelligence_ticker.py`) | sentences in memory | a pass every two hours | MySQL, model | a pass goes on whatever fails | Insights, Backend |
| Analytics, forecasting, decision support, export, media | none | read, compute, format | MySQL | nothing that interleaves | none |
| Prompts, answer formatter, RAG, validator, schema linker, canned answers | none | text in, text out | model | what a model writes | outcomes in QueryPipeline |
| Settings, scripts, seed data, presentation | none | run by hand, rendering | | | none |

`PROJECT.json` has the same list with sources and status, and the hazards with
the line where each bites.

What makes each modelled component correct, in a sentence each:

- **limiter**: no request is forgotten or counted twice except by a named
  accident; a known cap is not passed; processes converge; a clean stop leaves
  nothing unwritten but what a turn of the window had cut off before.
- **chat persistence**: an undisturbed turn is saved whole; the count follows the
  messages; what a cache serves was true, and does not stay stale.
- **history**: every copy is an in-order tail of the conversation; without
  overlap or failure the document keeps all it can, and the count and title are
  exact where metadata was created at all; the count is never too high.
- **token**: one refresh at a time and only when due; a fresh token outlives the
  request it is used for; every call ends.
- **pipeline and scope**: bounded model calls; rows within the role's reach
  on every route, for the statements the added condition confines; the statement
  shown is the one that ran; every request ends. The reach itself is exact; a
  single case is shown to those who reach it and to the officer in charge of it
  who has a unit.
- **login**: attempts are bounded, refusals earned, and no chat without a token.
- **window**: busy exactly while its one stream is open; answers are whole and
  in their session; the composer opens again, but after a refusal for the
  station's quota that does not say until when.
- **processes**: no connection is lost; a stop takes nothing away that a request
  or a loop still needs, and ends.
- **scores and networks**: a stored score loses knowledge only by overlap or
  failure; a network is one: nodes once, the edges of the tables; passes end.

## 2. The modules

### RateLimiter

`entry[i][u][w]` is the counter object of process `i`, station `u`, window `w`
and `slot[i][u]` says which window's object `_local[u]` holds: the background
pass keeps its reference to an object that the hot path may have replaced.
`Admit` and `Deny` are `check_and_increment` with its rollover. The pass is
`SyncBegin`, then for each station `SyncDrop` or `SyncVisit`, `CapRefresh` (or
`CapQueryFails`), `InsertCommits`, `InsertReply` (or `InsertFails`),
`SelectReads`, `SelectReply` (or `SelectFails`), then `SyncEnd`. `Stop`,
`CancelPass`, `FinalPass` and `Exit` are `stop_rate_limiter`; `Crash` and
`Start` lose and rebuild the memory. `admitted`, `own`, `replayed` and
`discarded` observe and are read by no action.

`_local` maps a station to one object, and the first request of a new window
replaces it. What the old object had not written can then be reached only by a
pass that already holds it (`Reachable`): that much is `Owed`, the rest is
`Orphaned`. No action writes an orphan; it stays in `entry` so that the accounts
can name it (`Abandoned`).

Abstractions: stations are visited in any order (the code: in order of
insertion); the clock is the same for all processes and counts windows; a
request without a unit, which is let through uncounted, is left out; a write
that times out is executed before the exception or never, not afterwards.

### ChatStore

`turn[t].pc` walks through `_authorize_session_write` (`Receive`,
`LookupReply`), the pipeline (`Answer`) and `_persist_turn`: `Create*`,
`User*`, `Assistant*`, `Trail*`, `Count*`, `OwnerReply`. `CallFails` covers an
exception at each call, executed or not, and `AfterFailure` where the code goes
on. `GiveUp` is a failed pipeline or a client that leaves; `asyncio.shield` is
the fact that it is not enabled while the turn is written. A turn in `Reports`
is `routers/reports.py`: the same calls without a trail. Readers are `ReadMessages*` and `ReadList*`; `Expire*` the end of an
entry's time to live, or its eviction; `Crash` a worker's death and restart. The
endpoint that creates a session is a turn in `Opens`.

Abstractions: one officer (a session id is drawn by one client); a message is
its turn and role; messages are in insertion order; times to live end at any
moment.

### ConversationHistory

`save[t]` is `save_turn`: `ReadHistory`, `Store` (fallback copies), then the
background task: `Sync`, `Update`, `StoreMeta`, `Write`, `Insert`. `put[t]` is
the further task in which `update_session` writes the metadata (`PutMeta`, with
its insert after a 404). `CreateInserts` and `CreateFails` are `create_session`'s
insert with one retry. Each read may fail and take a fallback copy. `order` and
`overlap` observe. `opener` is what made the session: the endpoint for new
sessions and a first chat turn call `create_session`, a first report
(`reports.py:257`) writes the MySQL row only, and then `Update` finds no metadata,
of any turn, and writes none. `Wordless` are the turns whose question gives no
title (`TitleOf`, `generate_title`).

Abstractions: a history is the sequence of its turns (two messages each, so
`MAX_TURNS` = 10 messages is five turns); a title is the turn it was made from;
the per-officer index in Catalyst Cache and the delete operations are left out;
two first turns that race and both call `create_session`, and a turn between a
report's answer and the report's row, are left out.
`_local_get` and `_local_set` try the cache and then the memory; the pair is one
step, so no other turn falls between the two.

### TokenService, CatalystToken

Discrete time. `UseCached`, `Enqueue`, `Recheck`, `Refreshed` and `RefreshFails`
are `get_access_token`; the lock is the queue of its holder and waiters. A call
has one of eight kinds (the header lists them); `Further` says how many requests
each may make after its first, and each asks for the token again. The model's
calls and pings run behind a gRPC deadline; `Cancelled` is what it does to the
handler, at any await, with the lock in hand or not. `config` is a deployment
with or without refresh credentials and static token. The server dates a token
from some moment of the refresh, the process from the reply. `TokenService` is
the abstract service, `get_access_token` in one step: the cached token if it is
fresh, else a new one, else the cached or the static one, which is the order of
its docstring. In `ImplementsTokenService` a caller that waits for the lock or for
the refresh is one that asks.

Abstractions: `time.time()` does not jump; a time-out bounds a whole HTTP
request (httpx applies it to each phase).

### QueryPipeline

One action per await of `run_pipeline` and of what it calls, with the choice of
outcome in the action (`GenerateValid`, `GenerateInvalid`, `GenerateUnusable`,
`GenerateFails`, ...). A statement is `[by, form, shape, units, own]`: for whom it was
written, whether it is the generated, the corrected or the latest-year version,
how it is written, and the rows that the conditions added by `Enforce` leave in
it, those of some units and the cases assigned to some officers. The cache is a
sequence, least recently used first.

`enforce_station_scope` edits text, and what its condition does depends on the
statement it is put into. A `"closed"` statement is one SELECT whose conditions
must all hold: the condition restricts it to the scoped units. An `"own"` one
compares `PolicePersonID`, and gets the alternative `OR PolicePersonID =` the
officer (`station_scope.py:158-160`): its rows are those of the scoped units and
the officer's cases. An `"open"` one has an `OR` of its own, next to which the
condition stands without parentheses (`:178`), or another branch of a `UNION`, or
a text that the test of `:171` takes for the condition: its rows are restricted in
part or not at all, and `Enforce` leaves them as they are. The model writes all
three. `RowsWithinReach` therefore speaks of tables of statements that are not
open, and of a table with own cases it says that they are of officers of the same
unit and role (`Peers`), since that is all that the cache's key tells apart.

Abstractions: which statements are open is not computed from a text; a model
may answer anything; media, follow-ups and prompts are left out; the
`ScopeResolutionError` branch is unreachable, as the walk in memory never raises.

### UnitTree, ScopeService, UnitHierarchy

`UnitTree` says what a role should see of a table of units, without a walk:
`Reach` is the smallest closed set. `ScopeService` is the abstract service: a
request gets, in one step, all that is visible in the hierarchy then in memory,
and is shown a case only if that covers it or, having some unit, it is in charge. `UnitHierarchy` is the code:
`Ask`, then one iteration of the loop per step (`Visit`, `Skip`, `Return`),
`DecideByRole`, `DecideByRow`, `DecideOnError` for one case or accused,
`Lookup*` for `intercept_lookup_query` (`asked` is the column a caller wants,
`row` those it gets: MySQL's row has it, the one from memory only `UnitID`), `LoadTable`/`LoadFails` for
`init_lookup_cache`. `ImplementsService` is the refinement: the walk is invisible
until it returns.

Abstractions: the queue is a set, so the order of the list is any order; ids are
integers already; the Unit table does not change while a process lives, since
nothing in the application writes it.

### Login

`entry` of each worker is `_attempts` for one badge number, with the age of its
window in ticks; `Check` is `check_login_attempt`, which has no await;
`Lookup`, `Reject`, `Accept` are the rest of the route, `Restart` a worker's.
`SignIn`, `Call`, `CallUnauthorised`, `SignOut`, `LogoutEnds`, `Reload` are the
tab: `logout` clears the token at once and the screen when its POST returned.
`admitted` and `resets` observe: how many attempts each worker let through, and
how often its count was reset, by how many ticks ago; `Tick` makes them older.

### ChatWindow

A step is one handler or callback with its microtasks. `Send`, `Token` and
`StreamEnds` are a question and its stream; `Select`, `NewChat` abort it;
`Show`, `ShowFails`, `Retry` load a session, `Serve` being the moment the server
answers; `SetId` is the request for the evidence id at a stream's end; `Upload`,
`ReportArrives` a report. `Persist` and `Drop` are the server. An answer is the
set of turns whose tokens it holds. `visit` and `stray` observe.

`limited` is `rateLimit`, which disables the composer beside `isStreaming`
(`Composer.jsx:65-66`): a stream that ends with a 429 sets it (`EndsWith`) until
the window resets (`LimitEnds`) or, without a readable `window_reset_at`, for as
long as the window is open. Suggestions and follow-ups (`Offered`) pass it by.

Abstractions: drafts, the sidebar's list, the banner's text and layout are
left out; a request for an id that finds no slot counts as failed; a stream that is
aborted after its 429 arrived and before the body of it was read is aborted.

### Backend

`phase[w]` walks through `lifespan`: `Start`, `Ping`, `Serve`; `Stop`, `Cancel`,
`Flush`, `StopFronts`, `ClosePool`, `Exit`; `Crash` at any time. A call is its
caller's side (`Begin`, `Answer`, `FallBack`, `Acquire`, `Execute`, `Fail`,
`Abandon`) and the side of the gRPC server that took it (`Handler*`), which may be
another process's, since all listen on one port. `free[w]` are the connections
nobody holds. `Detach` is a task a request leaves behind.

Abstractions: of the three tables read at the start one query is followed; rounds
of the keep-warm loop after the first, which ask no database, are left out, and so
are the limiter's regular passes, which make the same calls as the other loops. The
final pass is a step that needs no server; the code's asks MySQL through the gRPC
server that is stopped after it (`main.py:199-201`). That `stop_llm_grpc_server`
raises, so that the SQL server outlives the pool (`main.py:201-213`), is not
modelled.

### Insights

`job[<<c, a>>]` is `compute_risk_for_accused` in call `c`: `ReadName`,
`ReadCases`, `ReadArrests`, then `Save`; `ComputeFails` is its `except`. A score
is what it was made from: the rows it saw and whether an arrest was among them.
`SaveFails` may have stored it (`Stores`): a write that times out may be committed.
`AskScore`, `ReadCached`, `CheckExists` are the endpoint, `ReadAll`, `Acquire`,
`Gathered` the recomputation with its semaphore. `ReadCase` to `LinksDone` are the
two builders, with bags of nodes and edges, since a list may hold one twice.
`ReadStations` to `TellState` are a pass of the ticker. `Enter` and `Arrest` are
the other programs that write the tables; nothing deletes.

Abstractions: the weights and tiers, which are arithmetic on what was read, and
the time since the last case, are left out; a case's own join rows are taken to
be there; a write that times out is executed before the exception or never.

## 3. The runs

All runs finish with every action fired. `CHECK_DEADLOCK FALSE` is set
everywhere because every model is a finite amount of traffic: when the
requests, faults and restarts of the bounds are used up, the system stops.

| Run | Instance | Distinct states |
|---|---|---|
| RateLimiterMC | 2 processes, 1 station, 2 windows, 2 requests per window, 1 fault, 1 restart, quota 1, headcount 2 | 1.5 M |
| RateLimiterLive | the same with 1 request per window, fair | 63 509 |
| ChatStore | 2 workers (1 with readers), a question and a report in one session, 1 error | 2.8 M |
| ChatStoreLive | a turn and the creation of its session, fair | 73 711 |
| ConversationHistory | 2 workers, 3 turns (1 without a title, 2 at once), lists of 2, 1 fault, the three ways to open a session | 2.3 M |
| CatalystToken | a model call and another of any kind, lifetime 4, margin 3, refresh 1, request 2, deadline 2, 1 retry, clock to 4, fair | 241 913 |
| QueryPipeline | 2 requests, one of them an investigator's; 2 investigators, a supervisor, a policymaker; 2 units; 6 questions; 3 shapes of a statement; budget 2; cache of 1; fair | 543 040 |
| UnitHierarchy | every table of 3 units with an unknown parent and NULL, 1 request at a time, fair | 659 399 |
| Login | 1 worker, the tab and another client, 2 attempts in a window of 2 ticks, 2 resets, 2 calls, fair logouts | 298 596 |
| ChatWindow | 2 sessions, 1 past turn and 2 new ones, 2 requests in flight, fair streams and reset timer | 1.2 M |
| Backend | 2 processes (tasks of one followed), 2 calls, pool of 1, fair | 127 031 |
| Insights | 3 accused (2 namesakes), 2 cases, 1 pass beside 1 call of any kind, 1 late row, arrests of 1, semaphore of 1, fair | 663 242 |

**RateLimiterMC** checks `Conservation` (table + owed + orphaned + discarded =
admitted + replayed, per station and window, with orphans in past windows only),
`OwnCounted`, `CountBacked`, `AdmitWithinBudget`, and `GracefulExitKeepsCounts`: a
process that stops with no write failing leaves nothing unwritten but orphans. That
a turn of the window loses counts is in the table below. One station suffices since
stations share nothing but the pass's order; two windows give the rollover, two
requests let one be counted while another is written, and a cap of 1 or 2 is met
exactly. **RateLimiterLive** checks `EventuallyConverged`.

**ChatStore** checks `KnownSessionExists`, `CleanTurnSaved`,
`CountWithinErrors`, `CachedIsPast`. The question and the report race to create
the session and to write it; the limit of 3 cuts the list of the two turns' four
messages. Only one worker has readers (the other's caches would double the states
without a new interleaving with the writers). **ChatStoreLive** adds the creating
endpoint, and `EventuallyFresh`.

**ConversationHistory** checks `HistoryInOrder`, `NothingLostWithoutOverlap`
and `CountNeverOver`; three turns and lists of two exercise the trim. Its
`CONSTRAINT`s leave out a turn without a title between the two others, and a third
turn of a session opened by a chat turn, which differs from the endpoint's by its
title only. For a session that a report opened, `NothingLostWithoutOverlap` says
that there is no metadata.

**CatalystToken** checks `OneRefresh`, `TokenOutlivesCall`, `EveryCallEnds` and
the refinement `ImplementsTokenService`, which implies `OneMintPerPeriod`: a fresh
token is never replaced. The durations keep the code's inequalities: refresh +
request <= margin <= lifetime (15 + 180 <= 300 <= 3600), deadline = request.

**QueryPipeline** checks `CallBudget`, `RowsWithinReach`, `EvidenceMatchesTable`,
`CacheSound` and `EveryRequestEnds`. Its `CONSTRAINT` has one of the requests be an
investigator's plain question (requests are alike, so only pairs without any are
left out, and no request that has begun is stopped by it); the other may be that of
a colleague with the same key, of the supervisor above or of the policymaker, on
every route. A cache of one entry makes every second answer evict; the order of
eviction among several is not exercised.

**UnitHierarchy** checks `AccessExact`, `LookupAgrees`, `EveryWalkEnds` and the
refinement `ImplementsService`. Three units give chains, forks, cycles of one, two
and three, and cycles beside a tree. `AccessExact` and `LookupAgrees` say what the
code does where the table below has it differ from its documents: an officer in
charge who has no unit is refused, and a row from memory is the id alone. One
request is enough: a walk has no await, and requests share only the table.

**Login** checks `AttemptsBounded` (in *any* stretch as long as the window; a
fixed window lets twice the limit through), `RefusalEarned`, `ChatHasToken`,
`LogoutCloses`. Workers share nothing, so there is one.

**ChatWindow** checks `StreamOwnsWindow`, `TranscriptClean`, `ComposerReopens`.
Two sessions are needed to switch, a past turn to have something to switch to,
two new ones for a question during another's load or id. `ComposerReopens` says that
the window does not stay busy, and that a composer that is closed opens or has met
a 429 without a reset time.

**Backend** checks `PoolAccounted`, `OnlyTasksRefused`, `StopEnds`. A pool of one
makes every second call wait; two processes make each the other's server.

**Insights** checks `ScoreLostOnlyOnOverlap`, `GraphSound`, `PassEnds`. The two
namesakes are in one case or in two; one of them may be entered late, and one
may be arrested, so that an older computation can be stored last; a semaphore of
one makes each worker of a pass wait for another.

### Where code and documents part

Seen while modelling. The models do what the code does, and each property says
what the code holds to, with these cases spelled out in it where they touch it.

| The sentence | What happens |
|---|---|
| README 574: the limiter "keeps serving off last-known state rather than blocking officers" | both headcount queries fail, the cap becomes that of one officer (`rate_limiter.py:191`) and the station is refused |
| `rate_limiter.py:334`: the final flush is there "so a graceful shutdown doesn't lose counts" | a turn of the window replaces the entry object with its unwritten increments (`:147-153`); no pass, the final one included, finds it again, and the table of the past window stays short (`Abandoned`) |
| `rate_limiter.py:149`: the cap is preserved across a rollover | a pass between the rollover and the next request drops the entry and its cap (`:255`) |
| DEPLOYMENT.md 38: "writes invalidate local cache, next read fetches from DB" | another worker's cache, or a list queried before and stored after the delete, is served for up to ten minutes (`chat_store.py:396`) |
| `history.py:210`: the count "is maintained *monotonically*" | two background writes reach NoSQL in the other order (`session_store.py:219`) |
| Docs.md 2389: first-person questions scope to the asking officer | the answer cache's key has unit and role, not the officer (`query_pipeline.py:79`) |
| Docs.md 2393: assigned cases are protected by `PolicePersonID = {officer_id}` | the same: a colleague of the unit and role who asks in the same words within five minutes is served them (`RowsWithinReach` has `Peers`) |
| `station_scope.py:5`: "a deterministic rewrite", "station-level row visibility" | the condition stands next to an `OR` of the statement without parentheses (`:178`), is put into one branch of a `UNION`, and is skipped where its text seems to be there (`:171`): such a statement shows rows of other stations (shape `"open"`) |
| `role_guard.py:81`: an officer assigned to a case "always has a legitimate need to view that case's details" | one without a unit is refused before that is asked (`:88`) |
| `lookup_cache.py:112`: "Match: SELECT UnitID FROM Unit WHERE UnitID = %s" | the test (`:113`) takes any query of the table by id, whatever columns it asks for, and answers the id alone |
| `history.py:216`: without a metadata document "the count is initialised from `messages_added`"; `session_store.py:198`: `update_session` creates the document "if it doesn't yet exist" | it returns None and writes nothing; a session that a report opened (`reports.py:257`) never has metadata, so neither count nor title, however many turns follow |
| `ChatWindow.jsx:202`: the block is cleared "once the station's 6-hour window resets" | the effect returns without `window_reset_at` (`:204`), which a 429 whose body cannot be read does not have; nothing else clears the block while the window is open |
| `routers/chat.py:203`: "the builder returns an empty graph on error rather than raising"; `network_builder.py:61`: "raises: nothing" | only for a missing case; the builders catch nothing, and a failed query is the caller's (`DrawFails`) |
| `routers/ticker.py:31`: supervisors see their command's sentence | once the Unit table is in memory the name query is answered with the id alone (`lookup_cache.py:112`), the `KeyError` is caught and no sentence is made (`intelligence_ticker.py:149`) |
| `login_rate_limiter.py:40`: a "rolling window" | the window is fixed and begins with an attempt |
| `profiling.py:51`: the top list names distinct persons | it groups by name and score, so two scores of one name are two entries |
| `risk_scoring.py:198`: the semaphore keeps a recomputation under the pool's size | per recomputation; two at once may take the whole pool |

Three more that no sentence contradicts: an empty score made by a failed read is
stored over a good one and then served from the table (`profiling.py:47`,
`risk_scoring.py:139`); the answer of a failed or refused question is given the
evidence id of the answer before it (`ChatWindow.jsx:341`); the deadline of the
model's RPC equals the time-out of one HTTP request behind it, so a request lost
to its time-out is not tried again (`llm/client.py:90`).

### Fairness

- *Limiter*: weak fairness of the pass, the final pass and the exit of each
  process: an event loop resumes every ready task and its 30 s timer fires
  (`_sync_loop` contains every error). None on requests, the clock, faults or
  starts.
- *Chat store*: weak fairness of the expiry of the two read caches, whose time
  to live is 5 and 10 minutes; none on turns or reads. A `get` after the time
  to live drops the entry, which is when expiry is observable.
- *Token, pipeline*: weak fairness of each caller's or request's own next step:
  the loop resumes it, and each call it awaits ends at the latest with its
  time-out (180 s for the model, 15 s for a refresh, 5 s for the database).
- *Units*: weak fairness of the loop: there is no await in it.
- *Login, window*: weak fairness of a logout's end and of a stream's: a fetch
  ends with an answer, a failure or a broken connection; and of the timer that the
  window sets for a reset time it was told.
- *Backend*: weak fairness of each call's and each lifespan's next step (every
  wait has a limit of 5 s); strong fairness of the final flush only because the
  model bounds the calls under way, where the process does not.
- *Insights*: weak fairness of the work as a whole: every statement returns or
  fails, and the loop always runs something that is ready. None on the start of
  a call or on what is entered.

## 4. The proofs

Each proof module proves `Spec => []IInv` for an inductive invariant `IInv` and
draws the properties from it. The parameters are arbitrary: any sets of
processes, stations, callers, officers and requests, any bounds. Every invariant
and action property that a run checks, and both refinements, are theorems here.

| Module | Theorems about |
|---|---|
| RateLimiterProofs | `TypeOK`, `OwnCounted`, `AdmitWithinBudget`, `Conservation`, `CountBacked`, `GracefulExitKeepsCounts` |
| ChatStoreProofs | `TypeOK`, `KnownSessionExists`, `CachedIsPast`, `CleanTurnSaved`, `CountWithinErrors`; `HistoryTypeOK`, `HistoryInOrder`, `CountNeverOver`, `NothingLostWithoutOverlap` |
| CatalystTokenProofs | `TypeOK`, `OneRefresh`, `TokenOutlivesCall`, `OneMintPerPeriod`, `ImplementsTokenService` |
| QueryPipelineProofs | `TypeOK`, `CallBudget`, `RowsWithinReach`, `EvidenceMatchesTable`, `CacheSound` |
| UnitHierarchyProofs | `TypeOK`, `ScopeIsReach`, `AccessExact`, `LookupAgrees`, `ImplementsService` |
| BackendProofs | `TypeOK`, `PoolAccounted`, `OnlyTasksRefused` |
| InsightsProofs | `TypeOK`, `PlacesCounted`, `ScoreLostOnlyOnOverlap`, `GraphSound` |
| ChatWindowProofs | `TypeOK`, `StreamOwnsWindow`, `TranscriptClean`; `LoginTypeOK`, `AttemptsBounded`, `RefusalEarned`, `ChatHasToken` |

Two modules hold the proofs of two components each: the two stores of a
conversation, and the two states of the browser's tab. That is why the
definitions of ConversationHistory and Login have names of their own
(`HistorySpec`, `LoginNext`, ...).

**RateLimiterProofs** assumes `ConstantsAssumption` (the quota is positive,
headcounts are numbers, the two `None`s are not). `OwnCounted` is not inductive:
the pass assigns a total it read two steps before. `IInv` adds that what is being
written is still owed (`CapturedOwed`), that own requests are in the table or owed
(`OwnAccounted`, minding the increments that are in both while a reply is on its
way), that the total read covers what is not owed (`SharedCovers`), that there is
nothing in windows to come (`NothingAhead`), and that the pass's object is in
place or of an earlier window (`PassHolds`). `AdmitWithinBudget` follows as the
hot path compares the cap with a count that `OwnCounted` says covers the own
requests.

The accounts are a second invariant on top of it. `Conservation` is an equation
with a sum over the processes, of what they owe and what they have orphaned; the
sum is the cardinality of a set of tokens, one
for each owed increment, so that a step adds or removes some of them and no
induction over the processes is needed. What a process owes is finite and in its
own windows (`UnwrittenFinite`, `NothingOwedAhead`). `CountBacked` needs that
every number in memory, the total a pass has read included, is of requests the
table has or the process owes (`SharedBacked`, `EveryCountBacked`).
`GracefulExitKeepsCounts` needs what the final pass has still to visit to cover
what can still be reached (`FinalPassCovers`), which is where a cancelled pass that had
captured an increment matters.

**ChatStoreProofs** assumes `StoreAssumption` (finitely many requests). `IInv`
says of each turn none of whose calls failed what its place implies (`TurnOK`: its
row until it is counted, its question after the first insert, both messages after
the second), of every worker that also the rows in flight to it were once so
(`CacheOK`: a reply is cached long after the query was executed), and of every
session that its count covers the turns past `CountCommits` (`CountOK`, which
`CleanTurnSaved` follows from by the cardinality of a subset). All steps that
only add rows share the lemmas `CachesKept`, `TurnStays` and `CountsKept`.
`CountWithinErrors` has an invariant of its own, `EInv`, a balance per session:
the messages less the count are what the turns under way have written and not yet
counted, give or take two for each call that failed, since such a call, or a turn
torn by a crash, costs at most its two messages; a turn whose failed call may have
been executed weighs differently on the two sides (`Ahead`, `Behind`).

Of the session's documents, `HistoryInOrder` is not inductive alone: a list that
is written now was extended from one read long ago. `HInv` says of *every* list
there is, in the store, in the copies, and in the hands of a task, that its turns
are in the order they were added (`ListsOK`); of every count that it is within
twice the turns added (`MetasOK`); and of the last turn, as long as nothing
overlapped or failed, exactly how far it has come (`InTurnOK`), so that the next
one reads what it left; for a session opened by a report that is that there is no
metadata, in no copy and in no hands.

**CatalystTokenProofs** assumes `TokenAssumption`, whose essential part is that
the margin and the lifetime cover a refresh and a request. `IInv` adds that the
cached token is due at least a request before its end (`TokenKept`; this is where
counting a token's age from the reply is paid for by the refresh's time-out), that
a refresh under way began with a token that was due and is still in its time-out
(`RefreshDue`), and the requests a call has left (`AttemptLeft`). For the
refinement every step of a call either gives it a token (`Begins`) or moves it on
without one (`MovesOn`). The first is `Get`, `Mint`, `Reuse` or `FallBack` of
`TokenService`: `Mint` may be taken only when the token is due, which is
`RefreshDue`, that is, the second look under the lock; `Reuse` and `FallBack` are
told apart by `CredsUsed`. The second is invisible unless the caller starts or
stops asking.

**QueryPipelineProofs** assumes `PipelineAssumption` (a unit reaches itself;
officers have a home unit or none; the budget is positive). `IInv` says of every
run what its stage guarantees (`RunOK`: a statement from execution on, a table
from its rows on, calls left where one may be made) and of every cached answer
that it is fit for *every* officer whose question has its key (`EntryOK`).
`RowsWithinReach` needs the latter for a hit; it holds since two officers with
one key have the same role and home unit, hence the same reach and the same peers.
Of open statements nothing is proved, as nothing is claimed. `CacheSound` is
about the sequence: an answer is stored by taking its key out, making room and
appending, and each of these leaves distinct keys distinct.

**UnitHierarchyProofs** assumes `HierarchyAssumption` (the unknown id and NULL are
no units). The walk is proved for every finite or infinite table: what is visited
is reached from the start, and every child of a visited unit is visited or queued,
so that when the queue is empty the visited set is closed and holds all that is
reached. That the list has each unit once makes `ScopeIsReach` exact. The
`LookupAgrees` rests on a lookup's row being fixed by whether memory was empty when
it was asked. The refinement has a step for each action: the walk's steps leave the service's state
as it is, `Return` is `Find`, a refusal by a failed query is `Deny`.

**BackendProofs** assumes `BackendAssumption` (finitely many calls). `IInv` adds
the stages of the lifespan with what is open in each (`Lifecycle`) and that an
answered handler holds nothing (`Replied`). `PoolAccounted` is an equation between
cardinalities, kept by a lemma on sets that gain or lose a member.

**InsightsProofs** assumes `InsightsAssumption` (ids of accused and of cases are
apart, as their prefixes are in a graph, and the accused are finitely many). `IInv`
adds that a stored score is made of rows with the accused's name and denies an
arrest only if one of its cases has none found (`Stored`), and that a computation
during which no other was stored covers the score it will replace (`Finds`); it
rests on the tables only growing. That each semaphore's places are within their
number is not seen from the places alone: `PlacesCounted` says that the free ones
and those in the hands of computations under way are all there are (`Placed`), which
bounds both. `GraphSound` has `NetInv`: at every place of
either builder, which nodes and edges it has drawn, each how often, and, while
nothing is entered, that they are those of the tables.

**ChatWindowProofs** assumes `WindowAssumption` (finitely many past turns). `IInv`
adds that an open stream's turn was put on the screen since the last switch, that
MySQL's lists and the replies in flight have turns of their own session only
(`SavedOwn`, `RepliesOwn`), and that a turn the server works on has a session. A
reply that makes none of `stray`'s conditions true therefore shows the active
session's turns, with nothing asked there to be overwritten.

Of the login (`LoginAssumption`: there is a worker; limit and window are positive)
`AttemptsBounded` speaks of one stretch only, the last window's length, and does
not survive the next tick. `LInv` has `WindowCounts` for the last `k` ticks, for
every `k`: when a worker has no window open, the attempts are within one
allowance for each reset and one more; when one is open, all attempts younger than
it are in its count, the count is of attempts no older, and the rest are within
the allowances. A tick shifts every `k` by one (a bijection between the events, in
`AllOlder`), an attempt adds one to each, a reset one allowance. `RefusalEarned` is
the lower bound on the count; `ChatHasToken` is inductive by itself.

Only model-checked: liveness (`EventuallyConverged`, `EventuallyFresh`,
`EveryCallEnds`, `EveryRequestEnds`, `EveryWalkEnds`, `LogoutCloses`,
`ComposerReopens`, `StopEnds`, `PassEnds`), as TLAPS does not treat fairness
through ENABLED. No module has a RECURSIVE operator or needs induction over data:
sums are cardinalities, and lists are described by what is in them.

## 5. Not modelled, and why

Text: prompts, what a model writes, the validator's and linker's regular
expressions, the places in a text where `station_scope.py` puts its condition, formatting and export.
Stateless reads: analytics, forecasting, decision support, media; nothing
interleaves there. Library code: JWT, bcrypt, aiomysql's pool (taken at its
effect), gRPC. Rendering. Scripts run by hand. Hazards that no property covers are
listed with the reason in `PROJECT.json`.

## 6. Plan

Done in this order: counting, saving, answering; then the scope, the login, the
window, the processes and what is derived from the tables. Left:

1. **StationScope**: the clauses of a statement and the place of the condition among
   them, so that which statements are open is computed and not assumed.
2. **Chat**: ChatStore and ConversationHistory composed for one session: what is
   in MySQL when the history is not, and what a next turn reads.
3. An abstract shared counter that RateLimiter implements, and an abstract
   message log that ChatStore implements.
4. Proofs that go with these: the refinements of item 3, and what item 2 says of
   the two stores together.
