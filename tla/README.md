# A verification of openvidia

openvidia is a local proxy: it holds a pool of NVIDIA API keys and serves
OpenAI-, Responses- and Anthropic-style requests over them, rotating from key to
key on failure. This directory models its concurrent core in TLA+, checks the
models with TLC and proves theorems about them with TLAPS. Line numbers refer to
`src/openvidia/`; `PROJECT.json` maps every definition to the lines it stands for.

## The system and its parts

Everything except the dashboard's restart thread runs on **one asyncio loop**, so
the unit of interleaving is what a task does between two awaits.

| Part | State it keeps | Operations | Talks to | Modelled in |
|---|---|---|---|---|
| Key pool (`proxy_state.py`) | keys, validity, cooldowns, RPM windows and ceilings, in-flight load, recent 429s, the pause of the pool | candidates, claim, release, record, fail, restore, decay, replace the pool | called by every other part | `KeyPool` |
| Rotation phase (`responses_shim.py`, `_upstream_utils.py`) | candidates, pass, attempts, refunds, network errors, outcome | one upstream exchange per attempt, under a global semaphore | pool, circuit, upstream | `Rotation` |
| Request handlers (catch-all in `proxy_app.py`, `/v1/responses`, `/v1/messages`) | the claim a 200 leaves them with; the model, the hosts left and the outcome of a request | admit, gate, run a phase, relay, release; stand-in models, hosts, providers | pool, circuit, phase, compaction, router, cache | `Rotation`, `Failover` |
| Model circuit breaker (`ModelHealth`) | failures in a row, opening time | record, read (a read may close it) | phase, handlers | `Breaker` |
| Health check (`proxy_app.py`) | the keys it is probing | pre-warm at start, one round a minute | pool, upstream | `KeyPool`, `Rotation` |
| Web UI (`webui.py`) | none of its own | add and remove keys, model options, log stream, restart | pool, config files | edits in `Rotation` and `Restarts`, restart in `Restarts`, the fallback switch in `Failover` |
| Context compaction (`compaction.py`) | rolling cache of summaries, tasks under way | cut, trim, assemble, summarize in the background | handlers, pool, upstream | `CompactionCuts`, `SummaryCache` |
| Graph engine (`graph_engine.py`) | statuses, mailboxes and tasks of agents | run, spawn, message, wait, kill, time out, close | the proxy, over HTTP | `GraphHub` |
| Event streams of the two shims | open items and blocks, words, usage | translate upstream chunks to event sequences, keepalives; unstreamed replies, histories | handlers, phase, compaction | `ReplyStream`, `EventWire`, `Replay` |
| Endpoint router (`upstream_router.py`) | blacklisted hosts | next host after a failed phase | catch-all | `Failover` |
| Provider fallback (`provider_fallback.py`) | none | ask the configured providers in turn | catch-all | `Failover` |
| Embedding cache (`embedding_cache.py`) | bodies with a time to live | get, set, prune | catch-all | `Failover` |
| Redis sync (`redis_sync.py`) | queue, subscription | broadcast, apply remote cooldowns and circuit openings | pools of other proxies | `RedisBus` |
| Configuration and backups (`config.py`, `safe_file.py`) | files | atomic write, rotating backups | everything at start, web UI | `KeyFile` |
| Server and command line (`server_manager.py`, `__main__.py`) | processes, the port | make room, load, bind, stop, restart | key file, web UI | `Restarts` |
| Dashboard pages (`web/`) | browser state | polling and rendering | web UI | no: nothing depends on it |

**What is hard.** Candidate lists go stale while a request sleeps, queues or waits
for an answer; a claim has to be released on every one of the ways out of an
attempt, exactly once, although keys may be removed and added back meanwhile;
who is to blame for a failure (key, model, network, request, nobody) decides what
is penalised; refunds must not make a phase endless; probes answer late; tasks
outlive the streams they work for. Proxies are restarted while they save their keys,
and kill one another for the port. `PROJECT.json` lists these hazards line by line.

## The modules

* **`KeyPool`** — the state and the methods of `ProxyState`, as operators. None of
  them awaits, so each is atomic. A deadline is kept as the number of ticks left.
  The RPM window of a key is a sequence of such ages, oldest first.
* **`Rotation`** — extends `KeyPool` with the requests. `pc` is where a request
  stands, `claim` the key it has claimed, `loop` the local variables of
  `_rotation_phase` (candidates, position, pass, attempts, refund count, network
  errors, whether the attempt was resent, the outcome the caller will read). One
  iteration of the loop up to the next await is the operator `Scan`; the actions
  of `Answer` and `Handle` are the branches of the loop, each ending in the `Scan`
  or the sleep the code goes on to *in the same step*. `Scan` looks at the primed
  health of the keys because the branch that precedes it has already changed it.
  A request with an error status gives its claim back at once (the `finally`) but
  handles the status only after it has read the body: state `answered`.
* **`MCRotation`** — the constants of the instances.
* **`RotationProof`** — the theorems, the last of them about the choice of keys, about who is
  blamed and about how far a phase may go.
* **`CompactionCuts`** — where `compaction.py` cuts a history: pure operators over
  sequences of (role, size, spare). A message is `size` tokens of four characters and
  `spare` characters more, which its own estimate drops (`len // 4`). `Size` is what the
  code adds up, message by message; `Estimate` is what it estimates of a whole list, spare
  characters included, and so never less. The loops that add or drop one message at a
  time are stated by the index they stop at; sizes are positive, so that is the first that
  fits. `Trimmed` and `Assembled` are the two fallbacks, each with the arithmetic the code
  has at that place.
* **`SummaryCache`** — extends it with `maybe_compact`: the rolling cache
  (`rolling`, in the order of the dict, for its eviction), `_inflight`, the
  detached tasks, and the requests that wait. The text of a summary *is* the
  messages it was written from, a fingerprint *is* the prefix: the model can then
  tell whose history a summary stands for. `out` records what the last step served.
  A task is done one step before its callback runs. `MCSummaryCache` has the
  histories; `SummaryProof` the theorems.
* **`GraphHub`** — the graph engine. `status`, `tasks` and `mail` are the Hub's
  dictionaries, `body` is where each `run_agent` coroutine stands, `pending` the
  CancelledError it has yet to see. `Leave` is the `except` and `finally` clauses,
  `Continue` what follows a tool in the same step. Cancelling an agent that awaits
  a victim cancels the victim and is seen only when that one is over (`Reached`,
  `Interrupt`), as asyncio's gather does. `MCGraphHub` has the constants.
* **`EventWire`** — what the client of a streamed reply may be sent: blocks under the
  indexes 0, 1, 2, ..., open until they are closed once, and one last event.
* **`ReplyStream`** — `_stream_anthropic` and `_stream_responses`, one loop with two
  dialects (`api`). `reply` holds the accumulators, `out` the events of the current
  step, which `Yield` hands over one by one, `sent` what the client has received.
  One turn of the loop is `ReadChunk` (the usage) and then `Translate`, which takes what
  the chunk has (`todo`) piece by piece, in the order of the code: text, calls,
  finish_reason. `WellFormed` is the refinement: read through `Blocks`, what was sent is a
  behaviour of `EventWire`. `read` is a history of the chunks, for the properties.
  `StreamProof` has the theorems.
* **`Replay`** — extends it with what becomes of the reply: pure operators over the
  completion the chunks are pieces of (`Completion`). `Unstreamed` is the same reply
  through the unstreamed translators, `SentBack` the chat messages that either shim
  makes of it on the next turn, with the tools' results, and `Cuts!SafeCut` where compaction
  may cut those. `ReplayProof` has the theorems.
* **`Breaker`** — `ModelHealth`, as operators on a record of failures and ticks left;
  `Rotation`, `Failover` and `RedisBus` extend it.
* **`Failover`** — what the catch-all does around a phase. `hosts` is what is left of
  `endpoint_urls`, `box` the `_outcome` that the phases of all hosts share, `model` the
  model in the payload and `ask` the one the client named. A phase is reduced to what
  its caller can see: attempts that fail in one of six ways (`Fail`), and an end that
  may come after any of them, or before one (`RunOut`). The breakers, the blacklist,
  the cache and the switch are those of the process.
* **`KeyFile`** — `save_keys_file`, step by step. `file` is what processes read,
  `durable` everything that a power loss may leave of it. A save knows whether another
  one was renamed since it began (`overtaken`), the file whether the one in it was (`late`).
* **`Restarts`** — extends it with the processes. `pc` follows `main_async` and
  `_kill_stale_port`: the sockets are listed, the names of the processes found are asked
  for, and only then are they asked to stop, so that one may be gone in between
  (`Unnamed`); a process that serves was bound before it reported that it started, or did
  not (`BootFails`). `desk` are the processes that are still the desktop launcher,
  which frees the port before it starts the proxy that frees it again. `promise` is
  what the dashboard last said of each key, `behind` the keys of which a process has
  not heard what another one told the user, `mishap` whether a starting process went wrong
  by itself since one last began to serve. `Drain` and `Exit` are uvicorn's.
* **`RedisBus`** — two or more proxies and a Redis that loses nothing: `queue` and
  `listener` are the two tasks of `RedisSync`, `inbox` what its subscription holds.
* **`BreakerProof`**, **`FailoverProof`**, **`RestartsProof`**, **`HubProof`** — the
  theorems about these.

### How the model abstracts the code

* A tick is about 15 s. Sleeps of 0.5–1 s may span ticks, an over-approximation.
  The jitter of a 429's cooldown is below a tick. Deadlines are half open.
* `Rotation` has one model, one upstream host and `fallback=off` (the default): the
  models, the hosts and the switch are `Failover`'s. The key × model
  score plays no part: `get_candidate_keys` is never called with a model.
* `Failover` has one text to embed, so that an entry of the cache is named by its
  model; a phase that may end at any time over-approximates `Rotation`'s.
  An expired entry counts against the limit until it is found or pruned.
* In `Restarts` a process listens on one socket (the code: one for each IP version).
  Waits of seconds are steps, so any other process may move meanwhile. An edit
  changes the pool and begins its save in one step, as nothing is awaited between
  them, and in a process that drains too (its handlers wait for their body and the lock
  first); each later step of the save may be cut by a kill. A power loss takes all
  backups, which are never synced; nobody restarts after it, since what it left of the file
  is what counts. The clock is not set back: backups rank by the time their file was
  staged, which is out of order only where a save was overtaken. The processes are of one
  user, who may kill them; one that is stopped from outside (the tray's Quit, a SIGTERM from
  a terminal) is left out, as nobody promises a proxy afterwards.
* In `RedisBus` events that are on their way age; `MaxQueue` bounds what waits, Redis
  is up and keeps the order.
* Waiters of the semaphore are admitted in any order (the code: in turn).
* `FailCap` bounds `consecutive_failures` (the code only asks "first or
  repeated", and ranks by it); failures of the circuit are counted up to one past
  its threshold (only the failure that reaches it opens it).
* Which failures are old enough to decay is left open.
* Requests are made once each; a new request of the same client is another one.
* The pre-warm is under way in the initial state; it runs once.
* Only an `/v1/messages` stream is cancelled with its client while it waits; the
  `/v1/responses` task is shielded and goes on, the other handlers do not notice.
* In `SummaryCache` any client may send any of the histories, and hashes do not collide.
  The JSON of a list is as long as those of its messages, each in a list of its own
  (brackets and separators come to the same), so sizes and spare characters are
  additive and only the division by four is not. The summary and its reserve have one size.
* In `Replay` words that are not the upstream's (the user's, a tool's, the fillers for
  empty content) are the one word `Other`; parsing the arguments of a call and
  writing them again keeps them.
* In `ReplyStream` a chunk carries its number as its words; content never follows a
  finish_reason (the chat-completions protocol; the code would announce such a block
  and never close it); pairs of events that always follow one another are one event.
* In `GraphHub` a reply asks for one tool, and names are run by the host once.
* Retry-After is not modelled: the loop passes it for gateway timeouts only (30 s).

## The runs

| Run | Checks | What it shows |
|---|---|---|
| `RotationClaims` | `TypeOK`, `ExactLoad`, `ClaimsReleased`, `BlamelessKeys`, `LeastLoadedFirst`, `NoClaimWhilePaused`, `FullWorkersAreNoFailure` | Two direct requests (catch-all and /v1/messages) over three keys, with rate limits, gateway timeouts and every failure that is nobody's fault on our side: whichever way a request leaves, its key is released once, budgets hold, requests that start together spread over the keys that are left, no key is taken while the pool is paused (not even by the request whose 429 paused it), and no key is worse off but for what it did itself, a gateway timeout it carried included. |
| `RotationAnswered` | `NoPhantomLoad`, `RpmRespected`, `SemaphoreRespected`, `Answered`, `PhaseMovesOn` | Two handlers contend for one key, which is removed and added back and probed by the health check meanwhile: under fair scheduling every admitted request is answered, refunded attempts, further passes and queueing included; the RPM window and the upstream cap hold, through the resends after a GOAWAY too; the key is never charged with a load no claim accounts for; and a phase only gets further in the list it began with. |
| `OrphanedStream` | *violated:* `NoClaimOutlivesItsRequest` | A /v1/responses client hangs up while the shielded task waits; its 200 arrives for nobody and the key stays claimed. |
| `DeadKey` | *violated:* `DeadKeysStayDead` | A key is probed, then rejected with a 401 while the probe is out: the probe's 200 makes it valid again. |
| `HubAgents` | `TypeOK`, `RunningIsActive`, `NoGhosts`, `CloseStopsEverything`, `StatusIsFinal`, `OthersEnd` | Two orchestrators and a worker that spawn, message and kill one another, themselves included, while timeouts, crashes and the close of the hub race: what get_status says of an agent is true and final, close leaves nobody running, and every agent ends but for one that awaits its own end, which holds up nobody else. |
| `Streams` | `TypeOK`, `EveryWordArrives`, `SameUnstreamed`, `RoundTrip`, `WellFormed`, `EveryReplyEnds` | Streamed replies of up to four chunks through both translators, cut, refused, failing and abandoned at any point: what the client sees is a well formed sequence of blocks (the abstract EventWire), holds every word, ends once, and says what the same reply says unstreamed; sent back on the next turn, the model is shown it as it gave it. |
| `Summaries` | `TypeOK`, `ServedIsOwnHistory`, `NoOrphanedToolResult`, `ServedFits`, `SingleFlight`, `NeverBackwards` | Two requests at a time over forks, rewinds and turns of two conversations, with messages whose estimates drop up to three characters each, a cache of one entry, summaries that fail or land late and clients that hang up: everybody is served its own history and whole calls, one summary at a time; what is served fits by the estimate of the list, or by the sum of its messages' where nobody estimates the list. |
| `Restarts` | `TypeOK`, `KeyFileWhole`, `PromisesKept`, `SomebodyServes`, `OverwrittenIsBackedUp`, `GapsClose` | Three proxies that are launched, replace one another, trip over one another's ends, are killed in the middle of a save, edit the keys while they drain or lose power: the key file is always whole; a version that is overwritten is among the backups unless two saved at once; an edit that was answered is in the file and in every pool, unless a process that read the file before it has saved over it; and it takes a mishap of a starting process of its own to leave the machine without a proxy. |
| `Failover` | `TypeOK`, `RejectionIsFinal`, `CacheIsSound`, `NeverProlonged` | Chat and embeddings requests over two hosts, a provider, two models with their circuits and the dashboard's fallback switch: a rejection ends everywhere, nothing is cached under another model's name, and failures still under way never keep a circuit open longer. |
| `SharedCooldowns` | *violated:* `SharedCooldowns` | Two proxies share their keys over Redis: the listener of each ends with the first event it reads, most often its own, and cooldowns are shared no more. |
| `OrphanedResult` | *violated:* `ResultsKeepTheirCalls` | A /v1/responses reply with two calls comes back as two assistant messages followed by their two results: a cut at the second message keeps the result of the first call without its call. |
| `SelfKill` | *violated:* `EveryRunEnds` | An orchestrator names itself in kill_subagents: it cancels its own task and awaits it, and never ends, timeout_s or not. |

### Bounds

`RotationClaims`: two requests are the smallest competition, and three keys leave one to
spread to when two are busy and one to rotate to when both have failed. One pass of 2
attempts lets a phase exhaust and refund its attempts and find the budget spent with a
key left. An RPM ceiling of 2 with a floor of 1 lets a 429 halve it; two 429s within a
tick pause the pool. `RotationAnswered`: one key that both handlers need, so that its window
fills, the semaphore has a queue and an edit always hits the key in use; one attempt and 2
passes, so that every refund decides whether the phase goes on and a phase wraps to its
second pass. The code's values (5 attempts, 3 passes, 28 RPM, 14 slots, 3 keys for a
pause, 3 failures) only make the same cases take longer; the theorems hold for all of
them. The pre-warm at start is in no run (as a second probe it multiplies the states): what
it does is covered by the theorems alone, `OnlyOwnFaults` and `LoadIsHeld` among them.

`HubAgents`: two orchestrators, so that they can kill each other, and one worker
both may want; two iterations, one message to a mailbox, kill lists of two names.
Agents may name themselves: `OthersEnd` says what is left to promise then, and `SelfKill`, one
orchestrator and one worker, shows that `EveryRunEnds` is too much.
`Summaries`: two requests at a time and two tasks are enough for a callback
that is late and a fork that overwrites the cache; a key of one message lets all the
forks share it, a cache of one entry evicts; histories of five to seven messages
with budget 5 and target 4 are cut at every kind of place. Messages have 0 to 3 spare
characters, so that lists which fit by the sum of their messages and not by their own
estimate are served by `_assemble` and by `_trim` (checked: each of these cases is reached).

`Streams`: four chunks hold a text, two calls in either order and an end with a
later usage; the chunks of `SomeChunks` mix words, calls, reasons and usages. The
translation of a history is that of its turns one after another, so `Replay` looks at one
turn: the reply, the results of its calls and the user's next words; two calls are enough
for a cut between them.

`Restarts`: three processes, so that one drains with an edit under way while a second
has loaded the keys and a third kills either; one key, which the user adds and removes,
and one backup. `Desktop` has one of them go through the launcher. Nothing in the
properties counts processes: the theorems hold for any number. `Failover`: a chat and an embeddings request for one
model, another model to stand in, two hosts, one provider, a cache of one entry and a
circuit that opens at the first failure. `SharedCooldowns`: two nodes and one key.

### Fairness

`FairSpec` assumes weak fairness of what the proxy does for an admitted request
(`Proceed`, and the step after `Admit`). asyncio runs every ready task, timers
expire, and each send ends because httpx is given connect, read, write and pool
timeouts. Nothing is assumed of the clock, of the health check, of the dashboard,
of clients, or of how long a reply is relayed.

`ReplyStream`'s `FairSpec` assumes that the phase ends (`Rotation`'s `Answered`) and that
the generator goes on: httpx's read timeout bounds the wait for the next chunk. That a
read fails, a client hangs up or the server cancels the generator is never assumed.

`GraphHub`'s `FairSpec` assumes that an agent's own next step is taken: chats end
(httpx's timeouts), a wait for a message expires, a cancelled task is run. It assumes
nothing of the agents' timers, of the host or of what the model asks for.

`Restarts`' `FairSpec` assumes that, while some process starts, one of them goes on (every
wait of `_kill_stale_port` and of `start` has a deadline), and nothing else: not that a
process that was asked to stop ever does, that a save is finished, that the thread of a restart
kills its process, that users launch or edit anything, or that the power stays on.

`RedisBus`' `FairSpec` assumes that the two tasks of each node run on while they exist.

## What is proved

`RotationProof` proves, for every pool, set of requests, routes and bounds that
satisfy `PoolSizes`, `Durations` and `RotationSizes` (positive sizes, a finite
set of requests, distinct `None`):

* `TypeCorrect` — `Spec => []TypeOK`, which includes `attempts \in 0..MaxAttempts`:
  a refund never exceeds what was spent;
* `LoadIsHeld` — `Spec => []NoPhantomLoad`, through removals and additions of keys. The
  holders it counts are claims nobody has given back, those of a request that leaked its
  claim and is over included: it says that the pool's books agree with the claims, not that a
  request that is over charges no key, which `OrphanedStream` refutes;
* `RpmBound` — `Spec => []RpmRespected`;
* `SemaphoreHolds` — `Spec => []SemaphoreRespected`;
* `PausesHold` — `Spec => NoClaimWhilePaused`;
* `DirectRoutesRelease` — `Spec => []ClaimsReleased` when every route is the
  catch-all or `/v1/messages` (the shielded task of `/v1/responses` and the
  unreadable reply of the plain handlers do leak a claim).

They rest on one inductive invariant, `IndInv` (`Inductive`). `NoPhantomLoad` alone is not
inductive: a release lowers the load of a key and the number of its holders
together only if the request really holds a claim when it is answered, and the
clamp at zero hides nothing only if a key outside the pool carries no load.
`ClaimsMatchState` ties the claim to `pc` and puts a candidate and a spent attempt
behind every exchange; `Fits` says that the load of a key is covered by its
holders and that keys outside the pool carry none; the windows are in order, so
that forgetting the oldest sends is dropping a prefix. The proof reduces every
step of a request to `Scan`'s three outcomes (`GiveUpOK`, `SleepOK`, `TakeOK`).
`SemaphoreHolds` needs the budget of the semaphore alone: whoever leaves the wire
lets at most one in. `PausesHold` follows a step through the same three outcomes: only
`Take` of a `Scan` puts a request where it will send, and `Scan` looks at the pause
as the step leaves it.

`SummaryProof` proves, for every set of clients, histories, tasks and sizes that
satisfies `CutSizes` and `CacheSizes`:

* `OneSummaryAtATime` — `Spec => []SingleFlight`. `SingleFlight` says nothing of
  `_inflight`; the invariant is that a running task is the one `_inflight` holds for
  its key, which `_done` preserves because it takes out no task but its own.
* `ServedIsOwn` — `Spec => []ServedIsOwnHistory`. What is cached, or being summarised, stands
  for a beginning of the conversation it is filed under and for nothing else
  (`OwnSummary`), and a request that waits holds a beginning of its own history;
* `ToolResultsAreCalledFor` — `Spec => []NoOrphanedToolResult`. Every cut the code takes is
  `Clean`: it lies at a message that is no tool result, behind all that the summary stands
  for, so the assembled request begins with no result whose call was summarised away;
* `SummariesOnlyGrow` — `Spec => []NeverBackwards`: what a request had before it waited and what
  it finds afterwards are both beginnings of its history, and the longer one is served;
* `RepliesFit` — `Spec => []ServedFits`. The code fits lists by two measures, and the property
  keeps them apart. `_trim` drops messages until the *estimate of the list* is within the
  target (`TrimmedFits`), and the fast path is taken by that estimate. `_assemble` and `_trim`'s
  first message are only ever *summed*, message by message, which is a lower bound of the
  estimate and not the upper one the comments say: of these the property claims the sum
  and no more. Each list is followed to the cut it ends at (`LongestIsOne`);
* `SummaryTypes` — `Spec => []TypeOK`.

The cuts are a smallest or largest element of a set of positions; that these exist is proved
from well-foundedness.

`FailoverProof` proves, for every set of requests, models, presets, hosts, providers and
sizes that satisfies `FailoverSizes` and `BreakerSizes`: `Typed`, `RejectionsAreFinal`,
`CacheStaysSound` (the cardinality of the cache is bounded by its limit because what
is pruned is not empty) and `CircuitsClose`. The last rests on `BreakerProof`: a failure
at or past the threshold leaves the opening time alone (`FailingWhileOpen`), and reading
a circuit can only close it (`ReadingNeverProlongs`).

`RestartsProof` proves, for every set of processes and keys and every number of backups
that satisfies `FileSizes` and `RestartSizes`:

* `Typed`, and `KeyFileStaysWhole`: a save reaches `replace` only with its data on disk
  (`SyncedFirst`), so neither the file nor anything a power loss may leave of it is torn;
* `OverwritesAreBackedUp`: a save whose backup was made has the *current* file at the head
  of the backups until it replaces it (`BackedFirst`), unless another process renamed its
  own version meanwhile, which a draining proxy and its successor may do to one another;
  the property excepts exactly these saves, and the backup of a version that came late,
  which is not ranked first;
* `SomebodyKeepsServing`: a process that is doomed or was asked to stop is `Relieved` by one that
  is starting or listening, a victim by the one that waits for it (`Awaited`), and whoever
  started last is `Untouched`. What the code cannot prevent is named in the property: `mishap`
  is set by a starting process that dies of a traceback over a dead process (`Unnamed`), is
  shown a free port that is not (`MakeRoom`), finds no keys or does not come up (`BootFails`), or by
  a power loss, and is cleared when a process begins to serve, at which moment it is the
  only one that listens (`OnePort`). Restarts, kills and refusals alone never do it;
* `PromisesHold` — `Spec => []PromisesKept`. Several processes may have loaded, save and answer at
  once. A save writes the pool of its process (`SavesItsPool`), so that what it overwrites is
  what that process is `behind` on, the keys another one has told the user about since it
  read the file; and an answer promises only what the file holds at that moment (`Promised`).
  Everybody who is not behind on a key has it as it was promised.

`RotationProof` also proves what `Rotation` promises of its choices; all of it uses `IndInv`:

* `FullWorkersForgiven` — `Spec => FullWorkersAreNoFailure`, without further hypotheses: a request
  whose last answer was that the workers are full reaches the circuit in no branch of the
  loop, and `GiveUp` leaves it to the handler, which reads `exhausted` from the box;
* `CheapestFirst` — `Spec => LeastLoadedFirst`, if no route is `/v1/responses`: those streams
  claim on a later turn of the loop than they read the candidates on (below), and TLC finds
  two of them on one key. Elsewhere nobody waits for a task (`NoTasks`), and the first key
  of a phase is the head of the candidates as they were sorted in the same step;
* `OnlyOwnFaults` — `Spec => BlamelessKeys`, without further hypotheses. A step that makes a
  key worse off (`Worse`: a failure more, a longer cooldown, a lower ceiling, its validity lost) calls
  `mark_key_failed` or `note_rate_limited` for it (`MarkCharges`), and does so in the branch of a
  status that this key answered, of an exchange it broke, or in the pre-warm (`StepBlames`); going
  on to the next key does not (`ScanLeaves`, `NoneWorse`). The price is that of the status;
* `LoadIsExact` — `Spec => []ExactLoad`, if nobody edits the pool: removing a key forgets
  its load while requests hold it. The candidates of a phase are then keys of the pool
  for as long as it lasts (`OwnKeys`), and every step gives a claim back, takes one, or
  takes one after the earlier was given back (`Booked`);
* `PhaseIsBounded` — `Spec => PhaseMovesOn`, without further hypotheses: the list of a phase
  never changes, and each of its steps comes to a later pass, to a later candidate of
  the same pass, or to a later stage of the same attempt (waiting, on the wire, answered; the
  resend after a GOAWAY once). So an attempt that is refunded is never repeated, and a
  phase makes at most `Passes` attempts with each of its candidates: the safety half of `Answered`,
  for any budget and any number of refunds. The rest of `Answered`, that each of those steps
  is taken, is fairness.

`HubProof` proves, for every set of orchestrators and workers and every limit, agents that kill
themselves included: `Typed`, `RunningStaysActive`, `EndsAreFinal`,
`GhostsAreExplained` and `CloseIsComplete`. They follow from one inductive invariant, `HubInv`:

* what is not over is active (`ActiveWhileAlive`) and has a task, and what has a task but is over was
  never begun (`TasksAreTheLiving`), so `close`, which goes through `_tasks`, misses nobody;
* a name that has a status is never spawned again (`NamesAreUsedOnce`), which makes statuses final;
* whoever is awaited by its killer can only end as killed (`VictimsOnlyDie`): the verdict a killer
  writes when it goes on is the one the victim wrote itself, or the only one;
* whoever was cancelled before its first turn was so by `close` or by a killer that still waits for
  it (`StillbornAreAwaited`), which explains every ghost;
* while `close` waits, whoever is alive has been cancelled (`ClosingReachesAll`).

Whom a cancellation reaches through the gathers is the least set closed under `Awaited`
(`Reached`), so the proof needs only that it is closed, no recursion.

`StreamProof` proves, for every set of calls and chunks that satisfies `StreamConstants`
and any number of chunks:

* `Typed` — `Spec => []TypeOK`;
* `Implements` — `Spec => WellFormed`: every step of either generator is a step of `EventWire` or a
  stutter. The invariant `StreamInv` says that what is about to be yielded
  continues what the client was sent (`Continues`: opened before filled, filled before
  closed, nothing after the last event), that the indexes handed out are those that were
  announced, without holes (`Numbered`), and, until the loop ends, that the blocks
  were closed if and only if the accumulators say so (`Closes`);
* `WordsArrive` — `Spec => []EveryWordArrives`. The accumulator of each block lists the chunks that
  had words for it, but for what is left of the last chunk (`Gathered`, `Leftover`); what the
  accumulators hold was sent or is about to be (`Passed`), in the order of the chunks
  (`InOrder`); a client that left is never told the end. The hypothesis `OneFill` asks that a
  chunk has one piece of arguments for a call: a chunk's words are its number, so two pieces
  would be the same word and no event could tell which of them it passes on. Text and any
  number of calls may still share a chunk, in any order.

`ReplayProof` proves two more of the same replies, from the invariants of `StreamProof` and under
the same two assumptions:

* `SaysTheSame` — `Spec => []SameUnstreamed`. Words are compared by source: what the client of
  a stream holds of a block and what the unstreamed translator takes from the completion
  are both the chunks that had words for it, in ascending order (`KeptTells`, `UnstreamedTells`).
  That the usage is the last one told, and the reason to stop the first, is `EndInv`; that the
  last event says what the accumulators came to, whoever cut the stream meanwhile, is
  `EndsWith`;
* `ComesBack` — `Spec => []RoundTrip`, for both shims and for streamed and unstreamed items. Of
  items it uses only what `Tells` says of them: a block for each source that was mentioned, no
  two of one source, each with all its words. From that it follows the items through the two
  translators of histories (one message per item, or one for the whole turn) and the
  sanitizer to what `Returns` asks of the messages (`SaysAll`, `TurnReturns`).

Words are listed by the numbers of their chunks (`Ascending`). A finite set of numbers has one
list in ascending order (`AscendingIs`, `AscendingLists`), and `FlattenSeq` is met only with
one non-empty part or none (`JoinedOne`, `JoinedNone`), so no induction over a reply is needed.
The assumption `NoneIsNoWords` keeps the model's null apart from a list of words.

Checked by TLC only: the liveness properties `Answered`, `OthersEnd`, `EveryReplyEnds` and
`GapsClose` (the prover does not treat fairness and `ENABLED`).
Every other invariant and action property of a passing run is a theorem.

## Where the code and its comments disagree

* **OrphanedStream** (`responses_shim.py:917`): The rotation phase of a /v1/responses stream runs in its own task, awaited through asyncio.shield (line 70). When the client hangs up meanwhile the generator ends and the task goes on; the 200 it then receives keeps the claim for a caller that no longer exists, and nobody calls end_in_flight. proxy_state.py:869 says "Every caller must pair this with end_in_flight in a finally block". The run shows a finished request that still holds its key.
* **DeadKey** (`proxy_app.py:141`): _health_check_all decides which keys to probe, awaits all the probes, and restores every key whose probe answered without looking at it again: a key that a 401/403 invalidated meanwhile becomes valid. proxy_app.py:113 says "A 403/401 means the key is dead [...] probing would revive a key that will just 403 again on chat/completions".
* **SharedCooldowns** (`redis_sync.py:79`): _listen_loop awaits the result of on_remote, which is the plain function apply_remote_event (proxy_app.py:283, proxy_state.py:741): awaiting its None raises a TypeError, the outer `except Exception: pass` swallows it, and the listener is over. Since _emit puts no node_id into an event (proxy_state.py:785), the first one a node reads may well be its own. redis_sync.py:3 says "share cooldowns and circuit state so node A does not hammer a key that node B just cooled down". The run shows a key cooling down on one node that never cools down on the other.
* **OrphanedResult** (`compaction.py:499`): _safe_cut and _orphan_free skip tool results at the head of what is kept, which is enough when a turn makes all its calls in one message. _input_to_messages makes an assistant message of each call (responses_shim.py:591), so that a cut between them keeps both results and one call. compaction.py:496 says "Move a boundary forward until the suffix ``rest[idx:]`` has no orphans", and :479 that the upstream answers such a history with a 400. The run shows a cut that orphans the first result.
* **SelfKill** (`graph_engine.py:353`): kill_subagents does not look whether a name is the caller's own: the task cancels itself and awaits a gather of itself. Whoever cancels it next, its timeout, another killer or Hub.close, recurses through that cycle (task, gather, task) into a RecursionError, and the agent waits on, listed as active. src/README.md:719 says "`run_agent` caps every run with `max_iterations`, `budget_tokens` and `timeout_s`". The run shows an agent that never ends.

Also seen while modelling, without a run of their own: after a read timeout the loop
executes `break`, which leaves the loop over the candidates only, and the next pass sends
the request again (`responses_shim.py:292` against the comment at `:281`, "Stop the phase
instead", and `:232`, "Return, not break: breaking only left the inner loop"); a gateway timeout
gives its attempt back and nothing else counts these sends, so that a phase may send once
in each pass to every key it began with (`:411` against "hard cap on sends per model
phase", `:47`); that gateway timeout is charged to the key that carried it, as a failure and
a cooldown of 30 s (`:410` against `:42`, "these must not be charged to the key that happened
to carry the request", and `:401`, "Cooling keys down for it empties the pool one 504 at a
time"), which `BlamelessKeys` states as the code has it; two `/v1/responses` streams
that arrive together score the keys before either task claims one, and both take the
same key while another is idle (`responses_shim.py:917` against `proxy_state.py:897`);
a streamed `/v1/responses` reply that was cut off, at `length` or by `content_filter`, ends with
the status "completed" (`responses_shim.py:1211`), the same reply unstreamed with "incomplete"
(`:811`: "Only a real cut-off is incomplete"); a text that follows a tool call has
`output_index` 1 (`:1089`) but comes first in the final `output` (`:1180`), where the
comment at `:980` expects index 0; a read error in the body of a stream ends it without
a terminator (`anthropic_shim.py:554` against "One terminator, always, whatever the
upstream did", `:536`); a health probe that answers
late clears a 429 cooldown set meanwhile (`proxy_app.py:141` against `:106`); a
request queued at the semaphore is sent although the pool was paused meanwhile
(`responses_shim.py:116` against `:237`); `mark_key_failed` and `record_request`
write state for keys that were removed (`proxy_state.py:648` against `:418`); no
success ever restores a halved ceiling, since `restore_key` is only called with
`rehab_rpm=False` (`proxy_state.py:54`); `network_errors` is never reset although
it is said to count consecutive errors (`responses_shim.py:226`); a request our own
pool has no room for is booked as a failure of the model by the catch-all
(`proxy_app.py:684` against `proxy_state.py:245`); a worker whose prompt cannot be
formatted is registered without a task and stays "active" for ever, as does one that
`close` cancels before its first turn (`graph_engine.py:324`, `:151`); a history that
ends in tool results larger than the target is served as a summary without any
verbatim message (`compaction.py:741`).

Around compaction: `_msg_tokens` rounds each message down, so a sum of them is at most the
estimate of the list, by up to three characters a message, where the comments say "always >="
(`compaction.py:240`, `:508`) and "an upper bound" (`:545`). `_trim`'s "GUARANTEE: the returned message
list never exceeds `budget` tokens" (`:507`) therefore fails where no tail is left to drop: the
first message is kept by the sum (`:520`), and the check against the estimate (`:546`) needs a tail.
`_assemble` drops the remainder by the sum (`:596`) and checks the estimate only while the tail has two
messages (`:604`), which on this path it never has. A served list may so be over by a few
tokens; `ServedFits` claims the sum there.

Around replies and histories: unstreamed replies list the calls before the words, streamed
ones the words before the calls (`responses_shim.py:782`, `anthropic_shim.py:257`); an
unstreamed `/v1/messages` reply that was cut inside the arguments of a call shows the call with
the arguments `{}` (`:263`), a streamed one passes on the piece; the results of a
`/v1/messages` turn are put before its words even where the words came first (`:142`).

Around the catch-all: the outcome of one host's phase stays in the box, and when the
next one sends nothing its host is blacklisted for it (`proxy_app.py:623`); one dead
host's failures open the circuit of the model for all hosts (`proxy_state.py:813`), and
the request that goes on to a second host books its failures twice; the log says "skip
rotation" of a saturated pool but the rotation is run (`proxy_app.py:571`); when every
host is blacklisted the request goes to `UPSTREAM_BASE` even if that is none of the configured ones
(`:556`); providers are asked with `fallback=off` too (`:716`); a model set to "auto"
inherits the global default, which is "off" (`webui.py:357`).

Around restarts: "there is no window where no proxy is listening" (`webui.py:398`) and "Zero-downtime
restart" (`README.md:672`) are not so. The replacement kills the old process before it reads its
keys and binds (`__main__.py:482`). Nobody serves afterwards when the old process kills
itself between being found and being named (`:85` asks for the names outside any try; `:109`
does so again), when `psutil` may not list the sockets (`:48`: the port looks free, the bind
fails, and the old process kills itself all the same), when the key file cannot be used
(`:494`), or when the server does not report within two seconds that it started
(`server_manager.py:104`). These are the mishaps `SomebodyServes` and `GapsClose` except. Nor
are edits safe from one another: every proxy saves the whole pool it has in memory
(`config.py:334`), and one that was asked to stop still finishes the requests it has, so an edit
it answers while its successor has already loaded the keys is undone by the next save of that
one, though the user was told ok, and the other way round (`PromisesKept` excepts the keys a
process is `behind` on; one process that was paused between reading the keys and
binding is another case); of two saves that cross, the one that is overwritten may be in
no backup.
`create_backup` swallows the OSError that its callers catch (`safe_file.py:52` against
`config.py:343`); a killed save leaves its temporary file behind (`config.py:303`); an edit
whose save raises stays in memory (`webui.py:167`).

Around Redis: a node's own "model_circuit" event comes back and sets the opening time
anew (`proxy_state.py:774`), and the restoring of a key is never shared.

## What is left

In this order: the fallback chain of the two shims around the phase; the log stream; the
learned context windows; `generate_and_verify`.

### Not modelled

The dashboard's pages and the package metadata keep no state the proxy depends on. The
setup commands rewrite the configuration files of other tools, once, in a terminal. The
log stream is a diagnostic output. Left to TLC for good: liveness (`Answered`,
`OthersEnd`, `EveryReplyEnds`, `GapsClose`), which the prover cannot treat under
fairness.
