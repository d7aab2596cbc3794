# Sigbench in TLA+

Sigbench is a load generator for messaging services.  A *master* sets up a set of
*agents* over `net/rpc`, lets each of them run the phases of a *job*, and collects their
counters; an HTTP *service* wraps the master so that jobs can be started from a page.
This directory models that system in TLA+, checks the models with TLC on small
instances, and proves the main invariants with TLAPS for all values of the parameters.

## 1. Inventory

| Component | Source | State | Operations | What makes it correct |
|---|---|---|---|---|
| Agent run loop | `agent/agent_controller.go` `Run`, `runPhase`, `executeSession` | the current phase; per phase and session a channel, a timer, a `WaitGroup`, the users in flight | enter a phase, start launchers, launch a user, stop at the timer, execute, sleep after an error, release, done | users in flight within the agent's share; phases one after the other; `Wait` neither early nor for ever |
| Division of users | `getSessionUsers` | none | one call per agent and session | shares that agents compute on their own add up; no negative share; the loop ends, or it is known when it does not |
| Master | `master/master_controller.go` | agents' connections, job start time, the watcher | `setupAllAgents`, `Run`, `collectCounters`, `watchCounters` | counters of this job only; the last snapshot complete; no division by zero; `Run` and the watcher end |
| Service | `service/controllers.go` | `masterController`, `memSnapshotWriter`, one lock | `HandleJobCreate` and the job's goroutine, `HandleJobStatus`, `HandleMasterExit` | one job at a time, with its own controller and writer; a refused request means a running job; a stream that ends has shown the final counters |
| Agent registry | `service/controllers.go`, `cmd/main.go` | `regAgentAddrs` with times | `autoRegisterAgent`, `HandleAgentRegister`, `CheckExpiredAgents` | live agents stay listed unless a request of theirs hangs, dead ones are dropped |
| Memory writer | `snapshot/memory_writer.go` | the last counters | `WriteCounters`, `Dump` | the dump is the last snapshot |
| Sessions | `sessions/*.go` | counters; per `Execute` a reader or subscriber goroutine, channels and flags; for some a pool or a client that outlives the job | `Setup`, `Execute`, `Counters` | `Execute` returns; its goroutine ends; counters say what happened; a `Setup` beside running calls does them no harm, or it is known which |
| Other writers, CLI, page, tables | `snapshot/`, `cmd/`, `base/`, `util/` | files, flags | output, parsing | — |

How they interact: the master calls `Setup`, `Run` and `ListCounters` of each agent; the
service calls `RegisterAgent` and `Run` of a master and reads the writer the master
writes; an agent calls `Setup`, `Execute` and `Counters` of its sessions and posts its
address to the service.

What is hard about it: every one of these calls runs in goroutines of its own.  Users,
launchers and timers race in a phase; the watcher collects while `Run` ends; requests
race for the one controller; readers hand messages to `Execute` while it times out;
`Setup` of a next job replaces clients and counters under the users of the last one, when
the service was restarted and its agents were not; connections, agents, the service and
the external servers fail in between.
`PROJECT.json` lists these hazards line by line with the properties that address them.

## 2. Modules

```
 SessionUsers     AgentRun <-- AgentLaunchRate
     |               |  (EXTENDS, adds a clock)
     |  Quota        |  "Run returns"
     +---> AgentRun  v
                   Master ---- refines ----> JobRun <---- used by ---- Service
                                                                    AgentRegistry

 What Execute owes AgentRun:
   RedisPubSub
   MCEcho           = WebPubSubEcho | SignalRCoreEcho
   MCBroadcast      = SignalRCoreBroadcast | SignalRFxBroadcast (EXTENDS the former)
   MCReusedSessions = RabbitMQMassiveQueue | PulsarMassiveQueue | HttpGet | KafkaProducer
```

Each `*Proofs` module extends the module it is about (`AgentProofs` extends `AgentRun` and
`MCEcho`); each `MC*` module supplies constants, or joins sessions so that one behaviour is
of one of them (`|` above).  Definitions that are marked *Faulty variant* stand beside the
action they resemble; no specification uses them.  They are plausible errors, and each of
them breaks the property named with it in `PROJECT.json`.

**AgentRun** models one call of `AgentController.Run`.  A *crew* `<<p, s>>` is what
`runPhase` creates for session entry `s` in phase `p`: the launcher goroutine, the
channel `sessUserChan`, the timer and the `WaitGroup`.  Users of a crew are
interchangeable, so they are counted by the statement of `executeSession` at which they
stand.  `log.Fatalln`, an index out of range and a panic in a session lead to `dead`.

**AgentLaunchRate** adds a clock to it and counts launches within a second.

**SessionUsers** models `getSessionUsers` called by all agents in turn; the loop over
`lastIdx` is stepped through.  The product with the `float64` percentage is a choice
between the exact truncation and one less where rounding can cause it.  The number of
users may be negative, which nothing refuses: Go's division truncates toward zero, and the
search for `lastIdx` then walks away from its end.  `MaxBelow` stops it in the model; in
the code it would go on until the product overflows an `int64`, which is not modelled.

**Master** models one `MasterController.Run` with its agents.  `Setup` and `Run` calls are
`calling`, `handled`, `finished`, `returned`; a broken connection fails pending and later
calls, as an `rpc.Client` does.  Counters are abstracted to one counter per agent that
grows, which may hold a rest of an earlier job at the start.  Time is in half seconds:
that is what separates the guard `duration > 0` from its divisor in whole seconds.  A
collection asks one agent per step, so everything may happen between two answers.

**JobRun** is what the master promises the service: `Run` writes the last snapshot before
it returns; the watcher may write once more, then ends; the process may die while `Run`
has not returned.  `Master` refines it (checked with fairness, proved without), and
`Service` is built from its actions, which the run `service` checks and a theorem states.

**Service** models any number of concurrent `HandleJobCreate` requests, each with the
goroutine of its job, status sockets, the exit request, the death of the process and
its restart.  A lock section is one step; reads without the lock are steps of their own.

**AgentRegistry** keeps times relative to now.  What is due happens before time passes.  A
request is answered within `MaxLatency`, is lost, or hangs: the client in `cmd/main.go` has
no timeout.  The loop posts one request at a time, and its ticker keeps one tick for it.

**RedisPubSub**, **WebPubSubEcho**, **SignalRCoreEcho**, **SignalRCoreBroadcast** and
**SignalRFxBroadcast** model `Execute` and the goroutine it starts, with the server as an
environment that may answer late, never, wrongly, or break the connection.  In the modules
with several users, what waits for a reader is a bag: the order of a connection is not
kept, which allows more behaviours than the code has.  In the echo modules the order
matters and is kept.  `SignalRFxBroadcast` adds to the other broadcast its handshake:
negotiation, the start request, and the channel that an init message closes.  A call that
waits for a server without a timeout may wait for ever: that state is `hung`, for the
replies of Redis (`redis.Dial` sets no read timeout) and the start request
(`http.DefaultClient` has none).  A negative `broadcastDurationSecs`, which nothing refuses,
panics when the channel is made.  A message that makes a reader panic, a second init message
or a malformed one, is a *breach*; acknowledgements and other messages are not.

**RabbitMQMassiveQueue**, **PulsarMassiveQueue**, **HttpGet** and **KafkaProducer** model
sessions whose object keeps something between calls, and beside two calls the `Setup` of a
next job, in as many steps as its effects on a running call are apart.  The pool of
RabbitMQ reads its list without the lock, then with it; a connection has room for
`ChannelMax` channels, and breaks at any time.  Pulsar's client and `queueMessages` are
read where the code reads them, so that a call may see the old one and the new one.
`HttpGet` has the parameters that choose the transport and the QUIC pool.
`KafkaProducer` counts bytes, as `WriteMessages` returns them, sets `msgCnt` to its default
before it reads the parameter, and may hang in a dial or a write.  A negative `messageSize`
ends the process in three of the `Setup`s.  Where they mean the same, the four share
variables.

Abstractions in these: a reset of several counters is one step; assignments of `Setup` that
no call can tell apart are one step; reading Pulsar's client and using it is one step; a
write to Kafka reads the payload, returns and counts in one step, and the slice of the
payload is read whole while a `Setup` replaces it; the counters of errors and dials, which nothing reads, are left out.

## 3. What the runs check

| Run | Instance | Shows |
|---|---|---|
| `agent` | 2 phases, 2 sessions, shares 2, 1, 0, 1; any entry may be one that cannot be run; at most 4 users that owe a `wg.Done` | semaphore, `WaitGroup`s, phases, lost users; `Run` ends, or a bad entry ends the process, unless a user got no id |
| `session_users` | -9..101 users, 1..8 agents, 50 %, 29 %, 0 % | shares add up, none is negative, and the loop ends; for a negative number of users it never does |
| `master` | 2 agents, 1 session each, 1 left over | the counts of snapshots, the order of the last one, the watcher's division; `Run` ends; refinement of `JobRun`, by which the watcher ends |
| `service` | 2 requests, 1 socket, 2 agents to dial, 1 restart | one job with its own controller, what a stream has shown when it ends; the service is freed; jobs follow `JobRun` |
| `agent_registry` | 1 agent, the times of the code, requests that are lost or hang | listing and dropping; time is never blocked |
| `redis_pubsub` | 2 users, 1 message each, 1 foreign | subscriber never blocks, at most one late message, gauges; `Execute` returns, or hangs on a reply |
| `echo` | either echo session, any 5 events or messages | what a success stands for, the reader that is left, what panics, that both goroutines end |
| `broadcast` | either broadcast session, 2 users, 1 message each, 1 of the hub's own | reader never blocks, gauges, what ends the process; both goroutines end, or the start request hangs |
| `reused_sessions` | one of four sessions, 2 calls, 1 message, 3 channels a connection, 2 dials, payloads of up to 2 bytes, 1 `Setup` beside them | when the pool grows, what a success stands for, counters after a reset, the client `Setup` leaves, which calls never return |

Three runs show that the code does something else than a line of the repository says:

| Run | The code | What is said |
|---|---|---|
| `agent_launch_rate` | `UsersPerSecond` bounds the users in flight, not launches | README.md:45 "Number of users launched per second." |
| `master_division` | a job of `http-get` shorter than a second divides by zero | the guard at `http_get.go:247` |
| `service_refused` | a failed registration leaves the controller installed for good | "A job is still running" |

Other surprises are stated as properties that hold, with the exception spelled out:

* `RunEnds`: a failing `shortid.Generate` skips `<-done` and `wg.Done`, and `Run` hangs.  That
  it must is the theorem `LostUserBlocks`.
* `CallsReturn`: with a negative number of users `getSessionUsers` never returns.
* `LastSnapshotOvertaken`: a late watcher replaces the final snapshot.
* `LiveAgentStaysListed`: an agent whose request hangs is dropped although it lives.
* `WebReaderIsLeft`: the reader of `webpubsub:echo` is left behind.
* `ExecuteReturns` of `RedisPubSub`: a subscription that could not be sent is waited for,
  as is a reply of Redis that never comes.
* `SessionEnds` of the broadcasts: a start request that is never answered is waited for.
* `EveryCallReturns`: with RabbitMQ a call waits for ever when its publishing connection
  breaks and its subscriber's, another one, does not, or when a `Setup` changes the number
  of messages under it; with Kafka when the broker is silent.  With Pulsar a call panics
  when a `Setup` could not replace the client and left it `nil`.
* `CountersBalance`: the gauge is off by the calls that were under way when it was reset,
  and may be negative; what Kafka's calls have written is counted in bytes, so that with
  an empty payload nothing is written however many calls succeed.
* `SetupAsAsked`: some parameters of `http-get` end the process, as does a QUIC pool without
  connections.
* `FxPanicIsProvoked`: a second init message closes a closed channel, a malformed one
  is indexed out of range, and a negative duration makes a channel of negative size.

### Bounds

Two phases are the least with a boundary between them, two sessions the least with
launchers that wait for each other; a share of two makes the semaphore differ from a lock
and a share of zero gives the unbuffered channel.  `MaxUndone` bounds goroutines that
have released their token and not called `wg.Done`, which the code does not bound; four
is well above the largest share.  Two agents are enough for one to be set up, asked or
lost before the other, and `MaxClock` of two half seconds reaches the first whole second,
after which nothing depends on the clock.  Two requests race for the controller, and the
second may come while a status handler still holds what it read of the first.  Five
events are two more than the shortest exchange of `webpubsub:echo`, and room for two
echoes with something before, between and after them.  Nine negative users and three
indices below zero reach every sign and remainder of the truncated division with eight
agents.  Two calls with two channels each do not fit in a connection of three channels, so
that the pool grows, and two dials let it; a single next `Setup` meets every step of a
call.  Payloads of 0, 1 and 2 bytes tell an empty payload, and bytes from messages.  `pulsar` was also explored with two messages.  In the sessions with several users one
message each makes every channel full when it is used, and a message of the other user or
of the server is what could overflow it; larger numbers are covered by the proofs for
`RedisPubSub` and were explored with TLC (two messages per user, with users as a symmetry
set, safety only) for it and for `SignalRCoreBroadcast`.  The bounds `MaxWork`, `MaxLeftover`, `MaxForeign`, `MaxOwn`,
`MaxRestarts`, `MaxMissed`, `MaxAge`, `MaxBelow`, `MaxDials`, `MaxSetups` and `MaxSize`
are in the guards of their actions or in the sets these choose from; the theorems hold for every value of those they meet.

Deadlock is not checked where the modelled call comes to its end or the process may die;
it is checked for the registry.

### Fairness

* Goroutines that can take a step take it: weak fairness of each goroutine's steps.
* A timer fires and a ticker ticks: weak fairness of `TimerFires`, `Timeout`, `ClockStep`.
* Go's `select` chooses at random among ready cases: the stop channel of the watcher,
  ready for ever once closed but not continuously selectable while the watcher collects,
  is taken in the end: strong fairness of `WatcherStops`.  A launcher's fired timer stays
  ready: weak fairness of `StopLaunching`, and none of `LaunchUser`.
* Replies on an unbroken connection arrive.  Nothing is assumed of agents' `Run`: the
  property `RunReturnsEventually` has their end as its hypothesis.
* `AgentRun` assumes that `Execute` returns.  The session modules say when it does: for
  `redis:pubsub` not after a subscription that could not be sent.
* A call of a library or a server returns only where the code has it time out.  Where it has
  none the call may hang, as a step to `hung` that fairness can choose as well: `PUBLISH`,
  `PING` and `AUTH` of Redis, Fx's start request, the dial and the writes of Kafka.  The
  requests before a SignalR or Web PubSub dial, also without a timeout, are before the point
  from which fairness is assumed.  An HTTP request of `http-get` returns by the client's
  timeout of a minute (`http_get.go:138`), an operation of Pulsar by its timeouts
  (`pulsar_massive_queue.go:48` and `:110`).  RabbitMQ's have none; its library ends the
  connection to a broker whose heartbeat fails, and a broker that keeps its heartbeat is
  assumed to answer and, like Pulsar, to deliver what was sent on a connection that stays
  open.  Writes of a few dozen bytes to a websocket are assumed to return or to fail: they
  fit in the socket's buffer.
* In the sessions of `reused_sessions` the pool's lock is granted.  One weak fairness condition over all the calls is enough:
  every behaviour ends, so it stops only where no call can take a step.
* Nothing is assumed of servers, requests, failures and restarts otherwise.

## 4. What is proved

Every safety property that a passing run checks, invariant or action property, is also a
theorem, for every value of the constants that the modules' assumptions allow.  Most say of
a constant no more than its meaning: numbers are natural, users and calls are finitely
many, and `nil` is none of them.  The registry further assumes that a request that does not
hang takes less than a period, and ages that are followed beyond the expiry.  The inductive
invariants were checked with TLC first.

* **AgentProofs**, for `AgentRun`.  The inductive invariant adds to the type invariant, for
  each crew, that the channel holds a token per user in flight and per lost user, that `wg`
  is the number of users that owe a `Done`, that no crew of a later phase has begun and
  every crew of an earlier one is over, and that `swg` is the number of launchers of the
  phase that are not done.  Neither the quota nor the sequence of phases is inductive alone:
  the quota needs the tokens, and the end of a phase needs both `WaitGroup`s.
* **AgentProofs**, for `MCEcho`.  In `webpubsub:echo` the select that `Execute` is in
  determines what it has received so far, so a success ends a complete exchange; and what
  is no JSON in the inbox was sent.  In `signalrcore:echo` a closed `echoReceivedChan` is
  one echo read, in a process that lives; `Execute` gets past its first select only with
  it; and errors are at most one of the reader and one of `Execute`.
* **SessionUsersProofs.** The invariant says that `major` is the ceiling of the division
  and that what is allotted so far is `min(total, agentIdx * major)`.  For a negative total,
  which has its own conjunct `SearchInv`, it says that the first agent is in its search and
  that `agentCount` times the absolute value of `major` is at most that of the total, so that
  no index below `agentCount` ends it.  The arithmetic is stated as lemmas on numbers.
* **MasterProofs**, the refinement.  Type correctness; the watcher's collections come at
  least a second after the start; and `Spec => Job!Spec`, step by step, with the invariant
  that a collection of the watcher exists exactly while it is busy and that `Run` has
  started the watcher before it ends.
* **MasterProofs**, the counts.  A collection asks one agent at a time while the others
  work on, so its sum equals nothing that can be read off a state.  `CountInv` bounds it:
  it is at most the work of the agents that have answered, and exactly that in the last
  collection, when nobody works; and a collection of the watcher that has missed nobody
  will show at least what is shown now, since the agents it has yet to ask count at least
  what they do.  The sums are folds over a finite set; that they grow with their set and
  their summands is proved by induction over subsets (`SubsetInduction`: among the subsets
  for which a claim fails one is minimal).
* **ServiceProofs.** The invariant ties every active job to the installed controller, the
  controller to the writer, and each status handler that has read a last flush to a job
  that has returned: a handler that read `nil` and the writer in one lock section holds
  them while another job may already be installed.  With the fact that a job has no watcher
  before it begins, every step is, for each job, one of `JobRun` or none.
* **AgentRegistryProofs.** The invariant bounds the time since an agent was heard of by
  the requests it has missed, the time to its next tick and the request under way, as long
  as none hangs, and remembers that a request of the agent has hung otherwise; an entry's age
  by that time; and for a dead agent the age of its entry from below by the
  time since its death and the latency of its last request.
* **RedisPubSubProofs.** The messages of a user that are on the way, in the channel and
  taken are at most those sent, which are at most `Total`: the channel has room.  A
  subscriber that has counted a late message is not in `Receive` again.  The gauges equal
  the numbers of users in the states between their increments and decrements; a step moves
  one user, and with it the gauge.
* **MCBroadcastProofs**, for both broadcasts at once.  The gauges, as above.  A message of
  a user that the hub has relayed is on its way, held by the reader, in `recvChan` or
  taken, once, so that the channel has room whether or not anybody receives.  As long as
  the hub commits no breach a connection gets one init message, on the way or received, and
  nothing malformed, however many acknowledgements and other messages the hub sends; what is
  left to end the process is a negative duration.
* **MCReusedSessionsProofs**, for four sessions with a `Setup` beside their calls.
  The gauge is the calls under way less those the last reset has found.  In `http-get`
  what has been measured and not completed is the calls between the two, in
  `kafka:producer` the bytes written are at least the size of a payload times the payloads
  of the calls that succeeded and of those under way, the messages of which are a finite
  set of pairs of a call and a number; the products are handled by a lemma on numbers.  `Setup` of `http-get` goes through stages, each of which has the transport
  set up to there.  In RabbitMQ and Pulsar what a call has published is ready or received.
  In the pool a connection whose channels are used up has been found full, and a call that
  is about to dial holds the lock and has found every open connection full: others may look
  and release meanwhile, but none may dial.  `FirstOpen`, a search in a sequence, returns
  the first connection with room (the least element of a set of numbers).

Only model-checked: the liveness properties (`RunEnds`, `CallsReturn`, `RunReturnsEventually`,
`JobIsCleared`, `ExecuteReturns`, `SessionEnds`, `EveryCallReturns`) and the fairness in
`RefinesJobRun`, whose safety part is the theorem `ImplementsJobRun`: fairness and `ENABLED`
are beyond this prover.  `TypeOK` is a theorem for `AgentRun`, `SessionUsers`, `Master`,
`Service`, `AgentRegistry`, `RedisPubSub` and the broadcasts; for the other sessions the
proofs carry the types they use.

## 5. What is not modelled

* Two jobs that overlap on one agent as a whole: the sessions are checked with a `Setup`
  beside running calls, but `AgentRun` and `Master` are one job each.
* The parsing of durations (`base/job.go`); the names and kinds of counters; system counters.
* In `http-get` the headers of a proxied request, how `net/http` reuses connections and what
  a QUIC connection passes on to its stream; the counters of `rabbitmq:massive_queue`.
* Sizes that exhaust memory (`messageSize`, `broadcastDurationSecs`, `quicMaxConnections` at
  `quic.go:50`): `make` panics for those as for the negative ones.
* A hub that relays a message more than once: `recvChan` has room for each message once.
* File, InfluxDB and aggregated writers, the page, the flags and the CLI's sequence of
  calls, the table of sessions and its helpers: output, parsing and constants.
* A call over `net/rpc` that hangs on a healthy connection.  It is allowed by the safety
  specifications (a step that is not taken) and excluded by the fairness of the liveness
  ones.

## 6. Plan

Done, in this order: the agent's run and its shares; the master and its abstract
specification; the service; the registry; all sessions; negative users, requests that hang,
and `Setup` beside running calls; the proofs of all safety properties.  Next:

1. The full type invariants of the echo sessions and of the reused sessions as theorems.
2. A composition of two jobs on one agent from `AgentRun` and a session.
