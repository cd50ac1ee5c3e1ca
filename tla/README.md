# pushy in TLA+

pushy (`src/`) is a push server: clients register devices and send messages over an
HTTP/JSON API, pushy posts them to Apple (APNS) or Google (GCM) through the `push_service`
library, and keeps everything that must survive in one Redis. Several pushy processes may
run over the same Redis behind a load balancer; they talk to each other only through it.
A message the provider refuses is put into a *failed set* in Redis and any node may take it
out and post it again, until it is delivered or has been tried often enough.

This directory holds the formal development: what the program does as TLA+ modules, small
instances that TLC checks exhaustively, and theorems that TLAPS checks for all instances.

## 1. Inventory

### Components, their state and their operations

| Component | Source | State | Operations |
|---|---|---|---|
| message store | `src/src/database.cpp` (messages) | Redis: `message.<uuid>` (payload, type, device, timestamp, tag, reason, attempts), sets `failed_messages.apns`, `failed_messages.gcm` | `write_push`, `get_message`, `get_message_payload`, `get_failed_messages`, `mark_push_record_failed`, `remove_from_failed_messages`, `drop_push_record` |
| push and redelivery service | `src/src/pushy_service.cpp` | per process: `apns_identifier_`, `gcm_identifier_` (atomics), `apns_cache_`, `gcm_cache_` (`std::map` from identifier to uuid, no lock), the redelivery timer, `redeliver_`, `redeliver_attempts_`, `deregister_` | `push`, `redeliver` (API workers), `on_apns`, `on_gcm`, `on_apns_feed`, `on_check_redelivery` (main thread) |
| device registry | `src/src/database.cpp` (devices), `on_apns_feed` | Redis: `device.<uuid>` (type, token, death_time), `device_token.<token>`, set `dead_devices` | `register_device`, `drop_device`, `mark_device_dead`, `get_dead_devices`, `get_device_type`, `get_apns_device`, `get_gcm_device`, `find_device_by_token64` |
| JSON API | `src/src/api_service.cpp` | number of workers (`uint8_t`), the handler shared by the workers | `/send`, `/redeliver`, `/device/register/*`, `/device/remove`, `/list*`, `/leavers` |
| logging | `src/src/logging.cpp` | sinks | `logstash_msg` (reads the message from Redis), `logstash_dev`, `logstash` |
| base64 | `src/src/base64.hpp` | none | `encode`, `decode` |
| HTTP server | `src/lib/cpp-netlib-0.11.0-final/boost/network/protocol/http/server/sync_server.hpp`, `sync_connection.hpp`, `../impl/request_parser.ipp` | acceptor, `listening_`, one `io_service` queue; per connection: request, parser, bytes still to read | `listen`, `run`, `stop`; `handle_accept`, `handle_read_headers`, `handle_read_body_contents`, `handle_write`; `parse_headers` |
| JSON library | `src/lib/json_spirit` | reader: value under construction, current array or object, stack, name | `read`, `write`, escapes of strings |
| startup | `src/src/main.cpp` | options | reads options, sets up providers, starts workers, `io_.run()`, catches what leaves it |
| Redis client | `src/lib/redis3m` | a pool of connections, hiredis contexts | `run`, `get`, `put`, `script_exec::exec` |
| provider library | `src/lib/push_service` (empty submodule) | posts not answered, feedback channel | `post`, callbacks |

The repository has no tests.

### How they interact

* An API worker calls `push()` or `redeliver()` directly; both send a handful of Redis
  commands, take an identifier from an atomic counter, write `identifier -> uuid` into a map
  and hand the message to the provider library.
* The library calls `on_apns(err, ident)` / `on_gcm(err, ident)` on the thread that runs
  `io_.run()`, the main thread. The handler looks the uuid up in the map and then either
  drops the record or marks it failed.
* `on_check_redelivery` runs on the main thread too, every 5 seconds after the previous one
  has returned; it lists a failed set and calls `redeliver()` for each element.
* The API workers are the threads of cpp-netlib's synchronous server: each calls
  `io_service::run` on the same queue and runs whatever completion handler is next. One that
  completes a request calls `api_service::handler::operator()` and is busy until that returns;
  the handler reads its input with json_spirit, then calls `dba` or the service. A connection
  carries one request.
* Device tokens of APNS go through `base64` on their way into Redis and out of it.
* Nodes share nothing but Redis. One Redis command is atomic; nothing longer is: the program
  uses no MULTI. The answer of `SREM` (1 or 0) is the only arbiter between nodes.
* An exception in an API worker becomes an error answer. An exception on the main thread
  leaves `io_.run()`; `main` logs it and returns: the node is gone, with its counters, maps
  and unanswered posts. Nothing restarts it in the program.

### What is hard

1. *Interleavings of nodes.* Two timers, a timer and a client's `/redeliver`, or a
   give-up and a timer, work on the same message; every `dba` function is several commands.
2. *Things read before and used after.* The failed set is listed first and its elements are
   looked up one by one; `remove_from_failed_messages` reads the type before it removes.
3. *Order of writes.* `mark_push_record_failed` publishes the message (SADD) before it counts
   the failure (HINCRBY) and before the caller has logged it.
4. *Deaths.* A process can die between any two commands; a Redis failure surfaces as an
   exception there.
5. *Data races.* The two maps are written by every worker and by the timer and read by the
   callbacks without a lock; the authors ask in a comment whether that is safe.
6. *Numbers.* Identifiers are `int32_t` on a counter that starts at 0 with every process,
   the attempt limit is compared with `<=`, `api.workers` is narrowed to `uint8_t`, what is
   left to read of a body is a `size_t` that may be lowered below zero.
7. *Cuts.* A request arrives in pieces that end anywhere; a piece may hold the end of the
   head and some, all, or more than all of the body.
8. *Part of a request.* A list is checked entry by entry and carried out call by call; an
   entry may be invalid and a call may throw anywhere in it.
9. *Stopping.* `stop()` returns while handlers run, and nobody waits for them.

### What makes each component correct

* Message store and service: a message is never worked on twice; whoever works on one finds
  its record; a failed set lists live messages of its provider only; a callback settles the
  message that was posted; a message is never forgotten but by a death; it is tried up to
  the limit and not given up on before; every message is finally delivered or given up on.
* Device registry: a push goes to the token of its own device; a device that unsubscribed is
  removed (or listed as dead); `/device/remove` removes all it names before it answers;
  `/leavers` fails on nothing but a device without a time.
* API: the right function runs; it does nothing before its input is valid; success means all
  of what was asked.
* HTTP server: the handler runs for exactly the request that was sent, on one thread, and its
  client is answered once; every complete request is answered.
* JSON library and base64: what is written is read again, whatever follows it; base64 is the
  standard's; what is no JSON value is refused.
* Redis client: a command is run at most once per call; that a call may throw is part of
  everything above.

## 2. Modules

| Module | What it is |
|---|---|
| `MessageStore` | the message keys of Redis; one operator per command |
| `PushyService` | a cluster of nodes over it: every step of every thread, crashes, restarts, Redis failures, map races; the properties |
| `PushLedger` | what a message may go through, as an abstract specification of five stages |
| `MCPushyService` | values for the constants of `PushyService` |
| `PushyOwnershipProofs` | type correctness and the ownership invariant of `PushyService`, and what follows |
| `DeviceRegistry` | the device keys of Redis, command by command, and everyone who works on them |
| `MCDeviceRegistry` | values for the constants of `DeviceRegistry` |
| `DeviceRegistryProofs` | the inductive invariant of `DeviceRegistry` and its consequences |
| `RequestParser` | the automaton that reads the head of an HTTP request |
| `JsonSpirit` | reading and writing JSON: grammar, semantic actions, generator, escapes |
| `ApiHandler` | `operator()` of the API: choice of the function, checks, calls |
| `HttpServer` | threads, connections and reads of the server, composed with the three above; the properties |
| `MCHttpServer` | values for the constants of `HttpServer`: the requests clients send |
| `HttpServerProofs` | the inductive invariant of a request and its consequences |
| `HttpParsingProofs` | the handler of a request gets what its client sent, however it is cut |
| `Base64` | `encode` and `decode` |
| `Codecs` | base64, JSON strings and JSON values, written and read again |
| `MCCodecs` | values for the constants of `Codecs` |
| `CodecsProofs` | base64, the characters of JSON strings and JSON values, for texts of any length |
| `SequenceFacts` | induction, and the pieces of a sequence, for the proofs about texts |
| `PushyLedgerProofs` | the cluster implements the ledger; what is forgotten is forgotten by a death |
| `PushyDeliveryProofs` | attempts are counted once; a node that has Redis to itself; the limit |

`HttpServer` leaves open whether a call of the API returns or throws; `PushyService` and
`DeviceRegistry` say what happens in it, begin with the call and let any number of workers
make calls at any time. These two stand side by side: they share no key of Redis but the record of a
message, of which the registry only needs the device (`messaged`), and the service only needs
that a push begins for a device that exists (`StartPush`).

### MessageStore and the code

`type[m]` is the field `type` of `message.<m>`; it is written by the same HMSET as device,
payload, timestamp and tag, so one value says whether they are all there. `attempts[m]` is
the field HINCRBY counts in; 0 means absent. HINCRBY creates a hash that is gone, with this
one field: the model keeps that. `failed[p]` is `failed_messages.<p>`. `issued` are the uuids
`random_generator` has handed out (it never repeats one).

### PushyService and the code

A thread is `<<node, "main">>` or `<<node, worker>>`. `pc[t]` is where it is in the handler
it runs, `cur[t]`, `prov[t]`, `slot[t]`, `todo[t]`, `unread[t]` are that handler's local
variables. A step is one Redis command, one access to a counter or to a map, or one hand-over
to the library; reads whose answers are only data (payload, token) go with the step after them.

* `push()`: `StartPush`, then for APNS `PushWrite`, `TakeIdent`, `CacheInsert`, `Post`; for
  GCM the identifier is taken before the record is written, as in the code.
* `redeliver()`: `CheckFailed` (HGET type; an exception without a record), `TakeFailed`
  (SREM; who gets 0 leaves the message alone), `TakeIdent`, `CacheInsert`, `Post`.
  From a client (`StartRedeliver`, `NextRequested`) or from the timer (`TimerFires`,
  `ListFailed`, `ReadListed`, `NextListed`), which does APNS first and GCM afterwards.
* `on_apns`, `on_gcm`: `Delivered` or `Refused` (lookup in the map), `UnknownIdent` (the
  exception "should never happen"); `LogSettled`, `Drop` for a success; `MarkRead`,
  `MarkFailed`, `CountFailure` for an error, then `GiveUpCheck`, `GiveUp`, `LogSettled`, `Drop` when the limit is
  reached, `LogFailure` when not.
* An exception is `Throw`: an API worker becomes idle, the main thread unwinds and `NodeExit`
  ends the process; its API workers may run on until then. `Crash` ends it at any point.
* `RedisFails` throws at any point where a command is pending, whether that command has been
  run or not (a command that was run and whose answer got lost is the step, then the failure).
* `PostUnconfigured`: `redeliver()` called by a client on a node that has no `apns_`: a null
  pointer, the process ends.
* `CacheInsert` and `UnknownIdent` under `MapRaces`: two threads in one `std::map` are
  undefined behaviour; the model lets an insertion get lost, a lookup miss, or the process crash.
  That it never makes a lookup find another message is an assumption, and `CallbackMatches` and
  its theorem hold under it.

The provider library answers a post at most once, in any order, on the main thread of the node
that posted it.

### DeviceRegistry and the code

`token[d]` is the field `token` of `device.<d>` (the field `type` is written and deleted with
it), `death` says which hashes have `death_time`, `mapping[k]` is the value of
`device_token.<k>`, `dead` is `dead_devices`. `registered`, `asked` and `undated` are
histories: the token a uuid was handed out for, the devices of a running `/device/remove`, and
the uuids whose hash was dropped, or whose marking broke off before HSET, since they were last
put into `dead_devices`. Threads are API workers of any node (`Workers`) and main threads
(`Feeds`).

* `register_device`: `Register` (HMSET under a new uuid), `RegisterMapping` (SET). The value
  set is the base64 text of the token, as in the code.
* `drop_device`: `DropReadToken` (HGET), `DropMapping` and `DropDevice` (the two scripts).
  `/device/remove` (`StartRemove`) goes through its uuids and answers after the last.
* `on_apns_feed`: `Report`, `FindDevice` (GET and `string_generator`), then the drop or
  `MarkDead` (SADD) and `MarkDeathTime` (HSET). After a drop the code logs with the macro for
  messages: with an APNS log the main thread gets an exception there (`DropDevice`).
* `/leavers`: `StartLeavers` (SMEMBERS), `ReadLeaver` (HGET of each; no time is an exception).
* `push()`: `StartSend` (EXISTS), `SendType` (HGET type), `SendToken` (HGET token),
  `SendPost`. `redeliver()` starts at `SendToken` (`StartRedelivery`): it asks nobody whether
  the device is still there.
* `Fails` ends a handler before any of its commands.

`UuidTexts` are the base64 texts whose start reads as a uuid. They are rare, but only through
them does a feedback get past `FindDevice`; `Stranger` is the uuid it then works on.

### PushLedger

A message is `new`, then `owned`, then alternates between `owned` and `failed`, and ends as
`done`, or as `lost` when nobody works on it any more and no failed set has it. `Stage` in
`PushyService` maps the state of the cluster to it, and the run `cluster` checks that every
step of the cluster is a step of the ledger or leaves it alone.

### HttpServer, RequestParser, ApiHandler and the code

`thread[w]` is what a worker does: `start` (before `listen()`), `run` (waiting in
`io_service::run`), a connection whose handler it runs, or `end`. `conn[c]` is the completion
handler a connection waits for. `parser[c]`, `body[c]`, `left[c]` are the fields of
`sync_connection`, `sent[c]`, `taken[c]`, `away[c]` the client and the network, `answers[c]`
the history of responses. `step[c]`, `api[c]`, `at[c]`, `targets[c]`, `made[c]`, `answer[c]`
are where `operator()` is.

* A client sends a request that is well formed (`IsRequest`): a method, a destination, headers
  whose values may be folded over lines, and a body. `Meant` is the parser's fields for it.
* A text is a sequence of *tokens* (`Characters`): a character the code treats by itself (digits, blanks,
  line ends, the letters of `HTTP`, JSON punctuators), or a run of characters treated alike (a
  header name, a segment of a URI, a JSON string). A read delivers any number of tokens that
  have been sent, up to the size of the buffer; the length of a body is counted in tokens.
* `Accept`, `HandleReadHeaders`, `HandleReadBody`, `HandleWrite` are the completion handlers,
  `ReadFails` their error paths, `EndpointThrows` the exception of `remote_endpoint()`, which
  nothing on a worker thread catches. `HeadComplete` has the branches after the head: no
  usable length (400), body still to come, body complete, no body. Methods that begin with
  `P` have a body, as in the code.
* `Minus` is subtraction modulo `Sizes`, the number of values of `size_t`: a body longer than
  declared makes the rest to read wrap, and the connection waits. `Number` and `IsNumber` are
  `lexical_cast<size_t>`, which takes a sign.
* `Handle` calls `operator()`: `Dispatch` (URI prefixes in the order of the code, then the type
  of the input), `ParseEntry` for each entry, `StartCalls`, `Call` or `CallThrows` for each
  call, `Succeed`; `Answer` is its return. `/send` without a `uuid` leaves `dev_uuid`
  uninitialised: `StartCalls` takes any.
* `Listen` is `listen()` on each worker, the first of which opens the acceptor; `Stop`,
  `RunReturns` and `Exit` are `~api_service` and the end of `main`, which joins nobody.
* `Workers` is `1 .. ApiWorkers % 256`: the option is stored in a `uint8_t`.
* `RequestParser` follows the `switch` of `consume()`, state by state, under its names.

### JsonSpirit, Base64, Codecs and the code

`JsonSpirit` is the reader as the grammar and its semantic actions leave it: `expect` is where
the grammar is, `current`, `stack` and `name` are `current_p_`, `stack_`, `name_`. A value is
the sequence of its nodes, each with the node that holds it; `AddToCurrent`, `BeginCompound`,
`EndCompound` are the actions of those names. `WriteText` is the generator without layout,
`AddEscChars` and `SubstituteEscChars` the two directions of escapes, on character codes.

`Base64` treats bytes and characters as numbers, group by group as the loops do; `Find` of a
character outside the alphabet is `npos` narrowed to a byte.

`Codecs` writes something with one of the three, puts something after it, as a request or
Redis may, and reads it again; or it reads a text nobody wrote. What a value is does not come
from the reader or the generator: `IsValue` says of a sequence of nodes that the first is held
by none, every other by an earlier object or array that still goes on there, with a name if that
is an object. `Texts` are such values with what the generator writes for them.

## 3. Runs

Every pass run is exhaustive within its bounds.

| Run | Instance | What it shows |
|---|---|---|
| `cluster` | 2 nodes, one with both providers and one with GCM only, 1 worker each, 1 message, logs on, manual and timed redelivery, limit 2, 2 faults | single owner, owner finds the record, live failed sets, the ledger, what is forgotten is forgotten by a death (also by the null provider of the node without APNS), no early give-up; the inductive invariant of the count |
| `racing_workers` | 1 node with GCM only, 2 workers, 2 messages, clients and the timer redeliver, map races | a lookup in a map that is written at the same time may fail but never yields another message, given what a race can do (`MapRaces`, section 2); the inductive invariant of the proofs |
| `one_node` | 1 node, 2 workers, 2 messages, clients redeliver at will, no fault | alone with Redis a node never dies of an exception and forgets nothing; the inductive invariant of that |
| `one_node_fair` | 1 node, 1 worker, 2 messages, timer only, fairness | at most `auto.attempts` posts, and the inductive invariant of that; every message is settled |
| `device_registry` | 2 API workers, a main thread that marks, 2 devices, 2 tokens, 1 fault | the inductive invariant of the proofs, while two removals, or a removal inside a push, run at once; pushes go to the own token or, after a removal, to none; `/device/remove` is complete when it answers; `/leavers` fails only on a device whose time is being written, or was lost and not reported again |
| `http_server` | 2 workers, 2 connections: one sends any of 25 requests, one of them also damaged at any place of its head, the other no more than the first token of its request, and may go away; buffer of 6 tokens, 64 sizes | the handler gets what was sent or does not run, runs on one thread, answers once and does all it says; everyone is answered; the inductive invariants of the proofs |
| `codecs` | texts of up to 4 bytes and 3 characters, values of up to 4 nodes, all texts of up to 5 tokens | what is written is read again; base64 is the standard's; nothing but values is accepted |
| `taken_by_another_node` | 2 nodes | *violation*: a message taken and finished elsewhere ends the timer's process |
| `beyond_the_limit` | 2 nodes | *violation*: more posts than `auto.attempts` |
| `removed_completely` | 2 nodes | *violation*: HINCRBY brings a dropped record back |
| `unreachable_stays` | 1 worker, 1 deregistering main thread, fairness | *violation*: the feedback for a registered device ends the node, and the device stays |
| `stop_waits` | as `http_server` | *violation*: `stop()` returns while a request is not finished: its handler runs, or its response is not written |

`MainNeverDies`, `NothingLost` and `EventuallySettled` are checked of one node alone. With
two they fail by the race of `taken_by_another_node`, and by its sibling in `LogFailure`: the
message was put into the failed set before the log line reads it, and may be finished by then.

Each violation is a disagreement between the code and one of its own comments or option
descriptions; PROJECT.json quotes them.

### Bounds, and why they are enough

`MaxTries` stops refusals of a message that was posted that often; it is above `Limit` in every
run, so that the give-up, one post more than the limit and the delivery after it happen.
`MaxIdent` bounds identifiers of one node; every message takes one per post, and the bound
lets each message be posted as often as `MaxTries` allows, and again after a restart.
`MaxFaults` bounds crashes and Redis failures together. Two nodes are all an interleaving of
two handlers of one message needs, and the properties speak of at most two threads, posts or
sets at a time; the theorems then hold for any number. One message suffices where messages do
not interact; where they share identifiers and maps there are two. Symmetry is used on
messages and, in configurations that treat nodes alike, nodes, and in safety runs only.

In the registry two devices are enough for a token to go to the wrong one and for a removal
of several; two workers and a main thread let one request list or push while another removes
and the feedback marks the same uuid. That node marks; the drop that follows a feedback on a
node with auto.deregister, and several main threads at once, are left to the theorems, which
hold for any number and any kind of either.
Registrations are bounded by `Devices`, faults by `MaxFaults`; removals, sends,
redeliveries and feedback are not bounded.

In the server the second connection is accepted, read and closed next to the first, by the
other worker, but never sends a whole request (`MaxBegun`): TLC does not see two requests
handled at once. Connections share only the workers and the acceptor, and the invariants of
the proofs hold for any number of connections that send whatever they like.

The 25 requests reach every function and every refusal: bodies shorter, longer and as long as
declared, no, two-digit, negative and unreadable lengths, folded headers, wrong entries at
every place. Of the spellings of Content-Length, which the code compares in lower case, two are
used. A buffer of 6 tokens is smaller than every head and holds each short body, so a head is
always cut, and head and body may or may not share a read. `Sizes` is above all lengths that
are sent, as 2^64 is, so a wrapped length is never reached. `MaxBegun` is what a client sends
before it goes away; all its later tokens take the same way.

In `codecs` four bytes are one whole group and each shorter one; three characters let an escape
stand before, after and inside what looks like one; values of four nodes close several levels
at once, and five tokens hold all ways of closing, separating and ending a value of two
levels. `MaxNodes` is what fits into `MaxTokens` tokens.

### Fairness

`FairSpec` asks for weak fairness of each started handler (the operating system schedules its
thread), strong fairness of the timer and of the answer to each message's post. The main
thread takes both from the queue of `io_service` in the order they became ready, so one is
not passed over for ever by the other, although each is disabled now and then while the main
thread is busy. That the library answers every post is an assumption about it. Nothing makes
a client call, an operator restart a node, or a fault happen.

`FairSpec` of `HttpServer`: each worker's thread runs, and calls of the API return or throw
(`WorkerStep`); what is ready for a connection is done by some worker in the end, since
`io_service` keeps a queue (`Completion`); what a client has sent arrives. `EveryoneAnswered`
therefore excludes clients that send less than they declare, or more: the first wait by
protocol, the second because of the wrap. Nobody need connect, go away or stop the server.
`FairSpec` of `DeviceRegistry` asks that started handlers go on.

## 4. Proofs

Assumption, where no other is named: `PushyAssumption` (the constants have the shapes their declarations say; `NoMsg`
is no message). It holds for any number of nodes, workers and messages, any configuration of
providers and logs, any limit, any `MapRaces`, and any bound on faults, tries and identifiers.

* `PushyOwnershipProofs`. `TypeCorrect`: `Spec => []TypeOK`. Effects of jumping, leaving a
  handler and halting a node are lemmas; each action then has one step per module part.
  `OwnershipInvariant`: `Spec => []OwnershipInv`, and from it
  `SingleOwnerHolds`, `OwnerFindsRecordHolds`, `FailedIsLiveHolds`, `CallbackMatchesHolds`.

`SingleOwner` alone is not inductive. When a callback starts, it owns the message its *map*
names: that this is the message whose post was answered needs `CacheHolds`, which needs that
identifiers in use on one node for one provider are distinct and below the counter
(`SlotsDistinct`). When a message is marked failed, that it goes to the set its record names
and to no second one needs that the provider the thread works for is the record's
(`ProviderAgrees`), and that a fresh uuid is unknown to all others needs `IssuedFirst` and
`Resting`. `FailedIsLive` and `OwnerFindsRecord` support each other: a message taken from a
set has a record because the set is live; the set stays live because a record is only dropped
by the owner of its message, and an owned message is in no set.

The proof separates *calm* steps, which neither take nor give away a message or an
identifier, from the eight kinds that do (`StepCases`), and treats identifiers and cells
(`SlotsNext`, `CacheNext`), links (`LinksNext`) and owners (`OwnersNext`) apart.

* `DeviceRegistryProofs`. `RegistryInvariant`: `Spec => []RegistryInv`, and from it
  `RegistryTypes`, `OwnTokenHolds`, `RemoveIsComplete`, `LeaversFailOnUndated`, under
  `RegistryAssumption` alone: any devices, tokens, threads, feedback and failures.

`OwnTokenOnly` becomes inductive with `TokenKept` (a device has its own token or none) and
`SendsToRegistered` (who is about to read a token has a registered device in hand, also when
the device comes from an old message). `RemovedWhenAnswered` needs `RemovalProgress`: each
device asked for is removed, in hand or still on the list; and `DeadAreStrangers`, since a
client may ask for the removal of what `/leavers` has listed. Every step has one of three
effects on the devices (`Effects`): none, a new one, or one less. `LeaversListed` needs
`LeaversDated`: each member of `dead_devices` has its time, is in the hands of a thread between
SADD and HSET, or is in `undated`; and what `/leavers` still goes through, read from an earlier
`dead_devices`, is in the present one, since nothing is ever taken out of it.

* `PushyLedgerProofs`. `ClusterImplementsLedger`: `Spec => ImplementsLedger`, every behaviour
  of the cluster is one of `PushLedger` under `Stage`. `OnlyDeathLosesHolds`:
  `Spec => OnlyDeathLoses`.

A message is `new` exactly while it is not issued (`IssuedFirst`, part of `OwnershipInv`).
Most steps keep the records and the failed sets and can only take owners away: `Lose(S)` of the
ledger for the messages left without one. The others are one message each: the write of the
record accepts it, the drop settles it, SADD parks it, SREM claims it. For `OnlyDeathLoses` it
must be shown that each handler that owns a message hands it on to its post, its set or its end
(`HandsOn`), and that only a running process has a thread in a handler (`Running`): a halt
without a death has nothing to lose.

* `HttpServerProofs`. `RequestsKept`: `Spec => []RequestInv`, and from it `OneAnswer`,
  `InvalidInputDoesNothing`, `SuccessIsComplete`, `RightFunction`, under the assumptions on
  the constants: any clients, texts, number of workers, size of the buffer.

`SuccessMeansAll` speaks of the end of a request. `HandlerProgress` carries it there: what the
entries parsed so far ask for is what the targets are, no call is made before all entries are
parsed, and body and parser change only before the handler starts. Two workers never handle one
request (`OneThread`), or each could make calls the other does not count. What the parser and
the JSON reader compute from a text is left open in this proof: it holds for whatever they say.

* `PushyDeliveryProofs`, on top of the ownership invariant. `CountInvariant`:
  `Spec => []CountInv`, and from it `NotGivenUpEarlyHolds`, for every cluster. The attempts
  in Redis, the callbacks of all nodes that still have to add one, and the post that may yet be
  refused come to at most the times the message was posted (`CountedOnce`); so whoever has read
  a count at the limit works on a message posted that often (`ReachedLimit`).
  `AloneInvariant`, `MainNeverDiesHolds`, `NothingLostHolds`: under `ByItself`, one node whose
  maps are not torn and that no fault meets, with any number of workers, messages and clients'
  redeliveries. These are false of clusters in general (`taken_by_another_node`). Whoever
  handles a message of a node by itself finds the record, the type and the answer the code
  expects, because the only other thread that could have removed it is the same main thread;
  `AloneInv` says what is there for each place in a handler, and that a
  listed message has its count or gets it from the main thread before the timer can list it.
  `LimitInvariant`, `TriesWithinLimitHolds`: `ByItself`, clients do not redeliver, and the limit
  is not 0 (with 0 a message is still posted once). What may be posted again has all its posts
  counted, and a count below the limit (`InLimit`); between SADD and the SREM of the give-up no
  one else takes a message, since the timer runs on the thread of the callback.

* `HttpParsingProofs`. `ReadsKept`: `Spec => []ReadInv`, and from it `RequestArrives`
  (`HandlerGetsRequest`) and `ServerTypesKept` (`TypeOK`). On top of the assumptions of
  `HttpServerProofs`, each text is that of a well-formed request (`RequestsAssumption`: any
  length, any headers and foldings, a body shorter than `Sizes`), cut off anywhere or damaged by
  a control character in its head, and no word is a control character or a separator
  (`TokensAssumption`).

The automaton reads the head of a request piece by piece: method, destination, version, each
header with its lines, the empty line (`ReadsHead`); each lemma says in which state it leaves the
parser and what it has stored. So where the parser is after each token is a function of the
text alone (`Reading`), and a read of any size takes it from one such place to a later one
(`CutsDoNotMatter`). `ReadProgress` then says of each connection that its parser is where this
function says, that its body is the part of the text after the head, and that `left` is the
declared length less that part, modulo `Sizes`. The texts are of any length: the recursive
functions of the model are handled with induction over sets of naturals (`Induction` of
`SequenceFacts`, from the least element of a set), which takes no operator as a parameter.

* `CodecsProofs`. `SixBitsWritten` (`WritesSixBits`) and `TextsReadBack` (`TextsComeBack`), for
  texts of bytes of any length; `ValuesReadBack` (`ValuesComeBack`), for values of any depth and
  any names; `OnlyValuesAccepted` (`AcceptsValues`), for texts of any tokens up to any
  `MaxTokens`. `TextsAssumption`: what follows base64 in a text does not begin with a character
  of its alphabet, as a line end or nothing does not; what is written as a value is one.
  `StringsAssumption`: a string, quotes included, is no punctuator, literal or white space, nor
  the mark of a value without a name. `BoundsAssumption`: `MaxNodes` has room for every node of
  a text of `MaxTokens`, so that the reference is not cut short before the texts are.

For base64, `GroupIsPadded` and `GroupRoundTrip` are one round of each loop. `GroupsMakeText` says
where each group is in the text, so a character of it is one of a known group; `decode` stops at the padding or at what follows, which leaves exactly the characters of the groups
(`WherePaddingStarts`), and cuts the same groups again (`TextRoundTrip`). The bits of three bytes
are those of four characters (`SixBitsOfGroup`). For a JSON string, a character is written in one
of three ways, itself, a pair or a code, none of which shows a quote where the grammar looks
for the end (`PastCharacter`) and each of which is substituted by the character
(`CharacterBack`); `Places` says where each is, and from the first place of the text to the last this gives `StringRoundTrip`.
`EndOfString` and `SubstituteEscChars` are functions defined from the end of a text backwards,
and `Backwards` shows that there are such functions.

A JSON value is read back by induction from its last node to its first (`ValueBack`): from
wherever the text of a node may start, the reader takes all of it, and is then where the next
node, a comma or a closing bracket may follow, with the nodes up to the end of this one
(`ReadsBack`). A leaf is one token; for an object or array (`NodeBack`) the nodes that it holds
follow each other (`WholeOfHeld`) and are taken one by one (`HeldBack`), and the closing bracket
restores the compound around it from `stack_`. `ValueRoundTrip` adds whatever follows: the reader
is done and looks at nothing more.

That nothing else is accepted needs the other direction. What a reader has is a value as far as
it goes (`Sound`): each node is held by an earlier compound that goes on, and `stack_` with
`current_p_` are compounds around the last node, from the outermost on (`Around`). Every
node but the first has cost it two tokens, less one for each inner compound still open (`Sized`): a
text of few tokens makes few nodes. And where it ends tells how it came there: a reader on its
way to a value `V` (`Foresees`) can only have taken the one token that `V` calls for at that
place (`Tells`), by induction from the end of the text backwards (`ForeseesAllTheWay`). Two texts
that end in one value are therefore the same token by token (`OneText`), and one of them is what
the generator writes for it (`OnlyValuesRead`).

What is only model-checked is liveness (`EventuallySettled`, `EveryoneAnswered`), as fairness and
ENABLED are beyond the prover, and what the runs with a *violation* show. Every other property of
a run is a theorem.

## 5. Not modelled

* *Redis client.* Only its effect is: a command is run once, or throws before or after it has
  been run. `dba` never puts a connection back, so `simple_pool` is always empty and `get()`
  always connects; EVALSHA, its NOSCRIPT answer and EVAL have one effect between them. An error
  *reply* of Redis (out of memory, read-only, loading) is looked at by nobody in `src/`; the
  models assume that Redis runs a command when it answers.
* *Identifiers.* They repeat after 2^32 posts of one process, which no bound here reaches.
* *Startup.* `main` reads options and builds, in one thread, what the models have as constants.
* *Logging.* Formats, severities and sinks; that a log line reads the message is modelled.
* *HTTP.* The response text, `Expect: 100-continue` and keep-alive, which the synchronous
  server does not have, addresses and TLS. The asynchronous server, the thread pool, the client,
  the MIME library and the examples of cpp-netlib (with their copies of rapidjson and rapidxml)
  are most of the code under `src/lib` and no part of the program.
* *JSON.* The digits of numbers, comments as anything but white space, pretty printing, and
  wide characters. CMake defines `BOOST_SPIRIT_THREADSAFE`, so the grammar is safe on several
  threads at once.
* *Providers.* `push_service` is a submodule and not in the repository; it is modelled as the
  environment, from how `pushy_service.cpp` uses it.
