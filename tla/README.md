# Verification of Tech-Notes-and-Projects

The repository is a collection of small network programs and notes. This
directory holds TLA+ models of the programs that keep state and meet
concurrency or failure, the TLC configurations that check them on small
instances, and TLAPS proofs of what matters most about each of them.

Paths below are relative to `src/`; `C/` stands for `cpp-microservice/`.

## The system

| part | state | operations | what is hard |
|---|---|---|---|
| `C/mysql_microservice_modular`: connection pool (`MySQLPool`) | queue of connections, mutex, condition variable, one local `unique_ptr` per handler | `acquire`, `release`, destruction of the pointer by an exception | interleaving of worker threads, lost wakeups, connections that vanish with an exception |
| the same: routes of the user service | MySQL table `users`, one request per worker | `/admin/init`, `/users` create, get, list, update, delete | several steps per request on one connection, connections MySQL drops, lost replies |
| `C/cpp-redis-mysql-ms`: key-value service | MySQL tables, Redis entries with a ttl, the Redis context | `/set`, `/get`, `/update`, `/del`, `/table/create`, reconnect, restart | two stores written one after the other, failures and crashes in between |
| `C/cpp_chat_room`: chat server | `clients_`, input buffers, epoll batch | accept, recv, line parsing, broadcast, disconnect | events that are stale when served, reuse of descriptors, references into a map that is erased from, slow or vanished peers |
| `C/cpp_chat_room`: chat client | socket, receiver thread | send, receive, destructor | `close` and `join` against a blocked `recv` |
| `RPC`: server and client | `handlers_`, one thread per connection, request ids | `register_method`, `handle_client`, `call` | threads next to each other, peers that vanish, errors that end the process |
| `RPC`: frames and payloads | none (bytes in transit) | encoders, decoders, `write_n`, `read_n`, `send_frame`, `recv_frame` | short writes and reads, boundaries of integers and lengths |
| `C/redis_microservice` | one `RedisClient` for all detached threads | HTTP to Redis commands | an unlocked socket shared by threads |
| `Agentic_RAG/agent_openai` | message history | tool-calling loop of at most six steps | arbitrary answers of a language model |
| `Agentic_RAG/rag_qwen_bge_compare` | vector store | chunking, indexing, retrieval | termination of the chunker, stale documents |

The parts do not call one another. Inside a part, the routes of the user
service share the pool; the key-value service talks to MySQL and Redis; the
threads of `redis_microservice` share one connection to Redis; chat clients and
the chat server exchange lines; RPC clients and the RPC server exchange frames,
whose bytes the wire carries. Left
out altogether: vendored libraries (`httplib.h`, `json.hpp`), build
directories, the CMake template, notes on Git and llama.cpp.

What makes each part correct:

- pool: a connection is never in two hands, none is lost, nobody sleeps while a
  connection is free;
- user service: a request answers about its own row, and every request is
  answered;
- key-value service: the cache is invisible while nothing fails, and after
  failures its staleness has a known cause and an end;
- chat: `clients_` agrees with the kernel, everyone hears the same, lines
  arrive whole and under the right name; a client that leaves gets out;
- `redis_microservice`: while requests do not use Redis at once, each is
  answered with the reply to its own command; every request is answered;
- RPC: a call is evaluated at most once and returns its own answer, frames
  arrive as they were sent.

## Modules

| module | models | abstract specification |
|---|---|---|
| `ConnPool` | `mysql_pool.cpp`, `acquire`/`release` | `ResourcePool` |
| `UserService` (extends `ConnPool`) | `handlers.cpp`, `sql_*` of `mysql_pool.cpp` | |
| `KVService` | `main.cpp`, `dao.hpp`, `redis_client.hpp` of cpp-redis-mysql-ms | `KVStore` |
| `ChatServer` | `ChatServer.cpp`, `net.hpp` | |
| `ChatRoom` (extends `ChatServer`) | `ChatClient.cpp`, `main.cpp` of the client | `ChatServer`, whose peers do as they like |
| `RedisShare` (extends `RedisData`) | `main.cpp`, `redis_client.hpp` of redis_microservice | `AtomicRedis` |
| `RpcCodec` | `protocol.cpp`, `frame.cpp`, `value.cpp` | |
| `RpcWire` (extends `RpcCodec`) | `net.cpp`: one direction of a connection | `FrameChannel` |
| `RpcSession` | `server.cpp`, `client.cpp`, `die` | `RpcCalls` |
| `MC*` | symmetry sets and inputs for TLC | |
| `*_proof` | theorems and proofs | |

Definitions named "Mutant of X" are variants of X with a plausible mistake;
nothing uses them in the models. They document which mistake each property
catches.

### ConnPool

A worker goes through `stage`: `idle`, `lock` (contending for `mu_`), `test`
(evaluating the predicate of `cv_.wait`), `take` (front and pop), `wait`,
`use`, `unlock`, `push`. `Block` gives up `mu_` and blocks in one step, as
`cv_.wait` does; `Push` pushes and notifies one waiter, if any;
`SpuriousWakeup` wakes one for nothing. A woken thread contends for `mu_` again
and may be overtaken. `Unwind` is an exception that leaves the handler: the
local `unique_ptr` closes the connection (`closed`). `~MySQLPool` runs after
`Server::listen` has joined the workers and has no action.

### UserService

Each worker takes a request (`Receive` is the call of `acquire`), executes the
statements of its route on its connection, and calls `release`. `POST /users`
has two steps, the INSERT and `mysql_insert_id`, as in the code. MySQL is
external: a statement is atomic, `email` is unique, AUTO_INCREMENT is consumed
by a failing INSERT too, a dropped connection fails every later statement, and
may also be lost after a statement took effect, and a healthy one may report an
error without one. Requests refused before
`acquire` and `/ping` change nothing and are left out.

### KVService

One thread serves one request at a time, so `pc` walks through the steps of the
route: `lookup`, `read`, `fill` for GET; `write`, `refresh` for set and update;
`erase`, `invalidate` for DELETE. Every step has a variant that fails. Redis
may stop (with or without its data), come back or drop the connection, and
entries may expire, between any two steps. A failing `reconnect` throws and ends
`main` (`RedisCallThrows`); `Start` is a restart. `from` and `dirty` are
history: the table a cached value came from, and the keys written in MySQL
since they were cached.

### ChatServer

`EpollWait` collects a batch of ready descriptors in any order; the head of
`batch` is being served. `OnAccept` accepts one connection at a time and
returns the lowest free descriptor. `Recv` takes all that has arrived, since
the code receives until EAGAIN; a stream is still cut anywhere, because more
may arrive before the next event. `ParseLine` handles one line and broadcasts.
Any send of a broadcast may fail because the line does not fit into the send
buffer (EAGAIN, an error to `send_all`), also one to a peer that is reading;
the receivers whose send failed are disconnected when all have been tried. The
client whose lines are being parsed may be one of them. The code then goes on
with a reference to a freed `Client`; what it reads there is undefined, and the
model has each outcome: one more line under some name that nobody has sent
(`ParseFreed`, with texts from `Junk`, logged under nobody), no further line
(`ParseEnds`), or the end of the process, then or later (`Stop`, which is also
a signal or an error of `epoll_wait`). SIGPIPE ends the server in the middle of
a broadcast (`Killed`). The characters of a line are atoms.

### ChatRoom

Every peer is a process of the repository's own client. `main` is where its main
thread is: sending (`out` is the rest of the line `send_all` has in hand),
waiting for the user, closing, joining. `ear` is its receiver thread. The peer
actions of `ChatServer` are taken by the client's code here (`Start` connects,
`SendPart` sends, `Release` closes), and the server is that of `ChatServer`
unchanged. `close` in the destructor neither wakes a `recv` in the other thread
nor ends the connection while that `recv` lasts, as on Linux, so `EarRecv` and
`EarEnds` may be what finally ends it. What the user types is `Typed`; printing
is left out but for the step between two `recv`s it takes.

### RedisShare

`stage[t]` is where the thread of a request is: waiting in `call_once` (`once`),
connecting, sending (`send`, and `rest` when `send_all` has sent a part),
looking for a reply in `buffer_` (`find`), blocked in `recv`, replying. `once` is
the state of the flag: an attempt that throws makes it `new` again, and the next
thread replaces `redis_`. The socket has four states, of which `closed` and
`reset` never end: nobody connects again. Nothing locks the client, so several
threads may be inside it; then replies go to whoever reads first, parts of
commands mix (`Garble`) and `buffer_` is a data race (`Race`). `mixed` remembers
that two threads have been inside at once, which is as far as any promise can
go. `RedisData` has the commands, their replies and what the routes make of
replies, with the cast of the ttl to `int`. `ParseThrows` is the exception
`std::stoul` throws outside the try block; `SendKills` and `ReplyKills` are
SIGPIPE. `timeout_ms` is stored by the code and never used, so no step times
out. `AtomicRedis` says what is left of a route when sockets and threads are
forgotten: its command runs once or not at all, in one step, and the answer is
that of the command or a failure.

### RpcCodec and RpcWire

The codec works on bytes with `Base` values (256 in the code): the number of
bytes of every field is that of the code, so a `uint32_t` has `Base^4` values,
and the arithmetic of `put_*` and `get_*` is the code's. An exception is the
empty set of results. `RpcWire` sends whole frames through `Write` and `Read`
steps of any size, with an end of the stream at any byte. `FrameChannel` is what
the callers of `send_frame` and `recv_frame` may rely on: frames come out
decoded, one by one and in order, never one that the end of its sender has cut
off, and the end is reported after the last whole frame. `RpcSession`, where
frames are atomic, takes its connections to be such channels.

### RpcSession

`thread[p]` is where `handle_client` is for the connection of peer `p`. Frames
are atomic and of four kinds: a request, a request whose payload does not parse
(answered with status 2), a frame of another type (skipped), and bytes that are
no frame (`recv_frame` throws outside of the try block, the process ends).
Clients make one call after another; `Others` send anything. `link` follows TCP
on Linux: leaving with an unread reply resets the connection; the first send to
a peer that has left still succeeds; after that, `recv` returns what is there
and then 0, and `send` fails. An error of `send` or `recv` is `die()`: it ends
the process, server or client. A failing `accept` is logged and changes
nothing.

## Runs

| run | checks | distinct states | what it shows |
|---|---|---|---|
| `pool` | 4 workers, 2 connections | 4 thousand | exclusive, conserved, no lost wakeup, refinement of `ResourcePool`, everyone served |
| `users` | 2 workers, 2 connections, 2 e-mails, 2 ids | 900 thousand | two inserts overlap, each answers its own id |
| `users_live` | 2 workers, 1 connection | 28 thousand | every request is answered, unless exceptions have closed every connection |
| `kv_faults` | 2 tables, 1 key, 2 values, every fault | 24 thousand | a stale entry comes from a write that Redis missed; staleness ends |
| `kv_transparent` | 1 table, 2 keys, no fault | 1 thousand | refinement of `KVStore` |
| `kv_stale` | 1 table, only SETEX fails | violation | a GET answers the overwritten value |
| `chat` | 3 peers, 2 descriptors, 2 lines and 1 character sent, 1 garbled line | 2 million | the map agrees with the kernel, one conversation, lines whole and attributed, nobody dropped but for its own full buffer |
| `chat_room` | 2 clients of two threads each, 2 empty lines | 400 thousand | who listens is in the room until its own send buffer is full, complete lines get through, leaving ends, the server forgets |
| `rpc_wire` | 2 of 4 messages, or one of some sixty changed frames | 180 thousand | frames are decoded to what was encoded, a request has one encoding, refinement of `FrameChannel` |
| `rpc` | 1 client, 1 other peer, 2 frames each | 48 thousand | refinement of `RpcCalls`, threads end |
| `rpc_exceptions` | the same, no connection ends | violation | one frame that does not parse ends the server |
| `redis` | 2 threads, 1 key, a password | 300 thousand | refinement of `AtomicRedis`, answers belong to their commands, `redis_` is not replaced in use, every request is answered |

The bounds, and why they are enough:

- `pool`: two connections and four workers let two waiters, an overtaking
  newcomer and a releasing worker meet; a third connection adds no new kind of
  step.
- `users`: two workers are the least that can interleave two INSERTs; two
  ids let one row be deleted before another is made.
- `kv`: requests do not overlap and keys do not interact, so one key shows every
  state of a key; two tables are the least that can share an entry. Tables
  created are never dropped.
- `chat`: three peers over two descriptors make a descriptor change hands while
  a third peer listens; a third connection waits while no descriptor is free.
  `MaxLines` bounds the line ends of all peers together, `MaxChars` their other
  characters: a nickname and a message of one peer, one of them with text, or a
  nickname each of two. `MaxJunk` bounds the lines read from freed memory in a
  behaviour; one of them can already be heard by everybody, and drop another
  client. Peers are symmetric; the properties of that run are safety only.
- `chat_room`: two clients are the least that can talk; both may be leaving while
  the other speaks, or both at once. A nickname and one line fit into `MaxLines`;
  they are empty (`Typed`, `MaxChars` is 0), since only the end of a line matters
  to its liveness; `chat` has characters. Freed memory shows no line end here, or
  kills (`MaxJunk` is 0); `chat` has garbled lines. Clients are interchangeable,
  and each liveness property is about one client, so the run checks it for one
  of them (`Someone`).
- `redis`: two threads are the least that can mix. `Follow` being `FALSE` bounds
  the behaviours after that: nobody accepts new requests once two have mixed,
  since nothing is promised of them. Ttls are none, one that fits an `int` (of
  four bits) and one that becomes negative in it; a counter reaches its limit,
  `MaxCount`, with its first increment.
- `rpc_wire`: bytes have four values, so that numbers reach the corner of their
  type; messages are the corners of each field; strange frames are every
  change of one body byte of one request. Two frames show a boundary.
- `rpc`: the other peer may send what a client sends, so it stands for a second
  client too; two calls on a connection let a late answer meet the next call.

Deadlock is checked in the runs of the pool, the user service and the key-value
service. The chat and the RPC models stop when all peers are gone or the bound
on what they send is reached, and `RedisShare` when its process has mixed
requests and is bounded by `Follow`; their runs do not check it. A client of
`ChatRoom` may also wait in its destructor for ever: see below.

### Fairness

- `ConnPool`: strong fairness of taking `mu_` (a thread that finds the mutex
  free again and again is let in), weak fairness of every other step of a
  thread. None of requests, exceptions or spurious wakeups. `EveryoneServed`
  assumes in addition that traffic stops: the condition variable does not queue
  its waiters, and under steady traffic a newcomer may overtake a notified
  worker for ever.
- `UserService`: the same, and handlers run.
- `KVService`: for `CacheSettles` only the ttl of entries is owed; process,
  Redis and MySQL may stop for ever. `CalmSpec` has weak fairness of the
  serving thread.
- `ChatServer`: weak fairness of the serving thread as a whole.
- `ChatRoom`: the server's thread runs, and so do both threads of each client.
  Users need neither type nor leave.
- `RedisShare`: threads run; a thread that waits in `call_once` is let in if it
  is free again and again (strong fairness); Redis executes a command that has
  arrived, as long as the connection is up. `AnsweredInTurn` assumes in addition
  that requests never overlap inside the client: with a data race in `buffer_`
  nothing is owed to anybody.
- `RpcWire`: a thread in `send_frame` or `recv_frame` goes on with it, which is
  what `FrameChannel` needs to owe its reader a frame or the end.
- `RpcSession`: threads run, `accept` returns, handlers return, and a client
  reads what it waits for. Peers need neither send nor leave.

### Findings

- A SETEX that fails after a write leaves the old entry in Redis, and reads
  answer it until its ttl ends (`kv_stale`), although the README of the service
  says that reads fall back on MySQL.
- `recv_frame` is called outside of the try block of `handle_client`
  (`rpc_exceptions`): a frame that does not parse ends the server, although the
  comment of the function says that every exception is answered.

Behaviours the models have and no property judges, because nothing in the
repository says what they should be:

- an UPDATE that changes nothing is answered 404, and so is every MySQL error of
  a GET;
- the cache key leaves out the table, so a GET may answer another table's value
  (`from` in `KVService`; `StaleOnlyIfMissed` speaks of the table an entry came
  from);
- a chat client whose user has left stays a member, and its process stays, until
  somebody speaks or the server goes; two that leave together wait for each
  other. `LeaverGetsOut` is what remains true: the next thing it hears ends it;
- when a broadcast disconnects the client whose lines the chat server is parsing,
  `on_readable` goes on with a reference to the erased `Client`
  (`ChatServer.cpp:127` and `132`, then `114` to `131`). This is a use after free:
  what follows may be a line nobody sent, under any name, or the end of the
  process. `ParseFreed`, `ParseEnds` and `Stop` have these outcomes; the
  properties of `chat` and `chat_room` hold in spite of them, and `LinesAsSent`
  speaks of lines that were parsed from the `Client` of a member only;
- a chat client that is reading is disconnected all the same when a message does
  not fit into its send buffer at that moment: `send_all` takes EAGAIN for a
  failure (`net.hpp:93`). `DroppedOnlyIfFull` and `ListenersInRoom` are what
  remains true: it has to be a message to that very client;
- a line that arrives together with the end of a connection may be dropped by
  the chat server;
- a user whose POST is answered 500 may have been created, when the connection
  to MySQL was lost with the reply; and a connection MySQL has dropped stays in
  the pool and fails every request that gets it;
- after Redis has closed the connection, `redis_microservice` answers 500, or
  dies of SIGPIPE, until it is started again; requests that use Redis at once get
  each other's replies, although the README of the service (line 136) finds one
  thread per connection enough for small traffic;
- a frame of another type gets no reply; one connection that is reset ends the
  RPC server.

Hazards that no property covers, listed with their reasons in PROJECT.json, are
of this kind (a stated intention is missing), or are about text (a bulk reply of
Redis cut off so that its rest reads like a reply), or belong to a part that is
not modelled.

## Proofs

All theorems hold for every value of the constants that satisfies the named
assumptions: `PoolAssumption`, `ServiceAssumption`, `KVAssumption`,
`ChatAssumption`, `RoomAssumption`, `DataAssumption`, `ShareAssumption`,
`SessionAssumption`, `CodecAssumption`, `WireAssumption` and the two
`NoneAssumption`s. They say that sets of workers and connections are finite,
that users type characters and freed memory reads as some, that RPC clients are
no other peers, that bytes have enough values for the two message types and the
magic is four of them, that RPC messages have their fields in range and a body
its length field can count, and that `None` is none of the values it is kept
apart from.

`ConnPool_proof`. The inductive invariant `PoolInv` conjoins the type invariant
and the safety properties of the run with `OwnsMutex`: a worker at `test`,
`take` or `push` is the one `mu` names, and nobody else is. It is what makes
`NeverPopsEmpty` inductive, since nobody can empty the queue between predicate
and pop. `ConnsExclusive` needs `HoldersInUse`, and `NoLostWakeup` is preserved
by `Push` because one more queue element comes with one more contender. From
`PoolInv` follow `PoolTypeCorrect`, `Exclusive`, `NobodyKeepsOne`, `Conserved`,
`PopsSafely`, `WakeupsSuffice`, and with it `PoolImplementsResourcePool`: every
step is a step of `ResourcePool` or leaves its variables alone (safety only).

`UserService_proof`. Every step of the service is a step of the pool or leaves
it alone, hence `ServiceExclusive`. `CreateAnswersTruly` rests on `HandlerInv`:
while a create is between INSERT and `mysql_insert_id` (`ExecutedRemembered`),
the connection the worker holds remembers the id of its row; no other worker can
change that, because nobody else holds the connection. `ServiceTypeCorrect` needs
a count besides (`IdsSuffice`): the ids left are enough for the requests that
have yet to take one.

`KVService_proof`. `KVInv` conjoins types, the shape of the request at each step
(`ReqFits`), the fact that a value about to be cached is the one MySQL holds
(`AboutToCache`, inductive because requests do not overlap) and
`StaleOnlyIfMissed` with the table each entry came from (`Stores`). It gives
`KVTypeCorrect` and `StaleOnlyAfterAMiss` under every fault. Without faults
`CalmInv` adds that a missed key is the one of the request in progress, hence
`WriteThroughWorks`, and with one table `CacheIsTransparent`: every step is a
step of `KVStore` or none.

`ChatServer_proof`. `ChatInv` has two parts. `StateInv` conjoins types,
`MapMatchesKernel` and `Parsing`: while lines are parsed, the batch has an
event about a descriptor, open or not. It gives `ChatTypeCorrect` and
`MapIsTrue`, and, as an action property, `DroppedForItsOwn`: who is closed has
hung up, or was sent the message of this very step in vain. `HearInv` says that
what a peer has been sent is a stretch of the one log of all broadcasts, from
the length the log had when it was accepted, and that it reaches the end of the
log for every member whose connection is up; from it follows `OneConversation`.
`LinesInv` is a third invariant, for `LinesAsSent`, and has two parts as well.
`LogInv`: the lines of `p` in the log are the first of the complete lines `p`
has sent, and a name in the log was announced before. That is not inductive
alone, since nothing in it keeps `ParseLine` from broadcasting something else;
so `HoldInv` accounts for the rest: what is in the input buffer of a member,
followed by what is on the wire, is what follows the lines already logged in
what its peer has sent. It assumes nothing of a freed `Client`: a line read
from one is logged under nobody, whatever it says. No two members stand for one
peer, and a peer that is waiting has logged nothing.

`ChatRoom_proof`. `ClientsArePeers`: every step of the room is a step of
`ChatServer` or leaves its variables alone, so all of the above holds there.
`RoomListens` rests on `RoomInv`: a client whose main thread has not closed, or
whose receiver is in `recv`, has an open connection that waits in the backlog or
is served, or the server has hung up (`Present`); its own close waits for the
`recv`, and the server, as for `DroppedForItsOwn`, closes it for nothing but a
message it could not send to it. `RoomIsAChat` states what the room has from
`ClientsArePeers`: `MapMatchesKernel`, `EveryoneHearsTheSame`, `LinesAsSent`.

`RedisShare_proof`. `ShareInv` conjoins types with `Shape` (what a thread holds
at each stage), `Gate` (until `once` is done, only the thread that runs it is past
it) and `Alone`, which speaks of the time until requests mix: at most one thread
is inside, and the stream holds nothing but its command or its reply.
`Gate` gives `OneInitializer`; `Alone` gives `AnswersTruly` and, with one lemma
per action, `RedisLooksAtomic`, the whole of `ImplementsAtomicRedis`, which is a
safety property.

`RpcSession_proof`. `SessionInv` places a call in progress: its request is on the
way, or in the thread, or its response is in the thread, or on the way back, or
all is lost with the server; a client without a call has nothing on the way. So
the reply `call` returns is the one its own evaluation made (`OwnReply`), and
`CallsOnce` is the safety part of `ImplementsRpcCalls`. `OthersKeep` reduces each
action to the peer that takes it.

`RpcWire_proof`. First the codec. `BuiltParsed`: a request or a response with its
fields in range is parsed from its frame, and nothing else is. `ParsedBuilt`: what
parses as a request encodes to the very bytes it was parsed from. Between the
two stand lemmas for every field (digits of a number, the sign of an `int64_t`, a
string behind its length, one value, a list of values), each in both directions.
Lists need induction; a set of naturals that has 0, and with `k` has `k + 1`, has
all of them, and that form of induction (`NatSetInduction`, derived from the
well-foundedness of the naturals) takes a set and not an operator. Then the
wire. `FramesAsSent` says nothing of the bytes, so it is not inductive; `IInv`
says that there is one stream of bytes, which the frames sent cut at positions
`pos`, that `buf`, `net` and `out` are what follows the part of it that has been
read, and how much of the next frame `left` and `phase` still want (`Wanted`).
Boundaries are then never lost: a body that has come in is exactly one frame
(`BodyWhole`), and the codec gives `AsSent`, `Canonical` and `OwnAccepted`.
`WireIsChannel` is the safety part of `ImplementsFrameChannel`, one step per
action. It needs to know in addition how the stream ends (`Begun`): a sender
that has broken off has begun its last frame and not completed it, so that a
frame that is read whole is one `FrameChannel` may deliver, and when nothing is
left to read all whole frames have been (`AllRead`).

Model-checked only:

- every liveness property (`EveryoneServed`, `EveryRequestAnswered`,
  `CacheSettles`, `LinesGetThrough`, `LeaverGetsOut`, `LeaversForgotten`,
  `AnsweredInTurn`, `ThreadsEnd`, the fairness of `ResourcePool`, `RpcCalls` and
  `FrameChannel`), which is out of the prover's reach.

Every invariant and every action property that a passing run checks is the
statement of a theorem.

## Not modelled

- the agent: a sequential loop of at most `max_steps` rounds around a language
  model whose answers are arbitrary text;
- the retrieval pipeline: scripts without state of their own around embedding
  models and a vector store; `split_into_chunks` is its one algorithm, and its
  hazard is listed;
- the pool of cpp-redis-mysql-ms: the same queue as `ConnPool`, used by one
  thread, which never waits;
- the hand-written HTTP and JSON scanners: stateless; what they produce is the
  set of requests of the models;
- `as_i64` and `as_str` and the RPC demo applications that call them, the CMake
  template and the notes: no state.

## Plan

Done: `ConnPool`/`ResourcePool`, `UserService`, `KVService`/`KVStore`,
`ChatServer`, `ChatRoom`, `RedisShare`/`AtomicRedis`,
`RpcCodec`/`RpcWire`/`FrameChannel`, `RpcSession`/`RpcCalls`, and the proofs of
all of them.

Left, in this order:

1. `split_into_chunks` against a reference definition over bounded inputs.
2. The text of requests: `json_get_string` against the escapes `json_escape`
   writes.
