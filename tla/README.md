# A TLA+ model of gee

The repository holds four small frameworks in Go: an RPC package with a
registry (`rpc`), a second version of it (`rpcx`), a distributed cache (`cache`)
and a web engine (`web`).  This directory models the parts of them that run
concurrently or over a network, checks the models with TLC, and proves the main
safety properties with TLAPS.

    tlc -config rpc_faults.cfg MCRpcConn      # a run: the cfg and its module
    tlapm RpcConn_proof.tla                   # the proofs of a component

`PROJECT.json` maps every definition to its lines, and lists the runs, the
mutants that show what each property is sensitive to, the hazards and the
findings.

## 1. The system

| Component | State | Operations | Talks to |
|---|---|---|---|
| rpc client (`rpc/client.go`) | `seq`, `pending`, `closing`, `shutdown` under `client.mu`; a `Call` with a `Done` channel for each call | `Call`, `Go`, `send`, `Close`; the goroutine `receive`; `Dial...` | the codec, which it shares between callers without a lock |
| gob codec (`rpc/codec`) | a `bufio.Writer` with a sticky error, encoder and decoder streams | `Write`, `ReadHeader`, `ReadBody`, `Close` | the connection |
| rpc server (`rpc/server.go`, `service.go`) | per connection: `sending`, a wait group, one goroutine per request | `ServeConn`, `serveCodec`, `readRequest`, `handleRequest`, `sendResponse`; `Register` | the codec and service methods |
| registry and heartbeat (`rpc/registry`) | a map from address to the time of the last heartbeat; a ticker in each server | GET `aliveServers`, POST `putServer`; `Heartbeat` | HTTP |
| discovery (`rpc/xclient/discovery*.go`) | the list of servers, `index`, `lastUpdate` under `d.mu` | `Refresh`, `Update`, `Get`, `GetAll` | the registry, by HTTP and with `d.mu` held |
| XClient (`rpc/xclient/xclient.go`) | a map of clients under `xc.mu` | `dial`, `Call`, `Broadcast`, `Close` | discovery, and clients that its users share |
| cache group (`cache/geecache.go`, `cache.go`) | `mainCache` under a mutex | `Get`, `load`, `getLocally`, `getFromPeer` | singleflight, the pool, the user's `Getter` |
| singleflight (`cache/singleflight`) | `m`, from key to `call` | `Do` | |
| cache HTTP pool (`cache/http.go`) | a hash ring and a getter per peer | `Set`, `PickPeer`, `ServeHTTP`, `httpGetter.Get` | peers by HTTP |
| LRU (`cache/lru`) | a list, a map, `nbytes` | `Get`, `Add`, `RemoveOldest` | `OnEvicted` |
| consistent hash (`cache/consistenthash`) | sorted hashes, a map to nodes | `Add`, `Get` | |
| rpcx client, server, codecs | as in rpc, with a balancer | as in rpc | rpcx registry |
| rpcx registry client and server | services and their nodes | `Register`, `Deregister`, `GetService`, heartbeat | HTTP |
| web engine (`web/engine`) | groups with a prefix and middlewares, routes; `handlers` and `index` in a context | `Group`, `Use`, `Get`...; the closure of `add`; `Next` | handlers, which may call `Next` or panic; `Recovery` of `web/main.go` |

What is hard in it:

* a client is used by several goroutines, and only its table is locked, not its
  writer; callers give up (contexts), the user closes, the network breaks, and
  the receive goroutine may end at any time between the steps of a caller;
* on the stream, a header and its body are two gob values, and every early
  return of the server decides whether the second one is consumed;
* concurrent loads of one key at one node are joined, also when the function
  panics, and loads at two nodes may depend on each other;
* the registry knows a server only by when it was last heard of, and the
  discovery copies the list for a while: three clocks decide what a user sees;
* users of an `XClient` share clients that end, are replaced or are closed between
  `dial` and `Call`, and `Broadcast` cancels calls that are under way;
* handlers of the web engine nest through `Next`, and a recovered panic cuts the
  nest short while the loops around it go on.

What makes the components correct, in short: a call that begins returns once,
with the reply to its own arguments or with an error; a request is carried out
at most once; the table of the client stays usable however the stream ends; a
key is loaded by one goroutine at a time and every waiter is woken; data belongs
to its key; the cache evicts exactly what it must, by last use; a running server
is listed and a dead one forgotten within a known time; an XClient loses no
connection and reports the errors of servers; pools with the same peers agree on
owners; a handler chain runs once and in order, behind its groups.

## 2. Modules

    GobConn      one connection, its codec and network
      RpcClient    the client on it            RpcServer   the server on it
        RpcConn      both, with an environment; properties, inductive invariant
          MCRpcConn    for TLC
          RpcConn_proof
            RpcPromise_proof   RpcConn implements RpcPromise
          RpcxConn     the client and the server of package rpcx;  MCRpcxConn
    RpcPromise   what clients promise to their users, without the stream
      XClient      Call, Broadcast, Close and dialing over such clients
        MCXClient, XClient_proof
    HashRing     the consistent hash
      GeeCache     groups, singleflight, pool and handlers of several nodes
        MCGeeCache, GeeCache_proof
    EvictingMap  what GeeCache assumes of mainCache
      Lru          the LRU cache, shown to implement it;  MCLru, Lru_proof
    Registry     registry and heartbeats       Discovery   the list of a user
      Membership   both on one clock; properties, inductive invariant
        MCMembership, Membership_proof
    RpcxRegistry   registry server, registry clients and NewClient of package rpcx
      MCRpcxRegistry, RpcxRegistry_proof
    WebEngine    groups, routes, the handler chain and Recovery
      MCWebEngine, WebEngine_proof

### RpcConn

`client.mu` makes `registerCall`, `removeCall` and `terminateCalls` atomic, so
each is one step.  Nothing orders two callers inside `cc.Write`; `GobCodec.Write`
is therefore the steps `EncodeHeader`, `EncodeBody`, `FlushWrite` (up to the
return of `conn.Write`) and `FlushEnd` (the rest of `Flush`, and `Close` after an
error).  What two goroutines do to the length of one `bufio.Writer` is a data
race, and `Encode` and `ResetBuffer` choose among its outcomes.  The server
writes under `sending`, so a response is one step, `WriteResponse`.

A gob value is a record of its kind, of a sequence number and of a tag.  For a
body the number is that of the call whose arguments it holds or was computed
from: this is what lets a property say whose reply a caller got.  `ServeOptions`
may swallow values behind the JSON options, since `json.Decoder` reads in
blocks; the gob stream has then lost its type definitions (`garbled`).  A
`gob.Decoder` reads ahead: what had arrived when an end is closed may be decoded
afterwards at that end, as far as it was in the buffer, or the read fails.

The environment is the constant `Env`: a context that ends, `Close`, a broken
network, calls that do not wait for the handshake, and callers that do not wait
for each other.  The last two are errors of use that the examples avoid by
sleeping and by luck; the runs that leave them out say what holds without them.

### RpcPromise and XClient

`RpcPromise` keeps of a client only where a call changes hands: it is registered
(`Begin`), taken out of `pending` by `receive` (`Hold`), settled by `receive`, by
`send` or by `terminateCalls` (`Settle`, `Fail`, `End`), and left by its caller
(`Return`, `Cancel`).  It admits what the code does wrong, too: a settled call may
have neither reply nor error (`"silent"`), a call may be registered with a client
that has ended, and `send` may settle a call that `terminateCalls` has settled.
`KeepsPromise` in `RpcConn` is its specification under the mapping `PhaseOf` and
`AnswerOf`, for one client; `RpcPromise` itself has any number.

`XClient` extends it.  A task `<<u, a>>` is the call of user `u` to address `a`: one
for `Call`, one per server for `Broadcast`.  `xc.mu` is held over several steps
only while `XDial` connects; `Connect` is `net.DialTimeout` and `NewClient` the
goroutine that `dialTimeout` starts, which may wait for ever for the answer to its
CONNECT (`dialer = "hung"`).  `DialFails` is an error of the dial.  `DialTimesOut` is
the timer: `dial` calls `XDial` without options, so there is one only if the program
put a `ConnectTimeout` into `DefaultOption`; the action may be taken, and is never
relied on.  After it a client may be ready when nobody waits for it (`dialer =
"lost"`).  `sock` is our end of a
connection, and this is what `NoLeakedConn` follows.  `reply` is the caller's
variable: `Call` lends it to `receive`, `Broadcast` fills it from a clone in its
critical section.

### RpcxConn

`rpcx/client.go` has the table and the receive loop of `rpc/client.go` line by
line, so `RpcxConn` extends `RpcConn` and takes over `RegisterCall`, `Encode...`,
`SendFail`, `RecvHeader` and so on.  Its own actions are what package rpcx does in
another way: there is no handshake; `WriteRequest` returns the error of `Flush`
(`FlushRequest`, `FlushedRequest`), where rpc drops it; and `ServeCodec` leaves its
loop at the end of the stream only.  A header that it cannot decode costs it the
next value too (`DiscardRequestBody`), and is answered with the number 0, which
the client must survive (`RecvStray`).  A read that fails in another way than with
`io.EOF` is answered, and tried again, for ever: `ReadReset` names these states.
A client that closes with data it has not read resets the connection; whether it
had read ahead is open, and `unread` keeps the outcome.

### GeeCache

The goroutines are users, who run `Get` once, and HTTP handlers.  Only the leader
of a flight asks a peer, so the handler that serves it is named by the leader's
node and key, and there are as many handlers as slots.  A request may also break
while its handler runs (`ConnBreaks`): the leader goes on locally, and the handler
becomes one of the `Orphans`, which finish, and may lead a flight, for nobody.  `Do` is its three critical
sections; `WgDone` and `Delete` are two steps because a caller can find the entry
between them.  `Getter.Get` may fail or panic; the panic of a user's goroutine or
of a handler is recovered by `net/http`, so the node goes on.  `Wire` is what a
peer finds in the URL, which is not always the key.

The owner of a key is computed, by `OwnerAt` and `Lookup` of `HashRing`, from the
hash function and from the peers that the pool of the node was `Set` to, in that
order; both are chosen at the start and stay (`view` is the result, kept so that
it need not be computed again).  `HashRing` takes `crc32` as any function: `Points`
is the sorted slice `m.keys` as a set, `HashMap` the last peer added at a point, and
`Closest` what `sort.Search` and the wrap-around find.

### Lru

`Add` is one step up to its loop and a step for every entry the loop drops: the
callback `OnEvicted` runs in these states.  The mutex of `cache.go` keeps calls
apart.  `full` and `recent` are history.  The refinement mapping `AsMap` forgets
the order; `ImplementsMap` is the specification of `EvictingMap` under it.

### Membership

Time is discrete.  An instant is kept as the time since then, so that
`start.Add(timeout).After(now)` is `age < Timeout`.  A request takes at most
`Delay` there and back, and goroutines that can run do not let time pass; faults
(a request that fails, a request that is never answered, an answer without the
header, a heartbeat that is answered with an error page, which `sendHeartbeat`
takes for a success, a restart of the registry) break these rules at most `MaxFaults` times.
A ticker has a channel of one tick and drops what does not fit; `Stop` leaves the
channel as it is (`go.mod` asks for a Go before 1.23, where that changed).
`Refresh` holds `d.mu` while it asks, so a user in `query` locks out the others.
A user makes one call per unit of time: it rests until time passes, which only
removes stuttering calls, as the discovery does not count them.

### RpcxRegistry

Each process has one `httpRegistry`; a server calls `Register` and `Deregister`, a
client `NewClient`.  `nodes[p]` is the `Nodes` slice of the `*Service` that the
process shares with its registry, nil nodes included, since `doHeartbeat` makes it
with `make([]*Node, len(list))` and then appends; `getServerAddress`, `Register` and
`Deregister` dereference what they find there, and `"dead"` is a process that has
panicked.  `Post` registers a new service; `PostAgain` registers the service of an
earlier call, whose nodes the heartbeat may have changed: with none of them left
`Register` returns an error and keeps the service filed.  `r.mu` is held from `Post`, `Delete` or `Heartbeat` until the answer is
processed; `GetService` takes no lock.  The unit of time is longer than a request,
so time passes only when nothing is on its way.  A request may fail, hang, or be
given up by its sender and arrive later (`strays`); `upset` remembers which requests
were, a restart of the registry counting as a DELETE of everything.

### WebEngine

Groups, middlewares and routes are made in any order before the first request,
and do not change later, so one request stands for all.  A prefix is a sequence
of pieces of text, so that `"/v1"` is a prefix of `"/v10"` here as it is for
`strings.HasPrefix`.  The stack holds the handlers that are under way, each with
the number of its calls of `Next`; `index` is shared by all loops, as in the code.
A panic unwinds the stack to the innermost `Recovery` below the handler; this
returns to its own loop, which goes on with what follows the handler that
panicked.

## 3. Runs

The passing runs take from a few seconds to about three minutes with two
workers.

| Run | Shows |
|---|---|
| `rpc_faults` | `NoForeignReply`, `BodyMatchesHeader`, `AtMostOnce`: with callers that write one after the other, every kind of call and of outcome, calls before the handshake, refused options, contexts, `Close` and a broken network, a reply is the reply to that call, header and body stay together, and a request exists once |
| `rpc_overlap` | the same client with callers that write at the same time: the stream is lost, but `NoOrphanedCall`, `DoneHasRoom` and `SilentOnlyAfterBreak` hold, the inductive invariant, and `KeepsPromise`: the client implements `RpcPromise` |
| `xclient` | a user of `Call` and one of `Broadcast` that meet at a server: `NoLeakedConn`, `Verdict`, `ReplyIsStable`, and `UsersReturn` |
| `rpc_returns` | `OnTimeReturns`: every waiting call that was registered before the shutdown returns; `ServerDrains`: the server ends the connection after its client, even if methods never return |
| `rpcx_conn` | `BodyMatchesHeader` for package rpcx, whose server reads on after a bad header; `LateReturnsAfterClose`: a call on a closed client returns, which it does not in package rpc; `ServerEnds`: the server ends after a client that closed in good order |
| `rpcx_registry` | `RegisteredIsListed`, `DeregisteredIsGone`, `NoStaleAddress`, `PanicsAfterBeat`, `CallsReturn` |
| `cache_flight` | `OneFlightPerKey`, `WaitersHaveALeader`, `RightValue`, `SingleHop`; with pools of the same, of different and of no peers, rings with and without a collision, failing peers, requests that break while the handler runs, panics and eviction; `SamePeersAgree`; `EveryGetReturns`, if the pools agree and until a getter panics for the same key |
| `lru` | `Coherent`, `FitsTightly`, `HoldsMostRecent`, `ImplementsMap`, `LoopEnds` |
| `member_listed` | `AliveAreListed`, `DeadAreForgotten`, `ComesBack`, `GetReturns` |
| `web` | `OnceInOrder`, `Guarded`, `RecoveryHolds` |

Two runs find a violation; each checks what a comment of the code says.

| Run | Finding |
|---|---|
| `rpc_silent` | an error response, or a late reply to a cancelled call, ends `receive` with a nil error, and `terminateCalls(nil)` completes every other call with neither error nor reply |
| `rpc_stream` | two goroutines with one client mix their requests, and a method runs with the arguments of the other call (`OwnArguments`); it takes fewer steps to a header in place of a body, which the server answers with an error |

Some properties hold with an exception that names a weakness of the code:

* `NoOrphanedCall` and `OnTimeReturns` except the calls in `late`: `registerCall` of
  package rpc looks at neither flag, and such a call may wait for ever.
* `StuckOnlyAfterShutdown`, which is proved, says when `send` may block in `done()` for good:
  `terminateCalls` leaves its calls in `pending`, and a failed `Write` finds them.
* `UsersReturn` says that a user who does not return has a task that waits for ever,
  and for what: room in `Done` (stuck in `send`); the answer to a call that nobody
  cancels, while our end is open or with a client that had ended before the call;
  or the answer to a CONNECT, which `NewClient` awaits without a timer while the
  task that dials holds `xc.mu`, so that every other user of the `XClient` waits too.
* `ReplyIsStable` excepts a `Call` that was cancelled: `receive` may have taken the
  call already, and then writes the reply of a caller that has gone on.
* `OneFlightPerKey` is about loads at one time.  A caller that misses `mainCache`
  before a load ends and enters `Do` after it loads the key again, although the
  comment in `load` says that a key is fetched once.
* `EveryGetReturns` excepts a key whose getter has panicked: `Do` has no `defer`, so
  the entry stays in `m`, and whoever asks for that key waits for ever.  Other keys
  are not harmed.
* `SamePeersAgree` is about rings without a collision: two peers at one point
  belong to whoever was added last.
* `Guarded` excepts groups with a parameter in their prefix: `router.go` compares
  the prefix with the path, so their middlewares are passed over.
* `RecoveryHolds` excepts a `Recovery` that has recovered: the handlers after the
  panic run when it has returned, and a second panic drops the connection.
* `ServerEnds` excepts a reset connection, and one that the server closed itself
  after a reply it could not encode: `ServeCodec` of rpcx then spins.
* `RightValue` is about keys that the URL keeps.  `url.QueryEscape` writes a blank
  as a plus sign, which stands for itself in a path; with such a `Wire` it fails.
* `ComesBack` excepts a ticker that was stopped: in `Heartbeat` a request that
  fails is the last one, and the running server is not heard of again.
* `AliveAreListed` is about runs without a fault, and an empty list satisfies
  `DeadAreForgotten`: after an answer without the header (`AnswerBlank`) `Refresh`
  returns nil and the discovery keeps an empty list until its timeout.
* `RegisteredIsListed` ends at `Timeout`: the heartbeat of rpcx asks for lists and
  announces nothing, so every server falls out of the registry while it runs.
* `RegisteredIsListed` excepts an address with a DELETE that its sender gave up, or a
  restart of the registry, and `DeregisteredIsGone` one with a POST that was given up:
  such a request can arrive after the call that followed it.
* `PanicsAfterBeat`: the first heartbeat that finds a server leaves nil nodes, and
  from then on `NewClient` with that registry, and `Register` or `Deregister` with the
  service that was registered, panic.

### Bounds

* Two calls on a connection (`MaxSeq = 2`): the properties relate a call to one
  other call, the one that damages the stream, ends `receive` or takes its reply.
  The proofs cover any number.
* Two nodes, two keys and two users in `cache_flight` give a leader, a waiter, a
  handler and, with pools that disagree at a collision, a circle of requests; the
  second user may come between `wg.Done` and the deletion.  One orphan is enough to
  lead or to join a flight that the leader it served does not know of.
* Three keys of two lengths, an empty and a longer value, and limits with an
  entry exactly at, above and below them; one unlimited and one negative.  In
  `lru` nothing else bounds the run: it is complete for these keys.
* `member_listed` takes the tightest times with `Period + 2 * Delay < Timeout`.
  `StaleBound` is 5 and `MaxAge` 6, one above it, so that a server that is handed
  out too late shows; `Membership_proof` holds for every `MaxAge`.
* `rpcx_conn` leaves out arguments of a wrong type, which the server answers as it
  does a body that is not one, and contexts that end, which are in `rpc_faults`.
* `rpcx_registry` has one server and one client, each with its heartbeat.  The
  bound of `NoStaleAddress` is 3 and `MaxAge` 4.  Two servers would only lengthen
  the lists.
* `Wheel` keeps `d.index` finite; no property of the run looks at it.
* `xclient`: two tasks of a `Broadcast` and one of a `Call`, of which two share a
  server that can be dialled twice, so that a client is reused, replaced and
  closed; the other server cannot be reached, which is how `Broadcast` fails and
  cancels.  More connections multiply the states; `XClient_proof` has no bound.
* `web`: three groups, three middlewares and a route.  Three groups give a nested
  and an unrelated one, three middlewares a `Recovery` before and behind a plain
  handler; `MaxNexts = 2` lets a handler call `Next` once more than needed.  Paths
  have up to four pieces.
* `MaxFaults = 1`: `ComesBack` and `GetReturns` follow one fault; a second one only
  repeats the first or ends in the excepted cases.

Deadlock is checked in the runs of `Membership`, where time always goes on, and
of `RpcxRegistry`, and of `Lru`.  In the other runs it is not: all calls may have returned, and calls may
hang, which is what the liveness properties are about.

### Fairness

* Goroutines that can run do run: weak fairness for each caller, `receive`, the
  server's loop, each goroutine of the cache, each heartbeat.  The Go scheduler
  is preemptive, and none of these steps is disabled by another in a way that
  matters, except where a mutex is wanted again and again: users of a discovery
  and servers in `RpcxRegistry` have strong fairness, as `sync.Mutex` passes to a waiter after a millisecond.
* Service methods and getters return (`WF(Returns)`, `WF(Step)`), HTTP requests
  that are not faults are answered.  `rpc_returns` drops the first assumption and
  has weak fairness for the handle timeout instead.
* In `XClient` it is enough that some goroutine that can run does (`WF(Progress)`):
  nothing there repeats, so no goroutine can be kept waiting for ever.  Answers are
  not assumed, since users of one client write at the same time and a request may be
  lost; only that `receive` ends once our end is closed.  Neither is a timer: the
  dial may hang, and `DialTimesOut` is not part of `Progress`.
* Time goes on (`SF(Elapse)`), however often goroutines run in between.
* Nothing makes a user call, cancel or close, and nothing makes a fault happen.

## 4. Proofs

TLAPS checks the following for every value of the constants that satisfies their
assumptions.

**RpcConn_proof.**  `Invariance` shows `IInv`, for any set of calls, any
environment, overlapping writers included.  None of the properties is inductive:
that `terminateCalls` completes a waiting call needs the call to be filed, and
filed under its own number.  `IInv` says who answers for a call: numbers are
distinct and below `seq` (`SeqInv`), `pending` files a call under its number
(`PendingInv`), what `receive` holds is not filed (`ReceiveInv`), a call that is
under way is filed, held or complete, and what is filed is not complete while
`receive` lives (`CompletionInv`), and a completed call has an error or a reply
unless `receive` ended without one (`AnswerInv`).  From it: `NoOrphans`,
`ReceiveNeverBlocks`, `SendBlocksLate`, `SilenceExplained`, `AnswersAreFinal`, `TypeCorrect`.

The second half is about the stream, and assumes `"overlap" \notin Env`: without
it the theorems are false, as `rpc_stream` shows for `ArgumentsAreOwn`.  `StreamInvariance` shows
`StreamInv` beside `IInv`.  `BodyMatchesHeader` looks at the moment between two
reads, so what is still in the buffer and on the wire must be known: one caller
owns the writer, and the buffer holds its header, or its header and its body
(`WriterInv`); behind every header on the wire stands its body, and a header that
stands last has none only if nothing will follow, because the connection is down or
because the caller that wrote it is about to close it (`RequestInv`, `ResponseInv`,
both with `Paired` and `Answers`); a handler has the arguments that belong to its
number; and a number is in one place at most and only after its request was sent, so
that the request `Flush` adds is new (`OnceInv`).  Pairing is a relation of
neighbours, not of a whole stream, and therefore survives what the server does to
the rest of it: the options decoder that swallows values, an unknown method whose
body stays, a cut that loses all.  From it `BodiesMatch`, `RepliesAreOwn`,
`ArgumentsAreOwn` and `RequestsOnce`.

**RpcPromise_proof.**  `Refinement`: `RpcConn` implements `RpcPromise`.  One lemma
per action says which step of `RpcPromise` it is, or that it changes nothing there.
It needs `PromiseInv` beside `IInv`: a cancelled call is not in `pending`, and a call
that is not complete has no reply, and no error unless `receive` is about to
complete it.  `TerminateCallsMaps` is the heart of it: the calls that
`terminateCalls` finds in `pending` are exactly those that are open and whose
callers still wait.

**XClient_proof.**  `IInv` ties the map, the lock and the sockets together: only
the task that dials holds `xc.mu`, and its address has no client meanwhile, so the
connection it makes cannot displace another (`MutexInv`, `ClientsInv`); a call that
is not settled when its task reports was cancelled (`CallInv`); `Broadcast` cancels
only after it has an error (`CancelInv`).  From it `NothingLeaks`, `TrueVerdict`,
and `StableReply` as an action property.

**GeeCache_proof.**  First the consistent hash: `LookupIsAPeer`, `OrderDoesNotMatter`
and `MovesToNewOnly`, for any hash function, keys and peers; the points are a finite
set of numbers, whose least element the proofs take from `WellFoundedInduction`.
Then `IInv` ties `loader.m` to the goroutines: who is in flight is
the leader of its entry, an entry has a leader at work or one that panicked, and
a running handler has a leader that waits for it, unless it is an orphan.  From it
`OneFlight` and `NoLostWakeUp`.  `OneHop` needs `OrphanInv` beside it: an orphan
works at a node that its leader's pool took for the owner.  `OneHop` and `RightData` assume that the URL keeps the key
(`Wire` is the identity); without it `RightValue` does not hold.
`RightData` adds `ValueInv` to the invariant.  `AgreeOnOwners` carries
`OrderDoesNotMatter` over to the pools.

**Lru_proof.**  `IInv` says that list and map hold the same keys, none twice
(`KeysInv`), that `nbytes` is the size of the list (`BytesInv`), that the list is the
front of `recent` (`RecentInv`), and that in the loop of `Add` the list is a front
part of what it was when the loop began, and no longer part would have fitted
(`LoopInv`).  `Coherent` needs the keys to be distinct, or the removal of one would
leave another; `FitsTightly` needs to know what the loop has dropped so far.  From it
`StaysCoherent`, `KeepsWhatFits`, `EvictsLeastRecent`, and `Refinement`: the cache
implements `EvictingMap`.  Sizes are sums over a list, and that a sum does not change
when an entry moves to the front needs an induction over its length.  The library's
induction rules cannot be used, since they take a predicate as a parameter;
`NatSetInduction` states the rule for a set instead, and is proved from the least
element of its complement.

**Membership_proof.**  `BeatInv` adds up, for each place in the cycle of a
heartbeat, the age of the entry, the rest of the ticker and the time of the
request: no entry gets older than `Period + 2 * Delay`.  Two delays are needed and
not one, since the ticker starts when the first answer is back, and a later
heartbeat may take longer to arrive than the first.  `ListInv` bounds the age of
the servers in an answer and in a list by the age of the answer and the list.
From these, `Listed` and `Forgotten`.

**RpcxRegistry_proof.**  `ItemsInv` relates what the registry holds to the place of
the call that changes it: between the arrival of a request and the return of the call
the server does not know yet what the registry has done, and only a request that was
given up can undo it later: every stray request is in `upset`.  `NodesInv` says that a list has no nil node
before a heartbeat has renewed it.  `FiledInv` and `AgeInv` add up the age of an
address in a list, the age of the list and the rest of the ticker, which is why the
bound of `NoStaleAddress` is `Timeout - 1 + Period`.  From these `StaysListed`,
`StaysGone`, `NeverStale` and `PanicsNeedABeat`, for any number of servers and
clients, where the run has one of each.

**WebEngine_proof.**  `CountInv` relates `index` to the number of handlers that were
started, with one formula for the loop and one for the body of a handler, and
gives `EachOnce`.  `StackInv` and `CoverInv` say where a `Recovery` is that has been
started: under way, spent, or returned after the last handler was started; with
them a panic that nobody recovers finds only spent ones (`Recovers`).  `GroupInv`
and `ChainInv` say that prefixes nest and that the chain is sorted by group and
complete, and give `BehindItsGroups`.

Only model-checked: all liveness (`OnTimeReturns`, `ServerDrains`, `UsersReturn`,
`EveryGetReturns`, `LoopEnds`, `ComesBack`, `GetReturns`, `CallsReturn`,
`LateReturnsAfterClose`, `ServerEnds`; the prover has no rule for fairness here), and
`RpcxConn`, whose streams admit values that those of `RpcConn` do not.

## 5. Not modelled

* `Accept`, `ServeHTTP` and `Register` of the servers, and the reflection of
  `service.go`: setup before a connection is used.
* `Go` with a channel shared between calls.
* `HTTPPool.Set` at run time: the examples call it once.
* The round robin of the discovery is an action, but nothing is said of whom it
  picks; that the context of a `Broadcast` is never cancelled when it succeeds, and
  that a goroutine stays behind after a handle timeout, has no effect on the state
  that is kept.
* That `net/http` repeats a GET by itself on a reused connection that broke.
* What a web `Context` writes to its response.
* In package rpcx: a `Timeout` in a request, which its client never sets; `Init` of
  a registry, which starts a second heartbeat; the balancers, of which `NewClient`
  makes a new one each time and uses it once; and the crash of the Go runtime
  when `GetService` and `doHeartbeat` meet in the map.
* `rpc/gobrpc` is not used by anything; the `main` packages and debug pages have
  no state of their own.

## 6. Plan

1. `Go` with a shared channel, where `done()` can block with `client.mu` held.
2. Proofs: the invariants of the client and of the requests carried over to
   `RpcxConn`, whose call table is that of `RpcConn` and whose server is not.
