# Verification of tls-client-python

TLA+ models, TLC configurations and TLAPS proofs for the concurrent core and the
Python facades of tls-client-python: a Go HTTP engine with browser TLS fingerprints (the root
package), a cgo layer that exports it (`cffi_binding/`), and the Python package
that drives it (`tls_client/`).  Paths below are relative to the repository;
`main.go` is `cffi_binding/main.go` and `_core.py` is `tls_client/_core.py`.

Contents: 1 the system, 2 the modules, 3 the runs, 4 fairness, 5 the proofs,
6 what was found, 7 what is not modelled, 8 the plan, 9 how to run it.

## 1. The system

### 1.1 Parts, state, operations

| Part | State it keeps | Operations | Correct when |
|---|---|---|---|
| client pool (`main.go`) | `clientPool` (sync.Map), `lastAccess` per entry, `poolEntryCount`, cap, TTL, `clientPoolMu` | `getOrCreateClientFromConfig`, `evictLRUOverCapLocked`, `evictStaleEntries`, `ClearClientPool`, setters | one client per configuration, exact counters, bounded size, idle clients reclaimed, requests not blocked |
| asynchronous bridge (`_core.py`, `main.go`) | `_pending_requests`, futures, defensive timers, C responses, the loop's queue | `_execute_async`, `RequestAsync`, `_on_async_response`, `_on_zombie_timeout`, `close` | each awaited call settles once, no response leaked or freed twice |
| WebSocket handles (`main.go`, `websocket.py`) | `wsHandles`, `wsConnHandles` and their sequences, Python objects, sockets | new, connect, read, write, close, free | a number names one live object; closing releases it and wakes readers |
| transport cache (`roundtripper.go`) | `cachedTransports`, `cachedKinds`, `cachedConnections`, two mutexes | `RoundTrip`, `getTransport`, `dialTLS`, `dropCachedTransport`, `CloseIdleConnections` | a transport gets connections it can speak; a protocol change costs one request |
| protocol racer (`racer.go`) | protocol cache, result channel of each race | `race`, attempts, cache get/set/delete | one response per request, losers end, a dead protocol is forgotten |
| HTTP/3 builder (`roundtripper_http3.go`) | none | settings and QUIC configuration assembly | order and values as the profile says |
| CONNECT dialer (`connect.go`) | cached HTTP/2 proxy connection and its raw socket | `DialContext`, HTTP/1 and HTTP/2 tunnels | a dead proxy connection is replaced, none is leaked |
| SOCKS5 UDP (`socks5_udp.go`) | control connection, relay socket | associate, datagram wrap and unwrap, close | both halves released together |
| cookie jar (`jar.go`) | cookies by host beside the inner jar | `SetCookies`, `Cookies`, `GetAllCookies` | the two views agree under the skip/empty options |
| client facade (`client.go`) | configuration, transport, hooks, bandwidth | `Do`, `SetProxy`, `SetFollowRedirect`, hooks | a failed change leaves the previous client working |
| certificate pinner (`pinner.go`) | pins by host | `Pin` | the most specific pin decides |
| ECH cache (`ech.go`, `ech.py`) | answers with expiry | `FetchEchConfig` | positive and negative answers expire and agree |
| bandwidth (`bandwidth/`) | two counters | read, write, reset | totals count each byte once |
| request execution (`main.go`) | C memory of options, bodies, responses | `Request`, `executeRequestFromConfig`, `FreeResponse` | each allocation has one owner |
| client cache key (`main.go`, `_core.py`) | none | key of a configuration | equal keys mean interchangeable clients |
| Session, AsyncSession (`_core.py`) | `defaults` with a version and a cached snapshot, the flag for caller-managed headers, preset templates, closed flag | constructor, some 60 property setters, `request` and the verbs, `execute_request`, `typed_request`, `stream_to_file`, `close` | what was said last reaches the engine; TLS profile and headers belong together; threads see consistent options |
| fingerprint presets (`fingerprints/`) | registry of presets | `register`, `resolve`, `apply` | the nearest layer of a chain decides; what `apply` writes is used by the next request |
| browser headers (`_default_headers.py`, `_client_hints.py`, `context.py`) | none | blocks by profile, `apply_context`, merging with request headers | a request's context decides over inherited headers, the caller over both |
| library loading, fork (`_core.py`) | `_ffi`, `_lib`, `_abi_version`, locks, `_forked_after_load` | `_get_ffi`, ABI gates, fork hook | loaded once, refused in a child, no lock left behind |
| requests layer (`requests_compat.py`, `cookies.py`, `auth.py`, `hooks.py`) | attributes, cookie jar, history of a call | prepare, merge settings, adapter, redirect loop, close | credentials and cookies stay with their hosts, the loop ends at its limit, settings reach the native session |
| header order, extension permutation, JA3 | none | pure functions | permutations with the fixed parts in place |
| TCP fingerprint, profiles, tools, vendored code | see `PROJECT.json` | | |

### 1.2 How they interact

A Python `Session` turns keyword arguments into C options; the cgo layer
computes the configuration's key, takes a client from the **pool** and executes
the request on it.  The client's transport is the round tripper, whose
**transport cache** decides per address between HTTP/1, HTTP/2 and HTTP/3;
`racer.go` may send the request over two protocols at once.  A synchronous
request returns its C response and Python frees it; an asynchronous one goes
through the **bridge**, where a goroutine calls back into Python on a thread of
its own and the event loop unpacks and frees the response.  WebSockets use a
client from the same pool, but are kept in **handle tables** because Go pointers
may not cross the C boundary.

### 1.3 What is hard here

* Threads of three kinds (goroutines, Python threads, the event loop) touch the
  same maps; several maps are read without the lock that guards their writers.
* A reply, a timer, a cancellation, `close()` and the closing of the loop compete
  for one registry entry and for the ownership of one C allocation.
* One decision is taken over several steps: look up, lock, look up again; collect
  keys, lock, re-check, delete; drop the transport under one lock, its kind under
  another.
* The world changes in between: servers change protocol, connections die, peers
  close, the Go engine may never answer, allocations fail.
* Two name spaces (client and connection numbers) share one free function.
* Some 70 options travel under up to three names through constructor, setters,
  presets, two facades and five entry points, each with a hand-written list, to a
  C struct and a pool key; one missing name is silent.
* A process may fork while a thread loads the library or holds a session's lock.
* A redirect chain rewrites method, body, credentials and cookies hop by hop.

`PROJECT.json` lists each hazard at its line, with the properties that cover it.

## 2. The modules

| Module | Models | Proofs | Instance for TLC |
|---|---|---|---|
| `ClientPool` | client pool | `ClientPoolProofs` | `MCClientPool` |
| `AsyncBridge` | asynchronous bridge | `AsyncBridgeProofs` | `MCAsyncBridge` |
| `AsyncPromise` | what the bridge promises its caller (abstract) | refinement, in `AsyncBridgeProofs` | through `KeepsPromise` |
| `TransportCache` | transport cache | `TransportCacheProofs` | `MCTransportCache` |
| `WsHandles` | WebSocket handles | `WsHandlesProofs` | `MCWsHandles` |
| `OptionTable` | option names, keys, conversions, C struct, pool key (no state) | lemmas in `FacadeSteps` | through `SessionOptions` |
| `HeaderRules` | header blocks, contexts, merging (no state) | lemmas in `WireProofs` | through `SessionOptions` |
| `Presets` | preset registry and `resolve` (no state) | the blocks, in `WireProofs` | through `SessionOptions` |
| `SessionOptions` | Session and AsyncSession, from keyword to engine; extends the three above | `FacadeSteps`, `FacadesProofs`, `WireProofs` | `MCFacades` |
| `RequestsCompat` | the requests layer, composed with `SessionOptions` | `FacadeSteps`, `FacadesProofs`, `WireProofs` | `MCFacades` |
| `SessionThreads` | one session on several threads, library loading, fork | `SessionThreadsProofs` | `MCSessionThreads` |

An operator whose comment starts with "Mutant:" is a deliberately wrong variant
of the definition that follows it.  It is not part of any specification; for each
property one of them is known to violate it, which shows that the property
constrains the code.

### 2.1 ClientPool

State: `pool` maps a key to the number of its entry; `lastAccess`, `count`,
`maxEntries`, `ttl`, `totalEvictions` and `mu` are the Go variables; `cleared` is
a history variable.  Every process (request threads, the scanner, an
administrator) has a program counter and the locals of the function it is in.

`Request`, `LookupFast`, `LookupLocked`, `ReadClock`, `Touch`, `BuildFails` and
`Insert` are `getOrCreateClientFromConfig`, cut at every access to shared state
that is not under `clientPoolMu`.  A hit reads the clock and stores it in two
steps, so a slow hit may store an older time over a newer one.  `EvictBegin`,
`EvictVisit` and `EvictFinish` are `evictLRUOverCapLocked`, run after an
insertion and by `SetMaxEntries`; the Range reads one timestamp per step while
hits move them, and ties in the sort are broken either way.  `ScanBegin` to
`ScanEnd` are a pass of `evictStaleEntries`: the unlocked Range, the lock, the
re-check, the deletion.  `Clear`, `SetMaxEntries`, `SetMaxEntriesLock` and
`SetTTL` are the exported calls.

Abstractions: a client is its number; closing idle connections is the time that
passes between `ScanRecheck` and `ScanDelete`; `SetPoolScanInterval` only changes
the period of a scanner that may wake at any time here; the fields that only
`GetPoolStats` reports are left out.

### 2.2 AsyncBridge and AsyncPromise

State: `sub` is where `_execute_async` stands, `gor` where the goroutine and its
callback stand, `pend` the registry, `fut` and `timer` the future and its timer,
`reply` and `frees` the C response and how often `FreeResponse` ran on it,
`queue` the loop's ready queue, `closer` and `toCancel` the progress of
`AsyncSession.close()`.

The event loop is one thread: while a coroutine is between `Check` and `Await`
no ready callback and no timer runs (`LoopFree`).  The callback of the goroutine
and `close()` run on other threads and interleave at each step: `CbPop` (under
`_pending_lock`), `CbCancelTimer`, then `CbTooLate`, `CbNull` or `CbBind`, then
`CbSchedule` or, on a closed loop, `CbScheduleRaises`.  `DispatchPanics` is the
deferred recover of `RequestAsync`, which calls the callback on the caller's own
thread; `DispatchFails` includes an interrupt after the goroutine has started.
`LoopCloses` drops the queue, which collects the wrappers in it.  The callback is taken to
have the library; `SessionThreads` has the race in which it does not.

`AsyncPromise` says what a caller may rely on: a call is rejected, or it is
awaited and settled once, unless the loop is shut down.  `Observed` maps the
bridge to it: the state of a request is that of its future once its coroutine
awaits, `rejected` when the call raised, and `idle` before.

### 2.3 TransportCache

State: the three maps of the round tripper, the holders of
`cachedTransportsLck` and `rt.Mutex`, which transports hold an idle connection,
what each server negotiates now, and for each goroutine its program counter,
address, scheme, transport and connection.

A transport is a record of its kind, whether it was built for plain http, and a
copy number; a connection is the protocol it speaks.  `RoundTrip`, `LookupHit`
and `GetTransport...` run under `cachedTransportsLck`; `SetupEnters`,
`SetupBuilds`, `SetupFails` and `SetupFindsStash` are `dialTLSWithSetup` called
from `getTransport`, with both mutexes held across the dial; `DialTakesStash`,
`DialTLS`, `DialFits`, `DialChanged` and `DialFails` are the same function called
by a transport; `DropTransport` and `DropKind` are the two parts of
`dropCachedTransport`.  What fhttp's transports do with a connection is external
(`ReuseConnection`, `SendWithoutTLSDial`, `RequestFails`, `UseConnection`), as are
`ConnectionDies` and `ServerMoves`.  The goroutine in which fhttp dials is taken
as part of the request that needs the connection.

### 2.4 WsHandles

State: the two tables and their sequences, the Python objects `ws` and `conn`,
the real connection `sock` and the behaviour of its `peer`, and a program counter
for each Python thread (the GIL is released during library calls, so two calls
interleave at each access to a table).

`WebsocketNew...`, `WebsocketConnect...`, `WebsocketRead...`,
`WebsocketWriteMessage` and `WebsocketClose...` follow the exported functions,
one step per table access; `ConnFree1/2` and `WsFree1/2` are the two deletions of
`WebsocketFreeHandle`, called by `WebSocketConnection.close()` and
`WebSocket.close()`.  The attributes `_closed` and the number are written one
after the other by Python and are one step (`ConnMark`, `WsMark`).

### 2.5 OptionTable, HeaderRules, Presets

Operators without state.  `OptionTable` transcribes the lists the code keeps by hand:
the parameters of each constructor and entry point, the setters, `KeyOf` (the key of
`Session.defaults` a parameter is stored under), the keys snapshotted by each facade,
the fields that are flags, integers or tri-state, what the C struct and the custom TLS
client carry, what `_compute_cache_key_hash` covers and what `buildClientFromConfig`
reads.  A Python value is a token; `Stored`, `NormalizeInt` and `ToC` are the
conversions, by what they do to truth values, numbers, `None` and empty containers.

`HeaderRules` has the header block of each family of identifiers as a sequence of
name and token (names keep their spelling, `Fold` is the case folding), the merge with
request headers, the high-entropy hints, and `context.py`: the contexts, `Sec-Fetch-*`,
`Priority`, `Accept` and `apply_context` with its removal of inherited navigation
headers.

`Presets` holds the hand-written and generated Chrome presets of majors 152 and 133
(supported by the engine) and 99 (not supported), the Firefox ones and four of a user
(a bare TCP tweak, a child, two that name each other), in the registration order that
lets `chrome_full.py` replace most of `chrome.py`.  `Resolve` walks `based_on`.  The block
a caller brings as `default_headers` (`UserBlock`) holds an `accept`, an unknown header and
an `Authorization`, a `Cookie` and a `Content-Type` of its own.

### 2.6 SessionOptions

State: `defaults` (the keys in play), `customized`, `cached` (the snapshot cache),
`template`, `closed`, `warned`, the Go `pool` as a set of key and client, and `sent`,
the request just handed to the engine: what the caller gave, the C options, the merged
headers and their order, and the pooled client that serves it.  Ghosts: `told` is what
the caller last told the session for each key, `bare` the keys that `apply` wrote past
`_set_default`.

`NewSession`, `NewAsyncSession`, `SetProperty`, `SetIdentifier`, `Apply`, `Request`,
`ExecuteRequest`, `TypedRequest`, `StreamToFile`, `Close` and their asynchronous
counterparts are the public calls, each one step from the arguments to the engine.
The two paths are written separately, as in the code: `SyncResolved` and
`AsyncResolved`, `PairHeaders` and `AsyncPairHeaders`, `SyncOptions` and `AsyncOptions`.
A refused call (unknown identifier, closed session, ABI 2 option on an old library)
leaves the session as the code leaves it.  A scenario names the parameters in play,
the ABI and the budgets; every parameter is in play in some scenario.

### 2.7 RequestsCompat

Adds the layer's own attributes (`attr`), its cookie `jar`, the call in progress and
how the last one ended.  `Ask` prepares a request (body, headers, auth, cookies) and
merges the settings of the session, the call and the environment; `Hop` is the
adapter's call of the native `execute_request`, which is `SyncExecute` of
`SessionOptions`; `Answer` is the response with its cookies, the hook and the redirect
decision; `Fail` an error of the engine.  A URL is scheme, host labels, port and path;
`Join` and `Netloc` say what `urljoin` and `urlsplit` do with such URLs.  Cookies carry
the host that set them as a ghost.  `FromDefaults` tells whether a header on the wire is
the one the session's `default_headers` hold: they are merged into every hop, after
`_redirect_request` has taken the request's own headers off.

### 2.8 SessionThreads

State: the module variables `_ffi`, `_lib`, `_abi_version`, `_ffi_lock`,
`_forked_after_load` and `_async_callback`; whether the session is a Session or an
AsyncSession; its identifier, headers, version, snapshot cache, lock and flags; and for
each thread where it is and its call: the library `_get_ffi` gave it, its snapshot, the
ABI it was gated by, what it will send, and ghosts for what was stored while it ran.  A
step is a stretch under a lock or one access outside: the GIL may change hands between
any two bytecodes.  `StoreFfi`, `StoreLib` and `ReadAbi` are the three stores that
`_ffi, _lib = _load_ffi()` and the line after it perform; `FlagHeaders` and
`SetHeaders` the two halves of the header setter; `Pair` and `PairAsync` the two ways
of pairing headers with an identifier.  `Fork` replaces the process by its child: only
the forking thread goes on, the hook renews the module's locks, a loaded runtime is
dead, and what other threads held of the session stays held.  What happens to an
asynchronous request after `RequestAsync` is `AsyncBridge`'s part.

## 3. The runs

| Run | Instance | Checks |
|---|---|---|
| `pool_safety` | 2 threads, 2 keys, caps -1 (default), 0 (none) and 1, clock to 2, 2 builds; symmetric | `TypeOK`, `NoOverwrite`, `CountExact`, `Conservation`, `CapRespected`, `InsertSurvives` |
| `pool_liveness` | 2 threads, 1 key, cap 1, TTL 1 or 2, 1 build | `RequestsReturn`, `IdleReclaimed` |
| `async_bridge` | 2 requests, one of them of the closed session | `TypeOK`, `NoLostFuture`, `RescueArmed`, `FreedOnceWhileOpen`, `NoLeak`, `KeepsPromise`, `RegistryDrains` |
| `async_double_free` | 1 request | `FreedOnce` is violated |
| `transport_safety` | 2 goroutines, 1 address, 3 copies, h1 and h2, http and https, 2 moves; symmetric | `TypeOK`, `NoPanic`, `StashFits`, `KindsHonest`, `MixupOnlyStale` |
| `transport_liveness` | 2 goroutines, h1, h2 and h3, https and an unknown scheme, 2 moves | `RequestsReturn`, `Settles` |
| `transport_mixup` | 2 goroutines, https, 1 move | `NoMixup` is violated |
| `ws_handles` | 2 threads, 2 clients, 2 connections | `TypeOK`, `RegisteredIsOpen`, `LostOnlyByNamesake`, `ReleasedOnlyByNamesake`, `CloseWakesReader` |
| `ws_close_leaks` | 1 thread, 1 client, 1 connection | `CloseReachesSocket` is violated |
| `facades` | every option alone (1 setter call, 2 requests), interacting pairs, presets, contexts and bodies, old libraries; three families of scenarios for the requests layer | `TypeOK`, `AskedReachesEngine`, `IdentityCoherent`, `PooledClientFits`, `HeadersFit`, `CredentialsStayHome`, `CookiesStayHome`, `RedirectChain` |
| `facades_async` | the same scenarios | `AsyncAsSync` is violated |
| `session_threads` | 2 threads, 2 identifiers, ABI 3, 3 calls, Session and AsyncSession | `TypeOK`, `FreshSnapshot`, `PairedHeaders`, `CallsSound`, `OperationsEnd` |

Why the bounds are enough for the interesting cases:

* Pool: two threads on one key are the double-checked race, two keys under a cap
  of one are an eviction with a protected key, and two ticks with a TTL of one
  make an entry stale, refreshed and re-checked.  The scanner and the
  administrator are two more processes.  Insertion, deletion and clearing of the
  same key by three parties happen with two builds.  The proofs remove the bounds
  for every property of the run.
* Bridge: requests interact only through the registry, the queue and the loop
  thread; two of them give a timer of one behind the reply of the other and an
  owned beside a foreign request under `close()`.
* Transport cache: the races are between a request that still holds a replaced
  transport and one that builds its successor; two goroutines and three copies
  (the stale one, its successor and one more) produce them, and two moves let the
  server change its protocol and come back.  Addresses share only the two
  mutexes, so one is enough for the maps.
* Facades: options meet only where they share a key or where one is derived from
  another (proxies, headers and identifier, redirects, cookies, certificates), and
  those are in play together; all others are in play alone, which includes their
  constructor, setter and keyword in any order.  Two requests after one setter call
  make the snapshot cache and the pool hit, miss and go stale.  For the requests
  layer, the limit of two redirects lets a chain leave its host and return, and two
  calls let a cookie of the first meet the second; a native session with a block of the
  caller's puts credentials of both origins on one chain.  `AskedReachesEngine`,
  `IdentityCoherent`, `PooledClientFits` and `TypeOK` are proved for every scenario,
  that is for all options in play together, any presets and any number of calls.
* Threads: loader against user, setter against request and fork against either are
  pairs; three calls are a change, a request that caches it, and a second change or
  request.  The invariants of the run are proved for any threads and calls.
* Handles: a closer against a reader, two closers of one connection, and a client
  and a connection of equal and of different numbers all fit into two of each.  The
  invariants of the run are proved for any number of each.

In `pool_*`, `async_*`, `facades*` and `session_threads` a deadlock is not an error:
with a bounded clock, bounded builds, and bounded calls the system comes to rest.  In
`transport_*` and `ws_*` a state without a successor is reported.

`AskedReachesEngine` states what the caller of any entry point may expect: the value
of this call, else the last one told to the session by whatever name, else the
library's default, as the C struct should carry it.  Its exceptions are the ways in
which the code departs from that (`AsyncGap`, `EmptyMap`), each as narrow as the code
allows.  `FreshSnapshot` is the linearisability of the options: what a request uses
was the session's state at one moment of the call.  `CallsSound` and `OperationsEnd`
name the windows that loading and the fork hook leave open (section 6).

`RequestsReturn` and `IdleReclaimed` say together that the pool neither blocks
nor keeps: every lookup returns although the scanner holds the mutex for its whole
sweep, and an entry older than the TTL is gone sooner or later.  In the transport cache
`RequestsReturn` has a premise: no reconnect of an HTTP/2 transport hangs for good
(`NoDeadline`).  It says that there is no circular wait and that no error path keeps a
mutex, not that the timeout bounds a request, which it does not (section 6).
`Settles` says that
once servers keep their protocol and requests do not overlap any more, dropping the
entry is enough to recover, whatever the races before have left in the three maps.

## 4. Fairness

* Goroutines and threads that can run do run: weak fairness on their steps.
* `sync.Mutex` hands the lock to a waiter that has waited for a millisecond, so no
  goroutine is overtaken for ever: strong fairness on acquiring a mutex.
* In `TransportCache` strong fairness is on a goroutine's whole step, since what it
  waits for is a mutex or a dial, except in the dial of an HTTP/2 transport.  The setup
  dial and the dials of an HTTP/1 transport run under the request's context, which the
  client's timeout ends (the engine turns a timeout of 0 into 30 seconds).
  `dialTLSHTTP2` passes `context.Background()` (`roundtripper.go:544-546`): nothing makes
  that dial end, so nothing is assumed of it, and it may hold `rt.Mutex` for ever.
* The event loop runs its queue and its timers while it is open and free.
* `SessionThreads`: weak fairness on each thread's step.  The GIL gives every runnable
  thread its turn, native calls return (the engine has its timeouts), and since calls
  are bounded no thread is overtaken at a lock for ever.
* Nothing is assumed of callers (no fairness on `Request`, `Check`, `RoundTrip`,
  `UserCancel`, `CloseMark`), of peers, or of the Go engine's reply: a request may
  hang in the engine for ever and `KeepsPromise` still holds, by the timer.

## 5. The proofs

TLAPS proves the following for every value of the constants that satisfies their
assumptions: finite sets of keys, integer caps and TTLs, positive defaults, special
values (`None`, `Free`, ...) that differ from ordinary ones, and for the facades
`ScenarioAssumptions` and `CompatAssumptions` (a scenario has natural budgets and header
dicts, its arguments are parameters the facade has, `max_redirects` is a natural number,
and `Session.headers`, a `CaseInsensitiveDict`, has one spelling of each name).  TLC evaluates every assumption on the
instances it checks, and it checked each inductive invariant on them before its proof.

**ClientPoolProofs.**  `Discipline` (types, the shape of each process's locals,
`MutexOwner`, `NoOverwrite`, `SweepDeletesLive`) is inductive by itself and gives
`LockDiscipline`.  The counters need `Accounts`: with the lock free or not,
`builds = |Pooled| + totalEvictions + cleared + evicted`, where `evicted` is what the
running sweep has not reported yet; and while an LRU pass is in its Range, the keys
already visited are candidates exactly when they are pooled and not protected.  The
second part is needed because `EvictFinish` overwrites the count with a recount of
its candidates.  From it follow `CountIsExact`, `NoClientLost` and `TypeCorrect` (the
count is never negative, although the sweep decrements it blindly).  `CapKept`
relates the pool to the cap at the places of the insertion where it may be one too
large, and gives `CapIsRespected`.  `Newest` (while a request evicts, its key holds the
client built last) gives the action property `InsertSurvives` (`InsertedStays`): the
range of the eviction never makes the protected key a candidate.

**AsyncBridgeProofs.**  `Inv` adds to the types: an untouched request has nothing
(`Fresh`); whoever pops an entry is its only owner, and only an owner cancels the
timer (`Owner`); a future is pending
until its coroutine awaits it (`Unsettled`); a request that somebody waits for is
registered, popped or queued (`Bound`, which is `NoLostFuture` from registration on);
the closer's set is empty outside its loop (`CloserIdle`); a submitting coroutine has
an open loop (`Running`).  Invariance is proved
once per shape of step (quiet, enqueueing, the loop's own, closing) rather than once
per action.  `OneOwner` ties the number of frees to the place of the response and
gives `ResponseFreedOnce`; `NoLeak` is inductive relative to `Inv`
(`ResponseNotLeaked`).  `BridgeImplementsPromise` shows that each step maps to a step
or a stutter of `AsyncPromise`.

**TransportCacheProofs.**  `IInv` is types with lock ownership, `StashFits`,
`NoPanic`, `KindsHonest` and three links: a transport is cached for at most one
address (`OneAddress`), a request whose transport is cached is a request to that
address (`OwnTransport`), and nothing is cached for an address while its first dial
is under way (`SetupOnMiss`).  `NoPanic` is not inductive without `StashFits`, which in turn needs
to know that no failed dial or drop of the cached transport is under way while its
connection is stashed.  `MixupNeedsStale` is the action property, from the same
invariant.

**WsHandlesProofs.**  None of the three invariants is inductive, because nothing in them
says who may hold a number.  `Links` does: a number is drawn by one call and stored by
that call alone, every other call works on an object that was stored
(`ClientNumbers`, `ConnNumbers`), and a connection that a closer has taken out of the
table stays out (`DeletedForGood`).  From it follow `HandlesAreOpen`, `ConnLost`,
`ClientReleased` and the action property `NumbersNeverReused`: a stale number in a Python
object never reaches a connection opened later.

**SessionThreadsProofs.**  `IInv` has three parts.  `LibInv`: locks are held by the thread
under them, the stores of a load happen in their order, a dead runtime is behind the fork
guard or its fork tore a load, and once the lock of the load is left the library is
complete.  `SessInv`: the cached snapshot is the live pair, and the flag of the headers is
set before any block that does not fit the identifier.  `CallInv`: each call is on the
labels of its kind, has seen the live pair and the one of its own snapshot, knows of every
setter of headers it overlaps, and what it found or took of the library stays true.  The
steps of other threads are covered by framing lemmas, so that a step is proved once for
the shared state and once for the call that takes it.  `SnapshotFresh`, `HeadersPaired`,
`NativeCallsSound` and `TypeCorrect` follow.

**FacadeSteps, FacadesProofs.**  `FacadeSteps` shows that every action of the three facades is
one of the few shapes of `Stepped` (constructor, setter, identifier, preset, execution,
clearing, or nothing of the session's own) and that an execution hands over the options
`Final` computes, or nothing.  `FacadesProofs` then needs one case per shape.
`PooledClients` rests on `PoolKeyed` (a pooled client is what its key says) and on the
tables: the key names every field a client is built from, apart from the two that only
report.  `IdentityKept` rests on `Paired` (the session's block is its identifier's unless
it was told another) and on `SnapshotFresh` (the cached snapshot agrees with `defaults`
apart from the fields an asynchronous preset wrote under it).  `OptionsArrive` adds
`ToldInv`: `defaults` holds for each key what the session was told last, or the library's
default, and the flag of the headers says which.  `CallSound` carries the settings of a
call of the requests layer from `Ask` to its last hop.  The preset registry is opaque in
these proofs: they use only what `Written` says of every preset that `apply` accepts,
known keys, a supported identifier and flags that are 0 or 1.

**WireProofs.**  The contents of the header dicts, which every facade builds by laying one
sequence of entries over another.  `OverrideIs`, `WithoutIs` and `PutIs` say what an
assignment, a removal and one entry of a merge do to every name; `UpdateIs` says it of the
whole loop, for dicts of any length.  The library's induction theorems cannot be used here,
so the loop is followed by `Climb`: among the rounds at which the claim fails there would be
a least one (`WFMin`).  `BlocksSound` shows that every block, a profile's, a preset's or the caller's, names the
navigation headers at most once, without which `apply_context`, which removes the first
spelling it finds, would leave one behind.  `ContextIs` and `WireIs` follow the headers to
the wire: what the request owns there (`Authorization`, `Cookie`, the headers of a body) is an
entry of the request or of the block (`Sourced`).  `StructDeclares` links the block and the
browser to the fields of the C struct, and `CallFits` gives `HeadersAlwaysFit`.

The three theorems about redirects rest on `WireInv`.  `CredentialsStayHome` and its
neighbours speak only of requests on the wire and are not inductive: `OnCall` says the same
of the request about to be sent, and `Wired` that the wire shows that request over the
session's block.  The theorems therefore hold whatever `default_headers` contain: a header
that is not the block's own entry is the current request's (`OwnHeader`).  `OnCall`
holds that the headers of the current request spell each name once (`Tidy`; with two
spellings the removal on a redirect would leave one), that an `Authorization` is there only
while no hop has left the first netloc (`AuthHome`), that the cookies put in may go to the
current URL and after a redirect are the jar's (`CookiesHome`), and the method and body rule
(`BodyRule`).  `JarSafe` (a cookie without a domain is the caller's, or one that only the
engine lists) holds through every update from a response.  The length of the chain, the
answers and their cookies are arbitrary.

Only model-checked: all liveness (fairness and ENABLED are outside the prover's reach),
with the liveness half of `KeepsPromise`.  Every invariant and every action property that a
passing run checks is also a theorem.

## 6. What was found

Four places where a comment or docstring disagrees with the code; each has a run
whose counterexample shows it, and is quoted in `PROJECT.json`.

1. `async_double_free`: on a closed loop the response is freed by `ffi.release` and
   again by `FreeResponse` (`_core.py:3799-3801`).
2. `ws_close_leaks`: closing client N unregisters connection N, whose own `close()`
   then leaves the socket open (`websocket.py:110`).
3. `transport_mixup`: a request that still holds a replaced HTTP/1 transport takes the
   HTTP/2 connection stashed for its successor (`roundtripper.go:343-345`).
4. `facades_async`: `AsyncSession.execute_request` and `typed_request` ignore the
   session's proxy (`_core.py:4149`, against the comments at 4153 and 4178).

Seen while modelling, without a run of their own:

* Pool: a hit that refreshes an entry between the sweep's re-check and its `Delete`
  loses its client from the pool all the same (`main.go:356-357` says the re-check
  catches it).
* Handles: closing connection N also frees client N (the exception in
  `ReleasedOnlyByNamesake`); `read_message` has no path that returns `None` on a clean
  close.
* Transport cache: an HTTP/2 reconnect to a silent server has no deadline
  (`dialTLSHTTP2`, `roundtripper.go:544-546`) and keeps `rt.Mutex` (279); every other
  request that needs a TLS dial waits behind it for ever, whatever its `timeout`, which the
  constructor calls the total request timeout (`_core.py:2649`).  This is the premise of
  `RequestsReturn`.
* Transport cache: a late drop deletes the kind of the successor, whose next dial fails
  although its entry is in place (`roundtripper.go:160-161, 363`, against the comment at
  150-152); `KindsHonest` allows it (a kind may be forgotten, never wrong) and `Settles`
  shows that the address recovers.  A plain http request caches a transport without a
  kind under the host's https address, so that alternating http and https requests to one
  host go on failing (why `Settles` is checked without http); while requests overlap, `Settles` is false, since each late drop may delete the
  kind that the other request has just recorded (why it assumes `Alone`).
* Library and fork: a thread that calls `_get_ffi` while another is between its stores
  may see no library or ABI 1.  If it is the first asynchronous request, it makes the
  process-wide callback with a library of `None` (`_core.py:3832`): from then on every
  reply pops its entry, cancels its timer and raises, and no asynchronous request of the
  process is ever answered (`callback = "broken"`).  A fork between `dlopen` and the store of `_lib` leaves
  the guard unarmed; a fork while another thread holds a session's `_defaults_lock`
  leaves that session unusable in the child (`torn` and `Stuck` in `SessionThreads`).
* AsyncSession: `stream_to_file` ignores `timeout`, `verify` and
  `random_tls_extension_order` and does not validate the identifier; `apply()` of a
  preset writes TCP fields past the snapshot's version (`registry.py:161`, against its
  comment at 126-130); headers are paired with the session's live identifier, not with
  the snapshot (`_core.py:4277`), so that a request which overlaps a change of the
  identifier may mix two profiles (the exception in `PairedHeaders`).
* Session: an empty per-request identifier passes validation and reaches the engine; `params` and `stream`
  of a session have no effect; a `proxies` map without a usable entry cannot switch the
  session's proxy off; `catch_panics` and `with_debug` shape a pooled client but not
  its key; `close()` clears the pool of every session; `request(data=..., json=...)`
  sends the JSON body under the form's content type.
* Presets: those of the 36 Chrome majors without an engine profile raise when applied;
  the extension-order switch of a preset and its header-order templates have no effect;
  header blocks merge by exact spelling, so a child's `accept` joins its parent's
  `Accept`, and a context then changes only the first of the two (`HeadersFit` speaks of
  the first spelling); after a preset, another identifier keeps the preset's headers.
* Redirects and `default_headers`: an `Authorization` or a `Cookie` among them is merged
  into every hop (`_core.py:3209`), so it goes to every host of a chain, and a
  `Content-Type` stays on a request that has lost its body; `_redirect_request` strips
  only the request's own headers (`requests_compat.py:706-711`).  No document says
  otherwise, so `CredentialsStayHome`, `CookiesStayHome` and `RedirectChain` speak of what
  does not stand in `default_headers` (`FromDefaults`).  The `request_cookies` option of
  the engine also goes out on every hop (`requests_compat.py:44, 660-663`) and is outside
  `CookiesStayHome`, which covers the `Cookie` header and `cookies=`.
* Requests layer: a `timeout` in seconds loses to a session's `timeout_milliseconds`; a
  closed adapter still sends; any `Domain` of a response is accepted and expiry is
  ignored; cookies that only the engine lists have no domain; a response that sets two
  cookies of one name makes `send` raise; cookies given for one request end at the
  first redirect; `Authorization` survives a redirect from https to http on one
  netloc; a `HEAD` answered by 303 becomes a `GET`; a prepared request skips the
  environment's settings; the target of a context is not updated along a redirect.

## 7. What is not modelled

In the Python package: response unpacking, streaming bodies and files, multipart
encoding, mounting other adapters, the search for the shared library, pickling and the
dict protocol of the jar, expiry of cookies, and the
generators under `tools/`.  52 of the 55 generated Chrome majors have the shape
of the three in `Presets` and are left out.

Values and formats: header text, TLS extension contents, JSON, the profiles' tables,
hashing, compression.  System calls: socket options, DNS, QUIC and TLS themselves.
Vendored fhttp is external; its transports appear by what `roundtripper.go` needs of
them.  `dialTLSForWebsocket` keeps no state.  How long a dial takes is not modelled:
one under a request's context ends, an HTTP/2 reconnect may not, and everyone who needs its
mutex waits.  The remaining components are listed
as not modelled in `PROJECT.json` with the reason or the plan for them.

## 8. Plan

In order of importance; components that share state are checked by one run.

1. `Racer`: the attempts of a request over `TransportCache`, the protocol cache and
   the result channel of capacity two.  Properties: the invariants of
   `TransportCache` under two attempts per request; every attempt's goroutine ends; a
   race returns when one attempt can; a dead protocol is forgotten.  Then an abstract
   "one response per request" specification and its refinement.
2. `ConnectDialer`: the cached HTTP/2 proxy connection, its replacement when it dies,
   failures after the raw dial.
3. `ClientFacade` and `CookieJar`: `SetProxy` with its rollback against running
   requests, hooks and their abort, the jar's two views under the skip and empty
   options, against a reference jar.
4. Request execution: ownership of C memory over a synchronous call.
5. `EchCache`, `Socks5Udp`: expiry and concurrent resolution, lifetime of the
   association.
6. Pure algorithms (header order, extension permutation, pin lookup) against reference
   definitions over bounded inputs.

## 9. Running

    tlc -workers 2 -config MCClientPool.cfg MCClientPool
    tlapm ClientPoolProofs.tla

and so for the others; `PROJECT.json` names the module and configuration of each run.
Every run and every proof module takes a few minutes at most.
