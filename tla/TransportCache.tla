--------------------------- MODULE TransportCache ---------------------------
(***************************************************************************)
(* The transport cache of roundtripper.go.  The first https request to an  *)
(* address dials, looks at what ALPN negotiated, builds the transport that *)
(* speaks it, and stashes the connection for that transport's first dial.  *)
(* Later dials of a cached transport come back through dialTLS, which      *)
(* compares the newly negotiated protocol with the cached kind and reports *)
(* errProtocolChanged when they differ; RoundTrip then drops the entry.    *)
(*                                                                         *)
(* Two mutexes and two maps are involved: cachedTransportsLck guards       *)
(* cachedTransports, rt.Mutex is held across every TLS dial and guards     *)
(* the stash, and cachedKinds is read and written without the former.      *)
(* Goroutines interleave wherever neither is held.                         *)
(*                                                                         *)
(* A transport is its kind, whether it was built for a plain http request, *)
(* and which of several copies it is; one that nobody refers to any more   *)
(* may be built again.  A connection is the protocol it speaks.  What the  *)
(* transports do is external: a round trip reuses an idle connection or    *)
(* dials one.                                                              *)
(***************************************************************************)
EXTENDS Naturals

CONSTANTS Goroutines, Addrs,
          Copies,      \* bound: live transports of one kind
          Kinds,       \* what servers negotiate: a subset of AllKinds
          Schemes,     \* of the requests made
          MaxMoves,    \* bound: how often servers change their protocol
          None

AllKinds == {"h1", "h2", "h3"}

Transports == [kind : Kinds \cup {"h1"}, plain : BOOLEAN, copy : Copies]

ASSUME KindsAssumption == Kinds \subseteq AllKinds
ASSUME SchemesAssumption == Schemes \subseteq {"http", "https", "other"}
ASSUME MovesAssumption == MaxMoves \in Nat
ASSUME NoneAssumption == None \notin Transports \cup Goroutines \cup AllKinds

VARIABLES cachedTransports,   \* addr -> transport or None
          cachedKinds,        \* addr -> kind or None
          cachedConnections,  \* addr -> the stashed connection's kind or None
          transportsLck,      \* who holds cachedTransportsLck
          rtLck,              \* who holds rt.Mutex
          idle,               \* the transports that hold an idle connection
          server, moves,      \* what each server negotiates now
          pc, addr, scheme, tr, got  \* of each goroutine's request

caches == <<cachedTransports, cachedKinds, cachedConnections>>
locks == <<transportsLck, rtLck>>
world == <<server, moves>>
request == <<addr, scheme>>
vars == <<caches, locks, idle, world, pc, request, tr, got>>

\* newRoundTripper.
Init ==
    /\ cachedTransports = [a \in Addrs |-> None]
    /\ cachedKinds = [a \in Addrs |-> None]
    /\ cachedConnections = [a \in Addrs |-> None]
    /\ transportsLck = None /\ rtLck = None
    /\ idle = {}
    /\ server \in [Addrs -> Kinds]
    /\ moves = 0
    /\ pc = [g \in Goroutines |-> "idle"]
    /\ addr = [g \in Goroutines |-> None]
    /\ scheme = [g \in Goroutines |-> None]
    /\ tr = [g \in Goroutines |-> None]
    /\ got = [g \in Goroutines |-> None]

\* A transport that neither the cache nor a request refers to.
Unused(t) ==
    /\ \A a \in Addrs : cachedTransports[a] # t
    /\ \A g \in Goroutines : tr[g] # t

Goto(g, from, to) ==
    /\ pc[g] = from
    /\ pc' = [pc EXCEPT ![g] = to]

\* RoundTrip returns, with a response or an error.
Finish(g, from) ==
    /\ Goto(g, from, "idle")
    /\ addr' = [addr EXCEPT ![g] = None]
    /\ scheme' = [scheme EXCEPT ![g] = None]
    /\ tr' = [tr EXCEPT ![g] = None]
    /\ got' = [got EXCEPT ![g] = None]

-----------------------------------------------------------------------------
(* RoundTrip up to the transport: look the address up under                *)
(* cachedTransportsLck, building what is missing.                          *)

RoundTrip(g, a, s) ==
    /\ Goto(g, "idle", "lookup")
    /\ addr' = [addr EXCEPT ![g] = a]
    /\ scheme' = [scheme EXCEPT ![g] = s]
    /\ UNCHANGED <<caches, locks, idle, world, tr, got>>

LookupHit(g) ==
    /\ pc[g] = "lookup"
    /\ transportsLck = None
    /\ cachedTransports[addr[g]] # None
    /\ Goto(g, "lookup", "send")
    /\ tr' = [tr EXCEPT ![g] = cachedTransports[addr[g]]]
    /\ UNCHANGED <<caches, locks, idle, world, request, got>>

\* getTransport, "http": an HTTP/1 transport, and no entry in cachedKinds.
GetTransportPlain(g, t) ==
    /\ pc[g] = "lookup"
    /\ transportsLck = None
    /\ cachedTransports[addr[g]] = None
    /\ scheme[g] = "http"
    /\ Unused(t) /\ t.kind = "h1" /\ t.plain
    /\ Goto(g, "lookup", "send")
    /\ cachedTransports' = [cachedTransports EXCEPT ![addr[g]] = t]
    /\ idle' = idle \ {t}
    /\ tr' = [tr EXCEPT ![g] = t]
    /\ UNCHANGED <<cachedKinds, cachedConnections, locks, world, request, got>>

GetTransportRejects(g) ==
    /\ pc[g] = "lookup"
    /\ transportsLck = None
    /\ cachedTransports[addr[g]] = None
    /\ scheme[g] = "other"
    /\ Finish(g, "lookup")
    /\ UNCHANGED <<caches, locks, idle, world>>

\* getTransport, "https": dialTLSSetup with cachedTransportsLck held.
GetTransportTLS(g) ==
    /\ pc[g] = "lookup"
    /\ transportsLck = None
    /\ cachedTransports[addr[g]] = None
    /\ scheme[g] = "https"
    /\ Goto(g, "lookup", "setup")
    /\ transportsLck' = g
    /\ UNCHANGED <<caches, rtLck, idle, world, request, tr, got>>

-----------------------------------------------------------------------------
(* dialTLSWithSetup(setup = true)                                          *)

\* The stashed connection comes back with a nil error: getTransport panics,
\* and nothing unlocks cachedTransportsLck.
SetupFindsStash(g) ==
    /\ pc[g] = "setup"
    /\ rtLck = None
    /\ cachedConnections[addr[g]] # None
    /\ Goto(g, "setup", "panic")
    /\ cachedConnections' = [cachedConnections EXCEPT ![addr[g]] = None]
    /\ UNCHANGED <<cachedTransports, cachedKinds, locks, idle, world, request, tr, got>>

SetupDials(g) ==
    /\ pc[g] = "setup"
    /\ rtLck = None
    /\ cachedConnections[addr[g]] = None
    /\ Goto(g, "setup", "setupDial")
    /\ rtLck' = g
    /\ UNCHANGED <<caches, transportsLck, idle, world, request, tr, got>>

SetupEnters(g) ==
    /\ pc[g] = "setup"
    /\ IF cachedConnections[addr[g]] # None THEN SetupFindsStash(g) ELSE SetupDials(g)

\* Mutant: the error path forgets to unlock cachedTransportsLck.
SetupFailsLocked(g) ==
    /\ Finish(g, "setupDial")
    /\ rtLck' = None
    /\ UNCHANGED <<caches, transportsLck, idle, world>>

\* The dial, the handshake or the pin check fails.
SetupFails(g) ==
    /\ Finish(g, "setupDial")
    /\ rtLck' = None
    /\ transportsLck' = None
    /\ UNCHANGED <<caches, idle, world>>

\* Built, cached, its kind recorded, the connection stashed, both unlocked.
BuildAndStash(g, t, k) ==
    LET a == addr[g] IN
    /\ Goto(g, "setupDial", "send")
    /\ Unused(t) /\ t.kind = server[a] /\ ~t.plain
    /\ idle' = idle \ {t}
    /\ cachedTransports' = [cachedTransports EXCEPT ![a] = t]
    /\ cachedKinds' = [cachedKinds EXCEPT ![a] = k]
    /\ cachedConnections' = [cachedConnections EXCEPT ![a] = server[a]]
    /\ tr' = [tr EXCEPT ![g] = t]
    /\ rtLck' = None
    /\ transportsLck' = None
    /\ UNCHANGED <<world, request, got>>

\* Mutant: a kind left behind by an unfinished drop counts as a transport,
\* and the connection is returned with a nil error.
SetupTrustsKind(g, t) ==
    /\ pc[g] = "setupDial"
    /\ IF cachedKinds[addr[g]] = server[addr[g]]
       THEN /\ Goto(g, "setupDial", "panic")
            /\ rtLck' = None
            /\ UNCHANGED <<caches, transportsLck, idle, world, request, tr, got>>
       ELSE BuildAndStash(g, t, server[addr[g]])

\* Mutant: a kind that is already recorded is left as it is.
SetupKeepsKind(g, t) ==
    /\ pc[g] = "setupDial"
    /\ BuildAndStash(g, t, IF cachedKinds[addr[g]] # None THEN cachedKinds[addr[g]]
                           ELSE server[addr[g]])

SetupBuilds(g, t) ==
    /\ pc[g] = "setupDial"
    /\ BuildAndStash(g, t, server[addr[g]])

-----------------------------------------------------------------------------
(* t.RoundTrip(req), by the transport's own code.  An https request over   *)
(* HTTP/1 or HTTP/2 reuses an idle connection or dials through dialTLS;    *)
(* HTTP/3 brings its own dialer; plain http goes through rt.dial.          *)

ReuseConnection(g) ==
    /\ pc[g] = "send"
    /\ scheme[g] = "https"
    /\ tr[g] \in idle
    /\ Finish(g, "send")
    /\ UNCHANGED <<caches, locks, idle, world>>

\* The request is cancelled, its scheme does not suit the transport, or it
\* fails for a reason of its own.
RequestFails(g) ==
    /\ Finish(g, "send")
    /\ UNCHANGED <<caches, locks, idle, world>>

SendWithoutTLSDial(g) ==
    /\ pc[g] = "send"
    /\ \/ scheme[g] = "http" /\ tr[g].kind = "h1"
       \/ scheme[g] = "https" /\ tr[g].kind = "h3"
    /\ Finish(g, "send")
    /\ UNCHANGED <<caches, locks, idle, world>>

-----------------------------------------------------------------------------
(* dialTLS: dialTLSWithSetup(setup = false)                                *)

Dials(g) ==
    /\ pc[g] = "send"
    /\ scheme[g] = "https"
    /\ tr[g].kind \in {"h1", "h2"}
    /\ rtLck = None

DialTakesStash(g) ==
    /\ Dials(g)
    /\ cachedConnections[addr[g]] # None
    /\ Goto(g, "send", "use")
    /\ got' = [got EXCEPT ![g] = cachedConnections[addr[g]]]
    /\ cachedConnections' = [cachedConnections EXCEPT ![addr[g]] = None]
    /\ UNCHANGED <<cachedTransports, cachedKinds, locks, idle, world, request, tr>>

DialTLS(g) ==
    /\ Dials(g)
    /\ cachedConnections[addr[g]] = None
    /\ Goto(g, "send", "dial")
    /\ rtLck' = g
    /\ UNCHANGED <<caches, transportsLck, idle, world, request, tr, got>>

DialFails(g) ==
    /\ Finish(g, "dial")
    /\ rtLck' = None
    /\ UNCHANGED <<caches, transportsLck, idle, world>>

\* Mutant: the connection is handed over whatever was negotiated.
DialAlwaysFits(g) ==
    /\ Goto(g, "dial", "use")
    /\ got' = [got EXCEPT ![g] = server[addr[g]]]
    /\ rtLck' = None
    /\ UNCHANGED <<caches, transportsLck, idle, world, request, tr>>

\* The kind recorded for the address fits what was negotiated.
DialFits(g) ==
    /\ pc[g] = "dial"
    /\ cachedKinds[addr[g]] = server[addr[g]]
    /\ Goto(g, "dial", "use")
    /\ got' = [got EXCEPT ![g] = server[addr[g]]]
    /\ rtLck' = None
    /\ UNCHANGED <<caches, transportsLck, idle, world, request, tr>>

\* Mutant: the dial is tried again instead of reporting the change.
DialChangedRetries(g) ==
    /\ pc[g] = "dial"
    /\ cachedKinds[addr[g]] # server[addr[g]]
    /\ Goto(g, "dial", "send")
    /\ rtLck' = None
    /\ UNCHANGED <<caches, transportsLck, idle, world, request, tr, got>>

\* It does not, or there is none: errProtocolChanged.
DialChanged(g) ==
    /\ pc[g] = "dial"
    /\ cachedKinds[addr[g]] # server[addr[g]]
    /\ Goto(g, "dial", "drop")
    /\ rtLck' = None
    /\ UNCHANGED <<caches, transportsLck, idle, world, request, tr, got>>

\* The transport talks over the connection it was given: a response if they
\* speak the same protocol, a malformed one otherwise.
UseConnection(g) ==
    /\ pc[g] = "use"
    /\ Finish(g, "use")
    /\ idle' = IF got[g] = tr[g].kind THEN idle \cup {tr[g]} ELSE idle
    /\ UNCHANGED <<caches, locks, world>>

-----------------------------------------------------------------------------
(* dropCachedTransport: the transport under one lock, the kind under       *)
(* another, then the stale transport's idle connections.                   *)

\* Mutant: whatever is cached for the address is dropped.
DropAnyTransport(g) ==
    /\ transportsLck = None
    /\ Goto(g, "drop", "dropKind")
    /\ cachedTransports' = [cachedTransports EXCEPT ![addr[g]] = None]
    /\ UNCHANGED <<cachedKinds, cachedConnections, locks, idle, world, request, tr, got>>

\* Mutant: the transport stays and only its kind is forgotten.
DropNothing(g) ==
    /\ Goto(g, "drop", "dropKind")
    /\ UNCHANGED <<caches, locks, idle, world, request, tr, got>>

DropTransport(g) ==
    /\ pc[g] = "drop"
    /\ transportsLck = None
    /\ Goto(g, "drop", "dropKind")
    /\ cachedTransports' =
         [cachedTransports EXCEPT ![addr[g]] = IF @ = tr[g] THEN None ELSE @]
    /\ UNCHANGED <<cachedKinds, cachedConnections, locks, idle, world, request, tr, got>>

DropKind(g) ==
    /\ pc[g] = "dropKind"
    /\ cachedKinds' = [cachedKinds EXCEPT ![addr[g]] = None]
    /\ idle' = idle \ {tr[g]}
    /\ Finish(g, "dropKind")
    /\ UNCHANGED <<cachedTransports, cachedConnections, locks, world>>

-----------------------------------------------------------------------------
CloseIdleConnections ==
    /\ transportsLck = None
    /\ idle' = {t \in idle : \A a \in Addrs : cachedTransports[a] # t}
    /\ UNCHANGED <<caches, locks, world, pc, request, tr, got>>

\* An idle connection is closed by the server or its timeout.
ConnectionDies(t) ==
    /\ t \in idle
    /\ idle' = idle \ {t}
    /\ UNCHANGED <<caches, locks, world, pc, request, tr, got>>

\* "Servers do change their mind."
ServerMoves(a, k) ==
    /\ moves < MaxMoves
    /\ server[a] # k
    /\ server' = [server EXCEPT ![a] = k]
    /\ moves' = moves + 1
    /\ UNCHANGED <<caches, locks, idle, pc, request, tr, got>>

\* What a goroutine inside a call does next.
Step(g) ==
    \/ LookupHit(g) \/ GetTransportRejects(g) \/ GetTransportTLS(g)
    \/ \E t \in Transports : GetTransportPlain(g, t) \/ SetupBuilds(g, t)
    \/ SetupEnters(g) \/ SetupFails(g)
    \/ ReuseConnection(g) \/ RequestFails(g) \/ SendWithoutTLSDial(g)
    \/ DialTakesStash(g) \/ DialTLS(g) \/ DialFails(g) \/ DialFits(g) \/ DialChanged(g)
    \/ UseConnection(g) \/ DropTransport(g) \/ DropKind(g)

Next ==
    \/ \E g \in Goroutines :
         \/ \E a \in Addrs, s \in Schemes : RoundTrip(g, a, s)
         \/ Step(g)
    \/ CloseIdleConnections
    \/ \E t \in Transports : ConnectionDies(t)
    \/ \E a \in Addrs, k \in Kinds : ServerMoves(a, k)

Spec == Init /\ [][Next]_vars

\* dialTLSHTTP2 dials with context.Background(): the reconnect of an HTTP/2
\* transport has no deadline, and against a silent server it goes on for
\* ever with rt.Mutex held.
NoDeadline(g) == pc[g] = "dial" /\ tr[g].kind = "h2"

\* A goroutine waiting for a mutex gets it in the end (sync.Mutex does not
\* starve) and a dial under the context of a request, the setup dial and
\* the reconnect of an HTTP/1 transport, ends by that request's timeout.
\* Nothing makes the dial of dialTLSHTTP2 end.
FairSpec == Spec /\ \A g \in Goroutines : SF_vars(~NoDeadline(g) /\ Step(g))

-----------------------------------------------------------------------------
PCs == {"idle", "lookup", "setup", "setupDial", "panic", "send", "dial", "use",
        "drop", "dropKind"}

\* Types, and which part of a request holds which mutex.
TypeOK ==
    /\ cachedTransports \in [Addrs -> Transports \cup {None}]
    /\ cachedKinds \in [Addrs -> Kinds \cup {None}]
    /\ cachedConnections \in [Addrs -> Kinds \cup {None}]
    /\ idle \subseteq Transports
    /\ server \in [Addrs -> Kinds]
    /\ moves \in 0 .. MaxMoves
    /\ pc \in [Goroutines -> PCs]
    /\ addr \in [Goroutines -> Addrs \cup {None}]
    /\ scheme \in [Goroutines -> Schemes \cup {None}]
    /\ tr \in [Goroutines -> Transports \cup {None}]
    /\ got \in [Goroutines -> Kinds \cup {None}]
    /\ transportsLck \in Goroutines \cup {None}
    /\ rtLck \in Goroutines \cup {None}
    /\ \A g \in Goroutines :
         /\ pc[g] # "idle" => addr[g] \in Addrs
         /\ pc[g] \in {"send", "dial", "use", "drop", "dropKind"} <=> tr[g] \in Transports
         /\ pc[g] \in {"setup", "setupDial", "panic"} <=> transportsLck = g
         /\ pc[g] \in {"setupDial", "dial"} <=> rtLck = g

\* getTransport's "Should never happen": the setup dial never finds a
\* stashed connection, so it never panics with cachedTransportsLck locked.
NoPanic == \A g \in Goroutines : pc[g] # "panic"

\* A stashed connection always belongs to the transport that is cached for
\* its address: it speaks that transport's protocol, and no drop or failed
\* dial of that transport is under way that would orphan it.
StashFits ==
    \A a \in Addrs :
        cachedConnections[a] # None =>
            /\ cachedTransports[a] # None
            /\ cachedTransports[a].kind = cachedConnections[a]
            /\ \A g \in Goroutines :
                 tr[g] = cachedTransports[a] => pc[g] \notin {"dial", "drop"}

\* cachedKinds may forget the kind of the cached transport but never lies
\* about it, whatever drops and setups overlap.
KindsHonest ==
    \A a \in Addrs :
        cachedKinds[a] # None /\ cachedTransports[a] # None
            => \/ cachedTransports[a].kind = cachedKinds[a]
               \/ cachedTransports[a].plain

Handed(g) == pc[g] \in {"send", "dial"} /\ pc'[g] = "use"

\* A transport is handed a connection it cannot speak only if it has already
\* been replaced in the cache, or was built for a plain http request.
MixupOnlyStale ==
    [][\A g \in Goroutines :
         Handed(g) /\ got'[g] # tr[g].kind
             => cachedTransports[addr[g]] # tr[g] \/ tr[g].plain]_vars

\* Every request returns, unless an HTTP/2 reconnect hangs for good: the two
\* mutexes are never waited for in a circle and no error path keeps one.
RequestsReturn ==
    (\A g \in Goroutines : []<>~NoDeadline(g))
        => \A g \in Goroutines : pc[g] # "idle" ~> pc[g] = "idle"

\* No two requests overlap.
Alone == \A g, h \in Goroutines : pc[g] # "idle" /\ pc[h] # "idle" => g = h

\* Once servers have stopped changing their protocol and requests no longer
\* overlap, requests stop failing with errProtocolChanged: whatever earlier
\* races left in the three maps, dropping the entry is enough to recover.
Settles == <>[]Alone => \A g \in Goroutines : <>[](pc[g] # "drop")

\* What a comment of roundtripper.go says, and the code does not ensure:
\* dialTLSWithSetup: an HTTP/1 transport must not be left reading an HTTP/2
\* SETTINGS frame; the check of the negotiated kind is there to prevent it.
NoMixup ==
    \A g \in Goroutines : pc[g] = "use" => got[g] = tr[g].kind
=============================================================================
