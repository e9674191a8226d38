--------------------------- MODULE SessionOptions ---------------------------
(***************************************************************************)
(* Session and AsyncSession of tls_client/_core.py: how what a caller says *)
(* (constructor, property setters, presets, keyword arguments of a call)   *)
(* becomes the RequestOptions struct handed to the Go engine, the headers  *)
(* on the wire and the pooled client that serves the request.              *)
(*                                                                         *)
(* A scenario fixes the parameters in play, the ABI of the loaded library  *)
(* and the bounds on setter calls and requests; an option that is not in   *)
(* play keeps its library default and is left out of the functions.        *)
(***************************************************************************)
EXTENDS Presets

CONSTANT
    Scenarios       \* [fields, headers, contexts, presets, abi, sets, calls, compat]
                    \* records; compat is <<>> unless RequestsCompat uses it

ASSUME ScenarioAssumptions ==
    \A s \in Scenarios :
        /\ DOMAIN s = {"fields", "headers", "contexts", "presets", "abi", "sets", "calls",
                       "compat"}
        /\ s.sets \in Nat /\ s.calls \in Nat
        /\ \A h \in s.headers : h \in Seq(ToSet(h))

VARIABLES
    facade,         \* "none", "sync", "async" (or "compat", see RequestsCompat)
    scen,           \* the scenario
    defaults,       \* Session.defaults
    customized,     \* Session._headers_customized
    cached,         \* _selected_snapshot_cache: [filled, snap]
    template,       \* <<_fingerprint_header_order, ..._xhr>> of the Session
    closed,         \* Session._closed
    warned,         \* _abi3_warned
    pool,           \* the Go client pool: [key, client] records
    told,           \* ghost: per key, what the caller last told the session
    bare,           \* ghost: keys written past _set_default under a filled cache
    sent,           \* the request just handed to the engine, or NoRequest
    sets, requests  \* budgets

vars == <<facade, scen, defaults, customized, cached, template, closed, warned,
          pool, told, bare, sent, sets, requests>>

NoRequest == [none |-> TRUE]
NoCache == [filled |-> FALSE]

(* ------------------------- values in play ------------------------------ *)
ValuesOf(p) ==
    CASE p = "client_identifier"  -> {"chrome_120", "firefox_135", "bogus", "empty"}
      [] p = "proxy"              -> {None, "p1", "other-map", "empty-map"}
      [] p = "proxies"            -> {None, "https-map", "empty-map"}
      [] p \in {"default_headers", "headers"} -> {None, "empty", "mine"}
      [] p = "custom_tls_client"  ->
            {None, "ja3_string", "alpn_protocols", "h2_settings", "trust_anchors_payload",
             "misspelt"}
      [] p = "cert"               -> {None, "pem"}
      [] p = "auth"               -> {None, "basic"}
      [] p = "data"               -> {"form", "raw"}
      [] p = "json"               -> {"object"}
      [] p = "fingerprint"        -> {"chrome_152", "chrome_99", "loop_a"}
      [] p = "verify" \/ KeyOf(p) \in Flags \cup {"stream"} -> {"True", "False"}
      [] KeyOf(p) \in TRISTATE_REQUEST_KEYS   -> {None, "0", "1"}
      [] KeyOf(p) \in INT_REQUEST_KEYS \ (TRISTATE_REQUEST_KEYS \cup Flags) -> {None, "7"}
      [] OTHER                                -> {None, "empty", "x"}

\* Keyword arguments: any subset of P, each with one of its values.
Kwargs(P) ==
    LET G == {g \in [P -> UNION {ValuesOf(p) : p \in P} \cup {"absent"}] :
                 \A p \in P : g[p] \in ValuesOf(p) \cup {"absent"}}
    IN  {[p \in {q \in P : g[q] # "absent"} |-> g[p]] : g \in G}

(* -------------------------- small helpers ------------------------------ *)
\* The keys apply() writes one by one.
FpKeys ==
    {"tcp_ttl", "tcp_window_size", "tcp_window_scale", "tcp_mss"} \cup Abi3Fields

\* The keys of Session.defaults that a scenario can change.
InPlay(fields, presets) ==
    {"client_identifier", "default_headers", "proxy"}
    \cup ({KeyOf(p) : p \in fields} \cap DOMAIN LibraryDefault)
    \cup (IF "cert" \in fields THEN {"client_certificates"} ELSE {})
    \cup (IF presets # {} \/ "fingerprint" \in fields
          THEN FpKeys \cup {"pseudo_header_order", "h3_pseudo_header_order",
                            "custom_tls_client"}
          ELSE {})
Resolvable == scen.keys \cap RequestKeys

\* DEFAULT_HEADERS.get(identifier).
Profile(i) == IF i \in SUPPORTED_CLIENT_IDENTIFIERS THEN i ELSE None

\* _resolve_proxy_url for an https URL: the scheme's entry, else "all", else
\* whatever entry comes first.
ResolveProxyUrl(v) ==
    CASE v = "https-map" -> "p1"
      [] v = "other-map" -> "p2"
      [] v = "empty-map" -> None
      [] OTHER           -> v

Either(a, b) == IF a # None THEN a ELSE b

\* Session.defaults as __init__ builds it.
ConstructorDefaults(g) ==
    LET ci == IF "client_identifier" \in DOMAIN g THEN g.client_identifier ELSE "chrome_120"
        Plain(k) == LET ps == {p \in DOMAIN g : KeyOf(p) = k}
                    IN  IF ps = {} THEN LibraryDefault[k]
                        ELSE LET p == CHOOSE q \in ps : TRUE IN Stored(p, g[p])
    IN  [k \in scen.keys |->
            CASE k = "proxy" -> Either(Get(g, "proxies"), Get(g, "proxy"))
              [] k = "default_headers" ->
                    Either(Either(Get(g, "default_headers"), Get(g, "headers")), Profile(ci))
              [] k = "request_cookies" ->
                    Either(Get(g, "request_cookies"), Get(g, "cookies"))
              [] OTHER -> Plain(k)]

\* What the caller said, per key: two aliases in one call leave both standing.
Said(g) ==
    LET heard == {p \in DOMAIN g \ {"fingerprint"} :
                    p \in {"proxies", "proxy", "headers", "default_headers", "cookies",
                           "request_cookies"} => g[p] # None}
    IN  [k \in {KeyOf(p) : p \in heard} |->
            {Stored(p, g[p]) : p \in {q \in heard : KeyOf(q) = k}}]

(* ------------------------------ presets -------------------------------- *)
\* resolve(), <<>> where it raises: unknown name or based_on cycle.
PresetNamed(n) == IF Unknown(n) \/ n \in CyclicPresets THEN <<>> ELSE Resolved[n]

\* apply() of the resolved preset r raises before it has written anything a
\* request reads: no such preset, or an identifier the engine does not
\* support.
PresetRefused(r) ==
    \/ r = <<>>
    \/ /\ Truthy(Get(r, "client_identifier"))
       /\ r.client_identifier \notin SUPPORTED_CLIENT_IDENTIFIERS

\* The keys a preset writes and the values it writes there.  Its
\* with_random_tls_extension_order becomes a plain attribute that no request
\* reads.
PresetWrites(r) ==
    LET set == {k \in {"client_identifier", "pseudo_header_order",
                       "h3_pseudo_header_order", "default_headers",
                       "custom_tls_client"} : Truthy(Get(r, k))}
    IN  [k \in set \cup (DOMAIN r \cap FpKeys) |->
            IF k \in {"h2_disable_priority_frames", "header_order_by_dest"}
            THEN AsFlag(r[k]) ELSE r[k]]

\* apply() with writes w: the identifier setter syncs the header block of a
\* session whose headers nobody customised, the preset's own block then
\* replaces it.
Applied(d, custom, w) ==
    LET switches == "client_identifier" \in DOMAIN w
                    /\ w.client_identifier # d.client_identifier /\ ~custom
    IN  [k \in DOMAIN d |->
            IF k \in DOMAIN w THEN w[k]
            ELSE IF k = "default_headers" /\ switches THEN Profile(w.client_identifier)
            ELSE d[k]]

\* Stored by apply() for the request contexts.
Templates(r) == <<Get(r, "header_order"), Get(r, "header_order_xhr")>>

Customizes(w) == "default_headers" \in DOMAIN w

\* What apply() leaves in told.
Tells(w) == [k \in DOMAIN w |-> {w[k]}]

(* ---------------------------- construction ----------------------------- *)
\* A Session with arguments g whose preset resolves to r and writes w, both
\* <<>> without a preset.
Made(f, g, r, w) ==
    LET own == Get(g, "default_headers") # None \/ Get(g, "headers") # None
    IN  /\ facade' = f
        /\ defaults' = Applied(ConstructorDefaults(g), own, w)
        /\ customized' = (own \/ Customizes(w))
        /\ template' = Templates(r)
        /\ told' = Over(Tells(w), Said(g))
        /\ UNCHANGED <<scen, cached, closed, warned, pool, bare, sent, sets, requests>>

Preset(f, g, r) == IF PresetRefused(r) THEN UNCHANGED vars ELSE Made(f, g, r, PresetWrites(r))

\* What both constructors do with their arguments; AsyncSession passes them
\* on to the Session it wraps.
Construct(f, g) ==
    /\ facade = "none"
    /\ LET ci == IF "client_identifier" \in DOMAIN g THEN g.client_identifier
                 ELSE "chrome_120"
       IN  CASE ci \notin SUPPORTED_CLIENT_IDENTIFIERS -> UNCHANGED vars
             [] ci \in SUPPORTED_CLIENT_IDENTIFIERS /\ Get(g, "fingerprint") = None ->
                   Made(f, g, <<>>, <<>>)
             [] OTHER -> Preset(f, g, PresetNamed(g.fingerprint))

\* Session(...) and AsyncSession(...).
NewSession(g) == Construct("sync", g)
NewAsyncSession(g) == Construct("async", g)

(* ------------------------------ setters -------------------------------- *)
Live == facade # "none" /\ sets < scen.sets

\* The property setters other than client_identifier; AsyncSession delegates
\* them to its Session.
SetProperty(p, v) ==
    /\ Live
    /\ p # "client_identifier"
    /\ defaults' = [defaults EXCEPT ![KeyOf(p)] = Stored(p, v)]
    /\ customized' = (customized \/ p \in {"headers", "default_headers"})
    /\ cached' = NoCache
    /\ told' = Over([k \in {KeyOf(p)} |-> {Stored(p, v)}], told)
    /\ bare' = {}
    /\ sent' = NoRequest
    /\ sets' = sets + 1
    /\ UNCHANGED <<facade, scen, template, closed, warned, pool, requests>>

\* The client_identifier setter: refuses what the engine does not know and
\* takes the header block along.
SetIdentifier(v) ==
    /\ Live
    /\ IF v \notin SUPPORTED_CLIENT_IDENTIFIERS
       THEN UNCHANGED <<defaults, cached, told, bare>>
       ELSE /\ defaults' = [defaults EXCEPT
                  !.client_identifier = v,
                  !.default_headers = IF v # defaults.client_identifier /\ ~customized
                                      THEN Profile(v) ELSE @]
            /\ cached' = NoCache
            /\ told' = Over([client_identifier |-> {v}], told)
            /\ bare' = {}
    /\ sent' = NoRequest
    /\ sets' = sets + 1
    /\ UNCHANGED <<facade, scen, customized, template, closed, warned, pool, requests>>

\* What apply() writes.  On an AsyncSession `_set_default` is not reachable:
\* the last group of keys goes into the dict directly, and the header
\* templates stay on the AsyncSession object.
Write(r, w) ==
    LET bumps == facade = "sync" \/ DOMAIN w \ FpKeys # {}
    IN  /\ defaults' = Applied(defaults, customized, w)
        /\ customized' = (customized \/ Customizes(w))
        /\ cached' = IF bumps THEN NoCache ELSE cached
        /\ template' = IF facade = "sync" THEN Templates(r) ELSE template
        /\ told' = Over(Tells(w), told)
        /\ bare' = IF bumps THEN {}
                   ELSE IF cached.filled THEN bare \cup DOMAIN w ELSE bare

ApplyPreset(r) ==
    IF PresetRefused(r) THEN UNCHANGED <<defaults, customized, cached, template, told, bare>>
    ELSE Write(r, PresetWrites(r))

\* fingerprints.apply(session, n).
Apply(n) ==
    /\ Live
    /\ ApplyPreset(PresetNamed(n))
    /\ sent' = NoRequest
    /\ sets' = sets + 1
    /\ UNCHANGED <<facade, scen, closed, warned, pool, requests>>

(* --------------------- keyword arguments of a call --------------------- *)
\* _prepare_request_compat: the requests-style names of Session.request
\* become keyword arguments of execute_request.
CompatKwargs(g) ==
    LET cert   == Either(Get(g, "cert"), Get(defaults, "cert"))
        certs  == Either(Get(g, "client_certificates"),
                         IF cert # None THEN "loaded" ELSE None)
        source == IF Get(g, "proxies") # None THEN g.proxies
                  ELSE IF "proxy" \in DOMAIN g THEN g.proxy ELSE defaults.proxy
        proxy  == ResolveProxyUrl(source)
        follow == IF Get(g, "allow_redirects") # None /\ "follow_redirects" \notin DOMAIN g
                  THEN [follow_redirects |-> g.allow_redirects] ELSE <<>>
        named  == [request_cookies |-> Either(Get(g, "cookies"), Get(g, "request_cookies")),
                   client_certificates |-> certs]
        rest   == [p \in DOMAIN g \cap OverrideParams |-> g[p]]
    IN  Over(IF proxy # None THEN [proxy |-> proxy] ELSE <<>>,
             Over(follow, Over(named, rest)))

\* The body and its Content-Type; json after data, each header only if absent.
CompatBody(g) ==
    IF "json" \in DOMAIN g THEN "json" ELSE Get(g, "data")
CompatHeaders(g, hdr) ==
    LET typed == IF Get(g, "data") = "form"
                 THEN EnsureHeader(hdr, "Content-Type", <<"type", "form">>) ELSE hdr
        jsoned == IF "json" \in DOMAIN g
                  THEN EnsureHeader(typed, "Content-Type", <<"type", "json">>) ELSE typed
        auth == Either(Get(g, "auth"), Get(defaults, "auth"))
    IN  IF auth = None THEN jsoned
        ELSE EnsureHeader(jsoned, "Authorization", <<"auth", auth>>)

\* The keyword that overrides a key, and the overrides execute_request passes
\* on, None where not given.
KeywordOf == [k \in RequestKeys |-> CHOOSE p \in OverrideParams : KeyOf(p) = k]
Overrides(kw) ==
    [k \in Resolvable |->
        LET p == KeywordOf[k]
        IN  IF p = "verify" /\ Get(kw, p) # None THEN Stored(p, kw[p]) ELSE Get(kw, p)]

\* AsyncSession.execute_request renames the keywords the same way before it
\* calls _execute_async; AsyncSession.stream_to_file does not.
AsyncOverrides(entry, kw) ==
    IF entry = "stream" THEN [k \in Resolvable |-> Get(kw, k)] ELSE Overrides(kw)

\* Mutant: the snapshot is the whole dict.
SnapshotAll == IF cached.filled THEN cached.snap ELSE defaults

\* _snapshot_selected_defaults of the keys the facade reads.
Snapshot ==
    IF cached.filled THEN cached.snap
    ELSE [k \in scen.keys \cap (IF facade = "async" THEN ASYNC_REQUEST_DEFAULT_KEYS
                                ELSE SYNC_REQUEST_DEFAULT_KEYS) |-> defaults[k]]

\* _val: override, else snapshot; flags to 0/1.
Val(over, k) ==
    LET v == Either(over[k], Get(Snapshot, k)) IN IF k \in Flags THEN AsFlag(v) ELSE v

\* The `resolved` dict of execute_request.
SyncResolved(over) ==
    [k \in Resolvable |->
        IF k = "proxy" THEN ResolveProxyUrl(Either(over.proxy, Snapshot.proxy))
        ELSE NormalizeInt(k, Val(over, k))]

\* The `resolved` dict of _execute_async.  The proxy is
\* `kwargs.get("proxy", default)`, and only stream_to_file leaves the keyword
\* out.
AsyncResolved(entry, over, kw) ==
    [k \in Resolvable |->
        IF k = "proxy"
        THEN ResolveProxyUrl(IF entry # "stream" \/ "proxy" \in DOMAIN kw
                             THEN Get(kw, "proxy") ELSE Snapshot.proxy)
        ELSE NormalizeInt(k, Val(over, k))]

(* ----------------------------- the gates ------------------------------- *)
\* Options that raise on a library older than ABI 2 (_require_abi2): three of
\* the request, checked first, and one of the custom dict.
NeedsAbi2(r) ==
    \/ Get(r, "disable_session_tickets") = "1"
    \/ Truthy(Get(r, "tls_keylog_path")) \/ Truthy(Get(r, "root_ca_pem"))
CustomNeedsAbi2(r) == Get(r, "custom_tls_client") = "trust_anchors_payload"

Abi3Requested(r) ==
    \E k \in Abi3Fields \cap DOMAIN r : r[k] \notin {None, ABI3_REQUEST_FIELDS[k]}

\* _degrade_abi3_fields.
DegradeAbi3(r) ==
    IF scen.abi < 3 /\ Abi3Requested(r)
    THEN [k \in Resolvable |-> IF k \in Abi3Fields THEN ABI3_REQUEST_FIELDS[k] ELSE r[k]]
    ELSE r

\* Mutant: the session's block goes out with every identifier.
PairNothing(r, kw) == r

\* A request with an identifier of its own brings that profile's headers.
PairHeaders(r, kw) ==
    IF /\ Get(kw, "default_headers") = None
       /\ ~customized
       /\ r.client_identifier # Snapshot.client_identifier
    THEN [r EXCEPT !.default_headers = Profile(r.client_identifier)] ELSE r

\* The same in _execute_async, against the live defaults of the Session.
AsyncPairHeaders(r, kw) ==
    IF /\ Get(kw, "default_headers") = None
       /\ ~customized
       /\ r.client_identifier # defaults.client_identifier
    THEN [r EXCEPT !.default_headers = Profile(r.client_identifier)] ELSE r

\* `client_identifier or self.client_identifier` is not a known profile.
IdentifierRefused(kw) ==
    LET asked == Get(kw, "client_identifier")
    IN  (IF Truthy(asked) THEN asked ELSE defaults.client_identifier)
           \notin SUPPORTED_CLIENT_IDENTIFIERS

(* ------------------------------ requests ------------------------------- *)
\* Merged headers, then the context on top of them; the order is derived
\* before the context adds its headers.
WireHeaders(r, hdr, ctx) ==
    LET merged == MergeDefaultHeaders(Block(r.default_headers), hdr)
    IN  IF ctx = <<>> THEN merged
        ELSE ApplyContext(merged, ctx[1], IdentifierBrowser(r.client_identifier), Folded(hdr))
\* A preset's template only stands in when there is no block to order by.
WireOrder(r, hdr, ctx) ==
    LET block == Block(r.default_headers)
        order == MergedOrder(block, MergeDefaultHeaders(block, hdr), <<>>)
        name  == template[IF ctx # <<>> /\ ctx[1].dest \in {"document", "iframe"} THEN 1 ELSE 2]
    IN  IF ctx # <<>> /\ block = <<>> /\ name # None THEN <<name>> ELSE order

\* ExecuteRequest / RequestAsync: the pooled client under the request's key,
\* or a new one built from the same struct.
ClientFor(key, r) ==
    IF \E e \in pool : e.key = key THEN (CHOOSE e \in pool : e.key = key).client
    ELSE [k \in DOMAIN r \cap ClientFields |-> ToC(k, r[k])]

\* The fields of RequestOptions, filled by execute_request and, in a copy of
\* that code, by _execute_async.
SyncOptions(r) == [k \in DOMAIN r |-> ToC(k, r[k])]
AsyncOptions(r) == [k \in DOMAIN r |-> ToC(k, r[k])]

\* The call raises: nothing reaches the engine.
Raise ==
    /\ sent' = NoRequest
    /\ UNCHANGED <<cached, warned, pool>>

\* From the resolved options to the engine: the gates, the headers, the pool
\* key and the call; r0 is `resolved` before, r after the gates.
Hand(record, r0, r) ==
    LET key    == CacheKey(r)
        client == ClientFor(key, r)
    IN  /\ cached' = [filled |-> TRUE, snap |-> Snapshot]
        /\ IF scen.abi < 2 /\ NeedsAbi2(r0)
           THEN sent' = NoRequest /\ UNCHANGED <<warned, pool>>
           ELSE /\ warned' = (warned \/ (scen.abi < 3 /\ Abi3Requested(r0)))
                /\ IF scen.abi < 2 /\ CustomNeedsAbi2(r)
                   THEN sent' = NoRequest /\ UNCHANGED pool
                   ELSE /\ sent' = Over(record,
                             [headers |-> WireHeaders(r, record.hdr, record.ctx),
                              order |-> WireOrder(r, record.hdr, record.ctx),
                              client |-> client])
                        /\ pool' = pool \cup {[key |-> key, client |-> client]}

Called(entry, g, hdr, ctx, body, opts) ==
    [entry |-> entry, given |-> g, hdr |-> hdr, ctx |-> ctx, body |-> body, opts |-> opts]

\* Session.execute_request.
SyncExecute(entry, g, kw, hdr, ctx, body) ==
    LET r0 == SyncResolved(Overrides(kw))
        r  == PairHeaders(DegradeAbi3(r0), kw)
    IN  IF IdentifierRefused(kw) \/ closed THEN Raise
        ELSE Hand(Called(entry, g, hdr, ctx, body, SyncOptions(r)), r0, r)

\* AsyncSession._execute_async; the identifier is checked by execute_request
\* alone.
AsyncExecute(entry, g, kw, hdr, ctx, body) ==
    LET r0 == AsyncResolved(entry, AsyncOverrides(entry, kw), kw)
        r  == AsyncPairHeaders(DegradeAbi3(r0), kw)
    IN  IF (entry # "stream" /\ IdentifierRefused(kw)) \/ closed THEN Raise
        ELSE Hand(Called(entry, g, hdr, ctx, body, AsyncOptions(r)), r0, r)

CanRequest(f) ==
    /\ facade = f
    /\ requests < scen.calls
    /\ requests' = requests + 1
    /\ UNCHANGED <<facade, scen, defaults, customized, template, closed, told, bare, sets>>

\* request() and the verbs.
Request(g, hdr, ctx) ==
    /\ CanRequest("sync")
    /\ SyncExecute("request", g, CompatKwargs(g), CompatHeaders(g, hdr), ctx, CompatBody(g))
AsyncRequest(g, hdr, ctx) ==
    /\ CanRequest("async")
    /\ AsyncExecute("request", g, CompatKwargs(g), CompatHeaders(g, hdr), ctx, CompatBody(g))

\* execute_request() called directly.
ExecuteRequest(g, hdr, ctx) ==
    CanRequest("sync") /\ SyncExecute("execute", g, g, hdr, ctx, None)
AsyncExecuteRequest(g, hdr, ctx) ==
    CanRequest("async") /\ AsyncExecute("execute", g, g, hdr, ctx, None)

\* typed_request(): the entries of the dict are the keyword arguments.
TypedRequest(g, hdr) ==
    CanRequest("sync") /\ SyncExecute("typed", g, g, hdr, <<>>, None)
AsyncTypedRequest(g, hdr) ==
    CanRequest("async") /\ AsyncExecute("typed", g, g, hdr, <<>>, None)

\* stream_to_file().
StreamToFile(g, hdr) ==
    CanRequest("sync") /\ SyncExecute("stream", g, g, hdr, <<>>, None)
AsyncStreamToFile(g, hdr) ==
    CanRequest("async") /\ AsyncExecute("stream", g, g, hdr, <<>>, None)

\* close(): the global pool is cleared, whoever filled it.
CloseFacade(f) ==
    /\ facade = f
    /\ ~closed
    /\ closed' = TRUE
    /\ pool' = {}
    /\ sent' = NoRequest
    /\ UNCHANGED <<facade, scen, defaults, customized, cached, template, warned, told,
                   bare, sets, requests>>
Close == CloseFacade("sync")
AsyncClose == CloseFacade("async")

Init ==
    /\ facade = "none"
    /\ scen \in {Over(s, [keys |-> InPlay(s.fields, s.presets)]) : s \in Scenarios}
    /\ defaults = [k \in scen.keys |-> LibraryDefault[k]]
    /\ customized = FALSE
    /\ cached = NoCache
    /\ template = <<None, None>>
    /\ closed = FALSE
    /\ warned = FALSE
    /\ pool = {}
    /\ told = <<>>
    /\ bare = {}
    /\ sent = NoRequest
    /\ sets = 0
    /\ requests = 0

RequestArgs == Kwargs(scen.fields \cap ((RequestParams \cup OverrideParams) \ {"headers"}))
ExecuteArgs == Kwargs(scen.fields \cap OverrideParams)
AsyncExecuteArgs == Kwargs(scen.fields \cap AsyncOverrideParams)
TypedArgs == Kwargs(scen.fields \cap TypedKeys)

Next ==
    \/ \E g \in Kwargs(scen.fields \cap SessionParams) : NewSession(g)
    \/ \E g \in Kwargs(scen.fields \cap AsyncSessionParams) : NewAsyncSession(g)
    \/ \E p \in scen.fields \cap SetterParams : \E v \in ValuesOf(p) : SetProperty(p, v)
    \/ \E v \in ValuesOf("client_identifier") :
          "client_identifier" \in scen.fields /\ SetIdentifier(v)
    \/ \E n \in scen.presets : Apply(n)
    \/ \E h \in scen.headers, c \in scen.contexts :
          \/ \E g \in RequestArgs : Request(g, h, c) \/ AsyncRequest(g, h, c)
          \/ \E g \in ExecuteArgs : ExecuteRequest(g, h, c)
          \/ \E g \in AsyncExecuteArgs : AsyncExecuteRequest(g, h, c)
    \/ \E h \in scen.headers, g \in TypedArgs : TypedRequest(g, h) \/ AsyncTypedRequest(g, h)
    \/ \E h \in scen.headers, g \in ExecuteArgs : StreamToFile(g, h) \/ AsyncStreamToFile(g, h)
    \/ Close
    \/ AsyncClose

Spec == Init /\ [][Next]_vars

(* ---------------------------- correctness ------------------------------ *)
Requested == "entry" \in DOMAIN sent

\* The types of the session state; the struct carries every option once.
TypeOK ==
    /\ facade \in {"none", "sync", "async", "compat"}
    /\ DOMAIN defaults = scen.keys
    /\ customized \in BOOLEAN /\ closed \in BOOLEAN /\ warned \in BOOLEAN
    /\ cached.filled => DOMAIN cached.snap = Resolvable
    /\ DOMAIN told \subseteq scen.keys
    /\ bare \subseteq FpKeys
    /\ Requested => DOMAIN sent.opts = Resolvable
    /\ sets \in 0..scen.sets /\ requests \in 0..scen.calls

\* What the engine should read for a stored value of k.
Meaning(k, v) ==
    IF scen.abi < 3 /\ k \in Abi3Fields THEN ToC(k, ABI3_REQUEST_FIELDS[k])
    ELSE ToC(k, NormalizeInt(k, IF k = "proxy" THEN ResolveProxyUrl(v) ELSE v))

\* What this call asks for k, under any of its names.
AskedNow(k) ==
    {Meaning(k, Stored(p, sent.given[p])) :
        p \in {q \in DOMAIN sent.given : KeyOf(q) = k /\ sent.given[q] # None}}
    \cup (IF k = "client_certificates" /\ Get(sent.given, "cert") # None
          THEN {"loaded"} ELSE {})

\* What the session was last told for k, else the library's default.
AskedBefore(k) ==
    (IF k = "client_certificates" /\ sent.entry = "request" /\ Get(defaults, "cert") # None
     THEN {"loaded"} ELSE {})
    \cup {Meaning(k, v) : v \in IF k \in DOMAIN told THEN told[k] ELSE {LibraryDefault[k]}}

Reaches(k) ==
    IF AskedNow(k) # {} THEN sent.opts[k] \in AskedNow(k) ELSE sent.opts[k] \in AskedBefore(k)

\* A proxies map without a usable entry cannot switch the session proxy off.
EmptyMap(k) ==
    /\ k = "proxy"
    /\ Get(sent.given, "proxies") = "empty-map"
    /\ sent.opts[k] \in AskedBefore(k) \cup {"NULL"}

\* Three ways in which AsyncSession departs from Session: execute_request and
\* typed_request never see the session proxy, stream_to_file ignores the
\* public names it does not rename, and a preset of TCP fields alone is
\* hidden by the cached snapshot.
AsyncGap(k) ==
    /\ facade = "async"
    /\ \/ /\ k = "proxy"
          /\ sent.entry = "stream" => "proxy" \in DOMAIN sent.given
          /\ sent.opts[k] = "NULL"
       \/ /\ k \in {"timeout_seconds", "insecure_skip_verify",
                    "with_random_tls_extension_order"}
          /\ sent.entry = "stream"
          /\ sent.opts[k] \in AskedBefore(k)
       \/ k \in bare

Managed == "default_headers" \in DOMAIN told \/ Get(sent.given, "default_headers") # None

\* Whatever option a caller names (constructor, setter, preset, keyword, on
\* either facade and through every entry point) reaches the C struct with
\* the latest value named: the call's own, else the session's, else the
\* library default; an old library degrades exactly the ABI 3 options.
AskedReachesEngine ==
    Requested => \A k \in Resolvable :
        \/ k = "default_headers" /\ ~Managed
        \/ Reaches(k) \/ EmptyMap(k) \/ AsyncGap(k)

\* The comment in _execute_async, "Build RequestOptions (same as sync path)":
\* an AsyncSession hands over what a Session would.
AsyncAsSync ==
    Requested /\ facade = "async" =>
        \A k \in Resolvable \ {"default_headers"} : Reaches(k) \/ EmptyMap(k)

\* Unless the caller (or a preset) manages the headers, the header block is
\* the one of the TLS profile the request goes out with, whichever of the
\* two changed last; and only AsyncSession.stream_to_file lets an identifier
\* through that the engine does not know.
IdentityCoherent ==
    Requested =>
        /\ ~Managed => sent.opts.default_headers =
                          ToC("default_headers", Profile(sent.opts.client_identifier))
        /\ \/ sent.opts.client_identifier \in SUPPORTED_CLIENT_IDENTIFIERS
           \/ Get(sent.given, "client_identifier") = "empty"
           \/ facade = "async" /\ sent.entry = "stream"

\* The pooled client a request runs on was built with the settings of this
\* request, whoever built it: the pool key covers every field that shapes a
\* client, apart from the two that only report (catch_panics, with_debug).
PooledClientFits ==
    Requested => \A k \in DOMAIN sent.client \ {"catch_panics", "with_debug"} :
                    sent.client[k] = sent.opts[k]

\* The headers on the wire fit the request.  With a context, what the context
\* owns has the context's value or one the caller wrote on this request, in
\* spite of a navigation block inherited from a profile or preset, and Accept
\* is that of the identifier's browser (the first spelling: a preset whose own
\* "accept" joins its parent's "Accept" sends the second as it is); a header
\* the caller wrote in one spelling goes out with that value; a body that
\* request() encoded carries its own type, unless data and json were both
\* given or the caller typed it.
HeadersFit ==
    Requested =>
        LET hdr == sent.hdr
            Free(n) == n \notin Folded(hdr)
            Is(n, v) == Has(sent.headers, n) /\ ValueOf(sent.headers, n) = v
        IN  /\ sent.ctx # <<>> =>
                LET c == sent.ctx[1]
                IN  /\ Free("sec-fetch-mode") => Is("sec-fetch-mode", <<"mode", c.mode>>)
                    /\ Free("sec-fetch-dest") => Is("sec-fetch-dest", <<"dest", c.dest>>)
                    /\ Free("sec-fetch-user") =>
                          (Has(sent.headers, "sec-fetch-user") <=> c.mode = "navigate" /\ c.user)
                    /\ Free("upgrade-insecure-requests") =>
                          (Has(sent.headers, "upgrade-insecure-requests") <=> c.mode = "navigate")
                    /\ Free("accept") =>
                          Is("accept", <<"accept", AcceptFor(c, IdentifierBrowser(
                                                      sent.opts.client_identifier))>>)
            /\ \A i \in DOMAIN hdr :
                  (\A j \in DOMAIN hdr : Fold(hdr[j][1]) = Fold(hdr[i][1]) => j = i)
                      => Is(hdr[i][1], hdr[i][2])
            /\ /\ sent.entry = "request" /\ sent.body \in {"form", "json"}
               /\ ~{"data", "json"} \subseteq DOMAIN sent.given
               /\ ~\E h \in scen.headers : Has(h, "content-type")
               => Is("content-type", <<"type", sent.body>>)
=============================================================================
