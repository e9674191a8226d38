---------------------------- MODULE FacadeSteps ----------------------------
(***************************************************************************)
(* What the steps of the facades do, for every scenario: each action of    *)
(* SessionOptions and RequestsCompat is one of the few shapes of Stepped,  *)
(* a call of the engine hands over the options Final computes or leaves    *)
(* nothing, and the state keeps its types.  FacadesProofs builds its       *)
(* invariants on these lemmas.                                             *)
(***************************************************************************)
EXTENDS RequestsCompat, TLAPS

(* ------------------------ the options of a call ------------------------- *)

\* The options _client_cache_key puts into the key of the client pool, and
\* the two fields of a client that it leaves out because they only report.
Keyed == KeyedScalars \cup KeyedStructures

\* Fields of a client that change what it logs and nothing it sends.
ReportOnly == {"catch_panics", "with_debug"}

\* The pool key names every field a client is built from, apart from those
\* two (the key of _core.py against the fields of the C struct).
LEMMA KeyCovers == ClientFields \ ReportOnly \subseteq Keyed
<1> SUFFICES ASSUME NEW p \in OverrideParams, KeyOf(p) \in ClientFields \ ReportOnly
             PROVE  KeyOf(p) \in Keyed
  BY DEF ClientFields, RequestKeys
<1> USE DEF KeyOf, Keyed, KeyedScalars, KeyedStructures, ClientFields, ReportOnly
<1>1. CASE p \in SettersFingerprint \cup SettersTimeoutTls
  BY <1>1 DEF SettersFingerprint, SettersTimeoutTls
<1>2. CASE p \in SettersPool \cup SettersIpTcp
  BY <1>2 DEF SettersPool, SettersIpTcp
<1>3. CASE p \in SettersProxyHeaders
  BY <1>3 DEF SettersProxyHeaders
<1>4. CASE p \in SettersPinCookieCustom \cup SettersCookieDebug
  BY <1>4 DEF SettersPinCookieCustom, SettersCookieDebug
<1>5. CASE p \in Abi2Fields \cup Abi21Fields
  BY <1>5 DEF Abi2Fields, Abi21Fields
<1>6. CASE p \in Abi3Fields
  BY <1>6 DEF Abi3Fields, ABI3_REQUEST_FIELDS
<1>7. QED
  BY <1>1, <1>2, <1>3, <1>4, <1>5, <1>6 DEF OverrideParams, SetterParams

\* Options as _normalize_int_fields leaves them: every number a number.
Normalized(r) == \A k \in DOMAIN r : NormalizeInt(k, r[k]) = r[k]

\* On such options the key holds for each field just what the C struct
\* holds, so two requests with one key have one client configuration.
LEMMA KeyIsStruct ==
    ASSUME NEW r, Normalized(r), NEW k \in DOMAIN r \cap Keyed
    PROVE  k \in DOMAIN CacheKey(r) /\ CacheKey(r)[k] = ToC(k, r[k])
  BY DEF Normalized, CacheKey, Keyed, ToC, KeyedCustom, CustomFields, Flags, INT_REQUEST_KEYS

\* _normalize_int_fields has nothing left to do the second time.
LEMMA NormalizeTwice == \A k, v : NormalizeInt(k, NormalizeInt(k, v)) = NormalizeInt(k, v)
  BY DEF NormalizeInt, None

\* The options a call is resolved to from the keywords it passes on, before
\* an old library degrades them and the headers are paired; and the options
\* it hands to the engine.
ResolvedOptions(entry, kw) ==
    IF facade = "async" THEN AsyncResolved(entry, AsyncOverrides(entry, kw), kw)
    ELSE SyncResolved(Overrides(kw))

\* The options a call hands to the engine: degraded for an old library and
\* with the header block paired to the identifier.
Handed(entry, kw) ==
    IF facade = "async" THEN AsyncPairHeaders(DegradeAbi3(ResolvedOptions(entry, kw)), kw)
    ELSE PairHeaders(DegradeAbi3(ResolvedOptions(entry, kw)), kw)

\* Whatever the keywords, the engine is handed every resolvable option, each
\* normalised: degrading and pairing undo neither.
LEMMA HandedNormal ==
    ASSUME NEW entry, NEW kw
    PROVE  Normalized(Handed(entry, kw)) /\ DOMAIN Handed(entry, kw) = Resolvable
<1> DEFINE r0 == ResolvedOptions(entry, kw)
           r1 == DegradeAbi3(r0)
<1>1. Normalized(r0) /\ DOMAIN r0 = Resolvable
  BY NormalizeTwice
     DEF Normalized, ResolvedOptions, SyncResolved, AsyncResolved, NormalizeInt, INT_REQUEST_KEYS
<1>2. \A k \in Abi3Fields : NormalizeInt(k, ABI3_REQUEST_FIELDS[k]) = ABI3_REQUEST_FIELDS[k]
  BY DEF Abi3Fields, ABI3_REQUEST_FIELDS, NormalizeInt, None
<1> HIDE DEF r0
<1>3. Normalized(r1) /\ DOMAIN r1 = Resolvable
  BY <1>1, <1>2 DEF Normalized, DegradeAbi3
<1>4. Handed(entry, kw) = r1
      \/ Handed(entry, kw) = [r1 EXCEPT !.default_headers = Profile(r1.client_identifier)]
  BY DEF Handed, PairHeaders, AsyncPairHeaders, r0
<1> HIDE DEF r1
<1>5. QED
  BY <1>3, <1>4 DEF Normalized, NormalizeInt, INT_REQUEST_KEYS

(* ---------------------------- what a step is ---------------------------- *)

\* The scenario the behaviour plays is one of Scenarios, with the keys it
\* brings into play.
ScenarioChosen == \E s \in Scenarios : scen = Over(s, [keys |-> InPlay(s.fields, s.presets)])

\* The fields of the scenario played are those of the one chosen.
LEMMA ScenarioFacts ==
    ASSUME ScenarioChosen
    PROVE  \E s \in Scenarios :
              /\ scen.keys = InPlay(s.fields, s.presets) /\ scen.fields = s.fields
              /\ scen.presets = s.presets /\ scen.sets = s.sets /\ scen.calls = s.calls
              /\ scen.compat = s.compat /\ scen.abi = s.abi
<1>1. PICK s \in Scenarios : scen = Over(s, [keys |-> InPlay(s.fields, s.presets)])
  BY DEF ScenarioChosen
<1> DEFINE K == InPlay(s.fields, s.presets)
           f == [keys |-> K]
<1>2. DOMAIN f = {"keys"} /\ f["keys"] = K
  OBVIOUS
<1> HIDE DEF K, f
<1>3. scen.keys = K
  BY <1>1, <1>2, ScenarioAssumptions DEF Over, f, K
<1>4. /\ scen.fields = s.fields /\ scen.presets = s.presets /\ scen.sets = s.sets
      /\ scen.calls = s.calls /\ scen.compat = s.compat /\ scen.abi = s.abi
  BY <1>1, <1>2, ScenarioAssumptions DEF Over, f, K
<1>5. QED
  BY <1>3, <1>4 DEF K

\* Keyword arguments are drawn from the parameters and values in play.
LEMMA KwargsFacts ==
    ASSUME NEW P, NEW g \in Kwargs(P)
    PROVE  DOMAIN g \subseteq P /\ \A p \in DOMAIN g : g[p] \in ValuesOf(p)
<1>1. PICK h \in [P -> UNION {ValuesOf(p) : p \in P} \cup {"absent"}] :
         /\ \A p \in P : h[p] \in ValuesOf(p) \cup {"absent"}
         /\ g = [p \in {q \in P : h[q] # "absent"} |-> h[p]]
  BY Zenon DEF Kwargs
<1>2. QED
  BY <1>1

\* Options whose value is text; no caller passes them a number or a Boolean.
TextNames == {"client_identifier", "header_order_dest", "tcp_ip_id_mode"}

\* The text options of a call hold text.
Texts(g) == \A p \in DOMAIN g \cap TextNames : g[p] \notin {"0", "False"}

\* The values the scenarios draw for text options are texts, and request()
\* is given a real Boolean for follow_redirects.
LEMMA TextValues ==
    ASSUME NEW g, \A p \in DOMAIN g : g[p] \in ValuesOf(p)
    PROVE  /\ Texts(g)
           /\ "follow_redirects" \in DOMAIN g => g.follow_redirects # None
<1>1. \A p \in TextNames \cup {"follow_redirects"} : KeyOf(p) = p
  BY DEF KeyOf, TextNames
<1>2. TextNames \cap (Flags \cup {"stream"} \cup TRISTATE_REQUEST_KEYS
                       \cup INT_REQUEST_KEYS) = {}
  BY DEF TextNames, Flags, TRISTATE_REQUEST_KEYS, INT_REQUEST_KEYS
<1>3. ValuesOf("client_identifier") = {"chrome_120", "firefox_135", "bogus", "empty"}
  BY <1>1, <1>2 DEF ValuesOf, TextNames
<1>4. \A p \in {"header_order_dest", "tcp_ip_id_mode"} : ValuesOf(p) = {None, "empty", "x"}
  BY <1>1, <1>2 DEF ValuesOf, TextNames
<1>5. ValuesOf("follow_redirects") = {"True", "False"}
  <2>1. "follow_redirects" \in Flags
    BY DEF Flags
  <2>2. "follow_redirects" \notin TRISTATE_REQUEST_KEYS \cup INT_REQUEST_KEYS
    BY DEF TRISTATE_REQUEST_KEYS, INT_REQUEST_KEYS
  <2>3. QED
    BY <1>1, <2>1, <2>2 DEF ValuesOf
<1>6. QED
  BY <1>3, <1>4, <1>5 DEF Texts, TextNames, None

\* The keywords of execute_request(), of typed_request(), of
\* stream_to_file() and of the adapter's call.
Plainly(g) == DOMAIN g \subseteq OverrideParams \cup {"header_order"} /\ Texts(g)

\* The keywords of request(), whose headers are an argument of their own.
Compatibly(g) ==
    /\ DOMAIN g \subseteq (RequestParams \cup OverrideParams) \ {"headers"} /\ Texts(g)
    /\ "follow_redirects" \in DOMAIN g => g.follow_redirects # None

\* How the keywords a caller gives (g) reach execute_request or
\* _execute_async (kw): unchanged, or renamed by request().
EntryCall(entry, g, kw) ==
    \/ entry \in {"execute", "typed", "stream", "compat"} /\ kw = g /\ Plainly(g)
    \/ entry = "request" /\ kw = CompatKwargs(g) /\ Compatibly(g)

\* The step of a call through any entry point of a live session.
Executes(entry, g, kw, hdr, ctx, body) ==
    /\ EntryCall(entry, g, kw) /\ facade # "none"
    /\ \/ SyncExecute(entry, g, kw, hdr, ctx, body) /\ facade # "async"
       \/ AsyncExecute(entry, g, kw, hdr, ctx, body) /\ facade = "async" /\ entry # "compat"
    /\ UNCHANGED <<facade, scen, defaults, customized, template, closed, told, bare, sets>>
    /\ requests' = requests \/ (requests' = requests + 1 /\ requests < scen.calls)

\* A step that leaves no request behind and the session's options alone:
\* close(), and the steps of send() between two calls of the engine.
Clears ==
    /\ sent' = NoRequest /\ facade # "none"
    /\ UNCHANGED <<facade, scen, defaults, customized, cached, template, warned, told, bare>>
    /\ pool' \in {pool, {}} /\ closed' \in {closed, TRUE}
    /\ sets' = sets \/ (sets' = sets + 1 /\ sets < scen.sets)
    /\ requests' = requests \/ (requests' = requests + 1 /\ requests < scen.calls)

\* The shapes a step of the three facades may have.
Stepped ==
    \/ UNCHANGED vars
    \/ \E f \in {"sync", "async", "compat"} : \E g :
          /\ DOMAIN g \subseteq scen.fields \cap SessionParams /\ Construct(f, g)
          /\ f = "compat" => scen.compat # <<>>
    \/ \E p \in scen.fields \cap SetterParams : \E v : SetProperty(p, v)
    \/ \E v : SetIdentifier(v)
    \/ \E n \in scen.presets : Apply(n) /\ scen.compat = <<>>
    \/ \E entry, g, kw, hdr, ctx, body : Executes(entry, g, kw, hdr, ctx, body)
    \/ Clears

\* While a send() is under way the session is a requests-style one, and the
\* engine options of the call are sound keywords.
CallSound ==
    call = NoCall
    \/ /\ facade = "compat" /\ "options" \in DOMAIN call
       /\ Plainly(call.options.tls)

\* The two facades take the same options and keep the same defaults.
LEMMA AsyncParams ==
    AsyncOverrideParams = OverrideParams /\ AsyncSessionParams = SessionParams
    /\ ASYNC_REQUEST_DEFAULT_KEYS = RequestKeys /\ SYNC_REQUEST_DEFAULT_KEYS = RequestKeys
  BY DEF AsyncOverrideParams, OverrideParams, AsyncSessionParams, SessionParams,
         ASYNC_REQUEST_DEFAULT_KEYS, SYNC_REQUEST_DEFAULT_KEYS, RequestKeys

\* Every key of a TypedDict request is an option.
LEMMA TypedParams == TypedKeys \subseteq OverrideParams
  BY DEF TypedKeys, TypedIdentity, TypedConnection, TypedStructured, TypedDeep,
     OverrideParams, SetterParams,
    SettersFingerprint, SettersTimeoutTls, SettersPool, SettersIpTcp, SettersProxyHeaders, SettersPinCookieCustom,
    SettersCookieDebug, SettersCompat

\* Every action of Session and AsyncSession has one of the shapes.
LEMMA NativeSteps ==
    ASSUME Next, ScenarioChosen, scen.compat = <<>>
    PROVE  Stepped
<1>1. ASSUME NEW g \in Kwargs(scen.fields \cap SessionParams), NewSession(g)
      PROVE  Stepped
  BY <1>1, KwargsFacts DEF NewSession, Stepped
<1>2. ASSUME NEW g \in Kwargs(scen.fields \cap AsyncSessionParams), NewAsyncSession(g)
      PROVE  Stepped
  BY <1>2, KwargsFacts, AsyncParams DEF NewAsyncSession, Stepped
<1>3. ASSUME NEW g, Compatibly(g), NEW hdr, NEW ctx,
             Request(g, hdr, ctx) \/ AsyncRequest(g, hdr, ctx)
      PROVE  Stepped
  <2>1. Executes("request", g, CompatKwargs(g), CompatHeaders(g, hdr), ctx, CompatBody(g))
    BY <1>3 DEF Request, AsyncRequest, CanRequest, Executes, EntryCall
  <2>2. QED
    BY <2>1 DEF Stepped
<1>4. ASSUME NEW g, Plainly(g), NEW hdr, NEW ctx,
             NEW entry \in {"execute", "typed", "stream"},
             \/ CanRequest("sync") /\ SyncExecute(entry, g, g, hdr, ctx, None)
             \/ CanRequest("async") /\ AsyncExecute(entry, g, g, hdr, ctx, None)
      PROVE  Stepped
  <2>1. Executes(entry, g, g, hdr, ctx, None)
    BY <1>4 DEF CanRequest, Executes, EntryCall
  <2>2. QED
    BY <2>1 DEF Stepped
<1>5. ASSUME NEW g \in RequestArgs, NEW hdr, NEW ctx,
             Request(g, hdr, ctx) \/ AsyncRequest(g, hdr, ctx)
      PROVE  Stepped
  <2>1. Compatibly(g)
    BY <1>5, KwargsFacts, TextValues DEF RequestArgs, Compatibly
  <2>2. QED
    BY <1>3, <1>5, <2>1
<1>6. ASSUME NEW g \in ExecuteArgs, NEW hdr, NEW ctx, ExecuteRequest(g, hdr, ctx)
      PROVE  Stepped
  <2>1. Plainly(g)
    BY TextValues, <1>6, KwargsFacts DEF ExecuteArgs, Plainly
  <2>2. QED
    BY <1>4, <1>6, <2>1 DEF ExecuteRequest
<1>7. ASSUME NEW g \in AsyncExecuteArgs, NEW hdr, NEW ctx, AsyncExecuteRequest(g, hdr, ctx)
      PROVE  Stepped
  <2>1. Plainly(g)
    BY TextValues, <1>7, KwargsFacts, AsyncParams DEF AsyncExecuteArgs, Plainly
  <2>2. QED
    BY <1>4, <1>7, <2>1 DEF AsyncExecuteRequest
<1>8. ASSUME NEW g \in TypedArgs, NEW hdr, TypedRequest(g, hdr) \/ AsyncTypedRequest(g, hdr)
      PROVE  Stepped
  <2>1. Plainly(g)
    BY TextValues, <1>8, KwargsFacts, TypedParams DEF TypedArgs, Plainly
  <2>2. QED
    BY <1>4, <1>8, <2>1 DEF TypedRequest, AsyncTypedRequest
<1>9. ASSUME NEW g \in ExecuteArgs, NEW hdr, StreamToFile(g, hdr) \/ AsyncStreamToFile(g, hdr)
      PROVE  Stepped
  <2>1. Plainly(g)
    BY TextValues, <1>9, KwargsFacts DEF ExecuteArgs, Plainly
  <2>2. QED
    BY <1>4, <1>9, <2>1 DEF StreamToFile, AsyncStreamToFile
<1>10. ASSUME Close \/ AsyncClose
       PROVE  Stepped
  BY <1>10 DEF Close, AsyncClose, CloseFacade, Stepped, Clears
<1>11. QED
  BY <1>1, <1>2, <1>5, <1>6, <1>7, <1>8, <1>9, <1>10 DEF Next, Stepped

\* {**g, **f} has the keys of both.
LEMMA OverDomain ==
    ASSUME NEW f, NEW g
    PROVE  DOMAIN Over(f, g) = DOMAIN f \cup DOMAIN g
  BY DEF Over

\* What TLSAdapter.send passes on is sound if the call's own engine options
\* are: it adds only options of its own.
LEMMA AdapterPlain ==
    ASSUME Plainly(call.options.tls)
    PROVE  Plainly(AdapterKwargs)
<1> DEFINE Quiet(f) == DOMAIN f \subseteq OverrideParams \ TextNames
<1>1. ASSUME NEW f, NEW h, Quiet(f), Plainly(h)
      PROVE  Plainly(Over(f, h))
  BY <1>1 DEF Over, Plainly, Texts
<1>2. {"follow_redirects", "proxy", "verify", "client_certificates", "timeout",
       "timeout_milliseconds"} \subseteq OverrideParams \ TextNames
  BY DEF OverrideParams, SetterParams, SettersTimeoutTls, SettersProxyHeaders,
         SettersPinCookieCustom, SettersCompat, TextNames
<1>3. PICK set, certs, t : /\ AdapterKwargs = Over(set, Over(certs, Over(t, call.options.tls)))
                           /\ \E x, y : set = [follow_redirects |-> "False",
                                               proxy |-> x, verify |-> y]
                           /\ certs = <<>> \/ certs = [client_certificates |-> "loaded"]
                           /\ t = TimeoutOptions(call.options.timeout)
  BY DEF AdapterKwargs
<1>4. DOMAIN set = {"follow_redirects", "proxy", "verify"}
  BY <1>3
<1>5. DOMAIN certs = {} \/ DOMAIN certs = {"client_certificates"}
  BY <1>3
<1>6. DOMAIN t = {} \/ DOMAIN t = {"timeout"} \/ DOMAIN t = {"timeout_milliseconds"}
  BY <1>3 DEF TimeoutOptions
<1>7. Quiet(set) /\ Quiet(certs) /\ Quiet(t)
  BY <1>2, <1>4, <1>5, <1>6
<1> HIDE DEF Quiet
<1>8. QED
  BY <1>1, <1>3, <1>7

\* Every action of the facades, native and requests-style, has one of the
\* shapes of Stepped.
LEMMA EveryStep ==
    ASSUME ScenarioChosen, CallSound, [CompatNext]_<<vars, cvars>>
    PROVE  Stepped
<1>0. PICK s \in Scenarios : scen.fields = s.fields /\ scen.compat = s.compat
  BY ScenarioFacts
<1>1. CASE Next /\ scen.compat = <<>>
  BY <1>1, NativeSteps
<1>2. ASSUME NEW n \in InScenario("news"), NewCompat(n)
      PROVE  Stepped
  <2>1. DOMAIN n.native \subseteq scen.fields \cap SessionParams
    BY <1>0, <1>2, CompatAssumptions DEF InScenario
  <2>2. scen.compat # <<>>
    BY <1>2 DEF InScenario
  <2>3. QED
    BY <1>2, <2>1, <2>2 DEF NewCompat, Stepped
<1>3. ASSUME NEW a \in InScenario("attributes"), SetAttribute(a[1], a[2])
      PROVE  Stepped
  <2>1. a[1] \in REQUESTS_ATTRIBUTES \cup (scen.fields \cap SetterParams)
    BY <1>0, <1>3, CompatAssumptions DEF InScenario
  <2>2. CASE a[1] \in REQUESTS_ATTRIBUTES
    BY <1>3, <2>2 DEF SetAttribute, Stepped, Clears, Live
  <2>3. CASE a[1] \notin REQUESTS_ATTRIBUTES
    BY <1>3, <2>1, <2>3 DEF SetAttribute, Stepped
  <2>4. QED
    BY <2>2, <2>3
<1>4. ASSUME NEW a \in InScenario("asks"), Ask(a)
      PROVE  Stepped
  BY <1>4 DEF Ask, Stepped, Clears
<1>5. CASE Hop
  <2>1. call # NoCall /\ facade = "compat"
    BY <1>5 DEF Hop, NoCall, CallSound
  <2>2. CASE UNCHANGED vars
    BY <2>2 DEF Stepped
  <2>3. CASE /\ SyncExecute("compat", AdapterKwargs, AdapterKwargs, call.current.headers,
                           call.options.context, call.current.body)
             /\ UNCHANGED <<facade, scen, defaults, customized, template, closed, told, bare,
                           sets, requests>>
    <3>1. Executes("compat", AdapterKwargs, AdapterKwargs, call.current.headers,
                   call.options.context, call.current.body)
      BY <1>5, <2>1, <2>3, AdapterPlain DEF Executes, EntryCall, Hop, CallSound
    <3>2. QED
      BY <3>1 DEF Stepped
  <2>4. QED
    BY <1>5, <2>2, <2>3 DEF Hop
<1>6. ASSUME NEW a, Answer(a)
      PROVE  Stepped
  <2>1. call # NoCall /\ facade = "compat"
    BY <1>6 DEF Answer, NoCall, CallSound
  <2>2. QED
    BY <1>6, <2>1 DEF Answer, Stepped, Clears
<1>7. CASE Fail
  <2>1. call.phase = "wait"
    BY <1>7 DEF Fail
  <2>2. facade = "compat"
    BY <2>1 DEF NoCall, CallSound
  <2>3. QED
    BY <1>7, <2>2 DEF Fail, Stepped, Clears
<1>8. CASE CompatClose \/ UNCHANGED <<vars, cvars>>
  BY <1>8 DEF CompatClose, Stepped
<1>9. QED
  BY <1>1, <1>2, <1>3, <1>4, <1>5, <1>6, <1>7, <1>8 DEF CompatNext

(* ------------------------ the call of the engine ------------------------ *)

\* The client a call with options r runs on: the pooled one of its key, else
\* a new one.
Fetched(r) == ClientFor(CacheKey(r), r)

\* A call that reaches the engine hands it Handed(entry, kw) and leaves the
\* client in the pool under the key of those options.
HandsOver(entry, g, kw) ==
    LET r == Handed(entry, kw)
    IN  /\ "entry" \in DOMAIN sent' /\ sent'.entry = entry /\ sent'.given = g
        /\ sent'.opts = [k \in DOMAIN r |-> ToC(k, r[k])]
        /\ sent'.client = Fetched(r)
        /\ pool' = pool \cup {[key |-> CacheKey(r), client |-> Fetched(r)]}
        /\ ~IdentifierRefused(kw) \/ (entry = "stream" /\ facade = "async")
        /\ cached' = [filled |-> TRUE, snap |-> Snapshot]

\* A call that raises before the engine leaves pool and options alone; it
\* may have filled the snapshot.
HandsNothing ==
    /\ sent' = NoRequest /\ pool' = pool
    /\ cached' \in {cached, [filled |-> TRUE, snap |-> Snapshot]}

\* Hand, the common end of execute_request and _execute_async, either raises
\* or hands the options over.
LEMMA HandIs ==
    ASSUME NEW entry, NEW g, NEW kw, NEW hdr, NEW ctx, NEW body, NEW r0, NEW r,
           r = Handed(entry, kw), NEW opts, opts = [k \in DOMAIN r |-> ToC(k, r[k])],
           ~IdentifierRefused(kw) \/ (entry = "stream" /\ facade = "async"),
           Hand(Called(entry, g, hdr, ctx, body, opts), r0, r)
    PROVE  HandsNothing \/ HandsOver(entry, g, kw)
<1> DEFINE record == Called(entry, g, hdr, ctx, body, opts)
           more == [headers |-> WireHeaders(r, record.hdr, record.ctx),
                    order |-> WireOrder(r, record.hdr, record.ctx),
                    client |-> Fetched(r)]
<1>1. /\ cached' = [filled |-> TRUE, snap |-> Snapshot]
      /\ \/ sent' = NoRequest /\ pool' = pool
         \/ /\ sent' = Over(record, more)
            /\ pool' = pool \cup {[key |-> CacheKey(r), client |-> Fetched(r)]}
  BY DEF Hand, Fetched
<1>2. /\ DOMAIN record = {"entry", "given", "hdr", "ctx", "body", "opts"}
      /\ record.entry = entry /\ record.given = g /\ record.opts = opts
  BY DEF Called
<1>3. DOMAIN more = {"headers", "order", "client"} /\ more.client = Fetched(r)
  OBVIOUS
<1> HIDE DEF record, more
<1>4. ASSUME sent' = Over(record, more)
      PROVE  /\ "entry" \in DOMAIN sent' /\ sent'.entry = entry /\ sent'.given = g
             /\ sent'.opts = opts /\ sent'.client = Fetched(r)
  BY <1>2, <1>3, <1>4 DEF Over
<1>5. QED
  BY <1>1, <1>4 DEF HandsNothing, HandsOver

\* So does every call, through whichever entry point and facade.
LEMMA ExecuteIs ==
    ASSUME NEW entry, NEW g, NEW kw, NEW hdr, NEW ctx, NEW body,
           Executes(entry, g, kw, hdr, ctx, body)
    PROVE  HandsNothing \/ HandsOver(entry, g, kw)
<1> DEFINE r == Handed(entry, kw)
           opts == [k \in DOMAIN r |-> ToC(k, r[k])]
<1>1. CASE SyncExecute(entry, g, kw, hdr, ctx, body) /\ facade # "async"
  <2>1. r = PairHeaders(DegradeAbi3(SyncResolved(Overrides(kw))), kw)
    BY <1>1 DEF Handed, ResolvedOptions
  <2>2. \/ Raise
        \/ /\ ~IdentifierRefused(kw)
           /\ Hand(Called(entry, g, hdr, ctx, body, opts), SyncResolved(Overrides(kw)), r)
    BY <1>1, <2>1 DEF SyncExecute, SyncOptions
  <2>3. QED
    BY <2>2, HandIs DEF Raise, HandsNothing
<1>2. CASE AsyncExecute(entry, g, kw, hdr, ctx, body) /\ facade = "async"
  <2> DEFINE r0 == AsyncResolved(entry, AsyncOverrides(entry, kw), kw)
  <2>1. r = AsyncPairHeaders(DegradeAbi3(r0), kw)
    BY <1>2 DEF Handed, ResolvedOptions
  <2>2. \/ Raise
        \/ /\ ~IdentifierRefused(kw) \/ (entry = "stream" /\ facade = "async")
           /\ Hand(Called(entry, g, hdr, ctx, body, opts), r0, r)
    BY <1>2, <2>1 DEF AsyncExecute, AsyncOptions
  <2>3. QED
    BY <2>2, HandIs DEF Raise, HandsNothing
<1>3. QED
  BY <1>1, <1>2 DEF Executes

(* ----------------------- the scenario and send() ------------------------ *)

\* No step changes the scenario, and a session never becomes one of another
\* kind.
LEMMA ScenarioKept ==
    ASSUME Stepped
    PROVE  scen' = scen /\ (facade' = facade \/ facade = "none")
<1>1. ASSUME NEW f, NEW g, Construct(f, g)
      PROVE  scen' = scen /\ facade = "none"
  BY <1>1 DEF Construct, Preset, Made, vars
<1>2. QED
  BY <1>1 DEF Stepped, SetProperty, SetIdentifier, Apply, Executes, Clears, vars

\* The scenario stays the one chosen.
LEMMA ScenarioStep ==
    ASSUME ScenarioChosen, Stepped
    PROVE  ScenarioChosen'
  BY ScenarioKept DEF ScenarioChosen

\* Every step of send() keeps the engine options the call began with.
LEMMA CallStep ==
    ASSUME ScenarioChosen, CallSound, [CompatNext]_<<vars, cvars>>
    PROVE  CallSound'
<1>0. facade' = facade \/ facade = "none"
  BY EveryStep, ScenarioKept
<1>1. CASE UNCHANGED call
  BY <1>0, <1>1 DEF CallSound, NoCall
<1>2. CASE call' = NoCall
  BY <1>2 DEF CallSound
<1>3. ASSUME call # NoCall, DOMAIN call' = DOMAIN call,
             "options" \in DOMAIN call => call'.options = call.options
      PROVE  CallSound'
  BY <1>0, <1>3 DEF CallSound
<1>4. ASSUME NEW a \in InScenario("asks"), Ask(a)
      PROVE  CallSound'
  <2>1. PICK s \in Scenarios : scen.compat = s.compat
    BY ScenarioFacts
  <2>2. DOMAIN a.tls \subseteq TLS_REQUEST_OPTIONS => Plainly(a.tls)
    <3>1. \A p \in TextNames : KeyOf(p) \notin Flags \cup INT_REQUEST_KEYS
      BY DEF TextNames, KeyOf, Flags, INT_REQUEST_KEYS
    <3>2. QED
      BY <1>4, <2>1, <3>1, CompatAssumptions DEF InScenario, Plainly, Texts
  <2>3. Plainly(<<>>)
    BY DEF Plainly, Texts
  <2>4. CASE call' # NoCall
    <3>1. facade' = "compat"
      BY <1>4 DEF Ask
    <3>2. /\ DOMAIN a.tls \subseteq TLS_REQUEST_OPTIONS
          /\ call'.options.tls = a.tls \/ call'.options.tls = <<>>
      BY <1>4, <2>4 DEF Ask, MergeEnvironmentSettings
    <3>3. "options" \in DOMAIN call'
      BY <1>4, <2>4 DEF Ask
    <3>4. QED
      BY <3>1, <3>2, <3>3, <2>2, <2>3 DEF CallSound
  <2>5. QED
    BY <1>2, <2>4
<1>5. CASE Hop
  <2>1. call # NoCall
    BY <1>5 DEF Hop, NoCall
  <2>2. call' = NoCall \/ call' = [call EXCEPT !.phase = "wait"]
    BY <1>5 DEF Hop, End
  <2>3. QED
    BY <1>2, <1>3, <2>1, <2>2
<1>6. ASSUME NEW a, Answer(a)
      PROVE  CallSound'
  <2>1. call # NoCall
    BY <1>6 DEF Answer, NoCall
  <2>2. \/ call' = NoCall
        \/ \E h, c : call' = [call EXCEPT !.phase = "send", !.history = h, !.current = c]
    BY <1>6 DEF Answer, End
  <2>3. QED
    BY <1>2, <1>3, <2>1, <2>2
<1>7. QED
  BY <1>1, <1>2, <1>4, <1>5, <1>6
     DEF CompatNext, cvars, NewCompat, SetAttribute, Fail, End, CompatClose

(* --------------------------- the keys in play --------------------------- *)

\* Every parameter of a constructor but fingerprint has a library default.
LEMMA OptionHasDefault ==
    ASSUME NEW p \in SessionParams \ {"fingerprint"}
    PROVE  KeyOf(p) \in DOMAIN LibraryDefault
<1>1. CASE p \in OverrideParams
  BY <1>1 DEF LibraryDefault, RequestKeys
<1>2. CASE p \in SettersCompat
  BY <1>2 DEF SettersCompat, KeyOf, LibraryDefault
<1>3. ASSUME NEW q \in OverrideParams, KeyOf(p) = KeyOf(q)
      PROVE  KeyOf(p) \in DOMAIN LibraryDefault
  BY <1>3 DEF LibraryDefault, RequestKeys
<1>4. {"proxy", "default_headers", "request_cookies"} \subseteq OverrideParams
  BY DEF OverrideParams, SetterParams, SettersProxyHeaders, SettersPinCookieCustom,
     SettersCompat
<1>5. CASE p \in {"proxies", "headers", "cookies"}
  <2>1. KeyOf("proxies") = KeyOf("proxy") /\ KeyOf("headers") = KeyOf("default_headers")
        /\ KeyOf("cookies") = KeyOf("request_cookies")
    BY DEF KeyOf
  <2>2. QED
    BY <1>3, <1>4, <1>5, <2>1
<1>6. QED
  BY <1>1, <1>2, <1>5 DEF SessionParams, OverrideParams

\* The keys of identity, header block and proxy are options of every request
\* and neither flags, numbers nor TCP fields; the TCP fields are options
\* too.
LEMMA IdentityKeys ==
    /\ {"client_identifier", "default_headers", "proxy"} \subseteq RequestKeys
    /\ {"client_identifier", "default_headers", "proxy"}
          \cap (FpKeys \cup Flags \cup INT_REQUEST_KEYS \cup Abi3Fields) = {}
    /\ FpKeys \subseteq RequestKeys
<1>1. {"client_identifier", "default_headers", "proxy"} \subseteq OverrideParams
  BY DEF OverrideParams, SetterParams, SettersFingerprint, SettersProxyHeaders, SettersCompat
<1>2. /\ KeyOf("client_identifier") = "client_identifier"
      /\ KeyOf("default_headers") = "default_headers" /\ KeyOf("proxy") = "proxy"
  BY DEF KeyOf
<1>3. \A p \in OverrideParams : KeyOf(p) \in RequestKeys
  BY DEF RequestKeys
<1>4. {"client_identifier", "default_headers", "proxy"} \subseteq RequestKeys
  BY <1>1, <1>2, <1>3
<1>5. {"client_identifier", "default_headers", "proxy"}
         \cap (FpKeys \cup Flags \cup INT_REQUEST_KEYS \cup Abi3Fields) = {}
  BY DEF FpKeys, Flags, INT_REQUEST_KEYS, Abi3Fields, ABI3_REQUEST_FIELDS
<1>6. FpKeys \subseteq OverrideParams
  BY DEF FpKeys, OverrideParams, SetterParams, SettersIpTcp, SettersCompat
<1>7. \A p \in FpKeys : KeyOf(p) = p
  BY DEF FpKeys, KeyOf, Abi3Fields, ABI3_REQUEST_FIELDS
<1>8. FpKeys \subseteq RequestKeys
  BY <1>3, <1>6, <1>7
<1>9. QED
  BY <1>4, <1>5, <1>8

\* All that a preset can write into Session.defaults.
PresetKeys ==
    FpKeys \cup {"client_identifier", "default_headers", "pseudo_header_order",
                 "h3_pseudo_header_order", "custom_tls_client"}

\* Whatever a constructor, a setter or a preset of the scenario names has
\* its place in Session.defaults.
LEMMA KeysInPlay ==
    ASSUME ScenarioChosen
    PROVE  /\ {"client_identifier", "default_headers", "proxy"} \subseteq Resolvable
           /\ \A p \in scen.fields \cap SessionParams :
                 p # "fingerprint" => KeyOf(p) \in scen.keys
           /\ scen.presets # {} \/ "fingerprint" \in scen.fields =>
                 PresetKeys \subseteq scen.keys
           /\ scen.sets \in Nat /\ scen.calls \in Nat
<1>1. PICK s \in Scenarios :
         /\ scen.keys = InPlay(s.fields, s.presets) /\ scen.fields = s.fields
         /\ scen.presets = s.presets /\ scen.sets = s.sets /\ scen.calls = s.calls
  BY ScenarioFacts
<1>2. {"client_identifier", "default_headers", "proxy"} \subseteq Resolvable
  BY <1>1, IdentityKeys DEF Resolvable, InPlay
<1>3. ASSUME NEW p \in scen.fields \cap SessionParams, p # "fingerprint"
      PROVE  KeyOf(p) \in scen.keys
  <2>1. KeyOf(p) \in DOMAIN LibraryDefault
    BY <1>3, OptionHasDefault
  <2>2. KeyOf(p) \in {KeyOf(q) : q \in s.fields} \cap DOMAIN LibraryDefault
    BY <1>1, <1>3, <2>1
  <2>3. QED
    BY <1>1, <2>2 DEF InPlay
<1>4. scen.presets # {} \/ "fingerprint" \in scen.fields => PresetKeys \subseteq scen.keys
  BY <1>1 DEF InPlay, PresetKeys
<1>5. QED
  BY <1>1, <1>2, <1>3, <1>4, ScenarioAssumptions

\* A preset that passes validation writes only those keys, a supported
\* identifier, and flags as 0 or 1.
LEMMA PresetWritten ==
    ASSUME NEW r, ~PresetRefused(r), NEW w, w = PresetWrites(r)
    PROVE  /\ DOMAIN w \subseteq PresetKeys
           /\ "client_identifier" \in DOMAIN w =>
                 w.client_identifier \in SUPPORTED_CLIENT_IDENTIFIERS
           /\ \A k \in DOMAIN w \cap Flags : w[k] \in {"0", "1"}
<1>1. DOMAIN w \subseteq PresetKeys
  BY DEF PresetWrites, PresetKeys
<1>2. ASSUME "client_identifier" \in DOMAIN w
      PROVE  w.client_identifier \in SUPPORTED_CLIENT_IDENTIFIERS
  <2>1. Truthy(Get(r, "client_identifier"))
    BY <1>2, IdentityKeys DEF PresetWrites
  <2>2. w.client_identifier = r.client_identifier
    BY <1>2 DEF PresetWrites
  <2>3. QED
    BY <2>1, <2>2 DEF PresetRefused
<1>3. PresetKeys \cap Flags \subseteq {"h2_disable_priority_frames", "header_order_by_dest"}
  BY DEF PresetKeys, FpKeys, Abi3Fields, ABI3_REQUEST_FIELDS, Flags
<1>4. ASSUME NEW k \in DOMAIN w \cap Flags
      PROVE  w[k] \in {"0", "1"}
  <2>1. w[k] = AsFlag(r[k])
    BY <1>1, <1>3, <1>4 DEF PresetWrites
  <2>2. QED
    BY <2>1 DEF AsFlag
<1>5. QED
  BY <1>1, <1>2, <1>4

\* What a constructor was told lies within the keys in play.
LEMMA SaidIn ==
    ASSUME ScenarioChosen, NEW g, DOMAIN g \subseteq scen.fields \cap SessionParams
    PROVE  DOMAIN Said(g) \subseteq scen.keys
<1>1. \A k \in DOMAIN Said(g) : \E p \in DOMAIN g \ {"fingerprint"} : k = KeyOf(p)
  BY DEF Said
<1>2. QED
  BY <1>1, KeysInPlay

\* What a preset may write in a scenario.
Written(w) ==
    /\ DOMAIN w \subseteq scen.keys \cap PresetKeys
    /\ "client_identifier" \in DOMAIN w =>
          w.client_identifier \in SUPPORTED_CLIENT_IDENTIFIERS
    /\ \A k \in DOMAIN w \cap Flags : w[k] \in {"0", "1"}

\* The identifier a constructor uses.
NamedIdentifier(g) ==
    IF "client_identifier" \in DOMAIN g THEN g.client_identifier ELSE "chrome_120"

\* A constructor refuses its arguments and changes nothing, or makes the
\* session with a supported identifier and sound writes of its preset.
LEMMA Constructs ==
    ASSUME ScenarioChosen, NEW f, NEW g, DOMAIN g \subseteq scen.fields \cap SessionParams,
           Construct(f, g)
    PROVE  \/ UNCHANGED vars
           \/ \E r, w : Made(f, g, r, w) /\ Written(w) /\ facade = "none"
                        /\ NamedIdentifier(g) \in SUPPORTED_CLIENT_IDENTIFIERS
<1>1. CASE NamedIdentifier(g) \notin SUPPORTED_CLIENT_IDENTIFIERS
  BY <1>1 DEF Construct, NamedIdentifier
<1>2. CASE NamedIdentifier(g) \in SUPPORTED_CLIENT_IDENTIFIERS /\ Get(g, "fingerprint") = None
  <2>1. Made(f, g, <<>>, <<>>) /\ facade = "none"
    BY <1>2 DEF Construct, NamedIdentifier
  <2>2. Written(<<>>)
    BY DEF Written
  <2>3. QED
    BY <1>2, <2>1, <2>2
<1>3. CASE NamedIdentifier(g) \in SUPPORTED_CLIENT_IDENTIFIERS /\ Get(g, "fingerprint") # None
  <2> DEFINE r == PresetNamed(g.fingerprint)
             w == PresetWrites(r)
  <2>1. Preset(f, g, r) /\ facade = "none"
    BY <1>3 DEF Construct, NamedIdentifier
  <2>2. "fingerprint" \in scen.fields
    BY <1>3 DEF Get
  <2> HIDE DEF r
  <2>3. CASE ~PresetRefused(r)
    <3>1. Written(w)
      BY <2>2, <2>3, PresetWritten, KeysInPlay DEF Written
    <3>2. Made(f, g, r, w)
      BY <2>1, <2>3 DEF Preset
    <3>3. QED
      BY <1>3, <2>1, <3>1, <3>2
  <2>4. QED
    BY <2>1, <2>3 DEF Preset
<1>4. QED
  BY <1>1, <1>2, <1>3

\* apply() writes a sound preset or changes nothing; it ends the last
\* request and leaves the pool alone.
LEMMA Applies ==
    ASSUME ScenarioChosen, NEW n \in scen.presets, Apply(n)
    PROVE  /\ sent' = NoRequest /\ sets' = sets + 1 /\ Live
           /\ UNCHANGED <<facade, scen, closed, warned, pool, requests>>
           /\ \/ UNCHANGED <<defaults, customized, cached, template, told, bare>>
              \/ \E r, w : Write(r, w) /\ Written(w)
<1> DEFINE r == PresetNamed(n)
           w == PresetWrites(r)
<1>1. ApplyPreset(r)
  BY DEF Apply
<1> HIDE DEF r
<1>2. CASE ~PresetRefused(r)
  <2>1. Written(w)
    BY <1>2, PresetWritten, KeysInPlay DEF Written
  <2>2. Write(r, w)
    BY <1>1, <1>2 DEF ApplyPreset
  <2>3. QED
    BY <2>1, <2>2 DEF Apply
<1>3. QED
  BY <1>1, <1>2 DEF ApplyPreset, Apply

\* A setter adds its value, as it is stored, to what the session was told.
LEMMA SetTold ==
    ASSUME NEW p, NEW v, SetProperty(p, v)
    PROVE  /\ DOMAIN told' = {KeyOf(p)} \cup DOMAIN told /\ told'[KeyOf(p)] = {Stored(p, v)}
           /\ \A k \in DOMAIN told : k # KeyOf(p) => told'[k] = told[k]
<1> DEFINE f == [k \in {KeyOf(p)} |-> {Stored(p, v)}]
<1>1. told' = Over(f, told)
  BY DEF SetProperty
<1>2. DOMAIN f = {KeyOf(p)} /\ f[KeyOf(p)] = {Stored(p, v)}
  OBVIOUS
<1> HIDE DEF f
<1>3. QED
  BY <1>1, <1>2 DEF Over

\* So does the setter of the identifier.
LEMMA IdentifierTold ==
    ASSUME NEW v \in SUPPORTED_CLIENT_IDENTIFIERS, SetIdentifier(v)
    PROVE  /\ DOMAIN told' = {"client_identifier"} \cup DOMAIN told
           /\ told'["client_identifier"] = {v}
           /\ \A k \in DOMAIN told : k # "client_identifier" => told'[k] = told[k]
<1> DEFINE f == [client_identifier |-> {v}]
<1>1. told' = Over(f, told)
  BY DEF SetIdentifier
<1>2. DOMAIN f = {"client_identifier"} /\ f["client_identifier"] = {v}
  OBVIOUS
<1> HIDE DEF f
<1>3. QED
  BY <1>1, <1>2 DEF Over

\* The snapshot is the cached one when there is one, else taken from
\* Session.defaults.
LEMMA SnapshotIs ==
    Snapshot = IF cached.filled THEN cached.snap ELSE [k \in Resolvable |-> defaults[k]]
  BY AsyncParams DEF Snapshot, Resolvable

\* A call leaves the warned flag a Boolean.
LEMMA Warns ==
    ASSUME NEW entry, NEW g, NEW kw, NEW hdr, NEW ctx, NEW body,
           Executes(entry, g, kw, hdr, ctx, body), warned \in BOOLEAN
    PROVE  warned' \in BOOLEAN
<1>1. ASSUME NEW record, NEW r0, NEW r, Hand(record, r0, r)
      PROVE  warned' \in BOOLEAN
  BY <1>1 DEF Hand
<1>2. QED
  BY <1>1 DEF Executes, SyncExecute, AsyncExecute, Raise

\* Every step keeps the types of the session state.
LEMMA TypeStep ==
    ASSUME ScenarioChosen, TypeOK, Stepped
    PROVE  TypeOK'
<1> USE DEF TypeOK, Requested
<1>0. scen' = scen /\ Resolvable' = Resolvable
  BY ScenarioKept DEF Resolvable
<1>b. \A x : (x = NoRequest) => "entry" \notin DOMAIN x
  BY DEF NoRequest
<1>c. \A x : (x = NoCache) => ~x.filled
  BY DEF NoCache
<1>1. CASE UNCHANGED vars
  BY <1>1 DEF vars, Resolvable
<1>2. ASSUME NEW f \in {"sync", "async", "compat"}, NEW g, NEW r, NEW w, Made(f, g, r, w),
             DOMAIN g \subseteq scen.fields \cap SessionParams, Written(w)
      PROVE  TypeOK'
  <2>1. DOMAIN defaults' = scen.keys
    BY <1>2 DEF Made, Applied, ConstructorDefaults
  <2>2. customized' \in BOOLEAN
    BY <1>2 DEF Made, Customizes
  <2>3. DOMAIN told' = DOMAIN w \cup DOMAIN Said(g)
    BY <1>2, OverDomain DEF Made, Tells
  <2>4. DOMAIN told' \subseteq scen.keys
    BY <1>2, <2>3, SaidIn DEF Written
  <2>5. QED
    BY <1>0, <1>2, <2>1, <2>2, <2>4 DEF Made
<1>3. ASSUME NEW p \in scen.fields \cap SetterParams, NEW v, SetProperty(p, v)
      PROVE  TypeOK'
  <2>1. KeyOf(p) \in scen.keys
    BY <1>3, KeysInPlay DEF SessionParams, SetterParams, SettersFingerprint,
       SettersTimeoutTls,
          SettersPool, SettersIpTcp, SettersProxyHeaders, SettersPinCookieCustom,
          SettersCookieDebug, SettersCompat
  <2>2. DOMAIN told' = {KeyOf(p)} \cup DOMAIN told
    BY <1>3, SetTold
  <2>3. DOMAIN defaults' = scen.keys /\ customized' \in BOOLEAN
    BY <1>3 DEF SetProperty
  <2>4. sets' \in 0..scen.sets
    BY <1>3, KeysInPlay DEF SetProperty, Live
  <2>5. QED
    BY <1>0, <1>b, <1>c, <1>3, <2>1, <2>2, <2>3, <2>4 DEF SetProperty
<1>4. ASSUME NEW v, SetIdentifier(v)
      PROVE  TypeOK'
  <2>1. DOMAIN told' \subseteq scen.keys
    <3>1. CASE v \notin SUPPORTED_CLIENT_IDENTIFIERS
      BY <1>4, <3>1 DEF SetIdentifier
    <3>2. CASE v \in SUPPORTED_CLIENT_IDENTIFIERS
      BY <1>4, <3>2, IdentifierTold, KeysInPlay DEF Resolvable
    <3>3. QED
      BY <3>1, <3>2
  <2>2. DOMAIN defaults' = scen.keys
    BY <1>4 DEF SetIdentifier
  <2>3. sets' \in 0..scen.sets
    BY <1>4, KeysInPlay DEF SetIdentifier, Live
  <2>4. QED
    BY <1>0, <1>b, <1>c, <1>4, <2>1, <2>2, <2>3 DEF SetIdentifier
<1>5. ASSUME NEW n \in scen.presets, Apply(n)
      PROVE  TypeOK'
  <2>1. /\ sent' = NoRequest /\ sets' = sets + 1 /\ Live
        /\ UNCHANGED <<facade, scen, closed, warned, pool, requests>>
    BY <1>5, Applies
  <2>2. sets' \in 0..scen.sets
    BY <2>1, KeysInPlay DEF Live
  <2>3. ASSUME NEW r, NEW w, Write(r, w), Written(w)
        PROVE  TypeOK'
    <3>1. DOMAIN told' = DOMAIN w \cup DOMAIN told
      BY <2>3, OverDomain DEF Write, Tells
    <3>2. DOMAIN defaults' = DOMAIN defaults
      BY <2>3 DEF Write, Applied
    <3>3. customized' \in BOOLEAN
      BY <2>3 DEF Write, Customizes
    <3>4. bare' \subseteq FpKeys
      BY <2>3 DEF Write
    <3>5. QED
      BY <1>0, <1>b, <1>c, <2>1, <2>2, <2>3, <3>1, <3>2, <3>3, <3>4 DEF Write, Written
  <2>4. CASE UNCHANGED <<defaults, customized, cached, template, told, bare>>
    BY <1>0, <1>b, <2>1, <2>2, <2>4
  <2>5. QED
    BY <1>5, <2>3, <2>4, Applies
<1>6. ASSUME NEW entry, NEW g, NEW kw, NEW hdr, NEW ctx, NEW body,
             Executes(entry, g, kw, hdr, ctx, body)
      PROVE  TypeOK'
  <2>1. DOMAIN Snapshot = Resolvable
    BY SnapshotIs
  <2>2. /\ UNCHANGED <<facade, scen, defaults, customized, closed, told, bare, sets>>
        /\ requests' = requests \/ (requests' = requests + 1 /\ requests < scen.calls)
    BY <1>6 DEF Executes
  <2>3. requests' \in 0..scen.calls
    BY <2>2, KeysInPlay
  <2>4. cached' \in {cached, [filled |-> TRUE, snap |-> Snapshot]}
        /\ (sent' = NoRequest \/ DOMAIN sent'.opts = Resolvable)
    <3>1. CASE HandsNothing
      BY <3>1 DEF HandsNothing
    <3>2. CASE HandsOver(entry, g, kw)
      BY <3>2, HandedNormal DEF HandsOver
    <3>3. QED
      BY <1>6, <3>1, <3>2, ExecuteIs
  <2>5. warned' \in BOOLEAN
    BY <1>6, Warns
  <2>6. QED
    BY <1>0, <1>b, <2>1, <2>2, <2>3, <2>4, <2>5
<1>7. CASE Clears
  <2>1. sets' \in 0..scen.sets /\ requests' \in 0..scen.calls
    BY <1>7, KeysInPlay DEF Clears
  <2>2. QED
    BY <1>0, <1>b, <1>7, <2>1 DEF Clears
<1>8. QED
  BY <1>1, <1>2, <1>3, <1>4, <1>5, <1>6, <1>7, Constructs DEF Stepped
=============================================================================
