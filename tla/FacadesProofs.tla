--------------------------- MODULE FacadesProofs ---------------------------
(***************************************************************************)
(* Proofs about the facades (Session, AsyncSession and the requests-style  *)
(* session) for every scenario that meets the assumptions: any options in  *)
(* play, any presets, any number of setters and calls.  Four invariants    *)
(* carry them: a pooled client is what its key says; the cached snapshot   *)
(* agrees with Session.defaults, apart from the fields an asynchronous     *)
(* preset changed under it; identifier and header block fit unless the     *)
(* caller took the headers over; and Session.defaults holds what the       *)
(* session was last told, or the library's default.                        *)
(***************************************************************************)
EXTENDS FacadeSteps

(* ------------------------------- the pool ------------------------------- *)

\* A pooled client is configured as its key says.
PoolKeyed ==
    \A e \in pool : \A k \in DOMAIN e.client \ ReportOnly :
        k \in DOMAIN e.key /\ e.client[k] = e.key[k]

\* A client fetched for options r, pooled or new, has the settings of r: the
\* key it was found under determines them.
LEMMA FetchedFits ==
    ASSUME PoolKeyed, NEW r, Normalized(r)
    PROVE  \A k \in DOMAIN Fetched(r) \ ReportOnly :
              /\ k \in DOMAIN r /\ k \in DOMAIN CacheKey(r)
              /\ Fetched(r)[k] = CacheKey(r)[k] /\ Fetched(r)[k] = ToC(k, r[k])
<1>0. DOMAIN CacheKey(r) = DOMAIN r \cap Keyed
  BY DEF CacheKey, Keyed
<1>1. ASSUME NEW e \in pool, e.key = CacheKey(r), Fetched(r) = e.client,
             NEW k \in DOMAIN Fetched(r) \ ReportOnly
      PROVE  /\ k \in DOMAIN r /\ k \in DOMAIN CacheKey(r)
             /\ Fetched(r)[k] = CacheKey(r)[k] /\ Fetched(r)[k] = ToC(k, r[k])
  <2>1. k \in DOMAIN e.key /\ e.client[k] = e.key[k]
    BY <1>1 DEF PoolKeyed
  <2>2. k \in DOMAIN r \cap Keyed
    BY <1>0, <1>1, <2>1
  <2>3. QED
    BY <1>1, <2>1, <2>2, KeyIsStruct
<1>2. CASE Fetched(r) = [k \in DOMAIN r \cap ClientFields |-> ToC(k, r[k])]
  <2> SUFFICES ASSUME NEW k \in DOMAIN Fetched(r) \ ReportOnly
               PROVE  /\ k \in DOMAIN r /\ k \in DOMAIN CacheKey(r)
                      /\ Fetched(r)[k] = CacheKey(r)[k] /\ Fetched(r)[k] = ToC(k, r[k])
    OBVIOUS
  <2>1. k \in DOMAIN r \cap ClientFields /\ Fetched(r)[k] = ToC(k, r[k])
    BY <1>2
  <2>2. k \in DOMAIN r \cap Keyed
    BY <2>1, KeyCovers
  <2>3. QED
    BY <2>1, <2>2, KeyIsStruct
<1>3. CASE \E e \in pool : e.key = CacheKey(r)
  <2>1. PICK e \in pool : e.key = CacheKey(r) /\ Fetched(r) = e.client
    BY <1>3 DEF Fetched, ClientFor
  <2>2. QED
    BY <1>1, <2>1
<1>4. CASE ~\E e \in pool : e.key = CacheKey(r)
  BY <1>2, <1>4 DEF Fetched, ClientFor
<1>5. QED
  BY <1>3, <1>4

\* Every step keeps the pool keyed and gives a request a client built with
\* the settings of that request, whoever built it.
LEMMA PoolStep ==
    ASSUME PoolKeyed, PooledClientFits, Stepped
    PROVE  PoolKeyed' /\ PooledClientFits'
<1>1. CASE UNCHANGED vars
  BY <1>1 DEF PoolKeyed, PooledClientFits, Requested, vars
<1>2. ASSUME NEW f, NEW g, Construct(f, g)
      PROVE  UNCHANGED <<pool, sent>>
  BY <1>2 DEF Construct, Preset, Made, vars
<1>3. CASE UNCHANGED <<pool, sent>>
  BY <1>3 DEF PoolKeyed, PooledClientFits, Requested
<1>4. CASE pool' \in {pool, {}} /\ sent' = NoRequest
  BY <1>4 DEF PoolKeyed, PooledClientFits, Requested, NoRequest
<1>5. ASSUME NEW entry, NEW g, NEW kw, NEW hdr, NEW ctx, NEW body,
             Executes(entry, g, kw, hdr, ctx, body)
      PROVE  PoolKeyed' /\ PooledClientFits'
  <2> DEFINE r == Handed(entry, kw)
             e == [key |-> CacheKey(r), client |-> Fetched(r)]
  <2>1. CASE HandsNothing
    BY <1>4, <2>1 DEF HandsNothing
  <2>2. CASE HandsOver(entry, g, kw)
    <3>1. \A k \in DOMAIN Fetched(r) \ ReportOnly :
              /\ k \in DOMAIN r /\ k \in DOMAIN CacheKey(r)
              /\ Fetched(r)[k] = CacheKey(r)[k] /\ Fetched(r)[k] = ToC(k, r[k])
      BY HandedNormal, FetchedFits
    <3>2. /\ pool' = pool \cup {e}
          /\ sent'.opts = [k \in DOMAIN r |-> ToC(k, r[k])] /\ sent'.client = Fetched(r)
      BY <2>2 DEF HandsOver
    <3>a. e.key = CacheKey(r) /\ e.client = Fetched(r)
      OBVIOUS
    <3> HIDE DEF r, e
    <3>3. PoolKeyed'
      BY <3>1, <3>2, <3>a DEF PoolKeyed
    <3>4. PooledClientFits'
      BY <3>1, <3>2 DEF PooledClientFits, ReportOnly
    <3>5. QED
      BY <3>3, <3>4
  <2>3. QED
    BY <1>5, <2>1, <2>2, ExecuteIs
<1>6. QED
  BY <1>1, <1>2, <1>3, <1>4, <1>5 DEF Stepped, SetProperty, SetIdentifier, Apply, Clears

(* ---------------------- identity and header block ----------------------- *)

\* Before a session exists there is neither a request nor a snapshot.
Early == facade = "none" => sent = NoRequest /\ cached = NoCache

\* The cached snapshot holds the session's current options, apart from the
\* fields that an asynchronous preset of TCP fields alone wrote under it.
SnapshotFresh == cached.filled => \A k \in Resolvable \ bare : cached.snap[k] = defaults[k]

\* The session's identifier is supported, and its header block is that
\* identifier's unless the session was told another.
Paired ==
    facade # "none" =>
        /\ defaults.client_identifier \in SUPPORTED_CLIENT_IDENTIFIERS
        /\ "default_headers" \notin DOMAIN told =>
              ~customized /\ defaults.default_headers = Profile(defaults.client_identifier)

\* No empty value is a supported identifier, and the default one is
\* supported.
LEMMA Unsupported ==
    {None, "empty", "NULL"} \cap SUPPORTED_CLIENT_IDENTIFIERS = {}
    /\ "chrome_120" \in SUPPORTED_CLIENT_IDENTIFIERS
  BY DEF SUPPORTED_CLIENT_IDENTIFIERS, ChromeIdentifiers, ChromiumForks, SafariIdentifiers,
         FirefoxIdentifiers, IosApps, AndroidApps, OkHttp, None

\* A step before the constructor leaves no request and no snapshot.
LEMMA EarlyStep ==
    ASSUME ScenarioChosen, Early, Stepped
    PROVE  Early'
<1>1. ASSUME NEW f \in {"sync", "async", "compat"}, NEW g, Construct(f, g)
      PROVE  Early'
  BY <1>1 DEF Construct, Preset, Made, Early, vars
<1>2. QED
  BY <1>1 DEF Stepped, Early, SetProperty, SetIdentifier, Apply, Live, Executes, Clears, vars

\* Every setter that changes an option drops the snapshot, and apply() does
\* except for the fields recorded as bare.
LEMMA SnapshotStep ==
    ASSUME ScenarioChosen, TypeOK, Early, SnapshotFresh, Stepped
    PROVE  SnapshotFresh'
<1>0. scen' = scen /\ Resolvable' = Resolvable
  BY ScenarioKept DEF Resolvable
<1>c. \A x : (x = NoCache) => ~x.filled
  BY DEF NoCache
<1>1. CASE UNCHANGED <<cached, defaults, bare>>
  BY <1>0, <1>1 DEF SnapshotFresh
<1>2. CASE cached' = NoCache
  BY <1>c, <1>2 DEF SnapshotFresh
<1>3. ASSUME NEW f, NEW g, Construct(f, g)
      PROVE  SnapshotFresh'
  BY <1>c, <1>1, <1>3 DEF Construct, Preset, Made, Early, SnapshotFresh, vars
<1>4. ASSUME NEW r, NEW w, Write(r, w)
      PROVE  SnapshotFresh'
  <2>1. CASE DOMAIN w \subseteq FpKeys /\ cached' = cached
    <3>1. "client_identifier" \notin DOMAIN w /\ "default_headers" \notin DOMAIN w
      BY <2>1, IdentityKeys
    <3>2. defaults' = [k \in DOMAIN defaults |-> IF k \in DOMAIN w THEN w[k] ELSE defaults[k]]
      BY <1>4, <3>1 DEF Write, Applied
    <3>3. CASE cached.filled
      <4>1. bare' = bare \cup DOMAIN w \/ cached' = NoCache
        BY <1>4, <3>3 DEF Write
      <4>2. \A k \in Resolvable : k \in DOMAIN defaults
        BY DEF TypeOK, Resolvable
      <4>3. QED
        BY <1>0, <1>c, <2>1, <3>2, <4>1, <4>2 DEF SnapshotFresh
    <3>4. QED
      BY <2>1, <3>3 DEF SnapshotFresh
  <2>2. QED
    BY <1>2, <1>4, <2>1 DEF Write
<1>5. ASSUME NEW n \in scen.presets, Apply(n)
      PROVE  SnapshotFresh'
  BY <1>1, <1>4, <1>5, Applies
<1>6. ASSUME NEW entry, NEW g, NEW kw, NEW hdr, NEW ctx, NEW body,
             Executes(entry, g, kw, hdr, ctx, body)
      PROVE  SnapshotFresh'
  <2>1. UNCHANGED <<defaults, bare>>
    BY <1>6 DEF Executes
  <2>2. cached' = cached \/ cached' = [filled |-> TRUE, snap |-> Snapshot]
    BY <1>6, ExecuteIs DEF HandsNothing, HandsOver
  <2>3. ASSUME cached' = [filled |-> TRUE, snap |-> Snapshot]
        PROVE  cached'.snap = Snapshot
    BY <2>3
  <2>4. \A k \in Resolvable \ bare : Snapshot[k] = defaults[k]
    BY SnapshotIs DEF SnapshotFresh
  <2>5. QED
    BY <1>0, <1>1, <2>1, <2>2, <2>3, <2>4 DEF SnapshotFresh
<1>7. QED
  BY <1>1, <1>2, <1>3, <1>5, <1>6
     DEF Stepped, SetProperty, SetIdentifier, Clears, vars

\* apply() keeps identifier and header block together: it rewrites the block
\* when it changes the identifier of an unmanaged session.
LEMMA AppliedPaired ==
    ASSUME NEW d, NEW custom \in BOOLEAN, NEW w, {"client_identifier",
           "default_headers"} \subseteq DOMAIN d,
           Written(w), d.client_identifier \in SUPPORTED_CLIENT_IDENTIFIERS
    PROVE  /\ Applied(d, custom, w).client_identifier \in SUPPORTED_CLIENT_IDENTIFIERS
           /\ /\ "default_headers" \notin DOMAIN w /\ ~custom
              /\ d.default_headers = Profile(d.client_identifier)
              => Applied(d, custom, w).default_headers =
                    Profile(Applied(d, custom, w).client_identifier)
<1> DEFINE a == Applied(d, custom, w)
<1>1. a.client_identifier = IF "client_identifier" \in DOMAIN w THEN w.client_identifier
                            ELSE d.client_identifier
  BY DEF Applied
<1>2. a.client_identifier \in SUPPORTED_CLIENT_IDENTIFIERS
  BY <1>1 DEF Written
<1>3. ASSUME "default_headers" \notin DOMAIN w, ~custom,
             d.default_headers = Profile(d.client_identifier)
      PROVE  a.default_headers = Profile(a.client_identifier)
  <2>1. CASE "client_identifier" \in DOMAIN w /\ w.client_identifier # d.client_identifier
    BY <1>1, <1>3, <2>1 DEF Applied
  <2>2. CASE ~("client_identifier" \in DOMAIN w /\ w.client_identifier # d.client_identifier)
    <3>1. a.default_headers = d.default_headers
      BY <1>3, <2>2 DEF Applied
    <3>2. a.client_identifier = d.client_identifier
      BY <1>1, <2>2
    <3>3. QED
      BY <1>3, <3>1, <3>2
  <2>3. QED
    BY <2>1, <2>2
<1>4. QED
  BY <1>2, <1>3

\* A constructor starts with the identifier it was given and, unless told a
\* block, with that identifier's.
LEMMA ConstructorPaired ==
    ASSUME ScenarioChosen, NEW g, NEW d, d = ConstructorDefaults(g)
    PROVE  /\ DOMAIN d = scen.keys
           /\ d.client_identifier = NamedIdentifier(g)
           /\ /\ Get(g, "default_headers") = None /\ Get(g, "headers") = None
              => d.default_headers = Profile(NamedIdentifier(g))
<1>0. {"client_identifier", "default_headers"} \subseteq scen.keys
  BY KeysInPlay DEF Resolvable
<1>1. DOMAIN d = scen.keys
  BY DEF ConstructorDefaults
<1>2. d.client_identifier = NamedIdentifier(g)
  <2> DEFINE ps == {p \in DOMAIN g : KeyOf(p) = "client_identifier"}
  <2>1. d.client_identifier = IF ps = {} THEN LibraryDefault["client_identifier"]
                              ELSE LET p == CHOOSE q \in ps : TRUE IN Stored(p, g[p])
    BY <1>0 DEF ConstructorDefaults
  <2>2. \A p : (KeyOf(p) = "client_identifier") <=> (p = "client_identifier")
    BY DEF KeyOf
  <2>3. LibraryDefault["client_identifier"] = "chrome_120"
    BY IdentityKeys DEF LibraryDefault
  <2>4. \A v : Stored("client_identifier", v) = v
    BY <2>2, IdentityKeys DEF Stored
  <2>5. CASE "client_identifier" \in DOMAIN g
    <3>1. ps = {"client_identifier"}
      BY <2>2, <2>5
    <3>2. (CHOOSE q \in ps : TRUE) = "client_identifier"
      BY <3>1
    <3>3. QED
      BY <2>1, <2>4, <2>5, <3>1, <3>2 DEF NamedIdentifier
  <2>6. CASE "client_identifier" \notin DOMAIN g
    <3>1. ps = {}
      BY <2>2, <2>6
    <3>2. QED
      BY <2>1, <2>3, <2>6, <3>1 DEF NamedIdentifier
  <2>7. QED
    BY <2>5, <2>6
<1>3. ASSUME Get(g, "default_headers") = None, Get(g, "headers") = None
      PROVE  d.default_headers = Profile(NamedIdentifier(g))
  BY <1>0, <1>3 DEF ConstructorDefaults, Either, NamedIdentifier
<1>4. QED
  BY <1>1, <1>2, <1>3

\* Every step keeps identifier and header block paired.
LEMMA PairedStep ==
    ASSUME ScenarioChosen, TypeOK, Paired, Stepped
    PROVE  Paired'
<1>0. {"client_identifier", "default_headers"} \subseteq scen.keys /\ DOMAIN defaults = scen.keys
  BY KeysInPlay DEF Resolvable, TypeOK
<1>1. CASE UNCHANGED <<facade, defaults, customized, told>>
  BY <1>1 DEF Paired
<1>2. ASSUME NEW f, NEW g, NEW r, NEW w, Made(f, g, r, w), Written(w),
             NamedIdentifier(g) \in SUPPORTED_CLIENT_IDENTIFIERS
      PROVE  Paired'
  <2> DEFINE own == Get(g, "default_headers") # None \/ Get(g, "headers") # None
             d == ConstructorDefaults(g)
  <2>1. /\ defaults' = Applied(d, own, w) /\ customized' = (own \/ Customizes(w))
        /\ told' = Over(Tells(w), Said(g))
    BY <1>2 DEF Made
  <2>2. /\ DOMAIN d = scen.keys /\ d.client_identifier = NamedIdentifier(g)
        /\ ~own => d.default_headers = Profile(NamedIdentifier(g))
    BY ConstructorPaired
  <2>3. DOMAIN told' = DOMAIN w \cup DOMAIN Said(g)
    BY <2>1, OverDomain DEF Tells
  <2>4. own => "default_headers" \in DOMAIN Said(g)
    <3>1. KeyOf("headers") = "default_headers" /\ KeyOf("default_headers") = "default_headers"
      BY DEF KeyOf
    <3>2. ASSUME NEW p \in {"headers", "default_headers"}, Get(g, p) # None
          PROVE  "default_headers" \in DOMAIN Said(g)
      BY <3>1, <3>2 DEF Said, Get
    <3>3. QED
      BY <3>2
  <2> HIDE DEF d
  <2>5. own \in BOOLEAN
    OBVIOUS
  <2> HIDE DEF own
  <2>6. /\ defaults'.client_identifier \in SUPPORTED_CLIENT_IDENTIFIERS
        /\ "default_headers" \notin DOMAIN w /\ ~own =>
              defaults'.default_headers = Profile(defaults'.client_identifier)
    BY <1>0, <1>2, <2>1, <2>2, <2>5, AppliedPaired
  <2>7. QED
    BY <2>1, <2>3, <2>4, <2>6 DEF Paired, Customizes
<1>3. ASSUME NEW p, NEW v, SetProperty(p, v)
      PROVE  Paired'
  <2>1. DOMAIN told' = {KeyOf(p)} \cup DOMAIN told
    BY <1>3, SetTold
  <2>2. KeyOf(p) # "client_identifier"
    BY <1>3 DEF KeyOf, SetProperty
  <2>3. p \in {"headers", "default_headers"} => KeyOf(p) = "default_headers"
    BY DEF KeyOf
  <2>4. defaults'.client_identifier = defaults.client_identifier
    BY <1>0, <1>3, <2>2 DEF SetProperty
  <2>5. KeyOf(p) # "default_headers" => defaults'.default_headers = defaults.default_headers
    BY <1>0, <1>3 DEF SetProperty
  <2>6. facade # "none" /\ customized' = (customized \/ p \in {"headers", "default_headers"})
    BY <1>3 DEF SetProperty, Live
  <2>7. QED
    BY <2>1, <2>3, <2>4, <2>5, <2>6 DEF Paired
<1>4. ASSUME NEW v, SetIdentifier(v)
      PROVE  Paired'
  <2>1. facade # "none" /\ customized' = customized
    BY <1>4 DEF SetIdentifier, Live
  <2>2. CASE v \notin SUPPORTED_CLIENT_IDENTIFIERS
    BY <1>1, <1>4, <2>2 DEF SetIdentifier
  <2>3. CASE v \in SUPPORTED_CLIENT_IDENTIFIERS
    <3>1. DOMAIN told' = {"client_identifier"} \cup DOMAIN told
      BY <1>4, <2>3, IdentifierTold
    <3>2. defaults'.client_identifier = v
      BY <1>0, <1>4, <2>3 DEF SetIdentifier
    <3>3. defaults'.default_headers = IF v # defaults.client_identifier /\ ~customized
                                      THEN Profile(v) ELSE defaults.default_headers
      BY <1>0, <1>4, <2>3 DEF SetIdentifier
    <3>4. QED
      BY <2>1, <2>3, <3>1, <3>2, <3>3 DEF Paired
  <2>4. QED
    BY <2>2, <2>3
<1>5. ASSUME NEW r, NEW w, Write(r, w), Written(w), facade # "none", facade' = facade
      PROVE  Paired'
  <2>1. DOMAIN told' = DOMAIN w \cup DOMAIN told
    BY <1>5, OverDomain DEF Write, Tells
  <2>2. customized \in BOOLEAN
    BY DEF TypeOK
  <2>3. defaults' = Applied(defaults, customized, w)
        /\ customized' = (customized \/ "default_headers" \in DOMAIN w)
    BY <1>5 DEF Write, Customizes
  <2>4. /\ defaults'.client_identifier \in SUPPORTED_CLIENT_IDENTIFIERS
        /\ /\ "default_headers" \notin DOMAIN w /\ ~customized
           /\ defaults.default_headers = Profile(defaults.client_identifier)
           => defaults'.default_headers = Profile(defaults'.client_identifier)
    BY <1>0, <1>5, <2>2, <2>3, AppliedPaired DEF Paired
  <2>5. QED
    BY <1>5, <2>1, <2>3, <2>4 DEF Paired
<1>6. ASSUME NEW n \in scen.presets, Apply(n)
      PROVE  Paired'
  BY <1>1, <1>5, <1>6, Applies DEF Live
<1>7. QED
  BY <1>1, <1>2, <1>3, <1>4, <1>6, Constructs
     DEF Stepped, Executes, Clears, vars

\* The identifier and the header block have one keyword each.
LEMMA OwnName ==
    ASSUME NEW k \in {"client_identifier", "default_headers"}
    PROVE  KeywordOf[k] = k
<1>1. k \in OverrideParams
  BY DEF OverrideParams, SetterParams, SettersFingerprint, SettersProxyHeaders, SettersCompat
<1>a. "headers" \notin OverrideParams
  BY DEF OverrideParams, Abi2Fields, Abi21Fields, Abi3Fields, ABI3_REQUEST_FIELDS
<1>2. \A p \in OverrideParams : (KeyOf(p) = k) <=> (p = k)
  BY <1>a DEF KeyOf
<1>3. (CHOOSE p \in OverrideParams : KeyOf(p) = k) = k
  BY <1>1, <1>2
<1>4. QED
  BY <1>3, IdentityKeys DEF KeywordOf

\* Both come from the call, else from the snapshot.
LEMMA ResolvedIdentity ==
    ASSUME ScenarioChosen, NEW entry, NEW kw, NEW k \in {"client_identifier",
           "default_headers"}
    PROVE  DegradeAbi3(ResolvedOptions(entry, kw))[k] = Either(Get(kw, k), Get(Snapshot, k))
<1>0. /\ k \in Resolvable /\ k # "proxy"
      /\ k \notin Flags /\ k \notin INT_REQUEST_KEYS /\ k \notin Abi3Fields
  BY KeysInPlay, IdentityKeys
<1>1. Overrides(kw)[k] = Get(kw, k)
  BY <1>0, OwnName DEF Overrides
<1>2. AsyncOverrides(entry, kw)[k] = Get(kw, k)
  BY <1>0, <1>1 DEF AsyncOverrides
<1>3. ResolvedOptions(entry, kw)[k] = Either(Get(kw, k), Get(Snapshot, k))
  BY <1>0, <1>1, <1>2 DEF ResolvedOptions, SyncResolved, AsyncResolved, Val, NormalizeInt
<1>4. QED
  BY <1>0, <1>3 DEF DegradeAbi3

(* ---------------------- what the session was told ----------------------- *)

\* Session.defaults holds what the session was last told, else the library's
\* default; the header block alone may follow the identifier.
Heard ==
    \A k \in scen.keys :
        /\ k \in DOMAIN told => defaults[k] \in told[k]
        /\ k \notin DOMAIN told /\ k # "default_headers" => defaults[k] = LibraryDefault[k]

\* _default_headers_customized is set exactly when the session was told a
\* header block.
FlagTold == customized <=> "default_headers" \in DOMAIN told

\* The session stores its flags as 0 or 1.
FlagsStored == \A k \in scen.keys \cap Flags : defaults[k] \in {"0", "1"}

\* Only an asynchronous session hides fields under its snapshot, and a
\* requests-style session belongs to a scenario that has one.
BareFields ==
    /\ facade # "async" => bare = {}
    /\ facade = "compat" => scen.compat # <<>>

\* Every key in play has a library default.
LEMMA KeysKnown ==
    ASSUME ScenarioChosen
    PROVE  scen.keys \subseteq DOMAIN LibraryDefault
<1>1. PICK s \in Scenarios : scen.keys = InPlay(s.fields, s.presets)
  BY ScenarioFacts
<1>2. {"client_certificates", "pseudo_header_order", "h3_pseudo_header_order",
       "custom_tls_client"} \subseteq OverrideParams
  BY DEF OverrideParams, SetterParams, SettersPinCookieCustom, SettersProxyHeaders,
     SettersCompat
<1>3. {"client_certificates", "pseudo_header_order", "h3_pseudo_header_order",
       "custom_tls_client"} \subseteq RequestKeys
  <2>1. \A p \in {"client_certificates", "pseudo_header_order", "h3_pseudo_header_order",
                  "custom_tls_client"} : KeyOf(p) = p
    BY DEF KeyOf
  <2>2. QED
    BY <1>2, <2>1 DEF RequestKeys
<1>4. RequestKeys \subseteq DOMAIN LibraryDefault
  BY DEF LibraryDefault
<1>5. QED
  BY <1>1, <1>3, <1>4, IdentityKeys DEF InPlay

\* The library's defaults: no proxy, no cookies, flags as 0 or 1, and none
\* for the preset argument.
LEMMA DefaultValues ==
    /\ \A k \in {"proxy", "request_cookies"} \cap DOMAIN LibraryDefault :
          LibraryDefault[k] = None
    /\ \A k \in Flags \cap DOMAIN LibraryDefault : LibraryDefault[k] \in {"0", "1"}
    /\ "fingerprint" \notin DOMAIN LibraryDefault
<1>1. {"proxy", "request_cookies"} \cap ({"with_random_tls_extension_order", "catch_panics",
          "timeout_seconds", "client_identifier", "hpack_indexing_policy", "stream"}
          \cup Abi3Fields \cup Flags \cup INT_REQUEST_KEYS) = {}
  BY DEF Abi3Fields, ABI3_REQUEST_FIELDS, Flags, INT_REQUEST_KEYS
<1>2. \A k \in {"proxy", "request_cookies"} \cap DOMAIN LibraryDefault :
         LibraryDefault[k] = None
  BY <1>1 DEF LibraryDefault
<1>3. ASSUME NEW k \in Flags \cap DOMAIN LibraryDefault
      PROVE  LibraryDefault[k] \in {"0", "1"}
  <2>1. CASE k \in Abi3Fields
    <3>1. ABI3_REQUEST_FIELDS[k] = "0"
      BY <1>3, <2>1 DEF Abi3Fields, ABI3_REQUEST_FIELDS, Flags
    <3>2. k \notin {"with_random_tls_extension_order", "catch_panics", "timeout_seconds",
                    "client_identifier", "hpack_indexing_policy"}
      BY <2>1 DEF Abi3Fields, ABI3_REQUEST_FIELDS
    <3>3. QED
      BY <2>1, <3>1, <3>2 DEF LibraryDefault
  <2>2. CASE k \notin Abi3Fields
    <3>1. k \notin {"timeout_seconds", "client_identifier", "hpack_indexing_policy"}
      BY <1>3 DEF Flags
    <3>2. QED
      BY <1>3, <2>2, <3>1 DEF LibraryDefault
  <2>3. QED
    BY <2>1, <2>2
<1>4. "fingerprint" \notin DOMAIN LibraryDefault
  <2>1. "fingerprint" \notin OverrideParams
    BY DEF OverrideParams, SetterParams, SettersFingerprint, SettersTimeoutTls, SettersPool,
           SettersIpTcp, SettersProxyHeaders, SettersPinCookieCustom, SettersCookieDebug,
           SettersCompat, Abi2Fields, Abi21Fields, Abi3Fields, ABI3_REQUEST_FIELDS
  <2>2. \A p : KeyOf(p) = "fingerprint" => p = "fingerprint"
    BY DEF KeyOf
  <2>3. QED
    BY <2>1, <2>2 DEF LibraryDefault, RequestKeys
<1>5. QED
  BY <1>2, <1>3, <1>4

\* Storing a flag leaves 0 or 1.
LEMMA StoredFlag ==
    ASSUME NEW p, NEW v, KeyOf(p) \in Flags
    PROVE  Stored(p, v) \in {"0", "1"}
<1>1. p \notin {"header_order_dest", "tcp_ip_id_mode"}
  BY DEF KeyOf, Flags
<1>2. QED
  BY <1>1 DEF Stored, AsFlag

\* The parameters under two names; None there is as good as absent.
Aliased == {"proxies", "proxy", "headers", "default_headers", "cookies", "request_cookies"}

\* Each argument of a constructor is among what the session was told.
LEMMA SaidFacts ==
    ASSUME NEW g, NEW p \in DOMAIN g \ {"fingerprint"}, p \in Aliased => g[p] # None
    PROVE  KeyOf(p) \in DOMAIN Said(g) /\ Stored(p, g[p]) \in Said(g)[KeyOf(p)]
<1> DEFINE heard == {q \in DOMAIN g \ {"fingerprint"} : q \in Aliased => g[q] # None}
<1>1. p \in heard
  OBVIOUS
<1>2. Said(g) = [k \in {KeyOf(q) : q \in heard} |->
                    {Stored(q, g[q]) : q \in {x \in heard : KeyOf(x) = k}}]
  BY DEF Said, Aliased
<1> HIDE DEF heard
<1>3. KeyOf(p) \in {KeyOf(q) : q \in heard}
  BY <1>1
<1>4. Stored(p, g[p]) \in {Stored(q, g[q]) : q \in {x \in heard : KeyOf(x) = KeyOf(p)}}
  BY <1>1
<1>5. QED
  BY <1>2, <1>3, <1>4

\* And the session was told nothing else.
LEMMA SaidOnly ==
    ASSUME NEW g, NEW k \in DOMAIN Said(g)
    PROVE  \E p \in DOMAIN g \ {"fingerprint"} : KeyOf(p) = k /\ (p \in Aliased => g[p] # None)
  BY DEF Said, Aliased

\* A constructor stores, for every key, something it was told for the key,
\* else the library's default.
LEMMA ConstructorHeard ==
    ASSUME ScenarioChosen, NEW g, NEW d, d = ConstructorDefaults(g), NEW k \in scen.keys
    PROVE  /\ k \in DOMAIN Said(g) => d[k] \in Said(g)[k]
           /\ k \notin DOMAIN Said(g) /\ k # "default_headers" => d[k] = LibraryDefault[k]
           /\ k \in Flags => d[k] \in {"0", "1"}
<1> DEFINE Good == /\ k \in DOMAIN Said(g) => d[k] \in Said(g)[k]
                   /\ k \notin DOMAIN Said(g) /\ k # "default_headers" =>
                         d[k] = LibraryDefault[k]
                   /\ k \in Flags => d[k] \in {"0", "1"}
<1>0. k \in DOMAIN LibraryDefault /\ k # "fingerprint"
  BY KeysKnown, DefaultValues
<1>1. ASSUME NEW a, NEW b, {a, b} \subseteq Aliased, KeyOf(a) = k, KeyOf(b) = k,
             \A p : KeyOf(p) = k => p \in {a, b}, k \notin Flags,
             \A v : Stored(a, v) = v /\ Stored(b, v) = v,
             LibraryDefault[k] = None \/ k = "default_headers",
             \/ d[k] = Either(Get(g, a), Get(g, b))
             \/ /\ k = "default_headers"
                /\ d[k] = Either(Either(Get(g, a), Get(g, b)), Profile(NamedIdentifier(g)))
      PROVE  Good
  <2>0. {a, b} \cap {"fingerprint"} = {}
    BY <1>1 DEF Aliased
  <2>1. CASE Get(g, a) # None
    <3>1. a \in DOMAIN g /\ g[a] # None /\ d[k] = g[a]
      BY <1>1, <2>1 DEF Get, Either
    <3>2. KeyOf(a) \in DOMAIN Said(g) /\ Stored(a, g[a]) \in Said(g)[KeyOf(a)]
      BY <1>1, <2>0, <3>1, SaidFacts
    <3>3. KeyOf(a) = k /\ Stored(a, g[a]) = g[a] /\ k \notin Flags
      BY <1>1
    <3>4. QED
      BY <3>1, <3>2, <3>3
  <2>2. CASE Get(g, a) = None /\ Get(g, b) # None
    <3>1. b \in DOMAIN g /\ g[b] # None /\ d[k] = g[b]
      BY <1>1, <2>2 DEF Get, Either
    <3>2. KeyOf(b) \in DOMAIN Said(g) /\ Stored(b, g[b]) \in Said(g)[KeyOf(b)]
      BY <1>1, <2>0, <3>1, SaidFacts
    <3>3. KeyOf(b) = k /\ Stored(b, g[b]) = g[b] /\ k \notin Flags
      BY <1>1
    <3>4. QED
      BY <3>1, <3>2, <3>3
  <2>3. CASE Get(g, a) = None /\ Get(g, b) = None
    <3>1. k \notin DOMAIN Said(g)
      BY <1>1, <2>3, SaidOnly DEF Get
    <3>2. k # "default_headers" => d[k] = None
      BY <1>1, <2>3 DEF Either
    <3>3. QED
      BY <1>1, <3>1, <3>2
  <2>4. QED
    BY <2>1, <2>2, <2>3
<1>2. CASE k = "proxy"
  <2>1. d[k] = Either(Get(g, "proxies"), Get(g, "proxy"))
    BY <1>2 DEF ConstructorDefaults
  <2>2. /\ KeyOf("proxies") = k /\ KeyOf("proxy") = k
        /\ \A p : KeyOf(p) = k => p \in {"proxies", "proxy"}
    BY <1>2 DEF KeyOf
  <2>3. k \notin Flags
    BY <1>2, IdentityKeys
  <2>4. \A v : Stored("proxies", v) = v /\ Stored("proxy", v) = v
    BY <2>2, <2>3 DEF Stored
  <2>5. QED
    BY <1>0, <1>1, <1>2, <2>1, <2>2, <2>3, <2>4, DefaultValues DEF Aliased
<1>3. CASE k = "request_cookies"
  <2>1. d[k] = Either(Get(g, "request_cookies"), Get(g, "cookies"))
    BY <1>3 DEF ConstructorDefaults
  <2>2. /\ KeyOf("request_cookies") = k /\ KeyOf("cookies") = k
        /\ \A p : KeyOf(p) = k => p \in {"request_cookies", "cookies"}
    BY <1>3 DEF KeyOf
  <2>3. k \notin Flags
    BY <1>3 DEF Flags
  <2>4. \A v : Stored("request_cookies", v) = v /\ Stored("cookies", v) = v
    BY <2>2, <2>3 DEF Stored
  <2>5. QED
    BY <1>0, <1>1, <1>3, <2>1, <2>2, <2>3, <2>4, DefaultValues DEF Aliased
<1>4. CASE k = "default_headers"
  <2>1. d[k] = Either(Either(Get(g, "default_headers"), Get(g, "headers")),
                      Profile(NamedIdentifier(g)))
    BY <1>4 DEF ConstructorDefaults, NamedIdentifier
  <2>2. /\ KeyOf("default_headers") = k /\ KeyOf("headers") = k
        /\ \A p : KeyOf(p) = k => p \in {"default_headers", "headers"}
    BY <1>4 DEF KeyOf
  <2>3. k \notin Flags
    BY <1>4, IdentityKeys
  <2>4. \A v : Stored("default_headers", v) = v /\ Stored("headers", v) = v
    BY <2>2, <2>3 DEF Stored
  <2>5. QED
    BY <1>1, <1>4, <2>1, <2>2, <2>3, <2>4 DEF Aliased
<1>5. CASE k \notin {"proxy", "request_cookies", "default_headers"}
  <2> DEFINE ps == {p \in DOMAIN g : KeyOf(p) = k}
  <2>1. d[k] = IF ps = {} THEN LibraryDefault[k]
               ELSE LET p == CHOOSE q \in ps : TRUE IN Stored(p, g[p])
    BY <1>5 DEF ConstructorDefaults
  <2>2. CASE ps = {}
    <3>1. k \notin DOMAIN Said(g)
      BY <2>2, SaidOnly
    <3>2. d[k] = LibraryDefault[k]
      BY <2>1, <2>2
    <3>3. QED
      BY <1>0, <3>1, <3>2, DefaultValues
  <2>3. CASE ps # {}
    <3>1. PICK p \in ps : d[k] = Stored(p, g[p])
      BY <2>1, <2>3
    <3>2. p \notin Aliased /\ p # "fingerprint" /\ p \in DOMAIN g /\ KeyOf(p) = k
      BY <1>0, <1>5, <3>1 DEF KeyOf, Aliased
    <3>3. QED
      BY <3>1, <3>2, SaidFacts, StoredFlag
  <2>4. QED
    BY <2>2, <2>3
<1>6. QED
  BY <1>2, <1>3, <1>4, <1>5

\* What the session stores and what it was told agree.
ToldInv == Heard /\ FlagTold /\ FlagsStored

\* After apply() the session was last told what the preset wrote.
LEMMA TellsMore ==
    ASSUME NEW w, NEW t, NEW u, u = Over(Tells(w), t)
    PROVE  /\ DOMAIN u = DOMAIN w \cup DOMAIN t
           /\ \A k \in DOMAIN w : u[k] = {w[k]}
           /\ \A k \in DOMAIN t \ DOMAIN w : u[k] = t[k]
<1> DEFINE f == Tells(w)
<1>1. DOMAIN f = DOMAIN w /\ \A k \in DOMAIN w : f[k] = {w[k]}
  BY DEF Tells
<1>2. u = Over(f, t)
  OBVIOUS
<1> HIDE DEF f
<1>3. QED
  BY <1>1, <1>2 DEF Over

\* apply() over options that agree with what was told leaves options that
\* agree with what was told since.
LEMMA AppliedHeard ==
    ASSUME NEW d, DOMAIN d = scen.keys, NEW custom \in BOOLEAN, NEW w, Written(w), NEW t,
           NEW u,
           u = Over(Tells(w), t),
           "default_headers" \in DOMAIN t => custom,
           NEW e, e = Applied(d, custom, w), NEW k \in scen.keys,
           k \in DOMAIN t => d[k] \in t[k],
           k \notin DOMAIN t /\ k # "default_headers" => d[k] = LibraryDefault[k],
           k \in Flags => d[k] \in {"0", "1"}
    PROVE  /\ k \in DOMAIN u => e[k] \in u[k]
           /\ k \notin DOMAIN u /\ k # "default_headers" => e[k] = LibraryDefault[k]
           /\ k \in Flags => e[k] \in {"0", "1"}
<1>1. /\ DOMAIN u = DOMAIN w \cup DOMAIN t
      /\ \A x \in DOMAIN w : u[x] = {w[x]}
      /\ \A x \in DOMAIN t \ DOMAIN w : u[x] = t[x]
  BY ONLY u = Over(Tells(w), t), TellsMore
<1>2. CASE k \in DOMAIN w
  <2>1. e[k] = w[k]
    BY <1>2 DEF Applied
  <2>2. QED
    BY <1>1, <1>2, <2>1 DEF Written
<1>3. CASE k \notin DOMAIN w /\ e[k] = d[k]
  BY <1>1, <1>3
<1>4. CASE k \notin DOMAIN w /\ e[k] # d[k]
  <2>1. k = "default_headers" /\ ~custom
    BY <1>4 DEF Applied
  <2>2. k \notin Flags
    BY <2>1, IdentityKeys
  <2>3. QED
    BY <1>1, <1>4, <2>1, <2>2
<1>5. QED
  BY <1>2, <1>3, <1>4

\* Every step keeps what the session stores and what it was told in
\* agreement.
LEMMA ToldStep ==
    ASSUME ScenarioChosen, TypeOK, ToldInv, Stepped
    PROVE  ToldInv'
<1>0. /\ "client_identifier" \in scen.keys /\ "default_headers" \in scen.keys
      /\ DOMAIN defaults = scen.keys /\ scen' = scen /\ customized \in BOOLEAN
  BY KeysInPlay, ScenarioKept DEF Resolvable, TypeOK
<1>1. CASE UNCHANGED <<defaults, customized, told>>
  BY <1>0, <1>1 DEF ToldInv, Heard, FlagTold, FlagsStored
<1>2. ASSUME NEW f, NEW g, NEW r, NEW w, Made(f, g, r, w), Written(w)
      PROVE  ToldInv'
  <2> DEFINE own == Get(g, "default_headers") # None \/ Get(g, "headers") # None
             d == ConstructorDefaults(g)
             t == Said(g)
  <2>1. /\ defaults' = Applied(d, own, w) /\ customized' = (own \/ Customizes(w))
        /\ told' = Over(Tells(w), t)
    BY <1>2 DEF Made
  <2>2. DOMAIN d = scen.keys
    BY ConstructorPaired
  <2>3. "default_headers" \in DOMAIN t <=> own
    <3>1. KeyOf("headers") = "default_headers" /\ KeyOf("default_headers") = "default_headers"
          /\ \A p : KeyOf(p) = "default_headers" => p \in {"headers", "default_headers"}
      BY DEF KeyOf
    <3>2. ASSUME NEW p \in {"headers", "default_headers"}, Get(g, p) # None
          PROVE  "default_headers" \in DOMAIN t
      <4>1. p \in DOMAIN g \ {"fingerprint"} /\ g[p] # None /\ KeyOf(p) = "default_headers"
        BY <3>1, <3>2 DEF Get
      <4>2. QED
        BY <4>1, SaidFacts
    <3>3. ASSUME "default_headers" \in DOMAIN t
          PROVE  own
      <4>1. PICK p \in DOMAIN g : /\ KeyOf(p) = "default_headers"
                                  /\ p \in Aliased => g[p] # None
        BY <3>3, SaidOnly
      <4>2. p \in {"headers", "default_headers"} /\ g[p] # None
        BY <3>1, <4>1 DEF Aliased
      <4>3. QED
        BY <4>1, <4>2 DEF Get
    <3>4. QED
      BY <3>2, <3>3
  <2>4. DOMAIN told' = DOMAIN w \cup DOMAIN t
    BY <2>1, TellsMore
  <2>5. own \in BOOLEAN
    OBVIOUS
  <2>6. \A k \in scen.keys :
           /\ k \in DOMAIN t => d[k] \in t[k]
           /\ k \notin DOMAIN t /\ k # "default_headers" => d[k] = LibraryDefault[k]
           /\ k \in Flags => d[k] \in {"0", "1"}
    BY ConstructorHeard
  <2> HIDE DEF own, d, t
  <2>7. \A k \in scen.keys :
           /\ k \in DOMAIN told' => defaults'[k] \in told'[k]
           /\ k \notin DOMAIN told' /\ k # "default_headers" => defaults'[k] = LibraryDefault[k]
           /\ k \in Flags => defaults'[k] \in {"0", "1"}
    BY <1>2, <2>1, <2>2, <2>3, <2>5, <2>6, AppliedHeard
  <2>8. QED
    BY <1>0, <2>1, <2>3, <2>4, <2>7 DEF ToldInv, Heard, FlagTold, FlagsStored, Customizes
<1>3. ASSUME NEW p, NEW v, SetProperty(p, v), KeyOf(p) \in scen.keys
      PROVE  ToldInv'
  <2>1. /\ DOMAIN told' = {KeyOf(p)} \cup DOMAIN told /\ told'[KeyOf(p)] = {Stored(p, v)}
        /\ \A k \in DOMAIN told : k # KeyOf(p) => told'[k] = told[k]
    BY <1>3, SetTold
  <2>2. p \in {"headers", "default_headers"} <=> KeyOf(p) = "default_headers"
    BY DEF KeyOf
  <2>3. /\ defaults'[KeyOf(p)] = Stored(p, v)
        /\ \A k \in scen.keys : k # KeyOf(p) => defaults'[k] = defaults[k]
        /\ customized' = (customized \/ p \in {"headers", "default_headers"})
    BY <1>0, <1>3 DEF SetProperty
  <2>4. FlagTold'
    BY <2>1, <2>2, <2>3 DEF ToldInv, FlagTold
  <2>5. Heard'
    BY <1>0, <2>1, <2>3 DEF ToldInv, Heard
  <2>6. FlagsStored'
    BY <1>0, <2>3, StoredFlag DEF ToldInv, FlagsStored
  <2>7. QED
    BY <2>4, <2>5, <2>6 DEF ToldInv
<1>4. ASSUME NEW v, SetIdentifier(v)
      PROVE  ToldInv'
  <2>1. CASE v \notin SUPPORTED_CLIENT_IDENTIFIERS
    BY <1>1, <1>4, <2>1 DEF SetIdentifier
  <2>2. CASE v \in SUPPORTED_CLIENT_IDENTIFIERS
    <3>1. /\ DOMAIN told' = {"client_identifier"} \cup DOMAIN told
          /\ told'["client_identifier"] = {v}
          /\ \A k \in DOMAIN told : k # "client_identifier" => told'[k] = told[k]
      BY <1>4, <2>2, IdentifierTold
    <3>2. customized' = customized /\ defaults'["client_identifier"] = v
      BY <1>0, <1>4, <2>2 DEF SetIdentifier
    <3>3. \A k \in scen.keys : k \notin {"client_identifier", "default_headers"} =>
             defaults'[k] = defaults[k]
      BY <1>0, <1>4, <2>2 DEF SetIdentifier
    <3>4. customized => defaults'["default_headers"] = defaults["default_headers"]
      BY <1>0, <1>4, <2>2 DEF SetIdentifier
    <3>5. FlagTold'
      BY <3>1, <3>2 DEF ToldInv, FlagTold
    <3>6. Heard'
      BY <1>0, <3>1, <3>2, <3>3, <3>4 DEF ToldInv, Heard, FlagTold
    <3>7. FlagsStored'
      BY <1>0, <3>3, IdentityKeys DEF ToldInv, FlagsStored
    <3>8. QED
      BY <3>5, <3>6, <3>7 DEF ToldInv
  <2>3. QED
    BY <2>1, <2>2
<1>5. ASSUME NEW r, NEW w, Write(r, w), Written(w)
      PROVE  ToldInv'
  <2>1. /\ defaults' = Applied(defaults, customized, w) /\ told' = Over(Tells(w), told)
        /\ customized' = (customized \/ "default_headers" \in DOMAIN w)
    BY <1>5 DEF Write, Customizes
  <2>2. DOMAIN told' = DOMAIN w \cup DOMAIN told
    BY <2>1, TellsMore
  <2>3. \A k \in scen.keys :
           /\ k \in DOMAIN told => defaults[k] \in told[k]
           /\ k \notin DOMAIN told /\ k # "default_headers" => defaults[k] = LibraryDefault[k]
           /\ k \in Flags => defaults[k] \in {"0", "1"}
    BY DEF ToldInv, Heard, FlagsStored
  <2>4. \A k \in scen.keys :
           /\ k \in DOMAIN told' => defaults'[k] \in told'[k]
           /\ k \notin DOMAIN told' /\ k # "default_headers" => defaults'[k] = LibraryDefault[k]
           /\ k \in Flags => defaults'[k] \in {"0", "1"}
    BY <1>0, <1>5, <2>1, <2>3, AppliedHeard DEF ToldInv, FlagTold
  <2>5. QED
    BY <1>0, <2>1, <2>2, <2>4 DEF ToldInv, Heard, FlagTold, FlagsStored
<1>6. ASSUME NEW n \in scen.presets, Apply(n)
      PROVE  ToldInv'
  BY <1>1, <1>5, <1>6, Applies
<1>7. ASSUME NEW p \in scen.fields \cap SetterParams
      PROVE  KeyOf(p) \in scen.keys
  <2>1. p # "fingerprint" /\ p \in SessionParams
    BY <1>7 DEF SessionParams, SetterParams, SettersFingerprint, SettersTimeoutTls,
          SettersPool, SettersIpTcp, SettersProxyHeaders, SettersPinCookieCustom,
          SettersCookieDebug, SettersCompat
  <2>2. QED
    BY <1>7, <2>1, KeysInPlay
<1>8. QED
  BY <1>1, <1>2, <1>3, <1>4, <1>6, <1>7, Constructs
     DEF Stepped, Executes, Clears, vars

\* Every step keeps bare fields a matter of AsyncSession.
LEMMA BareStep ==
    ASSUME ScenarioChosen, TypeOK, BareFields, Stepped
    PROVE  BareFields'
<1>0. scen' = scen
  BY ScenarioKept
<1>1. CASE UNCHANGED <<facade, bare>>
  BY <1>0, <1>1 DEF BareFields
<1>2. ASSUME NEW f, NEW g, Construct(f, g), f = "compat" => scen.compat # <<>>
      PROVE  BareFields'
  BY <1>0, <1>2 DEF Construct, Preset, Made, BareFields, vars
<1>3. ASSUME NEW n \in scen.presets, Apply(n), scen.compat = <<>>
      PROVE  BareFields'
  <2>1. facade' = facade /\ facade \in {"sync", "async"}
    BY <1>3 DEF Apply, Live, TypeOK, BareFields
  <2>2. bare' = bare \/ \E r, w : Write(r, w)
    BY <1>3, Applies
  <2>3. ASSUME NEW r, NEW w, Write(r, w), facade = "sync"
        PROVE  bare' = {}
    BY <2>3 DEF Write
  <2>4. QED
    BY <1>0, <1>1, <2>1, <2>2, <2>3 DEF BareFields
<1>4. CASE bare' = {} /\ facade' = facade
  BY <1>0, <1>4 DEF BareFields
<1>5. QED
  BY <1>1, <1>2, <1>3, <1>4
     DEF Stepped, SetProperty, SetIdentifier, Executes, Clears, vars

(* --------------------- from the call to the struct ---------------------- *)

\* What a call names for each key, and the value the facade then takes for
\* the key k: the call's, else the snapshot's.
CallOverrides(entry, kw) ==
    IF facade = "async" THEN AsyncOverrides(entry, kw) ELSE Overrides(kw)

\* The value a facade takes for key k of a call; AsyncSession takes the
\* proxy from the call alone.
LookedUp(entry, kw, k) ==
    IF k = "proxy" /\ facade = "async"
    THEN IF entry # "stream" \/ "proxy" \in DOMAIN kw THEN Get(kw, "proxy") ELSE Snapshot.proxy
    ELSE LET v == Either(CallOverrides(entry, kw)[k], Get(Snapshot, k))
         IN  IF k \in Flags THEN AsFlag(v) ELSE v

\* The options of ABI 3 and their neutral values.
LEMMA Abi3Facts ==
    /\ \A k \in Abi3Fields : k # "proxy"
    /\ \A k \in Abi3Fields \ INT_REQUEST_KEYS :
          k \notin Flags /\ ABI3_REQUEST_FIELDS[k] = "empty" /\ k # "custom_tls_client"
    /\ \A k \in INT_REQUEST_KEYS : \A v : NormalizeInt(k, v) # None
<1>1. \A k \in Abi3Fields : k # "proxy"
  BY DEF Abi3Fields, ABI3_REQUEST_FIELDS
<1>2. \A k \in Abi3Fields \ INT_REQUEST_KEYS : k \in {"header_order_dest", "tcp_ip_id_mode"}
  BY DEF Abi3Fields, ABI3_REQUEST_FIELDS, INT_REQUEST_KEYS
<1>3. \A k \in {"header_order_dest", "tcp_ip_id_mode"} :
         k \notin Flags /\ ABI3_REQUEST_FIELDS[k] = "empty"
  BY DEF ABI3_REQUEST_FIELDS, Flags
<1>4. \A k \in INT_REQUEST_KEYS : \A v : NormalizeInt(k, v) # None
  BY DEF NormalizeInt, None
<1>5. QED
  BY <1>1, <1>2, <1>3, <1>4

\* Both facades resolve every key to what they look up, the proxy as a URL
\* and numbers as numbers.
LEMMA ResolvedIs ==
    ASSUME ScenarioChosen, TypeOK, NEW entry, NEW kw, NEW k \in Resolvable
    PROVE  ResolvedOptions(entry, kw)[k] =
              NormalizeInt(k, IF k = "proxy" THEN ResolveProxyUrl(LookedUp(entry, kw, k))
                              ELSE LookedUp(entry, kw, k))
<1>1. CASE k = "proxy"
  <2>1. k \notin Flags /\ \A v : NormalizeInt(k, v) = v
    BY <1>1, IdentityKeys DEF NormalizeInt
  <2>2. Get(Snapshot, k) = Snapshot.proxy
    BY <1>1, SnapshotIs DEF Get, TypeOK
  <2>3. CASE facade = "async"
    BY <1>1, <2>1, <2>3 DEF ResolvedOptions, AsyncResolved, LookedUp
  <2>4. CASE facade # "async"
    BY <1>1, <2>1, <2>2, <2>4 DEF ResolvedOptions, SyncResolved, LookedUp, CallOverrides
  <2>5. QED
    BY <2>3, <2>4
<1>2. CASE k # "proxy"
  BY <1>2 DEF ResolvedOptions, SyncResolved, AsyncResolved, LookedUp, CallOverrides, Val
<1>3. QED
  BY <1>1, <1>2

\* The header block of the call is not paired: the call or the session
\* manages the headers.
Settled(kw, k) == k = "default_headers" => customized \/ Get(kw, "default_headers") # None

\* The C struct receives what the looked-up value means to the engine; an
\* old library degrades exactly the ABI 3 options.
LEMMA Effective ==
    ASSUME ScenarioChosen, TypeOK, NEW entry, NEW kw, NEW k \in Resolvable, Settled(kw, k)
    PROVE  ToC(k, Handed(entry, kw)[k]) = Meaning(k, LookedUp(entry, kw, k))
<1> DEFINE r0 == ResolvedOptions(entry, kw)
           r1 == DegradeAbi3(r0)
           x == IF k = "proxy" THEN ResolveProxyUrl(LookedUp(entry, kw, k))
                ELSE LookedUp(entry, kw, k)
<1>1. r0[k] = NormalizeInt(k, x) /\ DOMAIN r0 = Resolvable
  BY ResolvedIs DEF ResolvedOptions, SyncResolved, AsyncResolved
<1>2. DOMAIN r1 = Resolvable
  BY <1>1 DEF DegradeAbi3
<1>3. Handed(entry, kw)[k] = r1[k]
  <2>1. \/ Handed(entry, kw) = r1
        \/ /\ Handed(entry, kw) = [r1 EXCEPT !.default_headers = Profile(r1.client_identifier)]
           /\ ~customized /\ Get(kw, "default_headers") = None
    BY DEF Handed, PairHeaders, AsyncPairHeaders
  <2> HIDE DEF r1
  <2>2. QED
    BY <1>2, <2>1 DEF Settled
<1> HIDE DEF r0, x
<1>4. CASE scen.abi < 3 /\ k \in Abi3Fields
  <2>1. CASE Abi3Requested(r0)
    BY <1>3, <1>4, <2>1 DEF DegradeAbi3, Meaning
  <2>2. CASE ~Abi3Requested(r0)
    <3>1. r1[k] = r0[k] /\ r0[k] \in {None, ABI3_REQUEST_FIELDS[k]}
      BY <1>1, <1>4, <2>2 DEF DegradeAbi3, Abi3Requested
    <3>2. ToC(k, r0[k]) = ToC(k, ABI3_REQUEST_FIELDS[k])
      <4>1. CASE r0[k] = None
        <5>1. k \notin INT_REQUEST_KEYS
          BY <1>1, <4>1, Abi3Facts
        <5>2. k \notin Flags /\ ABI3_REQUEST_FIELDS[k] = "empty"
          BY <1>4, <5>1, Abi3Facts
        <5>3. QED
          BY <4>1, <5>1, <5>2 DEF ToC
      <4>2. QED
        BY <3>1, <4>1
    <3>3. QED
      BY <1>3, <1>4, <3>1, <3>2 DEF Meaning
  <2>3. QED
    BY <2>1, <2>2
<1>5. CASE ~(scen.abi < 3 /\ k \in Abi3Fields)
  <2>1. r1[k] = r0[k]
    BY <1>5 DEF DegradeAbi3
  <2>2. Meaning(k, LookedUp(entry, kw, k)) = ToC(k, NormalizeInt(k, x))
    BY <1>5 DEF Meaning, x
  <2>3. QED
    BY <1>1, <1>3, <2>1, <2>2
<1>6. QED
  BY <1>4, <1>5

\* Every key of a request has one keyword of its own, and the renamed
\* parameters of request() are none of them.
LEMMA Keyword ==
    /\ \A p, q \in OverrideParams : KeyOf(p) = KeyOf(q) => p = q
    /\ \A k \in RequestKeys : KeywordOf[k] \in OverrideParams /\ KeyOf(KeywordOf[k]) = k
    /\ {"header_order", "cert", "params", "data", "json", "auth", "stream"} \cap RequestKeys = {}
    /\ {"timeout_seconds", "insecure_skip_verify", "with_random_tls_extension_order",
        "header_order", "cert", "params", "data", "json", "auth", "stream", "proxies", "headers",
        "cookies", "allow_redirects"} \cap OverrideParams = {}
<1>1. {"timeout_seconds", "insecure_skip_verify", "with_random_tls_extension_order",
        "header_order", "cert", "params", "data", "json", "auth", "stream", "proxies", "headers",
        "cookies", "allow_redirects"} \cap OverrideParams = {}
  BY DEF OverrideParams, SetterParams, SettersFingerprint, SettersTimeoutTls, SettersPool,
         SettersIpTcp, SettersProxyHeaders, SettersPinCookieCustom, SettersCookieDebug,
         SettersCompat, Abi2Fields, Abi21Fields, Abi3Fields, ABI3_REQUEST_FIELDS
<1>2. \A p, q \in OverrideParams : KeyOf(p) = KeyOf(q) => p = q
  BY <1>1 DEF KeyOf
<1>3. ASSUME NEW k \in RequestKeys
      PROVE  KeywordOf[k] \in OverrideParams /\ KeyOf(KeywordOf[k]) = k
  <2>1. \E p \in OverrideParams : KeyOf(p) = k
    BY DEF RequestKeys
  <2>2. KeywordOf[k] = CHOOSE p \in OverrideParams : KeyOf(p) = k
    BY DEF KeywordOf
  <2>3. QED
    BY <2>1, <2>2
<1>4. ASSUME NEW k \in {"header_order", "cert", "params", "data", "json", "auth", "stream"},
             k \in RequestKeys
      PROVE  FALSE
  <2>1. PICK p \in OverrideParams : KeyOf(p) = k
    BY <1>4 DEF RequestKeys
  <2>2. p = k
    BY <1>1, <1>4, <2>1 DEF KeyOf
  <2>3. QED
    BY <1>1, <1>4, <2>2
<1>5. QED
  BY <1>1, <1>2, <1>3, <1>4

\* What a call says through the keyword of a key is what a session would
\* have stored for it.
LEMMA FromCall ==
    ASSUME ScenarioChosen, NEW entry, NEW kw, NEW k \in Resolvable, NEW q, q = KeywordOf[k],
           Get(kw, q) # None, k \in TextNames => kw[q] \notin {"0", "False"},
           facade = "async" => k # "proxy" /\ (entry = "stream" => q = k)
    PROVE  LookedUp(entry, kw, k) = Stored(q, kw[q])
<1>0. k \in RequestKeys /\ q \in OverrideParams /\ KeyOf(q) = k /\ Get(kw, q) = kw[q]
      /\ q \in DOMAIN kw
  BY Keyword DEF Resolvable, Get
<1>1. CASE q = "verify"
  <2>1. k = "insecure_skip_verify" /\ k \in Flags /\ k # q
    BY <1>0, <1>1 DEF KeyOf, Flags
  <2>2. CallOverrides(entry, kw)[k] = Stored(q, kw[q])
    BY <1>0, <1>1, <2>1 DEF CallOverrides, Overrides, AsyncOverrides
  <2>3. Stored(q, kw[q]) \in {"0", "1"}
    BY <1>0, <2>1, StoredFlag
  <2>4. LookedUp(entry, kw, k) = AsFlag(Stored(q, kw[q]))
    BY <2>1, <2>2, <2>3 DEF LookedUp, Either, None
  <2>5. QED
    BY <2>3, <2>4 DEF AsFlag, Truthy, None
<1>2. CASE q # "verify"
  <2>1. CallOverrides(entry, kw)[k] = kw[q]
    BY <1>0, <1>2 DEF CallOverrides, Overrides, AsyncOverrides
  <2>2. LookedUp(entry, kw, k) = IF k \in Flags THEN AsFlag(kw[q]) ELSE kw[q]
    BY <1>0, <2>1 DEF LookedUp, Either
  <2>3. CASE k \in Flags
    <3>1. q \notin {"header_order_dest", "tcp_ip_id_mode"}
      BY <1>0, <2>3 DEF KeyOf, Flags
    <3>2. QED
      BY <1>0, <1>2, <2>2, <2>3, <3>1 DEF Stored
  <2>4. CASE q \in {"header_order_dest", "tcp_ip_id_mode"}
    <3>1. k = q /\ k \notin Flags /\ k \in TextNames
      BY <1>0, <2>4 DEF KeyOf, Flags, TextNames
    <3>2. kw[q] \notin {"0", "False", None}
      BY <1>0, <3>1
    <3>3. Stored(q, kw[q]) = IF Truthy(kw[q]) THEN kw[q] ELSE "empty"
      BY <1>0, <1>2, <2>4, <3>1 DEF Stored
    <3>4. QED
      BY <2>2, <3>1, <3>2, <3>3 DEF Truthy
  <2>5. CASE k \notin Flags /\ q \notin {"header_order_dest", "tcp_ip_id_mode"}
    BY <1>0, <1>2, <2>2, <2>5 DEF Stored
  <2>6. QED
    BY <2>3, <2>4, <2>5
<1>3. QED
  BY <1>1, <1>2

\* What a call with keywords g asks for k, under any of its names.
CallAsks(g, k) ==
    {Meaning(k, Stored(p, g[p])) : p \in {q \in DOMAIN g : KeyOf(q) = k /\ g[q] # None}}
    \cup (IF k = "client_certificates" /\ Get(g, "cert") # None THEN {"loaded"} ELSE {})

\* What the session was last told for k, else the library's default.
SessionAsks(entry, k) ==
    (IF k = "client_certificates" /\ entry = "request" /\ Get(defaults, "cert") # None
     THEN {"loaded"} ELSE {})
    \cup {Meaning(k, v) : v \in IF k \in DOMAIN told THEN told[k] ELSE {LibraryDefault[k]}}

\* The departures of AsyncSession that AskedReachesEngine names.
GapOf(entry, g, k, x) ==
    /\ facade = "async"
    /\ \/ /\ k = "proxy"
          /\ entry = "stream" => "proxy" \in DOMAIN g
          /\ x = "NULL"
       \/ /\ k \in {"timeout_seconds", "insecure_skip_verify",
                    "with_random_tls_extension_order"}
          /\ entry = "stream"
          /\ x \in SessionAsks(entry, k)
       \/ k \in bare

\* What AskedReachesEngine demands of the value x that a call with keywords
\* g hands over for k.
Arrives(entry, g, k, x) ==
    \/ CallAsks(g, k) # {} /\ x \in CallAsks(g, k)
    \/ CallAsks(g, k) = {} /\ x \in SessionAsks(entry, k)
    \/ /\ k = "proxy" /\ Get(g, "proxies") = "empty-map"
       /\ x \in SessionAsks(entry, k) \cup {"NULL"}
    \/ GapOf(entry, g, k, x)

\* A key the call leaves open is taken from what the session was told.
LEMMA FromSession ==
    ASSUME ScenarioChosen, TypeOK, SnapshotFresh, ToldInv, NEW entry, NEW kw,
           NEW k \in Resolvable \ bare,
           k = "default_headers" => "default_headers" \in DOMAIN told,
           \/ CallOverrides(entry, kw)[k] = None /\ ~(k = "proxy" /\ facade = "async")
           \/ k = "proxy" /\ facade = "async" /\ entry = "stream" /\ "proxy" \notin DOMAIN kw
    PROVE  /\ LookedUp(entry, kw, k) = defaults[k]
           /\ Meaning(k, LookedUp(entry, kw, k)) \in SessionAsks(entry, k)
<1>1. Snapshot[k] = defaults[k] /\ k \in DOMAIN Snapshot /\ k \in scen.keys
  BY SnapshotIs DEF SnapshotFresh, TypeOK, Resolvable
<1>2. k \in Flags => AsFlag(defaults[k]) = defaults[k]
  BY <1>1 DEF ToldInv, FlagsStored, AsFlag, Truthy, None
<1>3. LookedUp(entry, kw, k) = defaults[k]
  BY <1>1, <1>2 DEF LookedUp, Either, Get
<1>4. defaults[k] \in IF k \in DOMAIN told THEN told[k] ELSE {LibraryDefault[k]}
  BY <1>1 DEF ToldInv, Heard
<1>5. Meaning(k, defaults[k]) \in SessionAsks(entry, k)
  BY <1>4 DEF SessionAsks
<1>6. QED
  BY <1>3, <1>5

\* The call names k by its keyword alone.
NamedOnce(g, k) == \A p \in DOMAIN g : KeyOf(p) = k => p = KeywordOf[k]

\* Then the call asks for one value or for none.
LEMMA NamedOnceAsks ==
    ASSUME NEW g, NEW k \in RequestKeys, NamedOnce(g, k),
           k = "client_certificates" => Get(g, "cert") = None
    PROVE  /\ Get(g, KeywordOf[k]) = None => CallAsks(g, k) = {}
           /\ Get(g, KeywordOf[k]) # None =>
                 CallAsks(g, k) = {Meaning(k, Stored(KeywordOf[k], g[KeywordOf[k]]))}
<1> DEFINE ps == {q \in DOMAIN g : KeyOf(q) = k /\ g[q] # None}
           w == KeywordOf[k]
<1>1. CallAsks(g, k) = {Meaning(k, Stored(p, g[p])) : p \in ps}
  BY DEF CallAsks
<1>2. KeyOf(w) = k
  BY Keyword
<1>3. Get(g, w) = None => ps = {}
  BY DEF NamedOnce, Get
<1>4. Get(g, w) # None => ps = {w}
  BY <1>2 DEF NamedOnce, Get
<1> HIDE DEF ps, w
<1>5. QED
  BY <1>1, <1>3, <1>4 DEF w

\* A key that a call passes on under its own keyword arrives.
LEMMA PassedOn ==
    ASSUME ScenarioChosen, TypeOK, SnapshotFresh, ToldInv, BareFields, NEW entry, NEW g,
           NEW kw, NEW k \in Resolvable,
           facade # "none", NamedOnce(g, k), k = "client_certificates" => Get(g, "cert") = None,
           Get(kw, KeywordOf[k]) = Get(g, KeywordOf[k]), Texts(g),
           facade = "async" => k # "proxy" /\ (entry = "stream" => KeywordOf[k] = k),
           k = "default_headers" => "default_headers" \in DOMAIN told \/ Get(g, k) # None
    PROVE  Arrives(entry, g, k, ToC(k, Handed(entry, kw)[k]))
<1> DEFINE q == KeywordOf[k]
           x == ToC(k, Handed(entry, kw)[k])
<1>0. k \in RequestKeys /\ q \in OverrideParams /\ KeyOf(q) = k
  BY Keyword DEF Resolvable
<1>1. k = "default_headers" => q = k
  BY OwnName
<1>2. Settled(kw, k)
  BY <1>1 DEF Settled, ToldInv, FlagTold
<1>3. x = Meaning(k, LookedUp(entry, kw, k))
  BY <1>2, Effective
<1> HIDE DEF x
<1>4. CASE Get(g, q) # None
  <2>1. kw[q] = g[q] /\ q \in DOMAIN g
    BY <1>4 DEF Get
  <2>2. k \in TextNames => q = k
    <3>1. \A p : KeyOf(p) \in TextNames => p = KeyOf(p)
      BY DEF KeyOf, TextNames
    <3>2. QED
      BY <1>0, <3>1
  <2>3. k \in TextNames => kw[q] \notin {"0", "False"}
    BY <2>1, <2>2 DEF Texts
  <2>4. LookedUp(entry, kw, k) = Stored(q, g[q])
    BY <1>4, <2>1, <2>3, FromCall
  <2>5. CallAsks(g, k) = {Meaning(k, Stored(q, g[q]))}
    BY <1>0, <1>4, NamedOnceAsks
  <2>6. QED
    BY <1>3, <2>4, <2>5 DEF Arrives, x
<1>5. CASE Get(g, q) = None /\ k \in bare
  BY <1>5 DEF Arrives, GapOf, BareFields, x
<1>6. CASE Get(g, q) = None /\ k \notin bare
  <2>1. CallOverrides(entry, kw)[k] = None
    BY <1>0, <1>6 DEF CallOverrides, Overrides, AsyncOverrides
  <2>2. Meaning(k, LookedUp(entry, kw, k)) \in SessionAsks(entry, k)
    BY <1>1, <1>6, <2>1, FromSession
  <2>3. CallAsks(g, k) = {}
    BY <1>0, <1>6, NamedOnceAsks
  <2>4. QED
    BY <1>3, <2>2, <2>3 DEF Arrives, x
<1>7. QED
  BY <1>4, <1>5, <1>6

\* No proxy is NULL to the engine.
LEMMA NothingIsNull == Meaning("proxy", None) = "NULL"
<1>1. "proxy" \notin Flags \cup INT_REQUEST_KEYS \cup Abi3Fields
  BY IdentityKeys
<1>2. ResolveProxyUrl(None) = None
  BY DEF ResolveProxyUrl, None
<1>3. QED
  BY <1>1, <1>2 DEF Meaning, NormalizeInt, ToC

\* The keyword of the proxy is its key, and it is stored as it is.
LEMMA ProxyKeyword == KeywordOf["proxy"] = "proxy" /\ \A v : Stored("proxy", v) = v
<1>1. KeyOf("proxy") = "proxy" /\ "proxy" \in OverrideParams
  BY DEF KeyOf, OverrideParams, SetterParams, SettersProxyHeaders, SettersCompat
<1>2. KeywordOf["proxy"] = "proxy"
  BY <1>1, Keyword, IdentityKeys
<1>3. \A v : Stored("proxy", v) = v
  BY <1>1, IdentityKeys DEF Stored
<1>4. QED
  BY <1>2, <1>3

\* execute_request(), typed_request(), stream_to_file() and the adapter:
\* every key arrives.
LEMMA DirectCall ==
    ASSUME ScenarioChosen, TypeOK, SnapshotFresh, ToldInv, BareFields, NEW entry, NEW g,
           NEW k \in Resolvable,
           facade # "none", Plainly(g),
           k = "default_headers" => "default_headers" \in DOMAIN told \/ Get(g, k) # None
    PROVE  Arrives(entry, g, k, ToC(k, Handed(entry, g)[k]))
<1> DEFINE q == KeywordOf[k]
           x == ToC(k, Handed(entry, g)[k])
<1>0. k \in RequestKeys /\ q \in OverrideParams /\ KeyOf(q) = k
  BY Keyword DEF Resolvable
<1>1. NamedOnce(g, k)
  <2>1. KeyOf("header_order") = "header_order"
    BY DEF KeyOf
  <2>2. QED
    BY <1>0, <2>1, Keyword DEF NamedOnce, Plainly
<1>2. Get(g, "cert") = None
  BY Keyword DEF Plainly, Get
<1>3. CASE facade = "async" => k # "proxy" /\ (entry = "stream" => KeywordOf[k] = k)
  BY <1>1, <1>2, <1>3, PassedOn DEF Plainly
<1>4. CASE facade = "async" /\ k = "proxy"
  <2>1. x = Meaning(k, LookedUp(entry, g, k))
    BY <1>4, Effective DEF Settled
  <2>2. q = "proxy" /\ k \notin bare
    BY <1>4, ProxyKeyword, IdentityKeys DEF TypeOK
  <2> HIDE DEF x
  <2>3. CASE entry # "stream" \/ "proxy" \in DOMAIN g
    <3>1. LookedUp(entry, g, k) = Get(g, "proxy")
      BY <1>4, <2>3 DEF LookedUp
    <3>2. CASE Get(g, "proxy") = None
      BY <1>4, <2>1, <2>3, <3>1, <3>2, NothingIsNull DEF Arrives, GapOf, x
    <3>3. CASE Get(g, "proxy") # None
      <4>1. CallAsks(g, k) = {Meaning(k, g["proxy"])}
        BY <1>0, <1>1, <1>4, <2>2, <3>3, NamedOnceAsks, ProxyKeyword
      <4>2. QED
        BY <2>1, <3>1, <3>3, <4>1 DEF Arrives, Get, x
    <3>4. QED
      BY <3>2, <3>3
  <2>4. CASE entry = "stream" /\ "proxy" \notin DOMAIN g
    <3>1. Meaning(k, LookedUp(entry, g, k)) \in SessionAsks(entry, k)
      BY <1>4, <2>2, <2>4, FromSession
    <3>2. CallAsks(g, k) = {}
      BY <1>0, <1>1, <1>4, <2>2, <2>4, NamedOnceAsks DEF Get
    <3>3. QED
      BY <2>1, <3>1, <3>2 DEF Arrives, x
  <2>5. QED
    BY <2>3, <2>4
<1>5. CASE facade = "async" /\ k # "proxy" /\ entry = "stream" /\ q # k
  <2>1. k \in {"timeout_seconds", "insecure_skip_verify", "with_random_tls_extension_order"}
    BY <1>0, <1>5, Keyword DEF KeyOf
  <2>2. k \notin FpKeys /\ k # "default_headers"
    BY <2>1 DEF FpKeys, Abi3Fields, ABI3_REQUEST_FIELDS
  <2>3. k \notin DOMAIN g
    BY <2>1, Keyword DEF Plainly
  <2>4. CallOverrides(entry, g)[k] = None
    BY <1>5, <2>3 DEF CallOverrides, AsyncOverrides, Get
  <2>5. Meaning(k, LookedUp(entry, g, k)) \in SessionAsks(entry, k)
    BY <1>5, <2>2, <2>4, FromSession DEF TypeOK
  <2>6. x = Meaning(k, LookedUp(entry, g, k))
    BY <2>2, Effective DEF Settled
  <2> HIDE DEF x
  <2>7. QED
    BY <1>5, <2>1, <2>5, <2>6 DEF Arrives, GapOf, x
<1>6. QED
  BY <1>3, <1>4, <1>5

\* The proxy request() resolves: of proxies, of proxy, else the session's.
ProxyShown(g) ==
    ResolveProxyUrl(IF Get(g, "proxies") # None THEN g.proxies
                    ELSE IF "proxy" \in DOMAIN g THEN g.proxy ELSE defaults.proxy)

\* The keys that request() sets from arguments of other names.
Renamed == {"proxy", "follow_redirects", "request_cookies", "client_certificates"}

\* What {**g, **f} holds for a key.
LEMMA OverGet ==
    ASSUME NEW f, NEW h, NEW k
    PROVE  Get(Over(f, h), k) = IF k \in DOMAIN f THEN f[k] ELSE Get(h, k)
  BY DEF Over, Get

\* What request() passes on to execute_request, key by key.
LEMMA CompatGets ==
    ASSUME NEW g, NEW kw, kw = CompatKwargs(g)
    PROVE  /\ \A p \in OverrideParams \ Renamed : Get(kw, p) = Get(g, p)
           /\ Get(kw, "proxy") = IF ProxyShown(g) # None THEN ProxyShown(g) ELSE Get(g, "proxy")
           /\ Get(kw, "follow_redirects") =
                 IF Get(g, "allow_redirects") # None /\ "follow_redirects" \notin DOMAIN g
                 THEN g.allow_redirects ELSE Get(g, "follow_redirects")
           /\ Get(kw, "request_cookies") = Either(Get(g, "cookies"), Get(g, "request_cookies"))
           /\ Get(kw, "client_certificates") =
                 Either(Get(g, "client_certificates"),
                        IF Either(Get(g, "cert"), Get(defaults, "cert")) # None
                        THEN "loaded" ELSE None)
<1> DEFINE certs == Either(Get(g, "client_certificates"),
                        IF Either(Get(g, "cert"), Get(defaults, "cert")) # None
                        THEN "loaded" ELSE None)
           cookies == Either(Get(g, "cookies"), Get(g, "request_cookies"))
           px == IF ProxyShown(g) # None THEN [proxy |-> ProxyShown(g)] ELSE <<>>
           follows == Get(g, "allow_redirects") # None /\ "follow_redirects" \notin DOMAIN g
           fo == IF follows THEN [follow_redirects |-> g.allow_redirects] ELSE <<>>
           named == [request_cookies |-> cookies, client_certificates |-> certs]
           rest == [p \in DOMAIN g \cap OverrideParams |-> g[p]]
<1>1. kw = Over(px, Over(fo, Over(named, rest)))
  BY DEF CompatKwargs, ProxyShown
<1>2. /\ ProxyShown(g) # None => DOMAIN px = {"proxy"} /\ px["proxy"] = ProxyShown(g)
      /\ ProxyShown(g) = None => DOMAIN px = {}
  OBVIOUS
<1>3. /\ follows => /\ DOMAIN fo = {"follow_redirects"}
                    /\ fo["follow_redirects"] = g.allow_redirects
      /\ ~follows => DOMAIN fo = {}
  OBVIOUS
<1>4. /\ DOMAIN named = {"request_cookies", "client_certificates"}
      /\ named["request_cookies"] = cookies /\ named["client_certificates"] = certs
  OBVIOUS
<1>5. \A p \in OverrideParams : Get(rest, p) = Get(g, p)
  BY DEF Get
<1>6. {"proxy", "follow_redirects"} \subseteq OverrideParams
  BY DEF OverrideParams, SetterParams, SettersProxyHeaders, SettersTimeoutTls, SettersCompat
<1> HIDE DEF px, fo, named, rest, certs, cookies, follows
<1>7. \A k : Get(kw, k) = IF k \in DOMAIN px THEN px[k]
                          ELSE IF k \in DOMAIN fo THEN fo[k]
                          ELSE IF k \in DOMAIN named THEN named[k] ELSE Get(rest, k)
  BY <1>1, OverGet
<1>8. \A p \in OverrideParams \ Renamed : Get(kw, p) = Get(g, p)
  BY <1>2, <1>3, <1>4, <1>5, <1>7 DEF Renamed
<1>9. Get(kw, "proxy") = IF ProxyShown(g) # None THEN ProxyShown(g) ELSE Get(g, "proxy")
  BY <1>2, <1>3, <1>4, <1>5, <1>6, <1>7
<1>10. Get(kw, "follow_redirects") = IF follows THEN g.allow_redirects
                                     ELSE Get(g, "follow_redirects")
  BY <1>2, <1>3, <1>4, <1>5, <1>6, <1>7
<1>11. Get(kw, "request_cookies") = cookies /\ Get(kw, "client_certificates") = certs
  BY <1>2, <1>3, <1>4, <1>7
<1>12. QED
  BY <1>8, <1>9, <1>10, <1>11 DEF certs, cookies, follows

\* Those keys are options under their own names, and their values are stored
\* alike under either name.
LEMMA RenamedFacts ==
    /\ Renamed \subseteq OverrideParams /\ Renamed \cap TextNames = {}
    /\ \A k \in Renamed : KeyOf(k) = k /\ k \in RequestKeys /\ KeywordOf[k] = k
    /\ Renamed \cap FpKeys = {} /\ "default_headers" \notin Renamed
    /\ \A v : /\ Stored("request_cookies", v) = v /\ Stored("cookies", v) = v
              /\ Stored("client_certificates", v) = v
              /\ Stored("proxy", v) = v /\ Stored("proxies", v) = v
              /\ Stored("allow_redirects", v) = Stored("follow_redirects", v)
<1>1. Renamed \subseteq OverrideParams
  BY DEF Renamed, OverrideParams, SetterParams, SettersProxyHeaders, SettersTimeoutTls,
         SettersPinCookieCustom, SettersCompat
<1>2. \A k \in Renamed : KeyOf(k) = k
  BY DEF Renamed, KeyOf
<1>3. \A k \in Renamed : k \in RequestKeys
  BY <1>1, <1>2 DEF RequestKeys
<1>4. \A k \in Renamed : KeywordOf[k] = k
  BY <1>1, <1>2, <1>3, Keyword
<1>5. Renamed \cap TextNames = {} /\ Renamed \cap FpKeys = {} /\ "default_headers" \notin Renamed
  BY DEF Renamed, TextNames, FpKeys, Abi3Fields, ABI3_REQUEST_FIELDS
<1>6. {"request_cookies", "client_certificates", "proxy"} \cap Flags = {}
      /\ "follow_redirects" \in Flags
  BY DEF Flags
<1>7. KeyOf("cookies") = "request_cookies" /\ KeyOf("proxies") = "proxy"
      /\ KeyOf("allow_redirects") = "follow_redirects"
  BY DEF KeyOf
<1>8. \A v : /\ Stored("request_cookies", v) = v /\ Stored("cookies", v) = v
             /\ Stored("client_certificates", v) = v
             /\ Stored("proxy", v) = v /\ Stored("proxies", v) = v
  BY <1>2, <1>6, <1>7 DEF Stored, Renamed
<1>9. \A v : /\ Stored("allow_redirects", v) = AsFlag(v)
             /\ Stored("follow_redirects", v) = AsFlag(v)
  BY <1>2, <1>6, <1>7 DEF Stored, Renamed
<1>10. QED
  BY <1>1, <1>2, <1>3, <1>4, <1>5, <1>8, <1>9

\* A value a call names is asked for.
LEMMA AskedOne ==
    ASSUME NEW g, NEW p \in DOMAIN g, g[p] # None
    PROVE  Meaning(KeyOf(p), Stored(p, g[p])) \in CallAsks(g, KeyOf(p))
  BY DEF CallAsks

\* A key under none of whose names a call says anything is not asked for.
LEMMA AskedNone ==
    ASSUME NEW g, NEW k, \A p \in DOMAIN g : KeyOf(p) = k => g[p] = None,
           k = "client_certificates" => Get(g, "cert") = None
    PROVE  CallAsks(g, k) = {}
  BY DEF CallAsks

\* A renamed key comes from the keywords of request(), else from the
\* session.
LEMMA RenamedKey ==
    ASSUME ScenarioChosen, TypeOK, SnapshotFresh, ToldInv, NEW kw,
           NEW k \in Resolvable \cap Renamed,
           ~(k = "proxy" /\ facade = "async")
    PROVE  /\ Get(kw, k) # None =>
                 ToC(k, Handed("request", kw)[k]) = Meaning(k, Stored(k, Get(kw, k)))
           /\ Get(kw, k) = None =>
                 ToC(k, Handed("request", kw)[k]) \in SessionAsks("request", k)
<1>0. /\ KeywordOf[k] = k /\ k \notin TextNames /\ k \notin bare
      /\ k # "default_headers" /\ k # "verify"
  BY RenamedFacts DEF TypeOK, Renamed
<1>1. ToC(k, Handed("request", kw)[k]) = Meaning(k, LookedUp("request", kw, k))
  BY <1>0, Effective DEF Settled
<1>2. CASE Get(kw, k) # None
  <2>1. kw[k] = Get(kw, k)
    BY <1>2 DEF Get
  <2>2. LookedUp("request", kw, k) = Stored(k, kw[k])
    BY <1>0, <1>2, FromCall
  <2>3. QED
    BY <1>1, <1>2, <2>1, <2>2
<1>3. CASE Get(kw, k) = None
  <2>1. CallOverrides("request", kw)[k] = None
    BY <1>0, <1>3 DEF CallOverrides, Overrides, AsyncOverrides
  <2>2. QED
    BY <1>0, <1>1, <1>3, <2>1, FromSession
<1>4. QED
  BY <1>2, <1>3

\* resolve_proxy_url: a URL resolves to itself, and only a map without a
\* usable entry to nothing.
LEMMA ResolveTwice ==
    /\ \A v : ResolveProxyUrl(ResolveProxyUrl(v)) = ResolveProxyUrl(v)
    /\ \A v : Meaning("proxy", ResolveProxyUrl(v)) = Meaning("proxy", v)
    /\ \A v : ResolveProxyUrl(v) = None /\ v # None => v = "empty-map"
<1>1. \A v : ResolveProxyUrl(ResolveProxyUrl(v)) = ResolveProxyUrl(v)
  BY DEF ResolveProxyUrl, None
<1>2. QED
  BY <1>1 DEF ResolveProxyUrl, None, Meaning

\* request(): the proxy of the call, of its proxies map or of the session
\* arrives.
LEMMA RequestProxy ==
    ASSUME ScenarioChosen, TypeOK, SnapshotFresh, ToldInv, NEW g, NEW kw,
           kw = CompatKwargs(g), "proxy" \in Resolvable,
           NEW x, x = ToC("proxy", Handed("request", kw)["proxy"])
    PROVE  Arrives("request", g, "proxy", x)
<1> DEFINE px == Get(kw, "proxy")
           gp == Get(g, "proxy")
           gs == Get(g, "proxies")
<1>0. px = IF ProxyShown(g) # None THEN ProxyShown(g) ELSE gp
  BY CompatGets
<1>1. "proxy" \in Renamed /\ KeyOf("proxies") = "proxy" /\ KeyOf("proxy") = "proxy"
      /\ \A p : KeyOf(p) = "proxy" => p \in {"proxies", "proxy"}
  BY DEF Renamed, KeyOf
<1>2. /\ px # None => x = Meaning("proxy", px)
      /\ px = None => x \in SessionAsks("request", "proxy") \/ (facade = "async" /\ x = "NULL")
  <2>1. CASE facade # "async"
    BY <1>1, <2>1, RenamedKey, RenamedFacts
  <2>2. CASE facade = "async"
    <3>1. x = Meaning("proxy", LookedUp("request", kw, "proxy"))
      BY Effective DEF Settled
    <3>2. LookedUp("request", kw, "proxy") = px
      BY <2>2 DEF LookedUp
    <3>3. QED
      BY <2>2, <3>1, <3>2, NothingIsNull
  <2>3. QED
    BY <2>1, <2>2
<1>3. gs # None => Meaning("proxy", gs) \in CallAsks(g, "proxy")
  BY <1>1, AskedOne, RenamedFacts DEF Get
<1>4. gp # None => Meaning("proxy", gp) \in CallAsks(g, "proxy")
  BY <1>1, AskedOne, RenamedFacts DEF Get
<1>5. gs = None /\ gp = None => CallAsks(g, "proxy") = {}
  BY <1>1, AskedNone DEF Get
<1>6. px = None => Arrives("request", g, "proxy", x) \/ CallAsks(g, "proxy") # {}
  BY <1>2 DEF Arrives, GapOf
<1>7. CASE gs # None
  <2>1. ProxyShown(g) = ResolveProxyUrl(gs)
    BY <1>7 DEF ProxyShown, Get
  <2>2. CASE ProxyShown(g) # None
    BY <1>0, <1>2, <1>3, <1>7, <2>1, <2>2, ResolveTwice DEF Arrives
  <2>3. CASE ProxyShown(g) = None /\ gp # None
    BY <1>0, <1>2, <1>4, <2>3 DEF Arrives
  <2>4. CASE ProxyShown(g) = None /\ gp = None
    <3>1. gs = "empty-map"
      BY <1>7, <2>1, <2>4, ResolveTwice
    <3>2. QED
      BY <1>0, <1>2, <2>4, <3>1 DEF Arrives
  <2>5. QED
    BY <2>2, <2>3, <2>4
<1>8. CASE gs = None /\ "proxy" \in DOMAIN g
  <2>1. ProxyShown(g) = ResolveProxyUrl(gp)
    BY <1>8 DEF ProxyShown, Get
  <2>2. CASE gp # None
    <3>1. px # None /\ Meaning("proxy", px) = Meaning("proxy", gp)
      BY <1>0, <2>1, <2>2, ResolveTwice
    <3>2. QED
      BY <1>2, <1>4, <2>2, <3>1 DEF Arrives
  <2>3. CASE gp = None
    <3>1. px = None
      BY <1>0, <2>1, <2>3 DEF ResolveProxyUrl, None
    <3>2. QED
      BY <1>5, <1>6, <1>8, <2>3, <3>1
  <2>4. QED
    BY <2>2, <2>3
<1>9. CASE gs = None /\ "proxy" \notin DOMAIN g
  <2>1. ProxyShown(g) = ResolveProxyUrl(defaults.proxy) /\ gp = None
    BY <1>9 DEF ProxyShown, Get
  <2>2. CASE px # None
    <3>1. x = Meaning("proxy", defaults.proxy)
      BY <1>0, <1>2, <2>1, <2>2, ResolveTwice
    <3>2. "proxy" \in scen.keys
      BY DEF Resolvable
    <3>3. defaults.proxy \in IF "proxy" \in DOMAIN told THEN told["proxy"]
                             ELSE {LibraryDefault["proxy"]}
      BY <3>2 DEF ToldInv, Heard
    <3>4. x \in SessionAsks("request", "proxy")
      BY <3>1, <3>3 DEF SessionAsks
    <3>5. QED
      BY <1>5, <1>9, <2>1, <3>4 DEF Arrives
  <2>3. CASE px = None
    BY <1>5, <1>6, <1>9, <2>1, <2>3
  <2>4. QED
    BY <2>2, <2>3
<1>10. QED
  BY <1>7, <1>8, <1>9

\* request(): every key arrives, under either of its names.
LEMMA RequestCall ==
    ASSUME ScenarioChosen, TypeOK, SnapshotFresh, ToldInv, BareFields, NEW g, NEW kw,
           NEW k \in Resolvable,
           facade # "none", Compatibly(g), kw = CompatKwargs(g),
           k = "default_headers" => "default_headers" \in DOMAIN told \/ Get(g, k) # None
    PROVE  Arrives("request", g, k, ToC(k, Handed("request", kw)[k]))
<1> DEFINE x == ToC(k, Handed("request", kw)[k])
<1>0. k \in RequestKeys /\ KeywordOf[k] \in OverrideParams /\ KeyOf(KeywordOf[k]) = k
  BY Keyword DEF Resolvable
<1>1. CASE k \notin Renamed
  <2>1. NamedOnce(g, k)
    <3>1. ASSUME NEW p \in DOMAIN g, KeyOf(p) = k, p \notin OverrideParams
          PROVE  FALSE
      <4>1. p \in RequestParams
        BY <3>1 DEF Compatibly
      <4>2. p \in {"cert", "params", "data", "json", "auth", "stream", "proxies", "cookies",
                   "allow_redirects", "timeout", "verify"}
        BY <3>1, <4>1 DEF RequestParams, Compatibly
      <4>3. p \notin {"timeout", "verify"}
        BY <3>1 DEF OverrideParams, SetterParams, SettersTimeoutTls, SettersCompat
      <4>4. KeyOf(p) \in Renamed \cup {"cert", "params", "data", "json", "auth", "stream"}
        BY <4>2, <4>3 DEF KeyOf, Renamed
      <4>5. QED
        BY <1>0, <1>1, <3>1, <4>4, Keyword
    <3>2. QED
      BY <1>0, <3>1, Keyword DEF NamedOnce
  <2>2. KeywordOf[k] \notin Renamed
    BY <1>0, <1>1, RenamedFacts
  <2>3. Get(kw, KeywordOf[k]) = Get(g, KeywordOf[k])
    BY <1>0, <2>2, CompatGets
  <2>4. k # "proxy" /\ k # "client_certificates" /\ Texts(g)
    BY <1>1 DEF Renamed, Compatibly
  <2>5. QED
    BY <2>1, <2>3, <2>4, PassedOn
<1>2. CASE k = "proxy"
  BY <1>2, RequestProxy
<1>3. CASE k = "request_cookies"
  <2> DEFINE y == Get(kw, k)
  <2>1. y = Either(Get(g, "cookies"), Get(g, "request_cookies"))
    BY <1>3, CompatGets
  <2>2. /\ y # None => x = Meaning(k, y)
        /\ y = None => x \in SessionAsks("request", k)
    BY <1>3, RenamedKey, RenamedFacts DEF Renamed
  <2>3. KeyOf("cookies") = k /\ KeyOf("request_cookies") = k
        /\ \A p : KeyOf(p) = k => p \in {"cookies", "request_cookies"}
    BY <1>3 DEF KeyOf
  <2>4. y # None => Meaning(k, y) \in CallAsks(g, k)
    <3>1. CASE Get(g, "cookies") # None
      <4>1. "cookies" \in DOMAIN g /\ g["cookies"] # None /\ y = g["cookies"]
        BY <2>1, <3>1 DEF Either, Get
      <4>2. QED
        BY <2>3, <4>1, AskedOne, RenamedFacts
    <3>2. CASE Get(g, "cookies") = None /\ Get(g, "request_cookies") # None
      <4>1. "request_cookies" \in DOMAIN g /\ g["request_cookies"] # None
            /\ y = g["request_cookies"]
        BY <2>1, <3>2 DEF Either, Get
      <4>2. QED
        BY <2>3, <4>1, AskedOne, RenamedFacts
    <3>3. QED
      BY <2>1, <3>1, <3>2 DEF Either
  <2>5. y = None => CallAsks(g, k) = {}
    <3>1. y = None => Get(g, "cookies") = None /\ Get(g, "request_cookies") = None
      BY <2>1 DEF Either
    <3>2. QED
      BY <1>3, <2>3, <3>1, AskedNone DEF Get
  <2> HIDE DEF x, y
  <2>6. QED
    BY <2>2, <2>4, <2>5 DEF Arrives, x
<1>4. CASE k = "client_certificates"
  <2> DEFINE y == Get(kw, k)
             own == Get(g, "client_certificates")
             cert == Get(g, "cert")
  <2>1. y = Either(own, IF Either(cert, Get(defaults, "cert")) # None THEN "loaded" ELSE None)
    BY <1>4, CompatGets
  <2>2. /\ y # None => x = Meaning(k, y)
        /\ y = None => x \in SessionAsks("request", k)
    BY <1>4, RenamedKey, RenamedFacts DEF Renamed
  <2>3. KeyOf(k) = k /\ \A p : KeyOf(p) = k => p = k
    BY <1>4 DEF KeyOf
  <2>4. Meaning(k, "loaded") = "loaded"
    <3>1. k \notin Flags \cup INT_REQUEST_KEYS \cup Abi3Fields
      BY <1>4 DEF Flags, INT_REQUEST_KEYS, Abi3Fields, ABI3_REQUEST_FIELDS
    <3>2. QED
      BY <1>4, <3>1 DEF Meaning, ToC, NormalizeInt, None
  <2>5. CASE own # None
    <3>1. k \in DOMAIN g /\ g[k] # None /\ y = g[k]
      BY <1>4, <2>1, <2>5 DEF Either, Get
    <3>2. Meaning(k, y) \in CallAsks(g, k)
      BY <1>4, <2>3, <3>1, AskedOne, RenamedFacts
    <3>3. QED
      BY <2>2, <3>1, <3>2 DEF Arrives
  <2>6. CASE own = None /\ cert # None
    <3>1. y = "loaded" /\ y # None
      BY <2>1, <2>6 DEF Either, None
    <3>2. "loaded" \in CallAsks(g, k)
      BY <1>4, <2>6 DEF CallAsks
    <3>3. QED
      BY <2>2, <2>4, <3>1, <3>2 DEF Arrives
  <2>7. CASE own = None /\ cert = None
    <3>1. CallAsks(g, k) = {}
      BY <1>4, <2>3, <2>7, AskedNone DEF Get
    <3>2. Get(defaults, "cert") # None =>
             y = "loaded" /\ y # None /\ "loaded" \in SessionAsks("request", k)
      BY <1>4, <2>1, <2>7 DEF Either, None, SessionAsks
    <3>3. Get(defaults, "cert") = None => y = None
      BY <2>1, <2>7 DEF Either
    <3> HIDE DEF x, y
    <3>4. x \in SessionAsks("request", k)
      BY <2>2, <2>4, <3>2, <3>3
    <3>5. QED
      BY <3>1, <3>4 DEF Arrives, x
  <2>8. QED
    BY <2>5, <2>6, <2>7
<1>5. CASE k = "follow_redirects"
  <2> DEFINE y == Get(kw, k)
             own == Get(g, "follow_redirects")
             allow == Get(g, "allow_redirects")
  <2>1. y = IF allow # None /\ "follow_redirects" \notin DOMAIN g
            THEN g.allow_redirects ELSE own
    BY <1>5, CompatGets
  <2>2. /\ y # None => x = Meaning(k, Stored(k, y))
        /\ y = None => x \in SessionAsks("request", k)
    BY <1>5, RenamedKey DEF Renamed
  <2>3. KeyOf("allow_redirects") = k /\ KeyOf(k) = k
        /\ \A p : KeyOf(p) = k => p \in {"allow_redirects", "follow_redirects"}
    BY <1>5 DEF KeyOf
  <2>4. y # None => Meaning(k, Stored(k, y)) \in CallAsks(g, k)
    <3>1. CASE "follow_redirects" \in DOMAIN g
      <4>1. k \in DOMAIN g /\ g[k] # None /\ y = g[k]
        BY <1>5, <2>1, <3>1 DEF Get, Compatibly
      <4>2. QED
        BY <2>3, <4>1, AskedOne
    <3>2. CASE "follow_redirects" \notin DOMAIN g /\ allow # None
      <4>1. "allow_redirects" \in DOMAIN g /\ g["allow_redirects"] # None
            /\ y = g["allow_redirects"]
        BY <2>1, <3>2 DEF Get
      <4>2. Stored("allow_redirects", y) = Stored(k, y)
        BY <1>5, RenamedFacts
      <4>3. QED
        BY <2>3, <4>1, <4>2, AskedOne
    <3>3. CASE "follow_redirects" \notin DOMAIN g /\ allow = None
      BY <2>1, <3>3 DEF Get
    <3>4. QED
      BY <3>1, <3>2, <3>3
  <2>5. y = None => CallAsks(g, k) = {}
    <3>1. y = None => own = None /\ allow = None /\ "follow_redirects" \notin DOMAIN g
      BY <1>5, <2>1 DEF Get, Compatibly
    <3>2. QED
      BY <1>5, <2>3, <3>1, AskedNone DEF Get
  <2> HIDE DEF x, y
  <2>6. QED
    BY <2>2, <2>4, <2>5 DEF Arrives, x
<1>6. QED
  BY <1>1, <1>2, <1>3, <1>4, <1>5 DEF Renamed

\* Every request goes out with the header block of the identifier it is sent
\* under, unless the headers are managed.
LEMMA IdentityStep ==
    ASSUME ScenarioChosen, CallSound, TypeOK, Early, SnapshotFresh, Paired,
           IdentityCoherent, Stepped
    PROVE  IdentityCoherent'
<1>b. ASSUME sent' = NoRequest
      PROVE  IdentityCoherent'
  BY <1>b DEF IdentityCoherent, Requested, NoRequest
<1>1. CASE UNCHANGED vars
  BY <1>1 DEF IdentityCoherent, Requested, Managed, vars
<1>2. ASSUME NEW f, NEW g, Construct(f, g)
      PROVE  IdentityCoherent'
  <2>1. sent' = NoRequest
    BY <1>2 DEF Construct, Preset, Made, Early, vars
  <2>2. QED
    BY <1>b, <2>1
<1>3. ASSUME NEW entry, NEW g, NEW kw, NEW hdr, NEW ctx, NEW body,
             Executes(entry, g, kw, hdr, ctx, body), HandsOver(entry, g, kw)
      PROVE  IdentityCoherent'
  <2> DEFINE r == Handed(entry, kw)
             r1 == DegradeAbi3(ResolvedOptions(entry, kw))
             ci == defaults.client_identifier
             id == Either(Get(kw, "client_identifier"), ci)
  <2>1. /\ UNCHANGED <<facade, told>> /\ facade # "none" /\ EntryCall(entry, g, kw)
        /\ sent'.entry = entry /\ sent'.given = g
        /\ sent'.opts = [k \in DOMAIN r |-> ToC(k, r[k])]
        /\ ~IdentifierRefused(kw) \/ (entry = "stream" /\ facade = "async")
    BY <1>3 DEF Executes, HandsOver
  <2>2. {"client_identifier", "default_headers"} \subseteq Resolvable
        /\ {"client_identifier", "default_headers"} \cap FpKeys = {}
    BY KeysInPlay, IdentityKeys
  <2>3. DOMAIN Snapshot = Resolvable /\ \A k \in {"client_identifier", "default_headers"} :
            Snapshot[k] = defaults[k]
    BY <2>2, SnapshotIs DEF SnapshotFresh, TypeOK
  <2>4. \A k \in {"client_identifier", "default_headers"} :
            r1[k] = Either(Get(kw, k), defaults[k])
    BY <2>2, <2>3, ResolvedIdentity DEF Get
  <2>5. DOMAIN r1 = Resolvable
    BY DEF DegradeAbi3, ResolvedOptions, SyncResolved, AsyncResolved
  <2> HIDE DEF r1
  <2>6. r = IF Get(kw, "default_headers") = None /\ ~customized
               /\ r1.client_identifier # defaults.client_identifier
            THEN [r1 EXCEPT !.default_headers = Profile(r1.client_identifier)] ELSE r1
    BY <2>3 DEF Handed, PairHeaders, AsyncPairHeaders, r1
  <2>7. DOMAIN r = Resolvable /\ r.client_identifier = id
    BY <2>2, <2>4, <2>5, <2>6
  <2>8. sent'.opts.client_identifier = ToC("client_identifier", id)
        /\ sent'.opts.default_headers = ToC("default_headers", r.default_headers)
    BY <2>1, <2>2, <2>7
  <2>9. {"client_identifier", "default_headers"} \subseteq OverrideParams \ Renamed
    BY IdentityKeys, OwnName, Keyword DEF Renamed
  <2>10. \A k \in {"client_identifier", "default_headers"} : Get(kw, k) = Get(g, k)
    BY <2>1, <2>9, CompatGets DEF EntryCall
  <2>11. ci \in SUPPORTED_CLIENT_IDENTIFIERS
    BY <2>1 DEF Paired
  <2>12. ToC("client_identifier", id) = IF id \in {None, "empty"} THEN "NULL" ELSE id
    BY IdentityKeys DEF ToC
  <2>13. ASSUME ~Managed'
         PROVE  sent'.opts.default_headers =
                   ToC("default_headers", Profile(sent'.opts.client_identifier))
    <3>1. Get(kw, "default_headers") = None /\ "default_headers" \notin DOMAIN told
      BY <2>1, <2>10, <2>13 DEF Managed
    <3>2. ~customized /\ defaults.default_headers = Profile(ci)
      BY <2>1, <3>1 DEF Paired
    <3>3. r.default_headers = Profile(id)
      <4>1. CASE r1.client_identifier # ci
        BY <2>2, <2>4, <2>5, <2>6, <3>1, <3>2, <4>1
      <4>2. CASE r1.client_identifier = ci
        BY <2>4, <2>6, <3>1, <3>2, <4>2 DEF Either
      <4>3. QED
        BY <4>1, <4>2
    <3>4. Profile(ToC("client_identifier", id)) = Profile(id)
      BY <2>12, Unsupported DEF Profile
    <3>5. QED
      BY <2>8, <3>3, <3>4
  <2>14. ASSUME ~IdentifierRefused(kw), Get(g, "client_identifier") # "empty"
         PROVE  sent'.opts.client_identifier \in SUPPORTED_CLIENT_IDENTIFIERS
    <3>1. Get(g, "client_identifier") \notin {"0", "False"}
      BY <2>1 DEF EntryCall, Plainly, Compatibly, Texts, TextNames, Get, None
    <3>2. id \in SUPPORTED_CLIENT_IDENTIFIERS
      <4>1. CASE Truthy(Get(kw, "client_identifier"))
        BY <2>14, <4>1 DEF IdentifierRefused, Either, Truthy
      <4>2. CASE ~Truthy(Get(kw, "client_identifier"))
        <5>1. Get(kw, "client_identifier") = None
          BY <2>10, <2>14, <3>1, <4>2 DEF Truthy
        <5>2. QED
          BY <2>11, <5>1 DEF Either
      <4>3. QED
        BY <4>1, <4>2
    <3>3. QED
      BY <2>8, <2>12, <3>2, Unsupported
  <2>15. QED
    BY <2>1, <2>13, <2>14 DEF IdentityCoherent
<1>4. ASSUME NEW entry, NEW g, NEW kw, NEW hdr, NEW ctx, NEW body,
             Executes(entry, g, kw, hdr, ctx, body)
      PROVE  IdentityCoherent'
  BY <1>b, <1>3, <1>4, ExecuteIs DEF HandsNothing
<1>5. QED
  BY <1>b, <1>1, <1>2, <1>4 DEF Stepped, SetProperty, SetIdentifier, Apply, Clears

\* What AskedReachesEngine says of a request is what Arrives says of the
\* call.
LEMMA Arrival ==
    ASSUME NEW entry, NEW g, NEW k,
           sent'.entry = entry, sent'.given = g, UNCHANGED <<facade, scen, defaults, told, bare>>,
           Arrives(entry, g, k, sent'.opts[k])
    PROVE  Reaches(k)' \/ EmptyMap(k)' \/ AsyncGap(k)'
<1>1. AskedNow(k)' = CallAsks(g, k)
  BY DEF AskedNow, CallAsks, Meaning
<1>2. AskedBefore(k)' = SessionAsks(entry, k)
  BY DEF AskedBefore, SessionAsks, Meaning
<1>3. CASE CallAsks(g, k) # {} /\ sent'.opts[k] \in CallAsks(g, k)
  BY <1>1, <1>3 DEF Reaches
<1>4. CASE CallAsks(g, k) = {} /\ sent'.opts[k] \in SessionAsks(entry, k)
  BY <1>1, <1>2, <1>4 DEF Reaches
<1>5. CASE k = "proxy" /\ Get(g, "proxies") = "empty-map"
           /\ sent'.opts[k] \in SessionAsks(entry, k) \cup {"NULL"}
  BY <1>2, <1>5 DEF EmptyMap
<1>6. CASE GapOf(entry, g, k, sent'.opts[k])
  BY <1>2, <1>6 DEF AsyncGap, GapOf
<1>7. QED
  BY <1>3, <1>4, <1>5, <1>6 DEF Arrives

\* Every request carries what was asked.
LEMMA AskedStep ==
    ASSUME ScenarioChosen, TypeOK, Early, SnapshotFresh, ToldInv, BareFields,
           AskedReachesEngine, Stepped
    PROVE  AskedReachesEngine'
<1>b. ASSUME sent' = NoRequest
      PROVE  AskedReachesEngine'
  BY <1>b DEF AskedReachesEngine, Requested, NoRequest
<1>1. CASE UNCHANGED vars
  <2>1. UNCHANGED <<facade, scen, defaults, told, bare, sent>>
    BY <1>1 DEF vars
  <2>2. \A k : AskedNow(k)' = AskedNow(k) /\ AskedBefore(k)' = AskedBefore(k)
    BY <2>1 DEF AskedNow, AskedBefore, Meaning
  <2>3. \A k : /\ Reaches(k)' <=> Reaches(k)
               /\ EmptyMap(k)' <=> EmptyMap(k)
               /\ AsyncGap(k)' <=> AsyncGap(k)
    BY <2>1, <2>2 DEF Reaches, EmptyMap, AsyncGap
  <2>4. Resolvable' = Resolvable /\ (Managed' <=> Managed) /\ (Requested' <=> Requested)
    BY <2>1 DEF Resolvable, Managed, Requested
  <2>5. QED
    BY <2>3, <2>4 DEF AskedReachesEngine
<1>2. ASSUME NEW f, NEW g, Construct(f, g)
      PROVE  AskedReachesEngine'
  <2>1. sent' = NoRequest
    BY <1>2 DEF Construct, Preset, Made, Early, vars
  <2>2. QED
    BY <1>b, <2>1
<1>3. ASSUME NEW entry, NEW g, NEW kw, NEW hdr, NEW ctx, NEW body,
             Executes(entry, g, kw, hdr, ctx, body), HandsOver(entry, g, kw)
      PROVE  AskedReachesEngine'
  <2> DEFINE r == Handed(entry, kw)
  <2>1. /\ UNCHANGED <<facade, scen, defaults, told, bare>> /\ facade # "none"
        /\ EntryCall(entry, g, kw)
        /\ sent'.entry = entry /\ sent'.given = g
        /\ sent'.opts = [k \in DOMAIN r |-> ToC(k, r[k])]
    BY <1>3 DEF Executes, HandsOver
  <2>2. DOMAIN r = Resolvable /\ Resolvable' = Resolvable
    BY <2>1, HandedNormal DEF Resolvable
  <2>3. ASSUME NEW k \in Resolvable, k = "default_headers" => Managed'
        PROVE  Arrives(entry, g, k, sent'.opts[k])
    <3>1. sent'.opts[k] = ToC(k, r[k])
      BY <2>1, <2>2
    <3>2. k = "default_headers" => "default_headers" \in DOMAIN told \/ Get(g, k) # None
      BY <2>1, <2>3 DEF Managed
    <3>3. CASE kw = g /\ Plainly(g)
      BY <2>1, <3>1, <3>2, <3>3, DirectCall
    <3>4. CASE entry = "request" /\ kw = CompatKwargs(g) /\ Compatibly(g)
      BY <2>1, <3>1, <3>2, <3>4, RequestCall
    <3>5. QED
      BY <2>1, <3>3, <3>4 DEF EntryCall
  <2>4. ASSUME NEW k \in Resolvable, k = "default_headers" => Managed'
        PROVE  Reaches(k)' \/ EmptyMap(k)' \/ AsyncGap(k)'
    BY <2>1, <2>3, <2>4, Arrival
  <2>5. QED
    BY <2>2, <2>4 DEF AskedReachesEngine
<1>4. ASSUME NEW entry, NEW g, NEW kw, NEW hdr, NEW ctx, NEW body,
             Executes(entry, g, kw, hdr, ctx, body)
      PROVE  AskedReachesEngine'
  BY <1>b, <1>3, <1>4, ExecuteIs DEF HandsNothing
<1>5. QED
  BY <1>b, <1>1, <1>2, <1>4 DEF Stepped, SetProperty, SetIdentifier, Apply, Clears

(* ----------------------- the inductive invariant ------------------------ *)

\* The inductive invariant. The properties that the runs check are of the
\* last request; the rest says what the session, its snapshot and the pool
\* hold for the next.
IInv ==
    /\ ScenarioChosen /\ CallSound /\ TypeOK /\ Early /\ SnapshotFresh /\ BareFields
    /\ PoolKeyed /\ PooledClientFits
    /\ Paired /\ IdentityCoherent
    /\ ToldInv /\ AskedReachesEngine

\* Before the constructor runs the invariant holds.
LEMMA InitSafe ==
    ASSUME CompatInit
    PROVE  IInv
<1>0. ScenarioChosen
  BY DEF CompatInit, Init, ScenarioChosen
<1>1. /\ "entry" \notin DOMAIN sent /\ ~cached.filled /\ facade = "none" /\ told = <<>>
      /\ pool = {} /\ call = NoCall /\ sent = NoRequest /\ cached = NoCache
      /\ bare = {} /\ customized = FALSE
  BY DEF CompatInit, Init, NoRequest, NoCache
<1>2. TypeOK
  <2>1. DOMAIN defaults = scen.keys
    BY DEF CompatInit, Init
  <2>2. customized \in BOOLEAN /\ closed \in BOOLEAN /\ warned \in BOOLEAN
    BY DEF CompatInit, Init
  <2>3. sets \in 0..scen.sets /\ requests \in 0..scen.calls
    BY <1>0, KeysInPlay DEF CompatInit, Init
  <2>4. DOMAIN told \subseteq scen.keys
    BY <1>1
  <2>5. QED
    BY <1>1, <2>1, <2>2, <2>3, <2>4 DEF TypeOK, Requested
<1>3. ToldInv
  <2>1. \A k \in scen.keys : defaults[k] = LibraryDefault[k]
    BY DEF CompatInit, Init
  <2>2. Heard /\ FlagTold
    BY <1>1, <2>1 DEF Heard, FlagTold
  <2>3. FlagsStored
    BY <1>0, <2>1, KeysKnown, DefaultValues DEF FlagsStored
  <2>4. QED
    BY <2>2, <2>3 DEF ToldInv
<1>4. ScenarioChosen /\ CallSound /\ TypeOK /\ Early /\ SnapshotFresh /\ BareFields
  BY <1>0, <1>1, <1>2 DEF CallSound, Early, SnapshotFresh, BareFields
<1>5. PoolKeyed /\ PooledClientFits /\ Paired /\ IdentityCoherent /\ AskedReachesEngine
  BY <1>1 DEF PoolKeyed, PooledClientFits, Paired, IdentityCoherent, AskedReachesEngine,
     Requested
<1>6. QED
  BY <1>3, <1>4, <1>5 DEF IInv

\* The invariant holds in every state of every scenario: each step has a
\* shape of Stepped, and each shape keeps each part.
LEMMA Invariance == CompatSpec => []IInv
<1>1. CompatInit => IInv
  BY InitSafe
<1>2. IInv /\ [CompatNext]_<<vars, cvars>> => IInv'
  <2> SUFFICES ASSUME IInv, [CompatNext]_<<vars, cvars>>
               PROVE  IInv'
    OBVIOUS
  <2>1. Stepped
    BY EveryStep DEF IInv
  <2>2. ScenarioChosen' /\ CallSound' /\ TypeOK' /\ Early' /\ SnapshotFresh' /\ BareFields'
    BY <2>1, ScenarioStep, CallStep, TypeStep, EarlyStep, SnapshotStep, BareStep DEF IInv
  <2>3. PoolKeyed' /\ PooledClientFits'
    BY <2>1, PoolStep DEF IInv
  <2>4. Paired' /\ IdentityCoherent'
    BY <2>1, PairedStep, IdentityStep DEF IInv
  <2>5. ToldInv' /\ AskedReachesEngine'
    BY <2>1, ToldStep, AskedStep DEF IInv
  <2>6. QED
    BY <2>2, <2>3, <2>4, <2>5 DEF IInv
<1>3. QED
  BY <1>1, <1>2, PTL DEF CompatSpec

\* The session state keeps its types, and the struct carries every option
\* once, through every constructor, setter, preset, call and close() of the
\* three facades.
THEOREM TypeCorrect == CompatSpec => []TypeOK
<1>1. IInv => TypeOK
  BY DEF IInv
<1>2. QED
  BY <1>1, Invariance, PTL

\* _client_cache_key separates clients: whichever client the pool returns,
\* it was built with the settings of the request that runs on it.
THEOREM PooledClients == CompatSpec => []PooledClientFits
<1>1. IInv => PooledClientFits
  BY DEF IInv
<1>2. QED
  BY <1>1, Invariance, PTL

\* Constructor, setters, presets and per-call overrides keep the header
\* block of an unmanaged session that of the identifier each request is sent
\* under, and no unknown identifier reaches the engine except through
\* AsyncSession.stream_to_file.
THEOREM IdentityKept == CompatSpec => []IdentityCoherent
<1>1. IInv => IdentityCoherent
  BY DEF IInv
<1>2. QED
  BY <1>1, Invariance, PTL

\* Every option a caller names, by constructor, setter, preset or keyword,
\* through every entry point of the three facades, reaches the C struct with
\* the latest value named, up to the listed departures of AsyncSession and
\* of an empty proxies map.
THEOREM OptionsArrive == CompatSpec => []AskedReachesEngine
<1>1. IInv => AskedReachesEngine
  BY DEF IInv
<1>2. QED
  BY <1>1, Invariance, PTL
=============================================================================
