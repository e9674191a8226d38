--------------------------- MODULE RequestsCompat ---------------------------
(***************************************************************************)
(* The requests-compatible Session of tls_client/requests_compat.py over   *)
(* the native Session of SessionOptions: preparing a request, the merged   *)
(* settings, the adapter's call of the native execute_request, the cookie  *)
(* jar of cookies.py and the redirect loop of send().                      *)
(*                                                                         *)
(* A URL is [scheme, host, port, path]; a host is its sequence of labels.  *)
(* The server is any member of the scenario's answers.                     *)
(***************************************************************************)
EXTENDS SessionOptions

VARIABLES
    jar,            \* Session.cookies: a set of cookie records
    attr,           \* the Session's own attributes
    call,           \* the send() in progress, or NoCall
    outcome         \* how the last send() ended

cvars == <<jar, attr, call, outcome>>

NoCall == [phase |-> "idle"]
NoOutcome == [kind |-> "none"]

\* Attributes __setattr__ keeps on the compatibility Session; every other
\* property of the native Session is set there.
REQUESTS_ATTRIBUTES ==
    {"adapters", "auth", "cert", "cookies", "headers", "hooks", "max_redirects",
     "params", "proxies", "stream", "trust_env", "verify"}

\* The engine options a call may carry: every parameter of the native Session.
TLS_REQUEST_OPTIONS == SessionParams \cup {"header_order"}

\* Headers a caller writes; none of their values is the jar's.  Session.headers is
\* a CaseInsensitiveDict, and prepare() makes one of a plain dict assigned to it:
\* one spelling of a name.
CallerHeaders(d) == d \in Seq(ToSet(d)) /\ \A i \in DOMAIN d : d[i][2][1] # "cookies"
SessionHeaders(d) ==
    CallerHeaders(d) /\ \A i, j \in DOMAIN d : Fold(d[i][1]) = Fold(d[j][1]) => i = j

\* A scenario uses the parameters it puts in play; the engine options of a
\* call are those request() does not name itself, text written as text.
ASSUME CompatAssumptions ==
    \A s \in {x \in Scenarios : x.compat # <<>>} :
        /\ \A n \in s.compat.news :
              /\ DOMAIN n.native \subseteq s.fields \cap SessionParams
              /\ SessionHeaders(n.headers) /\ n.max_redirects \in Nat
        /\ \A a \in s.compat.attributes :
              /\ a[1] \in REQUESTS_ATTRIBUTES \cup (s.fields \cap SetterParams)
              /\ a[1] = "headers" => SessionHeaders(a[2])
              /\ a[1] = "max_redirects" => a[2] \in Nat
        /\ \A a \in s.compat.asks : CallerHeaders(a.headers)
        /\ \A a \in s.compat.asks : \A p \in DOMAIN a.tls \cap TLS_REQUEST_OPTIONS :
              /\ p \in OverrideParams \cup {"header_order"}
              /\ KeyOf(p) \notin Flags \cup INT_REQUEST_KEYS => a.tls[p] \notin {"0", "False"}

(* --------------------------- cookies.py -------------------------------- *)
\* A cookie and where it came from (ghosts): the host that set it, <<>> for
\* the caller; `listed` when only the engine's own cookie list has it.
Cookie(domain, path, name, value, by, listed) ==
    [domain |-> domain, path |-> path, name |-> name, value |-> value,
     by |-> by, listed |-> listed]
CookieKey(c) == <<c.domain, c.path, c.name>>

\* update(): the same (domain, path, name) is replaced.
JarUpdate(j, new) ==
    {c \in j : \A d \in new : CookieKey(c) # CookieKey(d)} \cup new

\* A plain dict has no domain: it matches everywhere.
FromDict(names) == {Cookie(<<>>, "/", n, "own", <<>>, FALSE) : n \in names}

Within(host, domain) == IsSuffix(domain, host)
PathStarts(path, prefix) == prefix = "/" \/ prefix = path

\* cookie_header().
CookieHeader(j, url) ==
    {c \in j : (c.domain = <<>> \/ Within(url.host, c.domain)) /\ PathStarts(url.path, c.path)}

\* extract_cookies(): whatever Domain the response names is taken.
ExtractCookies(cookies, host) ==
    {Cookie(IF c.domain = <<>> THEN host ELSE c.domain, c.path, c.name, c.value, host, FALSE) :
        c \in {d \in cookies : ~d.listed}}

\* TLSClientAdapter.send adds what only the engine parsed, without a domain;
\* looking a name up raises when two cookies of that name differ.
ResponseCookies(cookies, host) ==
    LET parsed == ExtractCookies(cookies, host)
        extra  == {c \in cookies : c.listed /\ \A d \in parsed : d.name # c.name}
    IN  parsed \cup {Cookie(<<>>, "/", c.name, c.value, host, TRUE) : c \in extra}
CookieConflict(cookies, host) ==
    \E c, d \in ExtractCookies(cookies, host) : c.name = d.name /\ c.value # d.value

(* ------------------------ preparing a request -------------------------- *)
\* prepare_cookies(): no header when nothing matches.
PrepareCookies(headers, j, url) ==
    IF CookieHeader(j, url) = {} THEN headers
    ELSE Override(headers, "Cookie", <<"cookies", CookieHeader(j, url)>>)

\* The body and its headers: json before a form, the type only if absent.
PrepareBody(headers, body) ==
    LET typed == IF body \in {"form", "json", "files"}
                 THEN EnsureHeader(headers, "Content-Type", <<"type", body>>) ELSE headers
    IN  IF body = None THEN headers
        ELSE Override(typed, "Content-Length", <<"length", body>>)

\* HTTPBasicAuth.__call__ overwrites.
PrepareAuth(headers, auth) ==
    IF auth = None THEN headers ELSE Override(headers, "Authorization", <<"auth", auth>>)

Prepare(method, url, headers, body, auth, j) ==
    [method |-> method, url |-> url, body |-> body,
     headers |-> PrepareAuth(PrepareCookies(PrepareBody(headers, body), j, url), auth)]

\* Session.prepare_request: session values under the request's.
PrepareRequest(ask) ==
    Prepare(ask.method, ask.url, Update(attr.headers, ask.headers, {}), ask.body,
            Either(ask.auth, attr.auth), JarUpdate(jar, FromDict(ask.cookies)))

(* ------------------------------ settings ------------------------------- *)
\* A proxies dict is a sequence of <<scheme, proxy>> entries.
MergeProxies(ask) ==
    LET env    == IF attr.trust_env THEN scen.compat.env ELSE <<>>
        merged == Update(attr.proxies, env, Folded(env))
    IN  Update(merged, ask.proxies, {})

\* _resolve_proxy_url on a dict.
ResolveMap(m, scheme) ==
    IF Has(m, scheme) THEN ValueOf(m, scheme)
    ELSE IF Has(m, "all") THEN ValueOf(m, "all")
    ELSE IF m # <<>> THEN m[1][2] ELSE None

MergeEnvironmentSettings(ask) ==
    [proxies |-> MergeProxies(ask), verify |-> Either(ask.verify, attr.verify),
     timeout |-> Either(ask.timeout, attr.timeout), cert |-> Either(ask.cert, attr.cert),
     tls |-> ask.tls, context |-> ask.context]

\* _timeout_options: whole seconds, else milliseconds; zero is refused.
TimeoutOptions(t) ==
    CASE t = None  -> <<>>
      [] t = "2.5" -> [timeout_milliseconds |-> "2500"]
      [] OTHER     -> [timeout |-> t]

\* What the adapter passes to the native execute_request.
AdapterKwargs ==
    LET o == call.options
        own == Get(o.tls, "proxy")
        set == [follow_redirects |-> "False",
                proxy |-> IF Truthy(own) THEN own
                          ELSE ResolveMap(o.proxies, call.current.url.scheme),
                verify |-> IF Truthy(o.verify) THEN "True" ELSE "False"]
        certs == IF o.cert = None THEN <<>> ELSE [client_certificates |-> "loaded"]
    IN  Over(set, Over(certs, Over(TimeoutOptions(o.timeout), o.tls)))

(* ------------------------------- actions ------------------------------- *)
\* Session(...): the requests-style arguments are kept, the rest goes to a
\* native Session.
NewCompat(n) ==
    /\ Construct("compat", n.native)
    /\ IF facade' = "compat"
       THEN /\ attr' = [headers |-> n.headers, auth |-> n.auth, verify |-> n.verify,
                        timeout |-> n.timeout,
                        trust_env |-> n.trust_env, max_redirects |-> n.max_redirects,
                        proxies |-> n.proxies, cert |-> n.cert, closed |-> FALSE]
            /\ jar' = FromDict(n.cookies)
            /\ UNCHANGED <<call, outcome>>
       ELSE UNCHANGED cvars

\* __setattr__: on the Session itself, or through to the native property;
\* timeout is kept in both.
SetAttribute(p, v) ==
    /\ facade = "compat" /\ call = NoCall
    /\ IF p \in REQUESTS_ATTRIBUTES
       THEN /\ Live
            /\ attr' = [attr EXCEPT ![p] = v]
            /\ sets' = sets + 1
            /\ sent' = NoRequest
            /\ UNCHANGED <<facade, scen, defaults, customized, cached, template, closed,
                           warned, pool, told, bare, requests>>
       ELSE /\ SetProperty(p, v)
            /\ attr' = IF p = "timeout" THEN [attr EXCEPT !.timeout = v] ELSE attr
    /\ outcome' = NoOutcome
    /\ UNCHANGED <<jar, call>>

\* head() does not follow redirects unless told to.
Allows(ask) ==
    IF ask.allow # None THEN ask.allow = "True" ELSE ~(ask.via = "verb" /\ ask.method = "HEAD")

\* request(), the verbs and typed_request up to the first send; a prepared
\* request skips the session's settings.
Ask(ask) ==
    /\ facade = "compat" /\ call = NoCall
    /\ requests < scen.calls
    /\ requests' = requests + 1
    /\ sent' = NoRequest
    /\ IF ask.url.scheme \notin {"http", "https"} \/ ~DOMAIN ask.tls \subseteq TLS_REQUEST_OPTIONS
       THEN call' = NoCall /\ outcome' = [kind |-> "refused"]
       ELSE LET p == PrepareRequest(ask)
            IN  /\ call' = [phase |-> "send", first |-> p, current |-> p, history |-> <<>>,
                            allow |-> Allows(ask),
                            options |-> IF ask.via = "prepared"
                                        THEN [proxies |-> <<>>, verify |-> "True",
                                              timeout |-> None, cert |-> None,
                                              tls |-> <<>>, context |-> <<>>]
                                        ELSE MergeEnvironmentSettings(ask)]
                /\ outcome' = NoOutcome
    /\ UNCHANGED <<facade, scen, defaults, customized, cached, template, closed, warned,
                   pool, told, bare, sets, jar, attr>>

End(kind) ==
    /\ call' = NoCall
    /\ outcome' = [kind |-> kind, followed |-> Len(call.history)]

\* TLSClientAdapter.send up to the engine, for one hop; a closed adapter
\* sends all the same.
Hop ==
    /\ call.phase = "send"
    /\ IF call.current.url.scheme \notin {"http", "https"} \/ call.options.timeout = "0"
       THEN /\ End("refused")
            /\ UNCHANGED vars
       ELSE /\ SyncExecute("compat", AdapterKwargs, AdapterKwargs, call.current.headers,
                           call.options.context, call.current.body)
            /\ IF sent' = NoRequest THEN End("refused")
               ELSE call' = [call EXCEPT !.phase = "wait"] /\ UNCHANGED outcome
            /\ UNCHANGED <<facade, scen, defaults, customized, template, closed, told, bare,
                           sets, requests>>
    /\ UNCHANGED <<jar, attr>>

\* urljoin().
Join(base, location) ==
    IF location.scheme = None THEN [base EXCEPT !.path = location.path] ELSE location

Netloc(url) == <<url.host, url.port>>

\* The method rule of a redirect.
ToGet(status, method) ==
    status = 303 \/ (status = 302 /\ method # "HEAD") \/ (status = 301 /\ method = "POST")

\* Mutants: Authorization stays, the Cookie header stays, the body's headers
\* stay.
RedirectKeepsAuth(request, answer, j) ==
    LET url == Join(request.url, answer.location[1])
        get == ToGet(answer.status, request.method)
        kept == IF get THEN Without(Without(request.headers, "Content-Length"), "Content-Type")
                ELSE request.headers
    IN  [method |-> IF get THEN "GET" ELSE request.method, url |-> url,
         body |-> IF get THEN None ELSE request.body,
         headers |-> PrepareCookies(Without(kept, "Cookie"), j, url)]
RedirectKeepsCookie(request, answer, j) ==
    LET url == Join(request.url, answer.location[1])
        get == ToGet(answer.status, request.method)
    IN  [method |-> IF get THEN "GET" ELSE request.method, url |-> url,
         body |-> IF get THEN None ELSE request.body,
         headers |-> PrepareCookies(Without(request.headers, "Authorization"), j, url)]
RedirectKeepsType(request, answer, j) ==
    LET url == Join(request.url, answer.location[1])
        get == ToGet(answer.status, request.method)
        kept == IF get THEN Without(request.headers, "Content-Length") ELSE request.headers
    IN  [method |-> IF get THEN "GET" ELSE request.method, url |-> url,
         body |-> IF get THEN None ELSE request.body,
         headers |-> PrepareCookies(Without(Without(kept, "Authorization"), "Cookie"), j, url)]

\* _redirect_request(): j is the session jar after the response.
RedirectRequest(request, answer, j) ==
    LET url    == Join(request.url, answer.location[1])
        toGet  == ToGet(answer.status, request.method)
        body   == IF toGet THEN Without(Without(request.headers, "Content-Length"),
                                        "Content-Type")
                  ELSE request.headers
        auth   == IF Netloc(request.url) # Netloc(url) THEN Without(body, "Authorization")
                  ELSE body
    IN  [method |-> IF toGet THEN "GET" ELSE request.method,
         url |-> url, body |-> IF toGet THEN None ELSE request.body,
         headers |-> PrepareCookies(Without(auth, "Cookie"), j, url)]

IsRedirect(answer) ==
    answer.location # <<>> /\ answer.status \in {301, 302, 303, 307, 308}

\* dispatch_hook: a hook may put its own response in the place of this one.
Hooked(answer) ==
    IF scen.compat.hook THEN [status |-> 200, location |-> <<>>, cookies |-> {}] ELSE answer

\* The engine answers: cookies, hooks, then the next hop or the end.
Answer(raw) ==
    /\ call.phase = "wait"
    /\ IF CookieConflict(raw.cookies, call.current.url.host)
       THEN End("CookieConflictError") /\ UNCHANGED jar
       ELSE LET answer == Hooked(raw)
                j == JarUpdate(jar, ResponseCookies(answer.cookies, call.current.url.host))
                history == Append(call.history, [status |-> answer.status,
                                                 url |-> call.current.url])
            IN  /\ jar' = j
                /\ IF ~IsRedirect(answer) \/ ~call.allow THEN End("response")
                   ELSE IF Len(history) > attr.max_redirects
                   THEN /\ call' = NoCall
                        /\ outcome' = [kind |-> "TooManyRedirects", followed |-> Len(history) - 1]
                   ELSE /\ call' = [call EXCEPT !.phase = "send", !.history = history,
                                        !.current = RedirectRequest(call.current, answer, j)]
                        /\ UNCHANGED outcome
    /\ sent' = NoRequest
    /\ UNCHANGED <<facade, scen, defaults, customized, cached, template, closed, warned,
                   pool, told, bare, sets, requests, attr>>

\* The engine fails: _transport_error.
Fail ==
    /\ call.phase = "wait"
    /\ End("transport error")
    /\ sent' = NoRequest
    /\ UNCHANGED <<facade, scen, defaults, customized, cached, template, closed, warned,
                   pool, told, bare, sets, requests, jar, attr>>

\* close(): the adapters are marked, the Go pool is left alone.
CompatClose ==
    /\ facade = "compat" /\ call = NoCall /\ ~attr.closed
    /\ attr' = [attr EXCEPT !.closed = TRUE]
    /\ UNCHANGED <<vars, jar, call, outcome>>

CompatInit ==
    /\ Init
    /\ jar = {}
    /\ attr = [closed |-> FALSE]
    /\ call = NoCall
    /\ outcome = NoOutcome

\* What a scenario puts into play; nothing for the native facades.
InScenario(part) == IF scen.compat = <<>> THEN {} ELSE scen.compat[part]

CompatNext ==
    \/ scen.compat = <<>> /\ Next /\ UNCHANGED cvars
    \/ \E n \in InScenario("news") : NewCompat(n)
    \/ \E s \in InScenario("attributes") : SetAttribute(s[1], s[2])
    \/ \E a \in InScenario("asks") : Ask(a)
    \/ Hop
    \/ \E r \in InScenario("answers") : Answer(r)
    \/ Fail
    \/ CompatClose

CompatSpec == CompatInit /\ [][CompatNext]_<<vars, cvars>>

(* ---------------------------- correctness ------------------------------ *)
OnTheWire == facade = "compat" /\ call.phase = "wait"

\* The header on the wire is the one the session's default_headers hold.  They
\* are merged into the request at every hop, whatever a redirect took off it.
FromDefaults(n) ==
    LET own == Block(sent.opts.default_headers)
    IN  \E i \in DOMAIN own :
            Fold(own[i][1]) = Fold(n) /\ own[i][2] = ValueOf(sent.headers, n)

\* An Authorization header of the request (from auth, .netrc, the headers of
\* the call or of the Session) goes to the netloc the call was made for and is
\* gone for good once a redirect has left it, even when a later one comes
\* back.  One that stands in default_headers is sent to every host.
CredentialsStayHome ==
    OnTheWire /\ Has(sent.headers, "Authorization") /\ ~FromDefaults("Authorization") =>
        /\ Netloc(call.current.url) = Netloc(call.first.url)
        /\ \A i \in DOMAIN call.history :
              Netloc(call.history[i].url) = Netloc(call.first.url)

\* A cookie set by a response goes only to hosts inside the domain it was set
\* for (the Domain attribute, else the host that set it), whatever redirects
\* and calls came between; a cookie the caller gave for one request does not
\* follow a redirect.  Cookies only the engine lists have no domain; a Cookie
\* header the caller wrote, on the request or in default_headers, is the
\* caller's own, and so is the request_cookies option of the engine.
CookiesStayHome ==
    /\ OnTheWire /\ Has(sent.headers, "Cookie") /\ ~FromDefaults("Cookie")
    /\ ValueOf(sent.headers, "Cookie")[1] = "cookies"
    =>  \A c \in ValueOf(sent.headers, "Cookie")[2] :
            /\ c.by = <<>> \/ c.listed
               \/ (Within(call.current.url.host, c.domain) /\ c.domain # <<>>)
            /\ PathStarts(call.current.url.path, c.path)
            /\ call.history # <<>> => c \in jar

\* The redirect loop: at most max_redirects are followed and none unless
\* allowed; TooManyRedirects comes after exactly max_redirects of them; a
\* request whose method a redirect changed carries neither the body nor its
\* headers, apart from those in default_headers; one that only met 307 and 308
\* repeats method and body.
RedirectChain ==
    /\ OnTheWire =>
        /\ Len(call.history) <= (IF call.allow THEN attr.max_redirects ELSE 0)
        /\ call.current.method # call.first.method =>
              /\ sent.body = None
              /\ \A n \in {"Content-Length", "Content-Type"} :
                    Has(sent.headers, n) => FromDefaults(n)
        /\ (\A i \in DOMAIN call.history : call.history[i].status \in {307, 308}) =>
              call.current.method = call.first.method /\ sent.body = call.first.body
    /\ outcome.kind = "TooManyRedirects" => outcome.followed = attr.max_redirects
=============================================================================
