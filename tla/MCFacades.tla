----------------------------- MODULE MCFacades -----------------------------
EXTENDS RequestsCompat

Plain(fs, abi) ==
    [fields |-> fs, headers |-> {<<>>}, contexts |-> {<<>>}, presets |-> {}, abi |-> abi,
     sets |-> 1, calls |-> 2, compat |-> <<>>]

\* Every option alone; those an old library does not know also on one.
SingleFields == (SessionParams \cup OverrideParams) \ {"fingerprint"}
Single == {Plain({p}, 3) : p \in SingleFields}
          \cup {Plain({p}, 1) : p \in Abi2Fields \cup {"tcp_tos", "header_order_by_dest", "tcp_ip_id_mode", "custom_tls_client"}}
          \cup {Plain({p}, 2) : p \in {"root_ca_pem", "tcp_no_delay"}}
\* Aliases of one key, and options that interact.
Pairs == {[Plain(fs, 3) EXCEPT !.calls = 1] : fs \in {{"proxy", "proxies"}, {"headers", "client_identifier"},
              {"follow_redirects", "allow_redirects"}, {"cookies", "request_cookies"},
              {"cert", "client_certificates"}}}
\* Presets over identifiers and caller headers.
WithPresets ==
    {[fields |-> {"client_identifier"}, headers |-> {<<>>}, contexts |-> {<<>>},
      presets |-> {"chrome_152_macos", "firefox_148", "tcp_only"}, abi |-> 3, sets |-> 1, calls |-> 2, compat |-> <<>>],
     [fields |-> {"fingerprint", "tcp_ttl"}, headers |-> {<<>>}, contexts |-> {<<>>},
      presets |-> {"child", "chrome_99", "loop_a", "unknown"}, abi |-> 1, sets |-> 1, calls |-> 1, compat |-> <<>>]}
\* Request headers, contexts and bodies.
Site == <<"a", "com">>
Wire ==
    {[fields |-> {"default_headers"},
      headers |-> {<<>>, << <<"accept", <<"user", "own">>>>, <<"sec-fetch-mode", <<"user", "own">>>> >>},
      contexts |-> {<<>>, <<Navigation(Site, <<>>, TRUE)>>, <<Iframe(Site, Site)>>,
                    <<Xhr(Site, <<"www", "a", "com">>)>>, <<Image(Site, <<"b", "com">>)>>,
                    <<Script(Site, Site)>>, <<Style(Site, Site)>>, <<Font(Site, Site)>>,
                    <<Media(Site, Site)>>},
      presets |-> {"firefox_148", "child"}, abi |-> 3, sets |-> 1, calls |-> 1, compat |-> <<>>],
     [fields |-> {"data", "json", "auth"},
      headers |-> {<<>>, << <<"content-type", <<"user", "own">>>>, <<"Authorization", <<"user", "own">>>> >>},
      contexts |-> {<<>>}, presets |-> {}, abi |-> 3, sets |-> 0, calls |-> 1, compat |-> <<>>],
     [fields |-> {"data", "json"}, headers |-> {<<>>}, contexts |-> {<<>>}, presets |-> {}, abi |-> 3, sets |-> 0, calls |-> 1, compat |-> <<>>]}

(* ---------------------- the requests-style facade ---------------------- *)
A == <<"a", "com">>
WwwA == <<"www", "a", "com">>
B == <<"b", "com">>
Url(scheme, host, port, path) == [scheme |-> scheme, host |-> host, port |-> port, path |-> path]
HomeUrl == Url("https", A, 443, "/")

Fresh == [native |-> <<>>, headers |-> <<>>, auth |-> None, verify |-> "True",
          timeout |-> "30", trust_env |-> TRUE,
          max_redirects |-> 2, proxies |-> <<>>, cert |-> None, cookies |-> {}]
Get0 == [via |-> "verb", method |-> "GET", url |-> HomeUrl, headers |-> <<>>, body |-> None,
         auth |-> None, cookies |-> {}, proxies |-> <<>>, verify |-> None, timeout |-> None,
         cert |-> None, tls |-> <<>>, context |-> <<>>, allow |-> None]
Reply(status, location, cookies) == [status |-> status, location |-> location, cookies |-> cookies]
SetCookie(name, value, domain, path, listed) ==
    [name |-> name, value |-> value, domain |-> domain, path |-> path, listed |-> listed]

CompatScenario(news, attributes, asks, answers, env, hook, calls) ==
    [fields |-> {"client_identifier", "proxy", "follow_redirects", "verify", "timeout",
                 "timeout_milliseconds", "client_certificates", "default_headers"},
     headers |-> {<<>>}, contexts |-> {<<>>}, presets |-> {}, abi |-> 3, sets |-> 1,
     calls |-> calls,
     compat |-> [news |-> news, attributes |-> attributes, asks |-> asks,
                 answers |-> answers, env |-> env, hook |-> hook]]

\* Methods, bodies and credentials through every kind of redirect.
Redirected ==
    CompatScenario(
        {Fresh, [Fresh EXCEPT !.auth = "basic"], [Fresh EXCEPT !.max_redirects = 0],
         [Fresh EXCEPT !.headers = << <<"authorization", <<"user", "session">>>> >>],
         [Fresh EXCEPT !.native = [default_headers |-> "mine"]]},
        {<<"max_redirects", 1>>},
        {[Get0 EXCEPT !.method = m, !.body = IF m \in {"GET", "HEAD"} THEN None ELSE b,
                      !.auth = a, !.via = v] :
            m \in {"GET", "HEAD", "POST", "PUT"}, b \in {"form", "json"},
            a \in {None, "basic"}, v \in {"verb", "prepared"}}
        \cup {[Get0 EXCEPT !.url.scheme = "ftp"], [Get0 EXCEPT !.allow = "False"],
              [Get0 EXCEPT !.headers = << <<"Authorization", <<"user", "own">>>> >>]},
        {Reply(st, <<u>>, {}) : st \in {301, 302, 303, 307},
            u \in {Url(None, <<>>, 0, "/x"), Url("http", A, 443, "/"), Url("https", A, 8443, "/"),
                   Url("https", B, 443, "/"), HomeUrl}}
        \cup {Reply(308, <<Url("ftp", A, 21, "/")>>, {}), Reply(200, <<>>, {}),
              Reply(302, <<>>, {}), Reply(404, <<HomeUrl>>, {})},
        <<>>, FALSE, 1)

\* Cookies over two calls.
Cookied ==
    CompatScenario(
        {[Fresh EXCEPT !.cookies = {"own"}], Fresh}, {},
        {[Get0 EXCEPT !.url.host = h, !.cookies = c] : h \in {A, B}, c \in {{}, {"mine"}}},
        {Reply(302, <<u>>, c) :
            u \in {Url("https", WwwA, 443, "/"), Url("https", B, 443, "/x")},
            c \in {{}, {SetCookie("s", "1", <<>>, "/", FALSE)},
                   {SetCookie("s", "2", A, "/x", FALSE)},
                   {SetCookie("s", "3", <<>>, "/", TRUE)}}}
        \cup {Reply(200, <<>>, {}),
              Reply(200, <<>>, {SetCookie("s", "1", <<>>, "/", FALSE),
                                SetCookie("s", "2", <<>>, "/x", FALSE)})},
        <<>>, FALSE, 2)

\* Settings: proxies of the session, the call and the environment, timeouts,
\* engine options, contexts, a hook.
Settings ==
    {CompatScenario(
        {Fresh, [Fresh EXCEPT !.proxies = << <<"https", "p1">> >>, !.cert = "pem", !.verify = "False"],
         [Fresh EXCEPT !.native = [timeout_milliseconds |-> "7"]],
         [Fresh EXCEPT !.native = [client_identifier |-> "bogus"]]},
        {<<"proxies", << <<"all", "p2">> >> >>, <<"verify", "False">>, <<"timeout", "7">>,
         <<"proxy", "p3">>, <<"trust_env", FALSE>>},
        {Get0, [Get0 EXCEPT !.proxies = << <<"https", "p2">> >>], [Get0 EXCEPT !.timeout = "2.5"],
         [Get0 EXCEPT !.timeout = "0"], [Get0 EXCEPT !.verify = "False"],
         [Get0 EXCEPT !.cert = "own"], [Get0 EXCEPT !.tls = [default_headers |-> "mine"]],
         [Get0 EXCEPT !.tls = [proxy |-> "p4"]], [Get0 EXCEPT !.tls = [typo |-> "x"]],
         [Get0 EXCEPT !.tls = [client_identifier |-> "firefox_135"]],
         [Get0 EXCEPT !.context = <<Xhr(Site, Site)>>],
         [Get0 EXCEPT !.tls = [client_identifier |-> "bogus"]]},
        {Reply(200, <<>>, {}), Reply(307, <<Url("http", A, 80, "/")>>, {})},
        env, hook, 2) : env \in {<<>>, << <<"http", "e1">> >>}, hook \in BOOLEAN}

MCScenarios == Single \cup Pairs \cup WithPresets \cup Wire \cup {Redirected, Cookied} \cup Settings
=============================================================================
