---------------------------- MODULE HeaderRules ----------------------------
(***************************************************************************)
(* The header arithmetic of tls_client: the default header block of every  *)
(* client identifier, the case-insensitive merges of _core.py, the         *)
(* request contexts of context.py and the client hints.                    *)
(*                                                                         *)
(* A Python dict of headers keeps its insertion order: it is a sequence of *)
(* <<name, value>> entries with distinct names.  A value is a pair         *)
(* <<kind, detail>>: the texts are left out, what they tell apart is kept. *)
(***************************************************************************)
EXTENDS Naturals, Sequences, SequencesExt

(* ------------------------- client identifiers -------------------------- *)
ChromeIdentifiers ==
    {"chrome_103", "chrome_104", "chrome_105", "chrome_106", "chrome_107",
     "chrome_108", "chrome_109", "chrome_110", "chrome_111", "chrome_112",
     "chrome_116_PSK", "chrome_116_PSK_PQ", "chrome_117", "chrome_120",
     "chrome_124", "chrome_130_PSK", "chrome_131", "chrome_131_PSK",
     "chrome_133", "chrome_133_PSK", "chrome_144", "chrome_144_PSK",
     "chrome_146", "chrome_146_PSK", "chrome_150", "chrome_150_PSK",
     "chrome_152", "chrome_152_PSK"}
ChromiumForks ==
    {"brave_146", "brave_146_PSK", "opera_89", "opera_90", "opera_91"}
SafariIdentifiers ==
    {"safari_15_6_1", "safari_16_0", "safari_ipad_15_6", "safari_ios_15_5",
     "safari_ios_15_6", "safari_ios_16_0", "safari_ios_17_0", "safari_ios_18_0",
     "safari_ios_18_5", "safari_ios_26_0"}
FirefoxIdentifiers ==
    {"firefox_102", "firefox_104", "firefox_105", "firefox_106", "firefox_108",
     "firefox_110", "firefox_117", "firefox_120", "firefox_123", "firefox_132",
     "firefox_133", "firefox_135", "firefox_146_PSK", "firefox_147",
     "firefox_147_PSK", "firefox_148"}
IosApps ==
    {"zalando_ios_mobile", "nike_ios_mobile", "mms_ios", "mms_ios_1",
     "mms_ios_2", "mms_ios_3", "mesh_ios", "mesh_ios_1", "mesh_ios_2",
     "confirmed_ios"}
AndroidApps ==
    {"zalando_android_mobile", "nike_android_mobile", "mesh_android",
     "mesh_android_1", "mesh_android_2", "confirmed_android"}
OkHttp ==
    {"okhttp4_android_7", "okhttp4_android_8", "okhttp4_android_9",
     "okhttp4_android_10", "okhttp4_android_11", "okhttp4_android_12",
     "okhttp4_android_13"}

SUPPORTED_CLIENT_IDENTIFIERS ==
    ChromeIdentifiers \cup ChromiumForks \cup SafariIdentifiers
    \cup FirefoxIdentifiers \cup IosApps \cup AndroidApps \cup OkHttp
    \cup {"cloudscraper"}

\* _identifier_browser.
IdentifierBrowser(i) ==
    CASE i \in ChromeIdentifiers \cup ChromiumForks \cup {"cloudscraper"} -> "chrome"
      [] i \in FirefoxIdentifiers -> "firefox"
      [] i \in SafariIdentifiers  -> "safari"
      [] OTHER                    -> "unknown"

(* ---------------------------- header dicts ----------------------------- *)
\* str.casefold on the names in use; the others are already lower case.
Fold(n) ==
    CASE n = "User-Agent"                -> "user-agent"
      [] n = "Accept"                    -> "accept"
      [] n = "Accept-Encoding"           -> "accept-encoding"
      [] n = "Accept-Language"           -> "accept-language"
      [] n = "Connection"                -> "connection"
      [] n = "Content-Type"              -> "content-type"
      [] n = "Content-Length"            -> "content-length"
      [] n = "Cookie"                    -> "cookie"
      [] n = "Authorization"             -> "authorization"
      [] n = "Upgrade-Insecure-Requests" -> "upgrade-insecure-requests"
      [] n = "Sec-Fetch-Dest"            -> "sec-fetch-dest"
      [] n = "Sec-Fetch-Mode"            -> "sec-fetch-mode"
      [] n = "Sec-Fetch-Site"            -> "sec-fetch-site"
      [] n = "Sec-Fetch-User"            -> "sec-fetch-user"
      [] n = "TE"                        -> "te"
      [] OTHER                           -> n

Names(d) == {d[i][1] : i \in DOMAIN d}
Folded(d) == {Fold(n) : n \in Names(d)}
Has(d, n) == Fold(n) \in Folded(d)

\* The first entry under any spelling of n.
At(d, n) == CHOOSE i \in DOMAIN d :
    Fold(d[i][1]) = Fold(n) /\ \A j \in 1..(i - 1) : Fold(d[j][1]) # Fold(n)
ValueOf(d, n) == d[At(d, n)][2]

\* Assign under the existing spelling, or append.
Override(d, n, v) ==
    IF Has(d, n) THEN [d EXCEPT ![At(d, n)] = <<@[1], v>>] ELSE Append(d, <<n, v>>)

Without(d, n) == IF Has(d, n) THEN RemoveAt(d, At(d, n)) ELSE d

\* _ensure_header: a spelling the caller already used wins.
EnsureHeader(d, n, v) == IF Has(d, n) THEN d ELSE Append(d, <<n, v>>)

\* One entry of a merge; a name of `kept` that is there stays as it is.
Put(d, e, kept) ==
    IF Has(d, e[1]) /\ Fold(e[1]) \in kept THEN d ELSE Override(d, e[1], e[2])

\* The loop that lays one dict over another, entry by entry.
Update(d, entries, kept) ==
    LET put[n \in 0..Len(entries)] ==
            IF n = 0 THEN d ELSE Put(put[n - 1], entries[n], kept)
    IN  put[Len(entries)]

\* _merge_default_headers: request entries override the profile's, case-
\* insensitively; with no profile block the request headers go out alone.
MergeDefaultHeaders(block, request) ==
    IF block = <<>> THEN request ELSE Update(block, request, {})

\* The wire order: the caller's list, then what it leaves out.
MergedOrder(block, merged, explicit) ==
    IF block = <<>> THEN explicit
    ELSE LET listed == {Fold(explicit[i]) : i \in DOMAIN explicit}
             names  == [i \in DOMAIN merged |-> merged[i][1]]
         IN  explicit \o SelectSeq(names, LAMBDA n : Fold(n) \notin listed)

(* ----------------------- default header blocks ------------------------- *)
\* A header whose text names the profile.
Of(i) == <<"profile", i>>

\* high_entropy_hints with the per-platform tables; the real brands carry
\* the exact build of the major.
HighEntropyHints(i, os) ==
    LET mobile == os \in {"android", "ios"}
    IN  << <<"sec-ch-ua-full-version-list", Of(i)>>,
           <<"sec-ch-ua-platform-version",
             IF os \in {"linux", "ios"} THEN <<"text", "empty">> ELSE <<"release", os>>>>,
           <<"sec-ch-ua-arch",
             CASE os \in {"windows", "linux"} -> <<"text", "x86">>
               [] os = "macos"                -> <<"text", "arm">>
               [] OTHER                       -> <<"text", "empty">>>>,
           <<"sec-ch-ua-bitness", <<"text", IF mobile THEN "empty" ELSE "64">>>>,
           <<"sec-ch-ua-model", <<"text", "empty">>>>,
           <<"sec-ch-ua-wow64", <<"text", "?0">>>> >>

Accept(kind) == <<"Accept", <<"accept", kind>>>>
Coding(kind) == <<"Accept-Encoding", <<"coding", kind>>>>
Language(q)  == <<"Accept-Language", <<"language", q>>>>

\* _chrome_headers, _chrome_psk, _brave_headers and _opera_headers: the
\* Windows client hints; zstd from Chrome 117 on.
ChromiumBlock(i) ==
    LET old == {"chrome_103", "chrome_104", "chrome_105", "chrome_106", "chrome_107",
                "chrome_108", "chrome_109", "chrome_110", "chrome_111", "chrome_112",
                "chrome_116_PSK", "chrome_116_PSK_PQ", "opera_89", "opera_90",
                "opera_91"}
    IN  << <<"User-Agent", Of(i)>>, <<"sec-ch-ua", Of(i)>>,
           <<"sec-ch-ua-mobile", <<"text", "?0">>>>,
           <<"sec-ch-ua-platform", <<"platform", "windows">>>>,
           Accept("nav-chrome"), Coding(IF i \in old THEN "br" ELSE "zstd"),
           Language("q9") >> \o HighEntropyHints(i, "windows")

\* _safari_macos, _safari_ios and _safari_ipad: no client hints.
SafariBlock(i) ==
    << <<"User-Agent", Of(i)>>, Accept("nav-safari"), Coding("br"), Language("q9") >>

\* _firefox_headers and _firefox_psk.
FirefoxBlock(i) ==
    << <<"User-Agent", Of(i)>>, Accept("nav-short"), Coding("br"), Language("q5") >>

\* _okhttp_headers, _ios_app_headers, _android_app_headers: no browser features.
AppBlock(i) ==
    IF i \in IosApps
    THEN << <<"User-Agent", Of(i)>>, Coding("br"), Language("q9") >>
    ELSE << <<"User-Agent", Of(i)>>, Coding("gzip"),
            <<"Connection", <<"text", "keep-alive">>>> >>

CloudscraperBlock ==
    << <<"User-Agent", Of("cloudscraper")>>, Accept("nav-plain"), Coding("br"),
       Language("q9") >>

\* DEFAULT_HEADERS.
DEFAULT_HEADERS(i) ==
    CASE i \in ChromeIdentifiers \cup ChromiumForks -> ChromiumBlock(i)
      [] i \in SafariIdentifiers                    -> SafariBlock(i)
      [] i \in FirefoxIdentifiers                   -> FirefoxBlock(i)
      [] i = "cloudscraper"                         -> CloudscraperBlock
      [] OTHER                                      -> AppBlock(i)

(* -------------------------- request contexts --------------------------- *)
\* RequestContext: how the page started the request.  target and referrer
\* are hosts as sequences of labels, <<>> for none; urgency 9 is None.
Context(mode, dest, user, target, referrer) ==
    [mode |-> mode, dest |-> dest, user |-> user, target |-> target,
     referrer |-> referrer, urgency |-> 9, incremental |-> FALSE]

\* The classmethods.
Navigation(t, r, user) == Context("navigate", "document", user, t, r)
Iframe(t, r) == Context("navigate", "iframe", FALSE, t, r)
Xhr(t, r)    == Context("cors", "empty", FALSE, t, r)
Script(t, r) == Context("no-cors", "script", FALSE, t, r)
Style(t, r)  == Context("no-cors", "style", FALSE, t, r)
Image(t, r)  == Context("no-cors", "image", FALSE, t, r)
Font(t, r)   == Context("cors", "font", FALSE, t, r)
Media(t, r)  == Context("no-cors", "video", FALSE, t, r)

\* _registrable_domain: the last two labels.
RegistrableDomain(h) == IF Len(h) <= 2 THEN h ELSE SubSeq(h, Len(h) - 1, Len(h))

ComputeFetchSite(target, referrer) ==
    IF referrer = <<>> \/ target = <<>> THEN "none"
    ELSE IF target = referrer THEN "same-origin"
    ELSE IF RegistrableDomain(target) = RegistrableDomain(referrer) THEN "same-site"
    ELSE "cross-site"

SecFetchHeaders(c) ==
    << <<"sec-fetch-mode", <<"mode", c.mode>>>>,
       <<"sec-fetch-dest", <<"dest", c.dest>>>>,
       <<"sec-fetch-site", <<"site", ComputeFetchSite(c.target, c.referrer)>>>> >>
    \o IF c.mode = "navigate" /\ c.user
       THEN << <<"sec-fetch-user", <<"text", "?1">>>> >> ELSE <<>>

\* _DEFAULT_URGENCY and _DEFAULT_INCREMENTAL.
DefaultUrgency(dest) ==
    CASE dest \in {"document", "embed", "iframe", "object", "style"} -> 0
      [] dest \in {"empty", "font", "script"}                        -> 1
      [] dest \in {"image", "manifest"}                              -> 2
      [] dest = "worker"                                             -> 4
      [] OTHER                                                       -> 3
DefaultIncremental ==
    {"audio", "document", "embed", "empty", "iframe", "image", "object",
     "track", "video", "worker"}

\* priority_header: <<>> when the header is left out.
PriorityHeader(c) ==
    LET u == IF c.urgency = 9 THEN DefaultUrgency(c.dest) ELSE c.urgency
        i == c.incremental \/ (c.urgency = 9 /\ c.dest \in DefaultIncremental)
    IN  IF u = 3 /\ ~i THEN <<>>
        ELSE << <<"priority", <<IF i THEN "incremental" ELSE "plain", ToString(u)>>>> >>

\* _accept_for.
AcceptFor(c, browser) ==
    CASE c.dest = "document" ->
            (CASE browser = "firefox" -> "nav-firefox"
               [] browser = "safari"  -> "nav-safari"
               [] OTHER               -> "nav-chrome")
      [] c.dest \in {"image", "style", "script"} -> c.dest
      [] OTHER -> "any"

\* Mutant: the navigation headers of the block are left alone.
ApplyContextAdds(d, c, browser, userKeys) ==
    LET acc == Put(Update(d, SecFetchHeaders(c), userKeys),
                   <<"accept", <<"accept", AcceptFor(c, browser)>>>>, userKeys)
        nav == IF c.mode = "navigate"
               THEN Put(acc, <<"upgrade-insecure-requests", <<"text", "1">>>>, userKeys)
               ELSE acc
    IN  Update(nav, PriorityHeader(c), userKeys)

\* apply_context: what the context owns is overridden or removed, unless the
\* caller named it on this request.
ApplyContext(d, c, browser, userKeys) ==
    LET Drop(acc, n) == IF n \in userKeys THEN acc ELSE Without(acc, n)
        fetch == Update(d, SecFetchHeaders(c), userKeys)
        user  == IF c.mode # "navigate" \/ ~c.user THEN Drop(fetch, "sec-fetch-user")
                 ELSE fetch
        acc   == Put(user, <<"accept", <<"accept", AcceptFor(c, browser)>>>>, userKeys)
        nav   == IF c.mode = "navigate"
                 THEN Put(acc, <<"upgrade-insecure-requests", <<"text", "1">>>>, userKeys)
                 ELSE Drop(acc, "upgrade-insecure-requests")
    IN  Update(nav, PriorityHeader(c), userKeys)
=============================================================================
