------------------------------ MODULE Presets ------------------------------
(***************************************************************************)
(* The fingerprint preset registry (tls_client/fingerprints): the presets  *)
(* of Chrome majors 152, 133 (supported) and 99 (unsupported), those of    *)
(* Firefox, four user presets, and resolve() over the based_on chain.  A   *)
(* preset is a function on the keys it carries; values are tokens as in    *)
(* OptionTable.                                                            *)
(***************************************************************************)
EXTENDS OptionTable, HeaderRules, FiniteSets

(* ------------------- chrome_full.py, generated presets ----------------- *)
\* Every captured major (99 to 153) has a base, five OS variants and a bare
\* alias.  This is chrome_<major>_base.
ChromeBase(identifier) ==
    [client_identifier |-> identifier, browser |-> "chrome",
     pseudo_header_order |-> "masp", h3_pseudo_header_order |-> "masp",
     header_order |-> "chrome-nav", header_order_xhr |-> "chrome-xhr",
     header_order_by_dest |-> "True", extension_permute_mode |-> "1",
     extension_permute_prefix |-> "0", h2_disable_priority_frames |-> "False",
     with_random_tls_extension_order |-> "True", custom_tls_client |-> None]

\* The OS-coherent TCP fields of a variant.
OsTcp(os) ==
    [tcp_ttl |-> IF os = "windows" THEN "128" ELSE "64",
     tcp_window_size |-> IF os = "windows" THEN "64240" ELSE "65535",
     tcp_window_scale |-> CASE os = "windows" -> "8"
                            [] os \in {"macos", "ios"} -> "6"
                            [] OTHER -> "7",
     tcp_mss |-> "1460",
     tcp_dont_fragment |-> IF os = "windows" THEN "0" ELSE "1",
     tcp_tos |-> "0", tcp_no_delay |-> "1", tcp_window_clamp |-> "0",
     tcp_ip_id_mode |-> "random"]

\* chrome_<major>_<os>: the header block is named after the preset.
ChromeVariant(base, name, os) ==
    [based_on |-> base, default_headers |-> name] @@ OsTcp(os)

ChromeFull ==
       "chrome_152_base"    :> ChromeBase("chrome_152")
    @@ "chrome_152_windows" :> ChromeVariant("chrome_152_base", "chrome_152_windows", "windows")
    @@ "chrome_152_macos"   :> ChromeVariant("chrome_152_base", "chrome_152_macos", "macos")
    @@ "chrome_152_linux"   :> ChromeVariant("chrome_152_base", "chrome_152_linux", "linux")
    @@ "chrome_152_android" :> ChromeVariant("chrome_152_base", "chrome_152_android", "android")
    @@ "chrome_152_ios"     :> ChromeVariant("chrome_152_base", "chrome_152_ios", "ios")
    @@ "chrome_152"         :> [based_on |-> "chrome_152_windows"]
    @@ "chrome_133_base"    :> ChromeBase("chrome_133")
    @@ "chrome_133_windows" :> ChromeVariant("chrome_133_base", "chrome_133_windows", "windows")
    @@ "chrome_99_base"     :> ChromeBase("chrome_99")
    @@ "chrome_99_windows"  :> ChromeVariant("chrome_99_base", "chrome_99_windows", "windows")
    @@ "chrome_99"          :> [based_on |-> "chrome_99_windows"]

(* ------------------------- chrome.py, firefox.py ----------------------- *)
\* The hand-written Chrome presets: no TCP fields, no ABI 3 keys.
ChromeHand ==
    LET base == [client_identifier |-> "chrome_152", browser |-> "chrome",
                 pseudo_header_order |-> "masp", h3_pseudo_header_order |-> "masp",
                 header_order |-> "chrome-nav", header_order_xhr |-> "chrome-xhr",
                 with_random_tls_extension_order |-> "True",
                 custom_tls_client |-> None]
        Variant(name) == [based_on |-> "chrome_152_base", default_headers |-> name]
    IN     "chrome_152_base" :> base
        @@ [n \in {"chrome_152_windows", "chrome_152_macos", "chrome_152_linux",
                   "chrome_152_android", "chrome_152_ios"} |-> Variant(n)]
        @@ "chrome_152" :> [based_on |-> "chrome_152_windows"]
        @@ "chrome_133_windows" :>
              (Variant("chrome_133_windows") @@ [client_identifier |-> "chrome_133"])

FirefoxPresets ==
    LET base == [client_identifier |-> "firefox_148", browser |-> "firefox",
                 pseudo_header_order |-> "mpas", h3_pseudo_header_order |-> "mpas",
                 header_order |-> "firefox-nav", header_order_xhr |-> "firefox-xhr",
                 with_random_tls_extension_order |-> "False",
                 custom_tls_client |-> None]
    IN  "firefox_148_base" :> base
        @@ [n \in {"firefox_148", "firefox_148_windows", "firefox_148_linux",
                   "firefox_148_macos", "firefox_148_android"} |->
               [based_on |-> "firefox_148_base",
                default_headers |-> IF n = "firefox_148" THEN "firefox_148_windows" ELSE n]]

\* What load_preset_file may add: a bare TCP tweak, a child with headers of
\* its own, and two presets based on each other.
UserPresets ==
       "tcp_only" :> [tcp_ttl |-> "99"]
    @@ "child"    :> [based_on |-> "chrome_152_macos", default_headers |-> "mine",
                      tcp_ttl |-> "99"]
    @@ "loop_a"   :> [based_on |-> "loop_b"]
    @@ "loop_b"   :> [based_on |-> "loop_a"]

\* register() in the order of fingerprints/__init__.py: a later name shadows
\* an earlier one, so chrome_full replaces most of chrome.py.
PRESETS == UserPresets @@ FirefoxPresets @@ ChromeFull @@ ChromeHand

(* ------------------------- header blocks ------------------------------- *)
\* _desktop_headers, _mobile_headers and the generated per-OS blocks; only
\* Windows sends the last hint, sec-ch-ua-wow64.
ChromePresetBlock(name, os) ==
    << <<"User-Agent", Of(name)>>, <<"sec-ch-ua", Of(name)>>,
       <<"sec-ch-ua-mobile", <<"text", IF os \in {"android", "ios"} THEN "?1" ELSE "?0">>>>,
       <<"sec-ch-ua-platform", <<"platform", os>>>>,
       Accept("nav-chrome"), Coding("zstd"), Language("q9") >>
    \o (IF os = "windows" THEN HighEntropyHints(name, os)
        ELSE Front(HighEntropyHints(name, os)))

\* firefox.py _headers: the navigation cluster is part of the block.
FirefoxPresetBlock(name) ==
    << <<"User-Agent", Of(name)>>, Accept("nav-firefox"), Language("q5"), Coding("zstd"),
       <<"Upgrade-Insecure-Requests", <<"text", "1">>>>,
       <<"Sec-Fetch-Dest", <<"dest", "document">>>>,
       <<"Sec-Fetch-Mode", <<"mode", "navigate">>>>,
       <<"Sec-Fetch-Site", <<"site", "none">>>>,
       <<"Sec-Fetch-User", <<"text", "?1">>>>, <<"TE", <<"text", "trailers">>>> >>

\* The headers a caller brings as default_headers; any header may be among
\* them, credentials and a body's type too.
UserBlock ==
    << <<"accept", <<"user", "accept">>>>, <<"x-mark", <<"user", "mark">>>>,
       <<"Authorization", <<"user", "block">>>>, <<"Cookie", <<"user", "block">>>>,
       <<"Content-Type", <<"user", "block">>>> >>

\* The operating system of a Chrome variant.
OsOf == [n \in {"chrome_152_windows", "chrome_99_windows", "chrome_133_windows",
                "chrome_152_macos", "chrome_152_linux", "chrome_152_android",
                "chrome_152_ios"} |->
            CASE n = "chrome_152_macos"   -> "macos"
              [] n = "chrome_152_linux"   -> "linux"
              [] n = "chrome_152_android" -> "android"
              [] n = "chrome_152_ios"     -> "ios"
              [] OTHER                    -> "windows"]

\* The header dict a default_headers token stands for, in Python or (NULL)
\* in the C struct.
Block(b) ==
    CASE b \in {None, "empty", "NULL"} -> <<>>
      [] b = "mine"              -> UserBlock
      [] b = "mine_on_macos"     ->
            ChromePresetBlock("chrome_152_macos", "macos") \o UserBlock
      [] b \in DOMAIN OsOf       -> ChromePresetBlock(b, OsOf[b])
      [] b \in SUPPORTED_CLIENT_IDENTIFIERS -> DEFAULT_HEADERS(b)
      [] OTHER                   -> FirefoxPresetBlock(b)

\* dict(parent).update(child), one level deep and case-sensitive: "accept"
\* of the child joins "Accept" of the parent.
MergeBlocks(parent, child) ==
    IF parent = "chrome_152_macos" /\ child = "mine" THEN "mine_on_macos" ELSE child

(* ------------------------------- resolve ------------------------------- *)
Parent(n) == Get(PRESETS[n], "based_on")

\* The names from n upwards, None past the end.  A chain longer than the
\* registry is a cycle.
Limit == Cardinality(DOMAIN PRESETS)
Chain(n) ==
    LET up[i \in 0..Limit] ==
            IF i = 0 THEN n
            ELSE LET below == up[i - 1] IN IF below = None THEN None ELSE Parent(below)
    IN  [i \in 0..Limit |-> up[i]]

Unknown(n) == n \notin DOMAIN PRESETS
CyclicPresets == {n \in DOMAIN PRESETS : Chain(n)[Limit] # None}

\* The layers of a chain, nearest first, and those that carry a key.
Layers(up) == [i \in DOMAIN up |-> IF up[i] = None THEN <<>> ELSE PRESETS[up[i]]]
Carriers(layers, k) == {i \in DOMAIN layers : k \in DOMAIN layers[i]}
Nearest(S) == CHOOSE i \in S : \A j \in S : i <= j

\* The nearest layer gives the value; header blocks merge with the next one.
Overlay(layers, k, near, above) ==
    IF k = "default_headers" /\ above # {}
    THEN MergeBlocks(layers[Nearest(above)][k], layers[near][k]) ELSE layers[near][k]
LayerValue(layers, k, S) == Overlay(layers, k, Nearest(S), S \ {Nearest(S)})

\* resolve(): the merged layers without based_on, and the three defaults.
Merge(layers) ==
    [k \in UNION {DOMAIN layers[i] : i \in DOMAIN layers} \ {"based_on"} |->
        LayerValue(layers, k, Carriers(layers, k))]
    @@ [browser |-> "chrome", custom_tls_client |-> None,
        with_random_tls_extension_order |-> "True"]
Resolve(n) == Merge(Layers(Chain(n)))

Resolved == [n \in DOMAIN PRESETS \ CyclicPresets |-> Resolve(n)]
=============================================================================
