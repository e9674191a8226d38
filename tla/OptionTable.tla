---------------------------- MODULE OptionTable ----------------------------
(***************************************************************************)
(* The option vocabulary of tls_client/_core.py: which parameters the      *)
(* constructors, the property setters and the requests accept, under which *)
(* key of Session.defaults each is stored, what is resolved per request,   *)
(* what the C struct carries and what the client-pool key covers.          *)
(*                                                                         *)
(* A Python value is a token: "None", "True", "False", a number ("-1",     *)
(* "0", "30"), "empty" (the empty string, list or dict) or an opaque name. *)
(***************************************************************************)
EXTENDS TLC

None == "None"

\* Python's truth test on the tokens.
Truthy(v) == v \notin {None, "False", "0", "empty"}

\* `1 if v else 0`.
AsFlag(v) == IF Truthy(v) THEN "1" ELSE "0"

\* kwargs.get(k) / dict.get(k): absent reads as None.
Get(f, k) == IF k \in DOMAIN f THEN f[k] ELSE None

\* {**g, **f}: the entries of f over those of g.
Over(f, g) ==
    [k \in DOMAIN f \cup DOMAIN g |-> IF k \in DOMAIN f THEN f[k] ELSE g[k]]

(* ------------------------- property setters ---------------------------- *)
SettersFingerprint ==
    {"client_identifier", "force_http1", "disable_http3", "with_protocol_racing",
     "random_tls_extension_order"}
SettersTimeoutTls ==
    {"timeout", "timeout_milliseconds", "follow_redirects", "verify",
     "server_name_overwrite"}
SettersProxyHeaders ==
    {"proxy", "proxies", "local_address", "request_host_override",
     "pseudo_header_order", "h3_pseudo_header_order", "default_headers",
     "headers", "connect_headers"}
SettersPinCookieCustom ==
    {"certificate_pinning_hosts", "with_default_bad_pin_handler",
     "request_cookies", "cookies", "custom_tls_client", "client_certificates"}
SettersPool ==
    {"max_idle_connections", "max_idle_connections_per_host",
     "max_connections_per_host", "disable_keep_alives", "disable_compression",
     "idle_conn_timeout_seconds", "max_response_header_bytes",
     "write_buffer_size", "read_buffer_size"}
SettersIpTcp ==
    {"disable_ipv4", "disable_ipv6", "tcp_ttl", "tcp_window_size",
     "tcp_window_scale", "tcp_mss"}
SettersCookieDebug ==
    {"allow_empty_cookies", "without_cookie_jar", "catch_panics", "with_debug"}
SettersCompat == {"auth", "params", "cert", "stream"}

SetterParams ==
    SettersFingerprint \cup SettersTimeoutTls \cup SettersProxyHeaders
    \cup SettersPinCookieCustom \cup SettersPool \cup SettersIpTcp
    \cup SettersCookieDebug \cup SettersCompat

(* ------------------- options without a property setter ----------------- *)
Abi2Fields == {"disable_session_tickets", "tls_keylog_path", "root_ca_pem"}
Abi21Fields ==
    {"h2_max_data_frame_size", "preface_ping_idle_ms", "hpack_indexing_policy",
     "cookie_crumb"}

\* _ABI3_REQUEST_FIELDS: each field with its "feature disabled" value.
ABI3_REQUEST_FIELDS ==
    [k \in {"extension_permute_mode", "extension_permute_prefix",
            "h2_disable_priority_frames", "header_order_by_dest", "tcp_window_clamp",
            "tcp_dont_fragment", "tcp_tos", "tcp_no_delay", "header_order_dest",
            "tcp_ip_id_mode"} |->
        CASE k \in {"tcp_dont_fragment", "tcp_tos", "tcp_no_delay"} -> "-1"
          [] k \in {"header_order_dest", "tcp_ip_id_mode"}          -> "empty"
          [] OTHER                                                  -> "0"]
Abi3Fields == DOMAIN ABI3_REQUEST_FIELDS

(* ----------------------- keyword parameters ---------------------------- *)
SessionParams ==
    SetterParams \cup Abi2Fields \cup Abi21Fields \cup Abi3Fields
    \cup {"fingerprint"}
AsyncSessionParams ==
    SetterParams \cup Abi2Fields \cup Abi21Fields \cup Abi3Fields
    \cup {"fingerprint"}

\* Aliases and requests-only names never reach execute_request as keywords.
OverrideParams ==
    (SetterParams \ (SettersCompat \cup {"proxies", "headers", "cookies"}))
    \cup Abi2Fields \cup Abi21Fields \cup Abi3Fields
AsyncOverrideParams ==
    (SetterParams \ (SettersCompat \cup {"proxies", "headers", "cookies"}))
    \cup Abi2Fields \cup Abi21Fields \cup Abi3Fields

\* The keyword-only parameters Session.request itself names.
RequestParams ==
    {"params", "data", "json", "headers", "auth", "cookies", "stream", "cert",
     "timeout", "allow_redirects", "proxies", "verify"}

\* The keys of the Request TypedDict that typed_request forwards.
TypedIdentity ==
    {"client_identifier", "timeout", "timeout_milliseconds", "follow_redirects",
     "verify", "force_http1", "random_tls_extension_order",
     "with_protocol_racing", "server_name_overwrite", "request_host_override",
     "proxy", "local_address", "pseudo_header_order", "h3_pseudo_header_order"}
TypedConnection ==
    SettersPool \cup SettersIpTcp \cup SettersCookieDebug \cup {"disable_http3"}
TypedStructured ==
    {"default_headers", "connect_headers", "certificate_pinning_hosts",
     "with_default_bad_pin_handler", "request_cookies", "custom_tls_client",
     "client_certificates"}
TypedDeep == Abi2Fields \cup Abi21Fields \cup Abi3Fields
TypedKeys == TypedIdentity \cup TypedConnection \cup TypedStructured \cup TypedDeep

(* --------------------- keys of Session.defaults ------------------------ *)
\* Where a parameter is stored; three public names differ from the key and
\* three are aliases.
KeyOf(p) ==
    CASE p = "timeout"                    -> "timeout_seconds"
      [] p = "verify"                     -> "insecure_skip_verify"
      [] p = "random_tls_extension_order" -> "with_random_tls_extension_order"
      [] p = "proxies"                    -> "proxy"
      [] p = "headers"                    -> "default_headers"
      [] p = "cookies"                    -> "request_cookies"
      [] p = "allow_redirects"            -> "follow_redirects"
      [] OTHER                            -> p

Flags ==
    {"follow_redirects", "force_http1", "with_random_tls_extension_order",
     "with_protocol_racing", "disable_keep_alives", "disable_compression",
     "disable_http3", "disable_ipv4", "disable_ipv6", "without_cookie_jar",
     "allow_empty_cookies", "with_default_bad_pin_handler", "catch_panics",
     "with_debug", "disable_session_tickets", "cookie_crumb",
     "h2_disable_priority_frames", "header_order_by_dest", "insecure_skip_verify"}

\* _INT_REQUEST_KEYS and _TRISTATE_REQUEST_KEYS.
INT_REQUEST_KEYS ==
    {"timeout_seconds", "timeout_milliseconds", "max_idle_connections",
     "max_idle_connections_per_host", "max_connections_per_host",
     "max_response_header_bytes", "write_buffer_size", "read_buffer_size",
     "idle_conn_timeout_seconds", "tcp_ttl", "tcp_window_size",
     "tcp_window_scale", "tcp_mss", "disable_session_tickets",
     "h2_max_data_frame_size", "preface_ping_idle_ms", "cookie_crumb",
     "extension_permute_mode", "extension_permute_prefix",
     "h2_disable_priority_frames", "header_order_by_dest", "tcp_dont_fragment",
     "tcp_tos", "tcp_no_delay", "tcp_window_clamp"}
TRISTATE_REQUEST_KEYS == {"tcp_dont_fragment", "tcp_tos", "tcp_no_delay"}

\* The option fields of the C struct RequestOptions, and what the two facades
\* read from Session.defaults for a request.
RequestKeys == {KeyOf(p) : p \in OverrideParams}
\* Mutant: a key left out of the list.
KeysWithoutMss == {KeyOf(p) : p \in OverrideParams} \ {"tcp_mss"}
SYNC_REQUEST_DEFAULT_KEYS == {KeyOf(p) : p \in OverrideParams}
ASYNC_REQUEST_DEFAULT_KEYS == {KeyOf(p) : p \in AsyncOverrideParams}

\* What the constructor and the setters store for a value.
Stored(p, v) ==
    CASE p = "verify"                               -> AsFlag(IF Truthy(v) THEN "0" ELSE "1")
      [] KeyOf(p) \in Flags /\ p # "verify"         -> AsFlag(v)
      [] p \in {"header_order_dest", "tcp_ip_id_mode"} -> IF Truthy(v) THEN v ELSE "empty"
      [] OTHER                                      -> v

\* The value a parameter has when the caller does not pass it.
LibraryDefault ==
    [k \in RequestKeys \cup {"auth", "params", "cert", "stream"} |->
        CASE k \in {"with_random_tls_extension_order", "catch_panics"} -> "1"
          [] k = "timeout_seconds"                     -> "30"
          [] k = "client_identifier"                   -> "chrome_120"
          [] k \in Abi3Fields                          -> ABI3_REQUEST_FIELDS[k]
          [] k \in (Flags \cup INT_REQUEST_KEYS \cup {"stream"})
                  \ (Abi3Fields \cup {"with_random_tls_extension_order", "catch_panics",
                                      "timeout_seconds"})  -> "0"
          [] k = "hpack_indexing_policy"               -> "empty"
          [] OTHER                                     -> None]

(* ---------------------- custom TLS client dicts ------------------------ *)
\* What _build_custom_tls_client reads; a custom_tls_client token names the
\* one field its dict carries.
CustomScalars ==
    {"ja3_string", "connection_flow", "record_size_limit", "stream_id",
     "h3_priority_param", "h3_send_grease_frames", "allow_http",
     "trust_anchors_payload"}
CustomArrays ==
    {"h2_settings_order", "h3_settings_order", "h3_pseudo_header_order",
     "cert_compression_algos", "key_share_curves", "alpn_protocols",
     "alps_protocols", "pseudo_header_order",
     "supported_delegated_credentials_algorithms",
     "supported_signature_algorithms", "supported_versions"}
CustomStructures ==
    {"h2_settings", "h3_settings", "ech_candidate_payloads",
     "ech_candidate_cipher_suites", "priority_frames", "header_priority"}
CustomFields == CustomScalars \cup CustomArrays \cup CustomStructures

(* ------------------------ the C request struct ------------------------- *)
\* _normalize_int_fields.
NormalizeInt(k, v) ==
    IF k \notin INT_REQUEST_KEYS THEN v
    ELSE CASE v = None    -> IF k \in TRISTATE_REQUEST_KEYS THEN "-1" ELSE "0"
           [] v = "True"  -> "1"
           [] v = "False" -> "0"
           [] OTHER       -> v

\* _c_string, _build_headers, _build_string_array, _build_pin_entries and
\* _build_client_certificates: nothing and the empty value both become what
\* Go reads as absent; a number is assigned as it is.  A custom dict whose
\* field is none of _build_custom_tls_client's leaves a struct of zeroes.
ToC(k, v) ==
    IF k \in Flags \cup INT_REQUEST_KEYS THEN v
    ELSE IF v \in {None, "empty"} THEN "NULL"
    ELSE IF k = "custom_tls_client" /\ v \notin CustomFields THEN "blank" ELSE v

(* ------------------------ the client-pool key -------------------------- *)
KeyedScalars ==
    {"client_identifier", "proxy", "server_name_overwrite", "local_address",
     "insecure_skip_verify", "force_http1", "with_random_tls_extension_order",
     "with_protocol_racing", "max_idle_connections",
     "max_idle_connections_per_host", "max_connections_per_host",
     "max_response_header_bytes", "write_buffer_size", "read_buffer_size",
     "idle_conn_timeout_seconds", "disable_keep_alives", "disable_compression",
     "disable_http3", "disable_ipv4", "disable_ipv6", "follow_redirects",
     "without_cookie_jar", "allow_empty_cookies", "with_default_bad_pin_handler",
     "timeout_seconds", "timeout_milliseconds", "tcp_ttl", "tcp_window_size",
     "tcp_window_scale", "tcp_mss", "disable_session_tickets", "tls_keylog_path",
     "root_ca_pem", "h2_max_data_frame_size", "preface_ping_idle_ms",
     "hpack_indexing_policy", "extension_permute_mode",
     "extension_permute_prefix", "h2_disable_priority_frames",
     "tcp_dont_fragment", "tcp_tos", "tcp_no_delay", "tcp_window_clamp",
     "tcp_ip_id_mode"}
\* Mutant: custom profiles are left out of the key.
KeyedHeaders ==
    {"pseudo_header_order", "h3_pseudo_header_order", "default_headers",
     "connect_headers", "certificate_pinning_hosts", "client_certificates"}
KeyedStructures ==
    {"pseudo_header_order", "h3_pseudo_header_order", "default_headers",
     "connect_headers", "certificate_pinning_hosts", "client_certificates",
     "custom_tls_client"}

\* The fields of a custom dict that are hashed.
KeyedCustom == CustomScalars \cup CustomArrays \cup CustomStructures

\* _compute_cache_key_hash: the digest is the tuple of what is hashed.
CacheKey(r) ==
    [k \in DOMAIN r \cap (KeyedScalars \cup KeyedStructures) |->
        IF k = "custom_tls_client" /\ r[k] \notin KeyedCustom \cup {None, "empty"}
        THEN "blank"
        ELSE ToC(k, NormalizeInt(k, r[k]))]

\* buildClientFromConfig: what a pooled Go client is built from.
ClientFields ==
    RequestKeys \ {"request_host_override", "request_cookies", "cookie_crumb",
                   "header_order_by_dest", "header_order_dest"}

=============================================================================
