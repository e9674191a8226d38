--------------------------- MODULE SessionThreads ---------------------------
(***************************************************************************)
(* Threads that share one Session or AsyncSession of tls_client/_core.py,  *)
(* and the module state under it: the lazily loaded Go library with its    *)
(* ABI version and callback, the locks, and what a forked child inherits.  *)
(*                                                                         *)
(* A step is what runs without letting another thread in: a stretch under  *)
(* a lock, or one read or write outside (the GIL may change hands between  *)
(* any two bytecodes on the supported 3.6-3.9, and does in every native    *)
(* call).  SessionOptions says what the values mean; here a value is an    *)
(* identifier, the header block of one, or a block of the caller's.        *)
(***************************************************************************)
EXTENDS Naturals, FiniteSets

CONSTANTS
    Threads,
    Identifiers,    \* supported client identifiers, each with a header block
    Default,        \* the identifier the session was constructed with
    Own,            \* a header block the caller wrote
    LibraryAbi,     \* what GetAbiVersion of the installed library returns
    MaxOps,         \* bound on the calls the threads make
    None, Nobody

ASSUME ThreadAssumptions ==
    /\ Default \in Identifiers
    /\ Own \notin Identifiers /\ None \notin Identifiers \cup {Own}
    /\ Nobody \notin Threads
    /\ LibraryAbi \in Nat \ {0}
    /\ MaxOps \in Nat

VARIABLES
    ffi, lib,       \* _ffi and _lib are set
    abi,            \* _abi_version
    ffiLock,        \* holder of _ffi_lock
    forkedAfterLoad,\* _forked_after_load
    runtime,        \* the Go runtime in this process: "none", "alive", "dead"
    callback,       \* _async_callback: "none", "bound", or "broken" (made without a lib)
    facade,         \* "sync" or "async": what wraps the Session
    identifier, headers,    \* the two keys of Session.defaults in play
    customized,     \* _headers_customized
    version,        \* _defaults_version
    cache,          \* _selected_snapshot_cache: [version, identifier, headers] or None
    defaultsLock,   \* holder of _defaults_lock
    closed,         \* _closed
    pc,             \* per thread: where it is
    call,           \* per thread: the call it is in, see NewCall
    child,          \* ghost: this process is the child of a fork
    torn,           \* ghost: that fork fell between dlopen and the store of _lib
    ops             \* calls made

libvars == <<ffi, lib, abi, ffiLock, forkedAfterLoad, runtime, callback>>
values == <<identifier, headers, customized, version, cache>>
sessvars == <<facade, values, defaultsLock>>
process == <<child, torn, ops>>
vars == <<libvars, sessvars, closed, pc, call, process>>

Profile(i) == i         \* DEFAULT_HEADERS.get(i)

\* The locals of a call (lib is what _get_ffi returned, gate the ABI that was
\* tested, wire the <<identifier, headers>> to be sent) and its ghosts: how
\* the library and the flag were when it began, the pairs stored since then,
\* and whether it overlapped a change of the headers.
NoCall == [op |-> "none"]
NewCall(what, v, managed) ==
    [op |-> what, arg |-> v, lib |-> FALSE, snap |-> None, gate |-> 0, wire |-> None,
     loaded |-> lib /\ ffiLock = Nobody, customized |-> customized,
     seen |-> {<<identifier, headers>>}, managed |-> managed]

Changing == {t \in Threads : call[t].op \in {"headers", "apply"}}
Requesting == {t \in Threads : call[t].op = "request"}
Busy == {t \in Threads : call[t] # NoCall}

At(t, label) == pc[t] = label
Move(t, label, c) == pc' = [pc EXCEPT ![t] = label] /\ call' = [call EXCEPT ![t] = c]
Go(t, label) == Move(t, label, call[t])
Return(t) == Move(t, "idle", NoCall)

(* ---------------------------- calls begin ------------------------------ *)
Begin(t, what, v, label) ==
    /\ At(t, "idle")
    /\ ops < MaxOps
    /\ ops' = ops + 1
    /\ pc' = [pc EXCEPT ![t] = label]
    /\ call' = [u \in Threads |->
                  IF u = t THEN NewCall(what, v, Changing # {})
                  ELSE IF u \in Requesting /\ what \in {"headers", "apply"}
                  THEN [call[u] EXCEPT !.managed = TRUE] ELSE call[u]]
    /\ UNCHANGED <<libvars, sessvars, child, torn>>

\* execute_request(client_identifier=v): without an identifier of its own it
\* reads the session's, under the lock.
RequestBegins(t, v) ==
    /\ Begin(t, "request", v, IF v = None THEN "read identifier" ELSE "open?")
    /\ UNCHANGED closed

\* session.client_identifier = v, session.default_headers = Own and
\* fingerprints.apply(): the identifier, then the preset's headers.
SetterBegins(t, what, v) ==
    /\ Begin(t, what, v, IF what = "headers" THEN "flag" ELSE "set identifier")
    /\ UNCHANGED closed

\* close(): the mark, then the library.
CloseBegins(t) ==
    /\ Begin(t, "close", None, "ffi?")
    /\ closed' = TRUE

(* --------------------------- the session ------------------------------- *)
Locked == {"reading identifier", "setting identifier", "setting headers", "taking snapshot"}
Wants == [l \in {"read identifier", "set identifier", "set headers", "snapshot"} |->
            CASE l = "read identifier" -> "reading identifier"
              [] l = "set identifier"  -> "setting identifier"
              [] l = "set headers"     -> "setting headers"
              [] OTHER                 -> "taking snapshot"]

\* `with self._defaults_lock`.
LockDefaults(t) ==
    /\ pc[t] \in DOMAIN Wants
    /\ defaultsLock = Nobody
    /\ defaultsLock' = t
    /\ Go(t, Wants[pc[t]])
    /\ UNCHANGED <<libvars, facade, values, closed, process>>

\* _get_default("client_identifier"): what it returns is always supported.
ReadIdentifier(t) ==
    /\ At(t, "reading identifier")
    /\ defaultsLock' = Nobody
    /\ Go(t, "open?")
    /\ UNCHANGED <<libvars, facade, values, closed, process>>

\* The end of a locked write: every other call has seen what is stored now.
Written(t, label) ==
    /\ defaultsLock' = Nobody
    /\ pc' = [pc EXCEPT ![t] = label]
    /\ call' = [u \in Threads |->
                  IF u \notin Busy \/ (u = t /\ label = "idle") THEN NoCall
                  ELSE [call[u] EXCEPT !.seen = @ \cup {<<identifier', headers'>>}]]
    /\ UNCHANGED <<libvars, facade, customized, closed, process>>

\* The client_identifier setter.
SetIdentifier(t) ==
    /\ At(t, "setting identifier")
    /\ LET v == call[t].arg
       IN  /\ identifier' = v
           /\ headers' = IF v # identifier /\ ~customized THEN Profile(v) ELSE headers
    /\ version' = version + 1
    /\ cache' = None
    /\ Written(t, IF call[t].op = "apply" THEN "flag" ELSE "idle")

\* The default_headers setter, first half: the flag, outside the lock.
FlagHeaders(t) ==
    /\ At(t, "flag")
    /\ customized' = TRUE
    /\ Go(t, "set headers")
    /\ UNCHANGED <<libvars, facade, identifier, headers, version, cache, defaultsLock,
                   closed, process>>

\* What a preset or the caller brings: the block that fits the preset's
\* identifier, or one of the caller's own.
NewBlock(t) == IF call[t].op = "apply" THEN Profile(call[t].arg) ELSE Own

\* Mutant: a write that leaves the cached snapshot standing.
SetHeadersBare(t) ==
    /\ At(t, "setting headers")
    /\ headers' = NewBlock(t)
    /\ UNCHANGED <<identifier, version, cache>>
    /\ Written(t, "idle")

\* _set_default.
SetHeaders(t) ==
    /\ At(t, "setting headers")
    /\ headers' = NewBlock(t)
    /\ version' = version + 1
    /\ cache' = None
    /\ UNCHANGED identifier
    /\ Written(t, "idle")

\* _snapshot_selected_defaults.
TakeSnapshot(t) ==
    /\ At(t, "taking snapshot")
    /\ LET fresh == [version |-> version, identifier |-> identifier, headers |-> headers]
           s == IF cache # None /\ cache.version = version THEN cache ELSE fresh
       IN  /\ cache' = s
           /\ Move(t, "gates", [call[t] EXCEPT !.snap = s])
    /\ defaultsLock' = Nobody
    /\ UNCHANGED <<libvars, facade, identifier, headers, customized, version, closed, process>>

(* ---------------------------- the library ------------------------------ *)
\* `if self._closed: raise`.
ReadClosed(t) ==
    /\ At(t, "open?")
    /\ IF closed THEN Return(t) ELSE Go(t, "ffi?")
    /\ UNCHANGED <<libvars, sessvars, closed, process>>

\* `return _ffi, _lib`: the rest of the call works with this library.
GotFfi(t) ==
    Move(t,
          IF call[t].op = "close" THEN "call"
          ELSE IF facade = "async" THEN "callback" ELSE "snapshot",
          [call[t] EXCEPT !.lib = lib])

\* _get_ffi: the fork guard, then the test without the lock.
GetFfi(t) ==
    /\ At(t, "ffi?")
    /\ IF forkedAfterLoad THEN Return(t) ELSE IF ffi THEN GotFfi(t) ELSE Go(t, "wait ffi")
    /\ UNCHANGED <<libvars, sessvars, closed, process>>

\* `with _ffi_lock`, and the second test.
LockFfi(t) ==
    /\ At(t, "wait ffi")
    /\ ffiLock = Nobody
    /\ IF ffi THEN GotFfi(t) /\ UNCHANGED ffiLock
       ELSE Go(t, "load") /\ ffiLock' = t
    /\ UNCHANGED <<ffi, lib, abi, forkedAfterLoad, runtime, callback, sessvars, closed,
                   process>>

\* _load_ffi and _find_library: dlopen starts the Go runtime.  A process
\* that has the library mapped already gets the same one again.
LoadFfi(t) ==
    /\ At(t, "load")
    /\ runtime' = IF runtime = "none" THEN "alive" ELSE runtime
    /\ Go(t, "dlopened")
    /\ UNCHANGED <<ffi, lib, abi, ffiLock, forkedAfterLoad, callback, sessvars, closed,
                   process>>

\* Mutant: acquire() and release() without a finally.
LoadFailsLocked(t) ==
    /\ At(t, "load")
    /\ Return(t)
    /\ UNCHANGED <<libvars, sessvars, closed, process>>

\* No library, no cffi, or one that does not load: the exception leaves the
\* lock.
LoadFails(t) ==
    /\ At(t, "load")
    /\ ffiLock' = Nobody
    /\ Return(t)
    /\ UNCHANGED <<ffi, lib, abi, forkedAfterLoad, runtime, callback, sessvars, closed,
                   process>>

\* `_ffi, _lib = ...`: two stores.
StoreFfi(t) ==
    /\ At(t, "dlopened")
    /\ ffi' = TRUE
    /\ Go(t, "ffi stored")
    /\ UNCHANGED <<lib, abi, ffiLock, forkedAfterLoad, runtime, callback, sessvars, closed,
                   process>>
StoreLib(t) ==
    /\ At(t, "ffi stored")
    /\ lib' = TRUE
    /\ Go(t, "lib stored")
    /\ UNCHANGED <<ffi, abi, ffiLock, forkedAfterLoad, runtime, callback, sessvars, closed,
                   process>>

\* GetAbiVersion(), then the lock is left.  On a dead runtime the call never
\* returns.
ReadAbi(t) ==
    /\ At(t, "lib stored")
    /\ runtime = "alive"
    /\ abi' = LibraryAbi
    /\ ffiLock' = Nobody
    /\ GotFfi(t)
    /\ UNCHANGED <<ffi, lib, forkedAfterLoad, runtime, callback, sessvars, closed, process>>

\* _get_async_callback: one callback for the process, made by the first
\* asynchronous request with the library that request was given.
GetAsyncCallback(t) ==
    /\ At(t, "callback")
    /\ callback' = IF callback # "none" THEN callback
                   ELSE IF call[t].lib THEN "bound" ELSE "broken"
    /\ Go(t, "snapshot")
    /\ UNCHANGED <<ffi, lib, abi, ffiLock, forkedAfterLoad, runtime, sessvars, closed,
                   process>>

(* ----------------------------- the request ----------------------------- *)
\* _require_abi2 and _degrade_abi3_fields read _abi_version.
Gates(t) ==
    /\ At(t, "gates")
    /\ Move(t, "pair", [call[t] EXCEPT !.gate = abi])
    /\ UNCHANGED <<libvars, sessvars, closed, process>>

\* The identifier of the request, the block that goes with it if it is not
\* the session's (`own`), and the session's block otherwise.
Asked(t) == IF call[t].arg = None THEN call[t].snap.identifier ELSE call[t].arg
Wire(t, own) ==
    [call[t] EXCEPT !.wire = <<Asked(t), IF own # Asked(t) THEN Profile(Asked(t))
                                         ELSE call[t].snap.headers>>]

\* Mutant: Session, too, compares with the live identifier.
PairLive(t) ==
    /\ At(t, "pair")
    /\ IF customized THEN Move(t, "call", Wire(t, Asked(t))) ELSE Go(t, "compare")
    /\ UNCHANGED <<libvars, sessvars, closed, process>>

\* The flag is read without the lock, after the snapshot.  Session compares
\* the identifier with the snapshot's, AsyncSession goes back to the dict.
Pair(t) ==
    /\ At(t, "pair")
    /\ IF customized THEN Move(t, "call", Wire(t, Asked(t)))
       ELSE IF facade = "async" THEN Go(t, "compare")
       ELSE Move(t, "call", Wire(t, call[t].snap.identifier))
    /\ UNCHANGED <<libvars, sessvars, closed, process>>
PairAsync(t) ==
    /\ At(t, "compare")
    /\ Move(t, "call", Wire(t, identifier))
    /\ UNCHANGED <<libvars, sessvars, closed, process>>

\* ExecuteRequest, RequestAsync with its reply, or ClearClientPool.  A library
\* that was None raises; a dead runtime never returns; a callback without a
\* library pops the entry, cancels its timer and then raises, which leaves
\* the future unsettled.
CallEngine(t) ==
    /\ At(t, "call")
    /\ call[t].lib =>
          /\ runtime = "alive"
          /\ facade = "async" /\ call[t].op = "request" => callback = "bound"
    /\ Return(t)
    /\ UNCHANGED <<libvars, sessvars, closed, process>>

(* -------------------------------- fork --------------------------------- *)
\* What a child process is: only t lives on, the Go runtime has lost its
\* threads, the lock of the Session is inherited as it is.
Forked(t) ==
    /\ At(t, "idle") /\ ~child
    /\ child' = TRUE
    /\ torn' = (runtime # "none" /\ ~lib)
    /\ pc' = [u \in Threads |-> IF u = t THEN "idle" ELSE "gone"]
    /\ call' = [u \in Threads |-> NoCall]
    /\ runtime' = IF runtime = "none" THEN "none" ELSE "dead"
    /\ UNCHANGED <<lib, abi, sessvars, closed, ops>>

\* _after_fork_in_child: the guard.
Guard == IF lib THEN forkedAfterLoad' = TRUE /\ UNCHANGED ffi
         ELSE forkedAfterLoad' = FALSE /\ ffi' = FALSE

\* Mutant: _ffi_lock is inherited.
ForkKeepsLock(t) == Forked(t) /\ Guard /\ callback' = "none" /\ UNCHANGED ffiLock

\* Mutant: the guard is not armed.
ForkUnguarded(t) ==
    /\ Forked(t)
    /\ ffi' = (lib /\ ffi) /\ ffiLock' = Nobody /\ callback' = "none"
    /\ UNCHANGED forkedAfterLoad

\* os.fork() in thread t, followed in the child: _after_fork_in_child arms
\* the guard, replaces the module's locks and drops the callback.
Fork(t) == Forked(t) /\ Guard /\ ffiLock' = Nobody /\ callback' = "none"

Init ==
    /\ ffi = FALSE /\ lib = FALSE /\ abi = 1 /\ ffiLock = Nobody
    /\ forkedAfterLoad = FALSE /\ runtime = "none" /\ callback = "none"
    /\ facade \in {"sync", "async"}
    /\ identifier = Default /\ headers = Profile(Default)
    /\ customized = FALSE /\ version = 0 /\ cache = None /\ defaultsLock = Nobody
    /\ closed = FALSE
    /\ pc = [t \in Threads |-> "idle"]
    /\ call = [t \in Threads |-> NoCall]
    /\ child = FALSE /\ torn = FALSE
    /\ ops = 0

\* The steps of a call under way.
Step(t) ==
    \/ LockDefaults(t) \/ ReadIdentifier(t) \/ SetIdentifier(t) \/ FlagHeaders(t)
    \/ SetHeaders(t) \/ TakeSnapshot(t) \/ ReadClosed(t) \/ GetFfi(t) \/ LockFfi(t)
    \/ LoadFfi(t) \/ LoadFails(t) \/ StoreFfi(t) \/ StoreLib(t) \/ ReadAbi(t)
    \/ GetAsyncCallback(t) \/ Gates(t) \/ Pair(t) \/ PairAsync(t) \/ CallEngine(t)

Next ==
    \E t \in Threads :
        \/ \E v \in Identifiers \cup {None} : RequestBegins(t, v)
        \/ \E v \in Identifiers :
              SetterBegins(t, "identifier", v) \/ SetterBegins(t, "apply", v)
        \/ SetterBegins(t, "headers", Own)
        \/ CloseBegins(t)
        \/ Step(t)
        \/ Fork(t)

\* The GIL gives every runnable thread its turn and a native call returns.
Spec == Init /\ [][Next]_vars /\ \A t \in Threads : WF_vars(Step(t))

(* ---------------------------- correctness ------------------------------ *)
Loading == {"load", "dlopened", "ffi stored", "lib stored"}
Labels ==
    {"idle", "gone", "open?", "flag", "ffi?", "wait ffi", "callback", "gates", "pair",
     "compare", "call"}
    \cup Loading \cup Locked \cup DOMAIN Wants

Blocks == Identifiers \cup {Own}
Snapshots == [version : Nat, identifier : Identifiers, headers : Blocks]

\* The types; and each lock is held by the thread that is under it, which a
\* fork may have taken out of the process.
TypeOK ==
    /\ ffi \in BOOLEAN /\ lib \in BOOLEAN /\ abi \in {1, LibraryAbi}
    /\ forkedAfterLoad \in BOOLEAN /\ runtime \in {"none", "alive", "dead"}
    /\ callback \in {"none", "bound", "broken"} /\ facade \in {"sync", "async"}
    /\ identifier \in Identifiers /\ headers \in Blocks
    /\ customized \in BOOLEAN /\ version \in Nat /\ closed \in BOOLEAN
    /\ cache = None \/ cache \in Snapshots
    /\ pc \in [Threads -> Labels]
    /\ \A t \in Threads : pc[t] \in {"idle", "gone"} <=> call[t] = NoCall
    /\ \A t \in Requesting : pc[t] \in {"gates", "pair", "compare", "call"}
                               => call[t].snap \in Snapshots
    /\ \A t \in Requesting : At(t, "call") => call[t].wire \in Identifiers \X Blocks
    /\ \A t \in Threads : pc[t] \in Locked => defaultsLock = t
    /\ \A t \in Threads : pc[t] \in Loading => ffiLock = t
    /\ defaultsLock # Nobody => pc[defaultsLock] \in Locked \cup {"gone"}
    /\ ffiLock # Nobody => pc[ffiLock] \in Loading

\* A request works on options that were the session's at one moment of the
\* call, both keys of the same moment: whatever setters and other requests
\* did with the version and the cached snapshot, it is neither older than
\* the call nor a mixture.
FreshSnapshot ==
    \A t \in Requesting :
        pc[t] \in {"gates", "pair", "compare", "call"} =>
            <<call[t].snap.identifier, call[t].snap.headers>> \in call[t].seen

\* As long as nobody manages the headers, a request goes out with the header
\* block of the TLS profile it uses, also when other threads change the
\* identifier under it.  Only a request that overlaps a change of the headers
\* (the flag is set before the block), and one of an AsyncSession that
\* overlaps a change of the identifier, may mix the two.
PairedHeaders ==
    \A t \in Requesting :
        At(t, "call") =>
            \/ call[t].wire[2] = Profile(call[t].wire[1])
            \/ call[t].customized \/ call[t].managed
            \/ facade = "async" /\ Cardinality({pair[1] : pair \in call[t].seen}) > 1

\* Native calls are made into a library that is there, of the ABI the gates
\* assumed, in the process that started its runtime.  Two windows are left:
\* calls that overlap the load may see no library or ABI 1, and a fork
\* between dlopen and the store of _lib leaves the guard unarmed.
CallsSound ==
    \A t \in Threads :
        /\ At(t, "lib stored") \/ (At(t, "call") /\ call[t].lib) => runtime = "alive" \/ torn
        /\ At(t, "call") /\ call[t].loaded =>
              call[t].lib /\ (call[t].op = "request" => call[t].gate = LibraryAbi)

\* What can hold a thread for ever: in a forked child, the dead runtime after
\* a torn load and the Session's lock, which is not renewed; anywhere, a
\* callback that was made while the library was being stored.
Stuck ==
    \/ torn
    \/ defaultsLock # Nobody /\ At(defaultsLock, "gone")
    \/ callback = "broken"

\* Every call on the session ends, in the process and in a forked child,
\* whatever threads and locks the fork left behind, apart from Stuck.
OperationsEnd ==
    \A t \in Threads :
        pc[t] \notin {"idle", "gone"} ~> (pc[t] \in {"idle", "gone"} \/ Stuck)
=============================================================================
