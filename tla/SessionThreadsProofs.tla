------------------------ MODULE SessionThreadsProofs ------------------------
(***************************************************************************)
(* Proofs about SessionThreads for any number of threads, identifiers and  *)
(* calls.  The properties rest on three arguments: the cached snapshot is  *)
(* always the live pair; the flag of the headers is set before any block   *)
(* that does not fit the identifier, and every request that overlaps the   *)
(* setter knows it; and the library, once stored and its lock left, stays  *)
(* usable for every call that passes the fork guard.                       *)
(***************************************************************************)
EXTENDS SessionThreads, FiniteSetTheorems, TLAPS

Ops == {"request", "identifier", "headers", "apply", "close"}
Pairs == Identifiers \X Blocks
Calls == [op : Ops, arg : Identifiers \cup {None, Own}, lib : BOOLEAN,
          snap : Snapshots \cup {None}, gate : {0, 1, LibraryAbi},
          wire : Pairs \cup {None}, loaded : BOOLEAN, customized : BOOLEAN,
          seen : SUBSET Pairs, managed : BOOLEAN]

\* The stretch of a call that works with a library it has been given, and
\* the part of it that follows the snapshot of a request.
Sends == {"gates", "pair", "compare", "call"}
HasLibrary == {"callback", "snapshot", "taking snapshot"} \cup Sends

\* The types of the module state, of Session and of the locals; a setter is
\* on the labels of its kind.
LibTypes ==
    /\ ffi \in BOOLEAN /\ lib \in BOOLEAN /\ abi \in {1, LibraryAbi}
    /\ forkedAfterLoad \in BOOLEAN /\ runtime \in {"none", "alive", "dead"}
    /\ callback \in {"none", "bound", "broken"}
    /\ child \in BOOLEAN /\ torn \in BOOLEAN
SessTypes ==
    /\ facade \in {"sync", "async"} /\ identifier \in Identifiers /\ headers \in Blocks
    /\ customized \in BOOLEAN /\ version \in Nat /\ closed \in BOOLEAN
CallOn(l, c) ==
    \/ l \in {"idle", "gone"} /\ c = NoCall
    \/ /\ l \notin {"idle", "gone"} /\ c \in Calls
       /\ l \in {"set identifier", "setting identifier"} => c.op \in {"identifier", "apply"}
       /\ l \in {"flag", "set headers", "setting headers"} => c.op \in {"headers", "apply"}
       /\ l \in {"ffi?", "wait ffi", "call"} \cup Loading => c.op \in {"request", "close"}
       /\ l \in {"read identifier", "reading identifier", "open?"} \cup (HasLibrary \ {"call"})
             => c.op = "request"
       /\ c.op = "request" => c.arg \in Identifiers \cup {None}
       /\ c.op \in {"identifier", "apply"} => c.arg \in Identifiers
       /\ c.op = "request" /\ l \in Sends => c.snap \in Snapshots
       /\ c.op = "request" /\ l = "call" => c.wire \in Pairs
Places == pc \in [Threads -> Labels] /\ call = [t \in Threads |-> call[t]]
Routed == \A t \in Threads : CallOn(pc[t], call[t])

\* A lock is held by the thread under it and by nobody else.
Locks ==
    /\ defaultsLock \in Threads \cup {Nobody} /\ ffiLock \in Threads \cup {Nobody}
    /\ \A t \in Threads : pc[t] \in Locked => defaultsLock = t
    /\ \A t \in Threads : pc[t] \in Loading => ffiLock = t
    /\ defaultsLock # Nobody => pc[defaultsLock] \in Locked \cup {"gone"}
    /\ ffiLock # Nobody => pc[ffiLock] \in Loading

\* The cached snapshot is the pair in Session.defaults, since every setter
\* drops it; a call has seen that pair and the one in its own snapshot.
CacheCurrent ==
    cache = None
    \/ cache = [version |-> version, identifier |-> identifier, headers |-> headers]
Witnessed ==
    \A t \in Threads :
        call[t] # NoCall =>
            /\ IsFiniteSet(call[t].seen)
            /\ <<identifier, headers>> \in call[t].seen
            /\ call[t].op = "request" /\ pc[t] \in Sends =>
                  <<call[t].snap.identifier, call[t].snap.headers>> \in call[t].seen

\* Only AsyncSession goes back to the dict.
AsyncCompares == \A t \in Threads : pc[t] = "compare" => facade = "async"

\* Until the flag is set the headers are those of the identifier.  It is set
\* before the block is stored, and every request that overlaps the setter
\* is marked.
FlagFirst ==
    /\ ~customized => headers = Profile(identifier)
    /\ \A t \in Threads : pc[t] \in {"set headers", "setting headers"} => customized
Marked ==
    /\ \A t, u \in Threads :
          call[t].op \in {"headers", "apply"} /\ call[u].op = "request" => call[u].managed
    /\ \A t \in Threads :
          call[t].op = "request" /\ customized => call[t].customized \/ call[t].managed

\* What an unmarked request carries, from the snapshot on.
Unmanaged(t) == ~call[t].customized /\ ~call[t].managed
Fits ==
    \A t \in Threads :
        call[t].op = "request" /\ Unmanaged(t) =>
            /\ pc[t] \in Sends => call[t].snap.headers = Profile(call[t].snap.identifier)
            /\ pc[t] = "call" =>
                  \/ call[t].wire[2] = Profile(call[t].wire[1])
                  \/ facade = "async" /\ \E p, q \in call[t].seen : p[1] # q[1]

\* The order of the stores of a load, under _ffi_lock.
LoadOrder ==
    /\ lib => ffi /\ runtime # "none"
    /\ \A t \in Threads :
          /\ pc[t] \in {"load", "dlopened"} => ~ffi
          /\ pc[t] \in {"dlopened", "ffi stored", "lib stored"} => runtime # "none"
          /\ pc[t] \in {"ffi stored", "lib stored"} => ffi
          /\ pc[t] = "lib stored" => lib

\* A dead runtime is behind the fork guard, or its fork tore a load.
Guarded ==
    /\ forkedAfterLoad => child /\ lib
    /\ forkedAfterLoad => \A t \in Threads : pc[t] \notin {"wait ffi"} \cup Loading \cup HasLibrary
    /\ runtime = "dead" => torn \/ forkedAfterLoad

\* Once the lock of the load is left the library is complete, and what a
\* call found or took of it stays true.
Published == lib /\ ffiLock = Nobody => forkedAfterLoad \/ abi = LibraryAbi
Complete ==
    \A t \in Threads :
        call[t] # NoCall =>
            /\ call[t].lib => runtime # "none"
            /\ call[t].loaded => lib /\ (forkedAfterLoad \/ abi = LibraryAbi)
            /\ call[t].loaded /\ pc[t] \in HasLibrary => call[t].lib
            /\ call[t].loaded /\ call[t].op = "request" /\ pc[t] \in Sends \ {"gates"}
                  => call[t].gate = LibraryAbi

LibInv == LibTypes /\ Locks /\ LoadOrder /\ Guarded /\ Published
SessInv == SessTypes /\ CacheCurrent /\ AsyncCompares /\ FlagFirst
CallInv == Routed /\ Witnessed /\ Marked /\ Fits /\ Complete
IInv == Places /\ LibInv /\ SessInv /\ CallInv

USE ThreadAssumptions

-----------------------------------------------------------------------------
(* The library and the locks.                                              *)

\* The steps with alternatives, one disjunct per branch.
LEMMA Branches ==
    ASSUME NEW t \in Threads
    PROVE  /\ ReadClosed(t) =>
                 /\ At(t, "open?")
                 /\ UNCHANGED <<libvars, sessvars, closed, process>>
                 /\ \/ Return(t)
                    \/ Go(t, "ffi?")
           /\ GetFfi(t) =>
                 /\ At(t, "ffi?")
                 /\ UNCHANGED <<libvars, sessvars, closed, process>>
                 /\ \/ Return(t)
                    \/ ~forkedAfterLoad /\ ffi /\ GotFfi(t)
                    \/ ~forkedAfterLoad /\ ~ffi /\ Go(t, "wait ffi")
           /\ LockFfi(t) =>
                 /\ At(t, "wait ffi") /\ ffiLock = Nobody
                 /\ UNCHANGED <<ffi, lib, abi, forkedAfterLoad, runtime, callback, sessvars,
                                closed, process>>
                 /\ \/ ffi /\ GotFfi(t) /\ UNCHANGED ffiLock
                    \/ ~ffi /\ Go(t, "load") /\ ffiLock' = t
           /\ Pair(t) =>
                 /\ At(t, "pair")
                 /\ UNCHANGED <<libvars, sessvars, closed, process>>
                 /\ \/ customized /\ Move(t, "call", Wire(t, Asked(t)))
                    \/ ~customized /\ facade = "async" /\ Go(t, "compare")
                    \/ ~customized /\ Move(t, "call", Wire(t, call[t].snap.identifier))
<1>1. ReadClosed(t) =>
        /\ At(t, "open?")
        /\ UNCHANGED <<libvars, sessvars, closed, process>>
        /\ \/ Return(t)
           \/ Go(t, "ffi?")
  BY Zenon DEF ReadClosed
<1>2. GetFfi(t) =>
        /\ At(t, "ffi?")
        /\ UNCHANGED <<libvars, sessvars, closed, process>>
        /\ \/ Return(t)
           \/ ~forkedAfterLoad /\ ffi /\ GotFfi(t)
           \/ ~forkedAfterLoad /\ ~ffi /\ Go(t, "wait ffi")
  BY Zenon DEF GetFfi
<1>3. LockFfi(t) =>
        /\ At(t, "wait ffi") /\ ffiLock = Nobody
        /\ UNCHANGED <<ffi, lib, abi, forkedAfterLoad, runtime, callback, sessvars,
                       closed, process>>
        /\ \/ ffi /\ GotFfi(t) /\ UNCHANGED ffiLock
           \/ ~ffi /\ Go(t, "load") /\ ffiLock' = t
  BY Zenon DEF LockFfi
<1>4. Pair(t) =>
        /\ At(t, "pair")
        /\ UNCHANGED <<libvars, sessvars, closed, process>>
        /\ \/ customized /\ Move(t, "call", Wire(t, Asked(t)))
           \/ ~customized /\ facade = "async" /\ Go(t, "compare")
           \/ ~customized /\ Move(t, "call", Wire(t, call[t].snap.identifier))
  BY Zenon DEF Pair
<1>5. QED
  BY <1>1, <1>2, <1>3, <1>4

\* A step of t outside the load and the locks: it leaves the library as it
\* is, and comes to a place behind the fork guard through that guard only.
Behind == {"wait ffi"} \cup HasLibrary
Quiet(t) ==
    /\ UNCHANGED <<ffi, lib, abi, ffiLock, forkedAfterLoad, runtime, child, torn>>
    /\ UNCHANGED defaultsLock
    /\ callback' = callback \/ callback' \in {"bound", "broken"}
    /\ call' = [u \in Threads |-> call'[u]]
    /\ pc[t] \notin Loading \cup Locked \cup {"gone"}
    /\ pc' = [pc EXCEPT ![t] = pc'[t]]
    /\ pc'[t] \in Labels \ (Loading \cup Locked)
    /\ pc'[t] \in Behind => pc[t] \in Behind \/ ~forkedAfterLoad

\* Such a step keeps what the invariant says of places, locks and library.
LEMMA QuietStep ==
    ASSUME Places, LibInv, NEW t \in Threads, Quiet(t)
    PROVE  (Places /\ LibInv)'
<1>1. Places'
  BY DEF Quiet, Places
<1>2. /\ pc[t] \notin Loading \cup Locked \cup {"gone"} /\ pc'[t] \notin Loading \cup Locked
      /\ \A u \in Threads \ {t} : pc'[u] = pc[u]
  BY DEF Quiet, Places
<1>3. LibTypes'
  BY DEF Quiet, LibInv, LibTypes
<1>4. Locks'
  <2>1. Locks /\ UNCHANGED <<ffiLock, defaultsLock>>
    BY DEF Quiet, LibInv
  <2>2. ASSUME NEW u \in Threads
        PROVE  /\ pc'[u] \in Locked => defaultsLock = u
               /\ pc'[u] \in Loading => ffiLock = u
    BY <1>2, <2>1 DEF Locks
  <2>3. defaultsLock # Nobody => pc'[defaultsLock] \in Locked \cup {"gone"}
    BY <1>2, <2>1 DEF Locks
  <2>4. ffiLock # Nobody => pc'[ffiLock] \in Loading
    BY <1>2, <2>1 DEF Locks
  <2>5. QED
    BY <2>1, <2>2, <2>3, <2>4 DEF Locks
<1>5. LoadOrder'
  BY <1>2 DEF Quiet, LibInv, LoadOrder, Loading
<1>6. Guarded'
  BY <1>2 DEF Quiet, LibInv, Guarded, Behind
<1>7. Published'
  BY DEF Quiet, LibInv, Published
<1>8. QED
  BY <1>1, <1>3, <1>4, <1>5, <1>6, <1>7 DEF LibInv

\* No step of a thread, and no fork, breaks the order of a load: what is
\* stored, who holds which lock and who is behind the fork guard.
LEMMA LibStep == IInv /\ [Next]_vars => (Places /\ LibInv)'
<1> SUFFICES ASSUME IInv, [Next]_vars PROVE (Places /\ LibInv)'
  OBVIOUS
<1>0. Places /\ LibInv /\ LibTypes
  BY DEF IInv, LibInv
<1> USE DEF libvars, values, sessvars, process, Places, Labels, Wants, At, Loading,
           Locked, HasLibrary, Sends
<1> USE DEF Quiet, Behind
<1>1. ASSUME NEW t \in Threads, NEW v \in Identifiers \cup {None}, RequestBegins(t, v)
      PROVE  Quiet(t)
  BY <1>0, <1>1 DEF RequestBegins, Begin, NewCall
<1>2. ASSUME NEW t \in Threads, NEW what \in {"identifier", "headers", "apply"},
             NEW v, IF what = "headers" THEN v = Own ELSE v \in Identifiers,
             SetterBegins(t, what, v)
      PROVE  Quiet(t)
  BY <1>0, <1>2 DEF SetterBegins, Begin, NewCall
<1>3. ASSUME NEW t \in Threads, CloseBegins(t)
      PROVE  Quiet(t)
  BY <1>0, <1>3 DEF CloseBegins, Begin, NewCall
<1>4. ASSUME NEW t \in Threads, FlagHeaders(t)
      PROVE  Quiet(t)
  BY <1>0, <1>4 DEF FlagHeaders, Go, Move
<1>5. ASSUME NEW t \in Threads, ReadClosed(t)
      PROVE  Quiet(t)
  <2>1. /\ At(t, "open?")
        /\ UNCHANGED <<libvars, sessvars, closed, process>>
        /\ \/ Return(t)
           \/ Go(t, "ffi?")
    BY <1>5, Branches
  <2>2. CASE Return(t)
    BY <1>0, <2>1, <2>2 DEF Return, Move
  <2>3. CASE Go(t, "ffi?")
    BY <1>0, <2>1, <2>3 DEF Go, Move
  <2>4. QED
    BY <2>1, <2>2, <2>3
<1>6. ASSUME NEW t \in Threads, GetFfi(t)
      PROVE  Quiet(t)
  <2>1. /\ At(t, "ffi?")
        /\ UNCHANGED <<libvars, sessvars, closed, process>>
        /\ \/ Return(t)
           \/ ~forkedAfterLoad /\ ffi /\ GotFfi(t)
           \/ ~forkedAfterLoad /\ ~ffi /\ Go(t, "wait ffi")
    BY <1>6, Branches
  <2>2. CASE Return(t)
    BY <1>0, <2>1, <2>2 DEF Return, Move
  <2>3. CASE ~forkedAfterLoad /\ ffi /\ GotFfi(t)
    BY <1>0, <2>1, <2>3 DEF GotFfi, Move
  <2>4. CASE ~forkedAfterLoad /\ ~ffi /\ Go(t, "wait ffi")
    BY <1>0, <2>1, <2>4 DEF Go, Move
  <2>5. QED
    BY <2>1, <2>2, <2>3, <2>4
<1>7. ASSUME NEW t \in Threads, GetAsyncCallback(t)
      PROVE  Quiet(t)
  BY <1>0, <1>7 DEF GetAsyncCallback, Go, Move
<1>8. ASSUME NEW t \in Threads, Gates(t)
      PROVE  Quiet(t)
  BY <1>0, <1>8 DEF Gates, Move
<1>9. ASSUME NEW t \in Threads, Pair(t)
      PROVE  Quiet(t)
  <2>1. /\ At(t, "pair")
        /\ UNCHANGED <<libvars, sessvars, closed, process>>
        /\ \/ customized /\ Move(t, "call", Wire(t, Asked(t)))
           \/ ~customized /\ facade = "async" /\ Go(t, "compare")
           \/ ~customized /\ Move(t, "call", Wire(t, call[t].snap.identifier))
    BY <1>9, Branches
  <2>2. CASE customized /\ Move(t, "call", Wire(t, Asked(t)))
    BY <1>0, <2>1, <2>2 DEF Wire, Asked, Move
  <2>3. CASE ~customized /\ facade = "async" /\ Go(t, "compare")
    BY <1>0, <2>1, <2>3 DEF Go, Move
  <2>4. CASE ~customized /\ Move(t, "call", Wire(t, call[t].snap.identifier))
    BY <1>0, <2>1, <2>4 DEF Wire, Asked, Move
  <2>5. QED
    BY <2>1, <2>2, <2>3, <2>4
<1>10. ASSUME NEW t \in Threads, PairAsync(t)
      PROVE  Quiet(t)
  BY <1>0, <1>10 DEF PairAsync, Wire, Asked, Move
<1>11. ASSUME NEW t \in Threads, CallEngine(t)
      PROVE  Quiet(t)
  BY <1>0, <1>11 DEF CallEngine, Return, Move
<1> USE DEF LibInv, LibTypes, Locks, LoadOrder, Guarded, Published
<1>12. ASSUME NEW t \in Threads, LockDefaults(t)
      PROVE  (Places /\ LibInv)'
  BY <1>0, <1>12 DEF LockDefaults, Wants, Go, Move
<1>13. ASSUME NEW t \in Threads, ReadIdentifier(t)
      PROVE  (Places /\ LibInv)'
  BY <1>0, <1>13 DEF ReadIdentifier, Go, Move
<1>14. ASSUME NEW t \in Threads, SetIdentifier(t)
      PROVE  (Places /\ LibInv)'
  BY <1>0, <1>14 DEF SetIdentifier, Written
<1>15. ASSUME NEW t \in Threads, SetHeaders(t)
      PROVE  (Places /\ LibInv)'
  BY <1>0, <1>15 DEF SetHeaders, Written, NewBlock
<1>16. ASSUME NEW t \in Threads, TakeSnapshot(t)
      PROVE  (Places /\ LibInv)'
  BY <1>0, <1>16 DEF TakeSnapshot, Move
<1>17. ASSUME NEW t \in Threads, LockFfi(t)
      PROVE  (Places /\ LibInv)'
  <2>1. /\ At(t, "wait ffi") /\ ffiLock = Nobody
        /\ UNCHANGED <<ffi, lib, abi, forkedAfterLoad, runtime, callback, sessvars,
                       closed, process>>
        /\ \/ ffi /\ GotFfi(t) /\ UNCHANGED ffiLock
           \/ ~ffi /\ Go(t, "load") /\ ffiLock' = t
    BY <1>17, Branches
  <2>2. CASE ffi /\ GotFfi(t) /\ UNCHANGED ffiLock
    BY <1>0, <2>1, <2>2 DEF GotFfi, Move
  <2>3. CASE ~ffi /\ Go(t, "load") /\ ffiLock' = t
    BY <1>0, <2>1, <2>3 DEF Go, Move
  <2>4. QED
    BY <2>1, <2>2, <2>3
<1>18. ASSUME NEW t \in Threads, LoadFfi(t)
      PROVE  (Places /\ LibInv)'
  BY <1>0, <1>18 DEF LoadFfi, Go, Move
<1>19. ASSUME NEW t \in Threads, LoadFails(t)
      PROVE  (Places /\ LibInv)'
  BY <1>0, <1>19 DEF LoadFails, Return, Move
<1>20. ASSUME NEW t \in Threads, StoreFfi(t)
      PROVE  (Places /\ LibInv)'
  BY <1>0, <1>20 DEF StoreFfi, Go, Move
<1>21. ASSUME NEW t \in Threads, StoreLib(t)
      PROVE  (Places /\ LibInv)'
  BY <1>0, <1>21 DEF StoreLib, Go, Move
<1>22. ASSUME NEW t \in Threads, ReadAbi(t)
      PROVE  (Places /\ LibInv)'
  BY <1>0, <1>22 DEF ReadAbi, GotFfi, Move
<1>23. ASSUME NEW t \in Threads, Fork(t)
      PROVE  (Places /\ LibInv)'
  BY <1>0, <1>23 DEF Fork, Forked, Guard
<1>24. CASE UNCHANGED vars
  <2>1. Places' /\ LibTypes' /\ LoadOrder' /\ Published'
    BY <1>0, <1>24 DEF vars
  <2>2. Locks' /\ Guarded'
    BY <1>0, <1>24 DEF vars
  <2>3. QED
    BY <2>1, <2>2
<1>25. QED
  BY <1>0, <1>1, <1>2, <1>3, <1>4, <1>5, <1>6, <1>7, <1>8, <1>9, <1>10, <1>11,
     <1>12, <1>13, <1>14, <1>15, <1>16, <1>17, <1>18, <1>19, <1>20, <1>21, <1>22,
     <1>23, <1>24, QuietStep DEF Next, Step

-----------------------------------------------------------------------------
(* What the steps do to Session and to the module state as a whole.        *)

\* The facade never changes; the mark of close() and the flag of the headers
\* are never taken back, and the flag is set by a setter; Session.defaults is
\* written by two steps only.  What is loaded stays loaded, what was read of
\* the library stays read, and the fork guard stays armed.
Framed ==
    /\ facade' = facade /\ (closed' = closed \/ closed' = TRUE)
    /\ \/ UNCHANGED <<identifier, headers, version>>
       \/ \E t \in Threads : SetIdentifier(t) \/ SetHeaders(t)
    /\ \/ customized' = customized
       \/ customized' = TRUE /\ \E t \in Threads : pc[t] = "flag"
    /\ lib => lib'
    /\ runtime # "none" => runtime' # "none"
    /\ forkedAfterLoad => forkedAfterLoad'
    /\ abi = LibraryAbi => abi' = LibraryAbi

\* Every step keeps to that frame; every setter drops the cached snapshot;
\* only AsyncSession goes on to compare; and the flag is set before the block
\* is stored.
LEMMA SessStep ==
    ASSUME IInv, [Next]_vars
    PROVE  Framed /\ CacheCurrent' /\ AsyncCompares' /\ FlagFirst'
<1>0. Places /\ LibTypes /\ Guarded /\ CacheCurrent /\ AsyncCompares /\ FlagFirst
  BY DEF IInv, LibInv, SessInv
<1> USE DEF Framed, CacheCurrent, AsyncCompares, FlagFirst, Places, LibTypes, Guarded,
            libvars, values, sessvars, process, At, Loading, Locked, Profile
<1>1. ASSUME NEW t \in Threads, NEW v \in Identifiers \cup {None}, RequestBegins(t, v)
      PROVE  Framed /\ CacheCurrent' /\ AsyncCompares' /\ FlagFirst'
  BY <1>0, <1>1 DEF RequestBegins, Begin
<1>2. ASSUME NEW t \in Threads, NEW what \in {"identifier", "headers", "apply"},
             NEW v, IF what = "headers" THEN v = Own ELSE v \in Identifiers,
             SetterBegins(t, what, v)
      PROVE  Framed /\ CacheCurrent' /\ AsyncCompares' /\ FlagFirst'
  BY <1>0, <1>2 DEF SetterBegins, Begin
<1>3. ASSUME NEW t \in Threads, CloseBegins(t)
      PROVE  Framed /\ CacheCurrent' /\ AsyncCompares' /\ FlagFirst'
  BY <1>0, <1>3 DEF CloseBegins, Begin
<1>4. ASSUME NEW t \in Threads, LockDefaults(t)
      PROVE  Framed /\ CacheCurrent' /\ AsyncCompares' /\ FlagFirst'
  BY <1>0, <1>4 DEF LockDefaults, Wants, Go, Move
<1>5. ASSUME NEW t \in Threads, ReadIdentifier(t)
      PROVE  Framed /\ CacheCurrent' /\ AsyncCompares' /\ FlagFirst'
  BY <1>0, <1>5 DEF ReadIdentifier, Go, Move
<1>6. ASSUME NEW t \in Threads, SetIdentifier(t)
      PROVE  Framed /\ CacheCurrent' /\ AsyncCompares' /\ FlagFirst'
  BY <1>0, <1>6 DEF SetIdentifier, Written
<1>7. ASSUME NEW t \in Threads, FlagHeaders(t)
      PROVE  Framed /\ CacheCurrent' /\ AsyncCompares' /\ FlagFirst'
  BY <1>0, <1>7 DEF FlagHeaders, Go, Move
<1>8. ASSUME NEW t \in Threads, SetHeaders(t)
      PROVE  Framed /\ CacheCurrent' /\ AsyncCompares' /\ FlagFirst'
  BY <1>0, <1>8 DEF SetHeaders, Written, NewBlock
<1>9. ASSUME NEW t \in Threads, TakeSnapshot(t)
      PROVE  Framed /\ CacheCurrent' /\ AsyncCompares' /\ FlagFirst'
  BY <1>0, <1>9 DEF TakeSnapshot, Move
<1>10. ASSUME NEW t \in Threads, ReadClosed(t)
      PROVE  Framed /\ CacheCurrent' /\ AsyncCompares' /\ FlagFirst'
  <2>1. /\ At(t, "open?")
        /\ UNCHANGED <<libvars, sessvars, closed, process>>
        /\ \/ Return(t)
           \/ Go(t, "ffi?")
    BY <1>10, Branches
  <2>2. CASE Return(t)
    BY <1>0, <2>1, <2>2 DEF Return, Move
  <2>3. CASE Go(t, "ffi?")
    BY <1>0, <2>1, <2>3 DEF Go, Move
  <2>4. QED
    BY <2>1, <2>2, <2>3
<1>11. ASSUME NEW t \in Threads, GetFfi(t)
      PROVE  Framed /\ CacheCurrent' /\ AsyncCompares' /\ FlagFirst'
  <2>1. /\ At(t, "ffi?")
        /\ UNCHANGED <<libvars, sessvars, closed, process>>
        /\ \/ Return(t)
           \/ ~forkedAfterLoad /\ ffi /\ GotFfi(t)
           \/ ~forkedAfterLoad /\ ~ffi /\ Go(t, "wait ffi")
    BY <1>11, Branches
  <2>2. CASE Return(t)
    BY <1>0, <2>1, <2>2 DEF Return, Move
  <2>3. CASE ~forkedAfterLoad /\ ffi /\ GotFfi(t)
    BY <1>0, <2>1, <2>3 DEF GotFfi, Move
  <2>4. CASE ~forkedAfterLoad /\ ~ffi /\ Go(t, "wait ffi")
    BY <1>0, <2>1, <2>4 DEF Go, Move
  <2>5. QED
    BY <2>1, <2>2, <2>3, <2>4
<1>12. ASSUME NEW t \in Threads, LockFfi(t)
      PROVE  Framed /\ CacheCurrent' /\ AsyncCompares' /\ FlagFirst'
  <2>1. /\ At(t, "wait ffi") /\ ffiLock = Nobody
        /\ UNCHANGED <<ffi, lib, abi, forkedAfterLoad, runtime, callback, sessvars,
                       closed, process>>
        /\ \/ ffi /\ GotFfi(t) /\ UNCHANGED ffiLock
           \/ ~ffi /\ Go(t, "load") /\ ffiLock' = t
    BY <1>12, Branches
  <2>2. CASE ffi /\ GotFfi(t) /\ UNCHANGED ffiLock
    BY <1>0, <2>1, <2>2 DEF GotFfi, Move
  <2>3. CASE ~ffi /\ Go(t, "load") /\ ffiLock' = t
    BY <1>0, <2>1, <2>3 DEF Go, Move
  <2>4. QED
    BY <2>1, <2>2, <2>3
<1>13. ASSUME NEW t \in Threads, LoadFfi(t)
      PROVE  Framed /\ CacheCurrent' /\ AsyncCompares' /\ FlagFirst'
  BY <1>0, <1>13 DEF LoadFfi, Go, Move
<1>14. ASSUME NEW t \in Threads, LoadFails(t)
      PROVE  Framed /\ CacheCurrent' /\ AsyncCompares' /\ FlagFirst'
  BY <1>0, <1>14 DEF LoadFails, Return, Move
<1>15. ASSUME NEW t \in Threads, StoreFfi(t)
      PROVE  Framed /\ CacheCurrent' /\ AsyncCompares' /\ FlagFirst'
  BY <1>0, <1>15 DEF StoreFfi, Go, Move
<1>16. ASSUME NEW t \in Threads, StoreLib(t)
      PROVE  Framed /\ CacheCurrent' /\ AsyncCompares' /\ FlagFirst'
  BY <1>0, <1>16 DEF StoreLib, Go, Move
<1>17. ASSUME NEW t \in Threads, ReadAbi(t)
      PROVE  Framed /\ CacheCurrent' /\ AsyncCompares' /\ FlagFirst'
  BY <1>0, <1>17 DEF ReadAbi, GotFfi, Move
<1>18. ASSUME NEW t \in Threads, GetAsyncCallback(t)
      PROVE  Framed /\ CacheCurrent' /\ AsyncCompares' /\ FlagFirst'
  BY <1>0, <1>18 DEF GetAsyncCallback, Go, Move
<1>19. ASSUME NEW t \in Threads, Gates(t)
      PROVE  Framed /\ CacheCurrent' /\ AsyncCompares' /\ FlagFirst'
  BY <1>0, <1>19 DEF Gates, Move
<1>20. ASSUME NEW t \in Threads, Pair(t)
      PROVE  Framed /\ CacheCurrent' /\ AsyncCompares' /\ FlagFirst'
  <2>1. /\ At(t, "pair")
        /\ UNCHANGED <<libvars, sessvars, closed, process>>
        /\ \/ customized /\ Move(t, "call", Wire(t, Asked(t)))
           \/ ~customized /\ facade = "async" /\ Go(t, "compare")
           \/ ~customized /\ Move(t, "call", Wire(t, call[t].snap.identifier))
    BY <1>20, Branches
  <2>2. CASE customized /\ Move(t, "call", Wire(t, Asked(t)))
    BY <1>0, <2>1, <2>2 DEF Wire, Asked, Move
  <2>3. CASE ~customized /\ facade = "async" /\ Go(t, "compare")
    BY <1>0, <2>1, <2>3 DEF Go, Move
  <2>4. CASE ~customized /\ Move(t, "call", Wire(t, call[t].snap.identifier))
    BY <1>0, <2>1, <2>4 DEF Wire, Asked, Move
  <2>5. QED
    BY <2>1, <2>2, <2>3, <2>4
<1>21. ASSUME NEW t \in Threads, PairAsync(t)
      PROVE  Framed /\ CacheCurrent' /\ AsyncCompares' /\ FlagFirst'
  BY <1>0, <1>21 DEF PairAsync, Wire, Asked, Move
<1>22. ASSUME NEW t \in Threads, CallEngine(t)
      PROVE  Framed /\ CacheCurrent' /\ AsyncCompares' /\ FlagFirst'
  BY <1>0, <1>22 DEF CallEngine, Return, Move
<1>23. ASSUME NEW t \in Threads, Fork(t)
      PROVE  Framed /\ CacheCurrent' /\ AsyncCompares' /\ FlagFirst'
  BY <1>0, <1>23 DEF Fork, Forked, Guard
<1>24. CASE UNCHANGED vars
  BY <1>0, <1>24 DEF vars
<1>25. QED
  BY <1>1, <1>2, <1>3, <1>4, <1>5, <1>6, <1>7, <1>8, <1>9, <1>10, <1>11, <1>12,
     <1>13, <1>14, <1>15, <1>16, <1>17, <1>18, <1>19, <1>20, <1>21, <1>22, <1>23,
     <1>24 DEF Next, Step

-----------------------------------------------------------------------------
(* What one step does to the call of a thread u.                           *)

WithLib(c, b) == [c EXCEPT !.lib = b]
WithSnap(c, s) == [c EXCEPT !.snap = s]
WithGate(c, a) == [c EXCEPT !.gate = a]
WithWire(c, w) == [c EXCEPT !.wire = w]
WithSeen(c, p) == [c EXCEPT !.seen = @ \cup {p}]
WithMark(c) == [c EXCEPT !.managed = TRUE]

Stays(u) ==
    /\ pc'[u] = pc[u] /\ call'[u] = call[u]
    /\ call[u] = NoCall \/ UNCHANGED <<identifier, headers>>
Ends(u) == pc'[u] \in {"idle", "gone"} /\ call'[u] = NoCall
BeginsAt(u, what, v) ==
    /\ pc[u] = "idle" /\ UNCHANGED <<identifier, headers, customized>>
    /\ call'[u] = NewCall(what, v, Changing # {})
    /\ \A w \in Threads \ {u} :
          call'[w] = IF call[w].op = "request" /\ what \in {"headers", "apply"}
                     THEN WithMark(call[w]) ELSE call[w]
    /\ \/ what = "request" /\ v \in Identifiers \cup {None}
          /\ pc'[u] \in {"read identifier", "open?"}
       \/ what \in {"identifier", "apply"} /\ v \in Identifiers /\ pc'[u] = "set identifier"
       \/ what = "headers" /\ v = Own /\ pc'[u] = "flag"
       \/ what = "close" /\ v = None /\ pc'[u] = "ffi?"
IsMarked(u) ==
    /\ pc'[u] = pc[u] /\ UNCHANGED <<identifier, headers>>
    /\ call[u].op = "request" /\ call'[u] = WithMark(call[u])
Sees(u) ==
    /\ call[u] # NoCall /\ call'[u] = WithSeen(call[u], <<identifier', headers'>>)
    /\ \/ pc'[u] = pc[u]
       \/ pc[u] = "setting identifier" /\ call[u].op = "apply" /\ pc'[u] = "flag"
Walks(u) ==
    /\ call'[u] = call[u] /\ UNCHANGED <<identifier, headers>> /\ pc[u] \notin {"idle", "gone"}
    /\ \/ pc[u] = "set identifier" /\ pc'[u] = "setting identifier"
       \/ pc[u] = "flag" /\ pc'[u] = "set headers"
       \/ pc[u] = "set headers" /\ pc'[u] = "setting headers"
       \/ /\ pc[u] \in {"read identifier", "reading identifier"}
          /\ pc'[u] \in {"reading identifier", "open?"}
       \/ pc[u] = "open?" /\ pc'[u] = "ffi?"
       \/ /\ pc[u] \in {"ffi?", "wait ffi"} \cup Loading
          /\ pc'[u] \in {"wait ffi"} \cup Loading
       \/ pc[u] \in {"callback", "snapshot"} /\ pc'[u] \in {"snapshot", "taking snapshot"}
       \/ pc[u] = "pair" /\ pc'[u] = "compare"
GetsLibrary(u) ==
    /\ pc[u] \in {"ffi?", "wait ffi", "lib stored"} /\ UNCHANGED <<identifier, headers>>
    /\ call'[u] = WithLib(call[u], lib)
    /\ pc'[u] \in {"callback", "snapshot", "call"}
    /\ pc'[u] = "call" <=> call[u].op = "close"
Snaps(u) ==
    /\ pc[u] = "taking snapshot" /\ pc'[u] = "gates" /\ UNCHANGED <<identifier, headers>>
    /\ call'[u] = WithSnap(call[u], [version |-> version, identifier |-> identifier,
                                     headers |-> headers])
Gated(u) ==
    /\ pc[u] = "gates" /\ pc'[u] = "pair" /\ UNCHANGED <<identifier, headers>>
    /\ call'[u] = WithGate(call[u], abi)
Block(u, own) == IF own # Asked(u) THEN Profile(Asked(u)) ELSE call[u].snap.headers
Wires(u) ==
    /\ pc[u] \in {"pair", "compare"} /\ pc'[u] = "call" /\ UNCHANGED <<identifier, headers>>
    /\ \/ customized /\ call'[u] = WithWire(call[u], <<Asked(u), Block(u, Asked(u))>>)
       \/ call'[u] = WithWire(call[u], <<Asked(u), Block(u, call[u].snap.identifier)>>)
       \/ /\ pc[u] = "compare"
          /\ call'[u] = WithWire(call[u], <<Asked(u), Block(u, identifier)>>)
Fate(u) ==
    \/ Stays(u) \/ Ends(u) \/ IsMarked(u) \/ Sees(u) \/ Walks(u)
    \/ GetsLibrary(u) \/ Snaps(u) \/ Gated(u) \/ Wires(u)
    \/ \E what \in Ops, v \in Identifiers \cup {None, Own} : BeginsAt(u, what, v)

\* The return of _get_ffi, which three steps share.
LEMMA GotFfiFate ==
    ASSUME Places, NEW t \in Threads, NEW u \in Threads, GotFfi(t),
           pc[t] \in {"ffi?", "wait ffi", "lib stored"}, UNCHANGED <<identifier, headers>>
    PROVE  Fate(u)
<1>1. CASE u # t
  <2>1. Stays(u)
    BY <1>1 DEF Places, GotFfi, Move, Stays
  <2>2. QED
    BY <2>1 DEF Fate
<1>2. CASE u = t
  <2>1. call'[t] = WithLib(call[t], lib)
    BY DEF Places, GotFfi, Move, WithLib
  <2>2. pc'[t] = IF call[t].op = "close" THEN "call"
                 ELSE IF facade = "async" THEN "callback" ELSE "snapshot"
    BY DEF Places, GotFfi, Move
  <2>3. pc'[t] \in {"callback", "snapshot", "call"} /\ (pc'[t] = "call" <=> call[t].op = "close")
    BY <2>2
  <2>4. GetsLibrary(u)
    BY <1>2, <2>1, <2>3 DEF GetsLibrary
  <2>5. QED
    BY <2>4 DEF Fate
<1>3. QED
  BY <1>1, <1>2

\* Every step has one of these effects on every call.
LEMMA Fates == ASSUME IInv, [Next]_vars, NEW u \in Threads PROVE Fate(u)
<1>0. Places /\ CacheCurrent
  BY DEF IInv, SessInv
<1> USE DEF Fate, Places, libvars, values, sessvars, process, At
<1>1. ASSUME NEW t \in Threads, NEW v \in Identifiers \cup {None}, RequestBegins(t, v)
      PROVE  Fate(u)
  BY <1>0, <1>1 DEF RequestBegins, Begin, BeginsAt, IsMarked, WithMark,
     Stays, Requesting, Ops
<1>2. ASSUME NEW t \in Threads, NEW what \in {"identifier", "headers", "apply"},
             NEW v, IF what = "headers" THEN v = Own ELSE v \in Identifiers,
             SetterBegins(t, what, v)
      PROVE  Fate(u)
  BY <1>0, <1>2 DEF SetterBegins, Begin, BeginsAt, IsMarked, WithMark,
     Stays, Requesting, Ops
<1>3. ASSUME NEW t \in Threads, CloseBegins(t)
      PROVE  Fate(u)
  BY <1>0, <1>3 DEF CloseBegins, Begin, BeginsAt, Stays, Ops
<1>4. ASSUME NEW t \in Threads, LockDefaults(t)
      PROVE  Fate(u)
  BY <1>0, <1>4 DEF LockDefaults, Wants, Go, Move, Walks, Stays, Loading
<1>5. ASSUME NEW t \in Threads, ReadIdentifier(t)
      PROVE  Fate(u)
  BY <1>0, <1>5 DEF ReadIdentifier, Go, Move, Walks, Stays, Loading
<1>6. ASSUME NEW t \in Threads, SetIdentifier(t)
      PROVE  Fate(u)
  <2>1. /\ pc[t] = "setting identifier"
        /\ pc' = [pc EXCEPT ![t] = IF call[t].op = "apply" THEN "flag" ELSE "idle"]
    BY <1>6 DEF SetIdentifier, Written
  <2>2. call'[u] = IF u \notin Busy \/ (u = t /\ call[t].op # "apply") THEN NoCall
                   ELSE WithSeen(call[u], <<identifier', headers'>>)
    BY <1>6 DEF SetIdentifier, Written, WithSeen
  <2>3. CASE u = t /\ call[t].op = "apply"
    <3>1. call[t] # NoCall
      BY <2>3 DEF NoCall
    <3>2. QED
      BY <1>0, <2>1, <2>2, <2>3, <3>1 DEF Sees, Busy
  <2>4. CASE u = t /\ call[t].op # "apply"
    BY <1>0, <2>1, <2>2, <2>4 DEF Ends
  <2>5. CASE u # t
    BY <1>0, <2>1, <2>2, <2>5 DEF Sees, Stays, Busy
  <2>6. QED
    BY <2>3, <2>4, <2>5
<1>7. ASSUME NEW t \in Threads, FlagHeaders(t)
      PROVE  Fate(u)
  BY <1>0, <1>7 DEF FlagHeaders, Go, Move, Walks, Stays, Loading
<1>8. ASSUME NEW t \in Threads, SetHeaders(t)
      PROVE  Fate(u)
  BY <1>0, <1>8 DEF SetHeaders, Written, NewBlock, Sees, Ends, Stays, Busy,
     WithSeen
<1>9. ASSUME NEW t \in Threads, TakeSnapshot(t)
      PROVE  Fate(u)
  BY <1>0, <1>9 DEF TakeSnapshot, Move, Snaps, WithSnap, CacheCurrent, Stays
<1>10. ASSUME NEW t \in Threads, ReadClosed(t)
      PROVE  Fate(u)
  <2>1. /\ At(t, "open?")
        /\ UNCHANGED <<libvars, sessvars, closed, process>>
        /\ \/ Return(t)
           \/ Go(t, "ffi?")
    BY <1>10, Branches
  <2>2. CASE Return(t)
    BY <1>0, <2>1, <2>2 DEF Return, Move, Ends, Walks, Stays
  <2>3. CASE Go(t, "ffi?")
    BY <1>0, <2>1, <2>3 DEF Go, Move, Ends, Walks, Stays
  <2>4. QED
    BY <2>1, <2>2, <2>3
<1>11. ASSUME NEW t \in Threads, GetFfi(t)
      PROVE  Fate(u)
  <2>1. /\ At(t, "ffi?")
        /\ UNCHANGED <<libvars, sessvars, closed, process>>
        /\ \/ Return(t)
           \/ ~forkedAfterLoad /\ ffi /\ GotFfi(t)
           \/ ~forkedAfterLoad /\ ~ffi /\ Go(t, "wait ffi")
    BY <1>11, Branches
  <2>2. CASE Return(t)
    BY <1>0, <2>1, <2>2 DEF Return, Move, Ends, Walks, Stays
  <2>3. CASE ~forkedAfterLoad /\ ffi /\ GotFfi(t)
    BY <1>0, <2>1, <2>3, GotFfiFate
  <2>4. CASE ~forkedAfterLoad /\ ~ffi /\ Go(t, "wait ffi")
    BY <1>0, <2>1, <2>4 DEF Go, Move, Ends, Walks, Stays
  <2>5. QED
    BY <2>1, <2>2, <2>3, <2>4
<1>12. ASSUME NEW t \in Threads, LockFfi(t)
      PROVE  Fate(u)
  <2>1. /\ At(t, "wait ffi") /\ ffiLock = Nobody
        /\ UNCHANGED <<ffi, lib, abi, forkedAfterLoad, runtime, callback, sessvars,
                       closed, process>>
        /\ \/ ffi /\ GotFfi(t) /\ UNCHANGED ffiLock
           \/ ~ffi /\ Go(t, "load") /\ ffiLock' = t
    BY <1>12, Branches
  <2>2. CASE ffi /\ GotFfi(t) /\ UNCHANGED ffiLock
    BY <1>0, <2>1, <2>2, GotFfiFate
  <2>3. CASE ~ffi /\ Go(t, "load") /\ ffiLock' = t
    BY <1>0, <2>1, <2>3 DEF Go, Move, Walks, Stays, Loading
  <2>4. QED
    BY <2>1, <2>2, <2>3
<1>13. ASSUME NEW t \in Threads, LoadFfi(t)
      PROVE  Fate(u)
  BY <1>0, <1>13 DEF LoadFfi, Go, Move, Walks, Stays, Loading
<1>14. ASSUME NEW t \in Threads, LoadFails(t)
      PROVE  Fate(u)
  BY <1>0, <1>14 DEF LoadFails, Return, Move, Ends, Stays
<1>15. ASSUME NEW t \in Threads, StoreFfi(t)
      PROVE  Fate(u)
  BY <1>0, <1>15 DEF StoreFfi, Go, Move, Walks, Stays, Loading
<1>16. ASSUME NEW t \in Threads, StoreLib(t)
      PROVE  Fate(u)
  BY <1>0, <1>16 DEF StoreLib, Go, Move, Walks, Stays, Loading
<1>17. ASSUME NEW t \in Threads, ReadAbi(t)
      PROVE  Fate(u)
  BY <1>0, <1>17, GotFfiFate DEF ReadAbi
<1>18. ASSUME NEW t \in Threads, GetAsyncCallback(t)
      PROVE  Fate(u)
  BY <1>0, <1>18 DEF GetAsyncCallback, Go, Move, Walks, Stays, Loading
<1>19. ASSUME NEW t \in Threads, Gates(t)
      PROVE  Fate(u)
  BY <1>0, <1>19 DEF Gates, Move, Gated, WithGate, Stays
<1>20. ASSUME NEW t \in Threads, Pair(t)
      PROVE  Fate(u)
  <2>1. /\ At(t, "pair")
        /\ UNCHANGED <<libvars, sessvars, closed, process>>
        /\ \/ customized /\ Move(t, "call", Wire(t, Asked(t)))
           \/ ~customized /\ facade = "async" /\ Go(t, "compare")
           \/ ~customized /\ Move(t, "call", Wire(t, call[t].snap.identifier))
    BY <1>20, Branches
  <2>2. CASE customized /\ Move(t, "call", Wire(t, Asked(t)))
    BY <1>0, <2>1, <2>2 DEF Wire, Asked, Move, Wires, WithWire, Walks, Stays,
       Block
  <2>3. CASE ~customized /\ facade = "async" /\ Go(t, "compare")
    BY <1>0, <2>1, <2>3 DEF Go, Move, Wires, WithWire, Walks, Stays, Block
  <2>4. CASE ~customized /\ Move(t, "call", Wire(t, call[t].snap.identifier))
    BY <1>0, <2>1, <2>4 DEF Wire, Asked, Move, Wires, WithWire, Walks, Stays,
       Block
  <2>5. QED
    BY <2>1, <2>2, <2>3, <2>4
<1>21. ASSUME NEW t \in Threads, PairAsync(t)
      PROVE  Fate(u)
  BY <1>0, <1>21 DEF PairAsync, Wire, Asked, Move, Wires, WithWire, Stays, Block
<1>22. ASSUME NEW t \in Threads, CallEngine(t)
      PROVE  Fate(u)
  BY <1>0, <1>22 DEF CallEngine, Return, Move, Ends, Stays
<1>23. ASSUME NEW t \in Threads, Fork(t)
      PROVE  Fate(u)
  BY <1>0, <1>23 DEF Fork, Forked, Guard, Ends
<1>24. CASE UNCHANGED vars
  BY <1>0, <1>24 DEF vars, Stays
<1>25. QED
  BY <1>1, <1>2, <1>3, <1>4, <1>5, <1>6, <1>7, <1>8, <1>9, <1>10, <1>11, <1>12,
     <1>13, <1>14, <1>15, <1>16, <1>17, <1>18, <1>19, <1>20, <1>21, <1>22, <1>23,
     <1>24 DEF Next, Step

\* What the updates of a call leave alone.
Same(c, d) ==
    d.op = c.op /\ d.arg = c.arg /\ d.loaded = c.loaded /\ d.customized = c.customized

\* A call is never the mark of an idle thread.
LEMMA IsCall == ASSUME NEW c \in Calls PROVE c # NoCall /\ c.op \in Ops
  BY DEF Calls, Ops, NoCall

\* An idle thread makes no call.
LEMMA NoOp == NoCall.op = "none"
  BY DEF NoCall

\* The locals of a call that begins: it has seen what is stored now.
LEMMA NewFields ==
    ASSUME SessTypes, NEW what \in Ops, NEW v \in Identifiers \cup {None, Own},
           NEW m \in BOOLEAN, NEW d, d = NewCall(what, v, m)
    PROVE  /\ d \in Calls /\ d.op = what /\ d.arg = v
           /\ d.seen = {<<identifier, headers>>}
<1>1. <<identifier, headers>> \in Pairs
  BY DEF SessTypes, Pairs
<1>2. (lib /\ ffiLock = Nobody) \in BOOLEAN /\ customized \in BOOLEAN
  BY DEF SessTypes
<1>3. QED
  BY <1>1, <1>2 DEF NewCall, Calls

\* What a call that begins knows of the library, the flag and the setters.
LEMMA NewGhosts ==
    ASSUME NEW what, NEW v, NEW m, NEW d, d = NewCall(what, v, m)
    PROVE  /\ ~d.lib /\ (d.managed <=> m)
           /\ d.loaded <=> lib /\ ffiLock = Nobody
           /\ d.customized <=> customized
  BY DEF NewCall

\* What _get_ffi returned is all that changes in the locals.
LEMMA LibField ==
    ASSUME NEW c \in Calls, NEW b \in BOOLEAN
    PROVE  LET d == WithLib(c, b) IN
           /\ d \in Calls /\ Same(c, d) /\ (d.lib <=> b) /\ d.snap = c.snap /\ d.gate = c.gate
           /\ d.wire = c.wire /\ d.seen = c.seen /\ d.managed = c.managed
  BY DEF WithLib, Calls, Same

\* The snapshot is all that changes in the locals.
LEMMA SnapField ==
    ASSUME NEW c \in Calls, NEW s \in Snapshots, NEW d, d = WithSnap(c, s)
    PROVE  /\ d \in Calls /\ Same(c, d) /\ d.lib = c.lib /\ d.snap = s /\ d.gate = c.gate
           /\ d.wire = c.wire /\ d.seen = c.seen /\ d.managed = c.managed
  BY DEF WithSnap, Calls, Same

\* The tested ABI is all that changes in the locals.
LEMMA GateField ==
    ASSUME NEW c \in Calls, NEW a \in {1, LibraryAbi}, NEW d, d = WithGate(c, a)
    PROVE  /\ d \in Calls /\ Same(c, d) /\ d.lib = c.lib /\ d.snap = c.snap /\ d.gate = a
           /\ d.wire = c.wire /\ d.seen = c.seen /\ d.managed = c.managed
  BY DEF WithGate, Calls, Same

\* The pair to be sent is all that changes in the locals.
LEMMA WireField ==
    ASSUME NEW c \in Calls, NEW w \in Pairs, NEW d, d = WithWire(c, w)
    PROVE  /\ d \in Calls /\ Same(c, d) /\ d.lib = c.lib /\ d.snap = c.snap
           /\ d.gate = c.gate /\ d.wire = w /\ d.seen = c.seen /\ d.managed = c.managed
  BY DEF WithWire, Calls, Same

\* One more pair seen is all that changes in the ghosts.
LEMMA SeenField ==
    ASSUME NEW c \in Calls, NEW p \in Pairs, NEW d, d = WithSeen(c, p)
    PROVE  /\ d \in Calls /\ Same(c, d) /\ d.lib = c.lib /\ d.snap = c.snap
           /\ d.gate = c.gate /\ d.wire = c.wire /\ d.seen = c.seen \cup {p}
           /\ d.managed = c.managed
  BY DEF WithSeen, Calls, Same

\* The mark of an overlap is all that changes in the ghosts.
LEMMA MarkField ==
    ASSUME NEW c \in Calls, NEW d, d = WithMark(c)
    PROVE  /\ d \in Calls /\ Same(c, d) /\ d.lib = c.lib /\ d.snap = c.snap
           /\ d.gate = c.gate /\ d.wire = c.wire /\ d.seen = c.seen /\ d.managed = TRUE
  BY DEF WithMark, Calls, Same

\* The setters store identifiers and header blocks.
LEMMA SessTypesStep == IInv /\ [Next]_vars => SessTypes'
<1> SUFFICES ASSUME IInv, [Next]_vars PROVE SessTypes'
  OBVIOUS
<1>0. SessTypes /\ Routed
  BY DEF IInv, SessInv, CallInv
<1>a. facade' \in {"sync", "async"} /\ customized' \in BOOLEAN /\ closed' \in BOOLEAN
  BY <1>0, SessStep DEF SessTypes, Framed
<1>1. CASE UNCHANGED <<identifier, headers, version>>
  BY <1>0, <1>1, <1>a DEF SessTypes
<1>2. ASSUME NEW t \in Threads, SetIdentifier(t)
      PROVE  SessTypes'
  <2>1. call[t].arg \in Identifiers
    BY <1>0, <1>2, IsCall DEF SetIdentifier, At, Routed, CallOn
  <2>2. identifier' \in Identifiers /\ headers' \in Blocks
    BY <1>0, <1>2, <2>1 DEF SetIdentifier, SessTypes, Blocks, Profile
  <2>3. version \in Nat /\ version' = version + 1
    BY <1>0, <1>2 DEF SetIdentifier, SessTypes
  <2>4. QED
    BY <1>a, <2>2, <2>3 DEF SessTypes
<1>3. ASSUME NEW t \in Threads, SetHeaders(t)
      PROVE  SessTypes'
  <2>1. NewBlock(t) \in Blocks
    BY <1>0, <1>3, IsCall DEF SetHeaders, At, Routed, CallOn, NewBlock, Blocks, Profile
  <2>2. identifier' \in Identifiers /\ headers' \in Blocks
    BY <1>0, <1>3, <2>1 DEF SetHeaders, SessTypes
  <2>3. version \in Nat /\ version' = version + 1
    BY <1>0, <1>3 DEF SetHeaders, SessTypes
  <2>4. QED
    BY <1>a, <2>2, <2>3 DEF SessTypes
<1>4. QED
  BY <1>1, <1>2, <1>3, SessStep DEF Framed

-----------------------------------------------------------------------------
(* The same effects, field by field.                                       *)

\* u's call goes on with the same operation, argument and first sight of the
\* module state.
Kept(u) == call[u] \in Calls /\ call'[u] \in Calls /\ Same(call[u], call'[u])

\* A setter of the headers that begins marks the requests under way.
LEMMA MarkEffect ==
    ASSUME Routed, NEW u \in Threads, IsMarked(u)
    PROVE  /\ Kept(u) /\ call'[u].lib = call[u].lib /\ call'[u].snap = call[u].snap
           /\ call'[u].gate = call[u].gate /\ call'[u].wire = call[u].wire
           /\ call'[u].seen = call[u].seen /\ call'[u].managed = TRUE
<1>1. call[u] \in Calls
  BY NoOp DEF Routed, IsMarked, CallOn
<1>2. QED
  BY <1>1, MarkField DEF IsMarked, Kept

\* A setter that stores lets every call under way see the new pair.
LEMMA SeenEffect ==
    ASSUME Routed, SessTypes', NEW u \in Threads, Sees(u)
    PROVE  /\ Kept(u) /\ call'[u].lib = call[u].lib /\ call'[u].snap = call[u].snap
           /\ call'[u].gate = call[u].gate /\ call'[u].wire = call[u].wire
           /\ call'[u].seen = call[u].seen \cup {<<identifier', headers'>>}
           /\ call'[u].managed = call[u].managed
<1> DEFINE p == <<identifier', headers'>>
<1>1. call[u] \in Calls /\ p \in Pairs /\ call'[u] = WithSeen(call[u], p)
  BY DEF Routed, Sees, CallOn, SessTypes, Pairs
<1>2. SUFFICES /\ Kept(u) /\ call'[u].lib = call[u].lib /\ call'[u].snap = call[u].snap
               /\ call'[u].gate = call[u].gate /\ call'[u].wire = call[u].wire
               /\ call'[u].seen = call[u].seen \cup {p}
               /\ call'[u].managed = call[u].managed
  OBVIOUS
<1> HIDE DEF p
<1>3. QED
  BY <1>1, SeenField DEF Kept

\* _get_ffi gives a request or a close() the library as it is stored then.
LEMMA LibEffect ==
    ASSUME Routed, LibTypes, NEW u \in Threads, GetsLibrary(u)
    PROVE  /\ Kept(u) /\ (call'[u].lib <=> lib) /\ call'[u].snap = call[u].snap
           /\ call'[u].gate = call[u].gate /\ call'[u].wire = call[u].wire
           /\ call'[u].seen = call[u].seen /\ call'[u].managed = call[u].managed
           /\ call[u].op \in {"request", "close"}
<1>1. /\ call[u] \in Calls /\ lib \in BOOLEAN /\ call'[u] = WithLib(call[u], lib)
      /\ call[u].op \in {"request", "close"}
  BY DEF Routed, GetsLibrary, CallOn, LibTypes, Loading
<1>2. call'[u].lib <=> lib
  BY <1>1, LibField, Zenon
<1>3. QED
  BY <1>1, <1>2, LibField DEF Kept

\* _snapshot_selected_defaults gives a request the pair stored then.
LEMMA SnapEffect ==
    ASSUME Routed, SessTypes, NEW u \in Threads, Snaps(u)
    PROVE  /\ Kept(u) /\ call'[u].lib = call[u].lib /\ call'[u].gate = call[u].gate
           /\ call'[u].wire = call[u].wire /\ call'[u].seen = call[u].seen
           /\ call'[u].managed = call[u].managed /\ call'[u].snap \in Snapshots
           /\ call'[u].snap.identifier = identifier /\ call'[u].snap.headers = headers
<1> DEFINE s == [version |-> version, identifier |-> identifier, headers |-> headers]
<1>1. s \in Snapshots /\ s.identifier = identifier /\ s.headers = headers
  BY DEF SessTypes, Snapshots
<1>2. call[u] \in Calls /\ call'[u] = WithSnap(call[u], s)
  BY DEF Routed, Snaps, CallOn
<1> HIDE DEF s
<1>3. /\ Kept(u) /\ call'[u].lib = call[u].lib /\ call'[u].gate = call[u].gate
      /\ call'[u].wire = call[u].wire /\ call'[u].seen = call[u].seen
      /\ call'[u].managed = call[u].managed /\ call'[u].snap = s
  BY <1>1, <1>2, SnapField DEF Kept
<1>4. QED
  BY <1>1, <1>3

\* The gates test the ABI as it is stored then.
LEMMA GateEffect ==
    ASSUME Routed, LibTypes, NEW u \in Threads, Gated(u)
    PROVE  /\ Kept(u) /\ call'[u].lib = call[u].lib /\ call'[u].snap = call[u].snap
           /\ call'[u].gate = abi /\ call'[u].wire = call[u].wire
           /\ call'[u].seen = call[u].seen /\ call'[u].managed = call[u].managed
<1>1. call[u] \in Calls /\ abi \in {1, LibraryAbi} /\ call'[u] = WithGate(call[u], abi)
  BY DEF Routed, Gated, CallOn, LibTypes
<1>2. QED
  BY <1>1, GateField DEF Kept

\* The pair a request sends: its identifier, and a block chosen by what it is
\* compared with.
LEMMA WireEffect ==
    ASSUME Routed, NEW u \in Threads, Wires(u)
    PROVE  /\ Kept(u) /\ call'[u].lib = call[u].lib /\ call'[u].snap = call[u].snap
           /\ call'[u].gate = call[u].gate /\ call'[u].wire \in Pairs
           /\ call'[u].seen = call[u].seen /\ call'[u].managed = call[u].managed
           /\ call[u].op = "request" /\ call[u].snap \in Snapshots
           /\ call'[u].wire[1] = Asked(u)
           /\ \/ customized
              \/ call'[u].wire[2] = Block(u, call[u].snap.identifier)
              \/ pc[u] = "compare" /\ call'[u].wire[2] = Block(u, identifier)
<1>1. /\ call[u] \in Calls /\ call[u].op = "request" /\ call[u].snap \in Snapshots
      /\ call[u].arg \in Identifiers \cup {None}
  BY IsCall DEF Wires, Routed, CallOn, HasLibrary, Sends
<1>2. Asked(u) \in Identifiers
  BY <1>1 DEF Asked, Snapshots
<1>3. ASSUME NEW own PROVE <<Asked(u), Block(u, own)>> \in Pairs
  BY <1>1, <1>2 DEF Block, Pairs, Profile, Blocks, Snapshots
<1>4. PICK w \in Pairs : /\ call'[u] = WithWire(call[u], w) /\ w[1] = Asked(u)
                         /\ \/ customized
                            \/ w[2] = Block(u, call[u].snap.identifier)
                            \/ pc[u] = "compare" /\ w[2] = Block(u, identifier)
  BY <1>3 DEF Wires
<1>5. /\ Kept(u) /\ call'[u].lib = call[u].lib /\ call'[u].snap = call[u].snap
      /\ call'[u].gate = call[u].gate /\ call'[u].wire = w
      /\ call'[u].seen = call[u].seen /\ call'[u].managed = call[u].managed
  BY <1>1, <1>4, WireField DEF Kept
<1>6. QED
  BY <1>1, <1>4, <1>5

\* A call begins with its operation, its argument and one pair seen.
LEMMA BeginFields ==
    ASSUME SessTypes, NEW what \in Ops, NEW v \in Identifiers \cup {None, Own},
           NEW u \in Threads, BeginsAt(u, what, v)
    PROVE  /\ call'[u] \in Calls /\ call'[u].op = what /\ call'[u].arg = v
           /\ call'[u].seen = {<<identifier, headers>>}
<1> DEFINE m == Changing # {}
<1>1. m \in BOOLEAN /\ call'[u] = NewCall(what, v, m)
  BY DEF BeginsAt
<1> HIDE DEF m
<1>2. QED
  BY <1>1, NewFields

\* A call begins without a library, and knows whether one is published, the
\* flag is set and a setter of the headers is under way.
LEMMA BeginGhosts ==
    ASSUME NEW what, NEW v, NEW u \in Threads, BeginsAt(u, what, v)
    PROVE  /\ ~call'[u].lib
           /\ call'[u].loaded <=> lib /\ ffiLock = Nobody
           /\ call'[u].customized <=> customized
           /\ call'[u].managed <=> Changing # {}
<1> DEFINE m == Changing # {}
<1>1. call'[u] = NewCall(what, v, m)
  BY DEF BeginsAt
<1>2. call'[u].managed <=> m
  BY <1>1, NewGhosts
<1> HIDE DEF m
<1>3. /\ ~call'[u].lib /\ (call'[u].loaded <=> lib /\ ffiLock = Nobody)
      /\ call'[u].customized <=> customized
  BY <1>1, NewGhosts
<1>4. QED
  BY <1>2, <1>3 DEF m

-----------------------------------------------------------------------------
(* The calls.                                                              *)

\* A call keeps to the labels of its kind, and has taken its snapshot and
\* made its pair when it needs them.
LEMMA RoutedStep == IInv /\ [Next]_vars => Routed'
<1> SUFFICES ASSUME IInv, [Next]_vars, NEW u \in Threads
             PROVE  CallOn(pc[u], call[u])'
  BY DEF Routed
<1>0. LibTypes /\ SessTypes /\ SessTypes' /\ Routed /\ CallOn(pc[u], call[u]) /\ Fate(u)
  BY Fates, SessTypesStep DEF IInv, LibInv, SessInv, CallInv, Routed
<1>1. CASE Stays(u)
  BY <1>0, <1>1 DEF Stays, CallOn
<1>2. CASE Ends(u)
  BY <1>2 DEF Ends, CallOn
<1>3. ASSUME NEW what \in Ops, NEW v \in Identifiers \cup {None, Own},
             BeginsAt(u, what, v)
      PROVE  CallOn(pc[u], call[u])'
  <2>1. call'[u] \in Calls /\ call'[u].op = what /\ call'[u].arg = v
    BY <1>0, <1>3, BeginFields
  <2>2. QED
    BY <1>3, <2>1 DEF BeginsAt, CallOn, HasLibrary, Sends, Loading
<1> USE IsCall DEF Kept, Same, CallOn, HasLibrary, Sends, Loading
<1>4. CASE IsMarked(u)
  BY <1>0, <1>4, MarkEffect DEF IsMarked
<1>5. CASE Sees(u)
  BY <1>0, <1>5, SeenEffect DEF Sees
<1>6. CASE Walks(u)
  BY <1>0, <1>6 DEF Walks
<1>7. CASE GetsLibrary(u)
  BY <1>0, <1>7, LibEffect DEF GetsLibrary
<1>8. CASE Snaps(u)
  BY <1>0, <1>8, SnapEffect DEF Snaps
<1>9. CASE Gated(u)
  BY <1>0, <1>9, GateEffect DEF Gated
<1>10. CASE Wires(u)
  BY <1>0, <1>10, WireEffect DEF Wires
<1>11. QED
  BY <1>0, <1>1, <1>2, <1>3, <1>4, <1>5, <1>6, <1>7, <1>8, <1>9, <1>10 DEF Fate

\* What a call found or took of the library it keeps.
LEMMA CompleteStep == IInv /\ [Next]_vars => Complete'
<1> SUFFICES ASSUME IInv, [Next]_vars, NEW u \in Threads, call'[u] # NoCall
             PROVE  /\ call'[u].lib => runtime' # "none"
                    /\ call'[u].loaded => lib' /\ (forkedAfterLoad' \/ abi' = LibraryAbi)
                    /\ call'[u].loaded /\ pc'[u] \in HasLibrary => call'[u].lib
                    /\ call'[u].loaded /\ call'[u].op = "request"
                          /\ pc'[u] \in Sends \ {"gates"} => call'[u].gate = LibraryAbi
  BY DEF Complete
<1>0. /\ LibTypes /\ SessTypes /\ SessTypes' /\ Routed /\ Fate(u)
      /\ LoadOrder /\ Guarded /\ Published
  BY Fates, SessTypesStep DEF IInv, LibInv, SessInv, CallInv
<1>a. call[u] # NoCall =>
        /\ call[u].lib => runtime # "none"
        /\ call[u].loaded => lib /\ (forkedAfterLoad \/ abi = LibraryAbi)
        /\ call[u].loaded /\ pc[u] \in HasLibrary => call[u].lib
        /\ call[u].loaded /\ call[u].op = "request" /\ pc[u] \in Sends \ {"gates"}
              => call[u].gate = LibraryAbi
  BY DEF IInv, CallInv, Complete
<1>b. /\ lib => lib'
      /\ runtime # "none" => runtime' # "none"
      /\ forkedAfterLoad => forkedAfterLoad'
      /\ abi = LibraryAbi => abi' = LibraryAbi
  BY SessStep DEF Framed
<1> USE DEF HasLibrary, Sends, Loading
<1>1. CASE Stays(u)
  BY <1>a, <1>b, <1>1 DEF Stays
<1>2. CASE Ends(u)
  BY <1>2 DEF Ends
<1>3. ASSUME NEW what \in Ops, NEW v \in Identifiers \cup {None, Own},
             BeginsAt(u, what, v)
      PROVE  /\ ~call'[u].lib /\ pc'[u] \notin HasLibrary
             /\ call'[u].loaded => lib' /\ (forkedAfterLoad' \/ abi' = LibraryAbi)
  <2>1. ~call'[u].lib /\ (call'[u].loaded <=> lib /\ ffiLock = Nobody)
    BY <1>3, BeginGhosts
  <2>2. pc'[u] \notin HasLibrary
    BY <1>3 DEF BeginsAt
  <2>3. QED
    BY <1>0, <1>b, <2>1, <2>2 DEF Published
<1> USE IsCall DEF Kept, Same
<1>4. CASE IsMarked(u)
  BY <1>0, <1>a, <1>b, <1>4, MarkEffect DEF IsMarked
<1>5. CASE Sees(u)
  BY <1>0, <1>a, <1>b, <1>5, SeenEffect DEF Sees
<1>6. CASE Walks(u)
  BY <1>a, <1>b, <1>6 DEF Walks
<1>7. CASE GetsLibrary(u)
  <2>1. Kept(u) /\ (call'[u].lib <=> lib)
    BY <1>0, <1>7, LibEffect
  <2>2. pc'[u] \in {"callback", "snapshot", "call"} /\ (pc'[u] = "call" => call[u].op = "close")
    BY <1>7 DEF GetsLibrary
  <2>3. QED
    BY <1>0, <1>a, <1>b, <2>1, <2>2 DEF LoadOrder
<1>8. CASE Snaps(u)
  BY <1>0, <1>a, <1>b, <1>8, SnapEffect DEF Snaps
<1>9. CASE Gated(u)
  <2>1. pc[u] = "gates" /\ pc'[u] = "pair"
    BY <1>9 DEF Gated
  <2>2. ~forkedAfterLoad
    BY <1>0, <2>1 DEF Guarded
  <2>3. QED
    BY <1>0, <1>a, <1>b, <1>9, <2>1, <2>2, GateEffect
<1>10. CASE Wires(u)
  BY <1>0, <1>a, <1>b, <1>10, WireEffect DEF Wires
<1>11. QED
  BY <1>0, <1>1, <1>2, <1>3, <1>4, <1>5, <1>6, <1>7, <1>8, <1>9, <1>10 DEF Fate

\* A call has seen what is stored, and what its snapshot holds.
LEMMA WitnessedStep == IInv /\ [Next]_vars => Witnessed'
<1> SUFFICES ASSUME IInv, [Next]_vars, NEW u \in Threads, call'[u] # NoCall
             PROVE  /\ IsFiniteSet(call'[u].seen)
                    /\ <<identifier', headers'>> \in call'[u].seen
                    /\ call'[u].op = "request" /\ pc'[u] \in Sends =>
                          <<call'[u].snap.identifier, call'[u].snap.headers>> \in call'[u].seen
  BY DEF Witnessed
<1>0. LibTypes /\ SessTypes /\ SessTypes' /\ Routed /\ Fate(u)
  BY Fates, SessTypesStep DEF IInv, LibInv, SessInv, CallInv
<1>a. call[u] # NoCall =>
        /\ IsFiniteSet(call[u].seen)
        /\ <<identifier, headers>> \in call[u].seen
        /\ call[u].op = "request" /\ pc[u] \in Sends =>
              <<call[u].snap.identifier, call[u].snap.headers>> \in call[u].seen
  BY DEF IInv, CallInv, Witnessed
<1> USE DEF Sends, Loading
<1>1. CASE Stays(u)
  BY <1>a, <1>1 DEF Stays
<1>2. CASE Ends(u)
  BY <1>2 DEF Ends
<1>3. ASSUME NEW what \in Ops, NEW v \in Identifiers \cup {None, Own},
             BeginsAt(u, what, v)
      PROVE  /\ IsFiniteSet(call'[u].seen) /\ pc'[u] \notin Sends
             /\ <<identifier', headers'>> \in call'[u].seen
  <2>1. call'[u].seen = {<<identifier, headers>>}
    BY <1>0, <1>3, BeginFields
  <2>2. pc'[u] \notin Sends /\ identifier' = identifier /\ headers' = headers
    BY <1>3 DEF BeginsAt
  <2>3. IsFiniteSet({<<identifier, headers>>})
    BY FS_Singleton, Zenon
  <2>4. QED
    BY <2>1, <2>2, <2>3
<1> USE IsCall DEF Kept, Same
<1>4. CASE IsMarked(u)
  BY <1>0, <1>a, <1>4, MarkEffect DEF IsMarked
<1>5. CASE Sees(u)
  <2>1. /\ Kept(u) /\ call'[u].snap = call[u].snap
        /\ call'[u].seen = call[u].seen \cup {<<identifier', headers'>>}
    BY <1>0, <1>5, SeenEffect
  <2>2. IsFiniteSet(call'[u].seen)
    BY <1>a, <2>1, FS_AddElement
  <2>3. pc'[u] = pc[u] \/ pc'[u] = "flag"
    BY <1>5 DEF Sees
  <2>4. QED
    BY <1>a, <2>1, <2>2, <2>3
<1>6. CASE Walks(u)
  BY <1>a, <1>6 DEF Walks
<1>7. CASE GetsLibrary(u)
  BY <1>0, <1>a, <1>7, LibEffect DEF GetsLibrary
<1>8. CASE Snaps(u)
  BY <1>0, <1>a, <1>8, SnapEffect DEF Snaps
<1>9. CASE Gated(u)
  BY <1>0, <1>a, <1>9, GateEffect DEF Gated
<1>10. CASE Wires(u)
  BY <1>0, <1>a, <1>10, WireEffect DEF Wires
<1>11. QED
  BY <1>0, <1>1, <1>2, <1>3, <1>4, <1>5, <1>6, <1>7, <1>8, <1>9, <1>10 DEF Fate

\* A thread that does not begin a call ends its own or goes on with it, and
\* keeps the mark of the overlap.
LEMMA OpsKept ==
    ASSUME IInv, [Next]_vars, NEW u \in Threads,
           ~\E what \in Ops, v \in Identifiers \cup {None, Own} : BeginsAt(u, what, v)
    PROVE  \/ call'[u].op = "none"
           \/ /\ call'[u].op = call[u].op /\ call'[u].customized = call[u].customized
              /\ call[u].managed => call'[u].managed
<1>0. LibTypes /\ SessTypes /\ SessTypes' /\ Routed /\ Fate(u)
  BY Fates, SessTypesStep DEF IInv, LibInv, SessInv, CallInv
<1>1. CASE Stays(u)
  BY <1>1 DEF Stays
<1>2. CASE Ends(u)
  BY <1>2, NoOp DEF Ends
<1> USE DEF Kept, Same
<1>3. CASE IsMarked(u)
  BY <1>0, <1>3, MarkEffect
<1>4. CASE Sees(u)
  BY <1>0, <1>4, SeenEffect
<1>5. CASE Walks(u)
  BY <1>5 DEF Walks
<1>6. CASE GetsLibrary(u)
  BY <1>0, <1>6, LibEffect
<1>7. CASE Snaps(u)
  BY <1>0, <1>7, SnapEffect
<1>8. CASE Gated(u)
  BY <1>0, <1>8, GateEffect
<1>9. CASE Wires(u)
  BY <1>0, <1>9, WireEffect
<1>10. QED
  BY <1>0, <1>1, <1>2, <1>3, <1>4, <1>5, <1>6, <1>7, <1>8, <1>9 DEF Fate

\* Whoever begins first, a request and a setter of the headers that overlap
\* leave the request marked.
LEMMA OverlapMarked ==
    ASSUME IInv, [Next]_vars, NEW t \in Threads, NEW u \in Threads,
           call'[t].op \in {"headers", "apply"}, call'[u].op = "request"
    PROVE  call'[u].managed
<1>0. SessTypes /\ Routed
  BY DEF IInv, SessInv, CallInv
<1>a. call[t].op \in {"headers", "apply"} /\ call[u].op = "request" => call[u].managed
  BY DEF IInv, CallInv, Marked
<1>b. t # u
  OBVIOUS
<1>1. ASSUME NEW what \in Ops, NEW v \in Identifiers \cup {None, Own},
             BeginsAt(t, what, v)
      PROVE  call'[u].managed
  <2>1. what \in {"headers", "apply"}
    BY <1>0, <1>1, BeginFields
  <2>2. call'[u] = IF call[u].op = "request" THEN WithMark(call[u]) ELSE call[u]
    BY <1>1, <1>b, <2>1 DEF BeginsAt
  <2>3. call[u].op = "request" /\ call'[u] = WithMark(call[u])
    BY <2>2
  <2>4. call[u] \in Calls
    BY <1>0, <2>3, NoOp DEF Routed, CallOn
  <2>5. QED
    BY <2>3, <2>4, MarkField
<1>2. ASSUME ~\E what \in Ops, v \in Identifiers \cup {None, Own} : BeginsAt(t, what, v)
      PROVE  call'[u].managed
  <2>1. call[t].op \in {"headers", "apply"}
    BY <1>2, OpsKept
  <2>2. ASSUME NEW what \in Ops, NEW v \in Identifiers \cup {None, Own},
               BeginsAt(u, what, v)
        PROVE  call'[u].managed
    <3>1. t \in Changing
      BY <2>1 DEF Changing
    <3>2. call'[u].managed <=> Changing # {}
      BY <2>2, BeginGhosts
    <3>3. QED
      BY <3>1, <3>2
  <2>3. CASE ~\E what \in Ops, v \in Identifiers \cup {None, Own} : BeginsAt(u, what, v)
    <3>1. /\ call'[u].op = call[u].op
          /\ call[u].managed => call'[u].managed
      BY <2>3, OpsKept
    <3>2. QED
      BY <1>a, <2>1, <3>1
  <2>4. QED
    BY <2>2, <2>3
<1>3. QED
  BY <1>1, <1>2

\* A request that is under way while the flag is set knows of it: it found
\* the flag, or it overlaps the setter.
LEMMA FlagKnown ==
    ASSUME IInv, [Next]_vars, NEW u \in Threads, call'[u].op = "request", customized'
    PROVE  call'[u].customized \/ call'[u].managed
<1>0. SessTypes /\ Routed
  BY DEF IInv, SessInv, CallInv
<1>1. ASSUME NEW what \in Ops, NEW v \in Identifiers \cup {None, Own},
             BeginsAt(u, what, v)
      PROVE  call'[u].customized
  <2>1. call'[u].customized <=> customized
    BY <1>1, BeginGhosts
  <2>2. customized' = customized
    BY <1>1 DEF BeginsAt
  <2>3. QED
    BY <2>1, <2>2
<1>2. CASE ~\E what \in Ops, v \in Identifiers \cup {None, Own} : BeginsAt(u, what, v)
  <2>1. /\ call[u].op = "request" /\ call'[u].customized = call[u].customized
        /\ call[u].managed => call'[u].managed
    BY <1>2, OpsKept
  <2>2. CASE customized' = customized
    <3>1. call[u].customized \/ call[u].managed
      BY <2>1, <2>2 DEF IInv, CallInv, Marked
    <3>2. QED
      BY <2>1, <3>1
  <2>3. ASSUME NEW t \in Threads, pc[t] = "flag"
        PROVE  call'[u].managed
    <3>1. call[t].op \in {"headers", "apply"}
      BY <1>0, <2>3 DEF Routed, CallOn
    <3>2. call[u].managed
      BY <2>1, <3>1 DEF IInv, CallInv, Marked
    <3>3. QED
      BY <2>1, <3>2
  <2>4. QED
    BY <2>2, <2>3, SessStep DEF Framed
<1>3. QED
  BY <1>1, <1>2

\* Every request that overlaps a change of the headers stays marked.
LEMMA MarkedStep == IInv /\ [Next]_vars => Marked'
  BY OverlapMarked, FlagKnown DEF Marked

\* An unmarked request carries a pair that fits: from the snapshot, because
\* the flag was not set when it was taken, to the pair it sends.
LEMMA FitsStep == IInv /\ [Next]_vars => Fits'
<1> SUFFICES ASSUME IInv, [Next]_vars, NEW u \in Threads, call'[u].op = "request",
                    ~call'[u].customized, ~call'[u].managed
             PROVE  /\ pc'[u] \in Sends =>
                          call'[u].snap.headers = Profile(call'[u].snap.identifier)
                    /\ pc'[u] = "call" =>
                          \/ call'[u].wire[2] = Profile(call'[u].wire[1])
                          \/ /\ facade' = "async"
                             /\ \E p, q \in call'[u].seen : p[1] # q[1]
  BY DEF Fits, Unmanaged
<1>0. /\ LibTypes /\ SessTypes /\ SessTypes' /\ Routed /\ Fate(u)
      /\ facade' = facade
  BY Fates, SessTypesStep, SessStep DEF Framed, IInv, LibInv, SessInv, CallInv
<1>a. call[u].op = "request" /\ ~call[u].customized /\ ~call[u].managed =>
        /\ ~customized
        /\ pc[u] \in Sends => call[u].snap.headers = Profile(call[u].snap.identifier)
        /\ pc[u] = "call" =>
              \/ call[u].wire[2] = Profile(call[u].wire[1])
              \/ facade = "async" /\ \E p, q \in call[u].seen : p[1] # q[1]
  BY DEF IInv, CallInv, Marked, Fits, Unmanaged
<1>1. CASE Stays(u)
  BY <1>0, <1>a, <1>1 DEF Stays
<1>2. CASE Ends(u)
  BY <1>2, NoOp DEF Ends
<1>3. ASSUME NEW what \in Ops, NEW v \in Identifiers \cup {None, Own},
             BeginsAt(u, what, v)
      PROVE  pc'[u] \notin Sends /\ pc'[u] # "call"
  BY <1>3 DEF BeginsAt, Sends
<1> USE DEF Kept, Same
<1>4. CASE IsMarked(u)
  BY <1>0, <1>4, MarkEffect
<1>5. CASE Sees(u)
  <2>1. /\ Kept(u) /\ call'[u].snap = call[u].snap /\ call'[u].wire = call[u].wire
        /\ call'[u].seen = call[u].seen \cup {<<identifier', headers'>>}
        /\ call'[u].managed = call[u].managed
    BY <1>0, <1>5, SeenEffect
  <2>2. pc'[u] = pc[u] \/ pc'[u] = "flag"
    BY <1>5 DEF Sees
  <2>3. \A p \in call[u].seen : p \in call'[u].seen
    BY <2>1
  <2>4. QED
    BY <1>0, <1>a, <2>1, <2>2, <2>3 DEF Sends
<1>6. CASE Walks(u)
  BY <1>0, <1>a, <1>6 DEF Walks, Sends, Loading
<1>7. CASE GetsLibrary(u)
  <2>1. call'[u].op = call[u].op
    BY <1>0, <1>7, LibEffect
  <2>2. pc'[u] \in {"callback", "snapshot"}
    BY <1>7, <2>1 DEF GetsLibrary
  <2>3. QED
    BY <2>2 DEF Sends
<1>8. CASE Snaps(u)
  <2>1. /\ Kept(u) /\ call'[u].managed = call[u].managed
        /\ call'[u].snap.identifier = identifier /\ call'[u].snap.headers = headers
    BY <1>0, <1>8, SnapEffect
  <2>2. ~customized
    BY <1>a, <2>1
  <2>3. headers = Profile(identifier)
    BY <2>2 DEF IInv, SessInv, FlagFirst
  <2>4. pc'[u] = "gates"
    BY <1>8 DEF Snaps
  <2>5. QED
    BY <2>1, <2>3, <2>4
<1>9. CASE Gated(u)
  BY <1>0, <1>a, <1>9, GateEffect DEF Gated, Sends
<1>10. CASE Wires(u)
  <2>1. /\ Kept(u) /\ call'[u].snap = call[u].snap /\ call'[u].managed = call[u].managed
        /\ call'[u].seen = call[u].seen /\ call[u].op = "request"
        /\ call'[u].wire[1] = Asked(u)
        /\ \/ customized
           \/ call'[u].wire[2] = Block(u, call[u].snap.identifier)
           \/ pc[u] = "compare" /\ call'[u].wire[2] = Block(u, identifier)
    BY <1>0, <1>10, WireEffect
  <2>2. pc[u] \in {"pair", "compare"} /\ pc[u] \in Sends
    BY <1>10 DEF Wires, Sends
  <2>3. ~customized /\ call[u].snap.headers = Profile(call[u].snap.identifier)
    BY <1>a, <2>1, <2>2
  <2>4. CASE call'[u].wire[2] = Block(u, call[u].snap.identifier)
    BY <2>1, <2>3, <2>4 DEF Block, Profile
  <2>5. CASE pc[u] = "compare" /\ call'[u].wire[2] = Block(u, identifier)
    <3>1. facade = "async"
      BY <2>5 DEF IInv, SessInv, AsyncCompares
    <3>2. CASE identifier # Asked(u)
      BY <2>1, <2>3, <2>5, <3>2 DEF Block
    <3>3. CASE identifier = Asked(u) /\ call[u].snap.identifier = Asked(u)
      BY <2>1, <2>3, <2>5, <3>3 DEF Block
    <3>4. CASE identifier = Asked(u) /\ call[u].snap.identifier # Asked(u)
      <4> DEFINE p == <<identifier, headers>>
                 q == <<call[u].snap.identifier, call[u].snap.headers>>
      <4>1. call[u] # NoCall
        BY <2>1, NoOp
      <4>2. p \in call[u].seen /\ q \in call[u].seen
        BY <2>1, <2>2, <4>1 DEF IInv, CallInv, Witnessed
      <4>3. p[1] # q[1]
        BY <3>4
      <4>4. \E x, y \in call'[u].seen : x[1] # y[1]
        BY <2>1, <4>2, <4>3
      <4>5. QED
        BY <1>0, <2>1, <2>3, <3>1, <4>4
    <3>5. QED
      BY <3>2, <3>3, <3>4
  <2>6. QED
    BY <2>1, <2>3, <2>4, <2>5
<1>11. QED
  BY <1>0, <1>1, <1>2, <1>3, <1>4, <1>5, <1>6, <1>7, <1>8, <1>9, <1>10 DEF Fate

-----------------------------------------------------------------------------
(* The invariant, and the properties that follow from it.                  *)

\* The module as it is imported, and a session nobody has called.
LEMMA InvInit == Init => IInv
<1> SUFFICES ASSUME Init PROVE IInv
  OBVIOUS
<1>1. \A t \in Threads : pc[t] = "idle" /\ call[t] = NoCall /\ call[t].op = "none"
  BY NoOp DEF Init
<1>2. Places
  BY DEF Init, Places, Labels
<1>3. LibInv
  BY <1>1 DEF Init, LibInv, LibTypes, Locks, LoadOrder, Guarded, Published, Locked, Loading,
              HasLibrary, Sends
<1>4. SessInv
  BY <1>1 DEF Init, SessInv, SessTypes, CacheCurrent, AsyncCompares, FlagFirst, Blocks,
              Profile
<1>5. CallInv
  BY <1>1 DEF CallInv, Routed, CallOn, Witnessed, Marked, Fits, Complete
<1>6. QED
  BY <1>2, <1>3, <1>4, <1>5 DEF IInv

\* No step of a thread, and no fork, breaks the invariant.
LEMMA InvStep == IInv /\ [Next]_vars => IInv'
<1> SUFFICES ASSUME IInv, [Next]_vars PROVE IInv'
  OBVIOUS
<1>1. Places'
  BY LibStep
<1>2. LibInv'
  BY LibStep
<1>3. SessInv'
  BY SessTypesStep, SessStep DEF SessInv
<1>4. CallInv'
  BY RoutedStep, WitnessedStep, MarkedStep, FitsStep, CompleteStep DEF CallInv
<1>5. QED
  BY <1>1, <1>2, <1>3, <1>4 DEF IInv

\* The inductive invariant holds in every reachable state of the threads.
THEOREM Invariance == Spec => []IInv
<1>1. Init => IInv
  BY InvInit
<1>2. IInv /\ [Next]_vars => IInv'
  BY InvStep
<1>3. QED
  BY <1>1, <1>2, PTL DEF Spec

\* The module state, Session and the locals of every call keep their types,
\* and each lock is held by the thread under it, for any number of threads.
THEOREM TypeCorrect == Spec => []TypeOK
<1>1. IInv => TypeOK
  <2> SUFFICES ASSUME IInv PROVE TypeOK
    OBVIOUS
  <2>0. Places /\ LibTypes /\ SessTypes /\ Locks /\ CacheCurrent /\ Routed
    BY DEF IInv, LibInv, SessInv, CallInv
  <2>1. cache = None \/ cache \in Snapshots
    BY <2>0 DEF CacheCurrent, SessTypes, Snapshots
  <2>2. \A t \in Threads : pc[t] \in {"idle", "gone"} <=> call[t] = NoCall
    BY <2>0, IsCall DEF Routed, CallOn
  <2>3. ASSUME NEW t \in Requesting
        PROVE  /\ pc[t] \in Sends => call[t].snap \in Snapshots
               /\ pc[t] = "call" => call[t].wire \in Pairs
    BY <2>0 DEF Requesting, Routed, CallOn, Sends
  <2>4. QED
    BY <2>0, <2>1, <2>2, <2>3
       DEF TypeOK, Places, LibTypes, SessTypes, Locks, At, Sends, Pairs
<1>2. QED
  BY <1>1, Invariance, PTL

\* _snapshot_selected_defaults gives a request options that were the
\* session's at one moment of the call, whatever setters and other requests
\* do with the version and the cache.
THEOREM SnapshotFresh == Spec => []FreshSnapshot
<1>1. IInv => FreshSnapshot
  <2> SUFFICES ASSUME IInv, NEW t \in Requesting, pc[t] \in Sends
               PROVE  <<call[t].snap.identifier, call[t].snap.headers>> \in call[t].seen
    BY DEF FreshSnapshot, Sends
  <2>1. t \in Threads /\ call[t].op = "request" /\ call[t] # NoCall
    BY NoOp DEF Requesting
  <2>2. QED
    BY <2>1 DEF IInv, CallInv, Witnessed
<1>2. QED
  BY <1>1, Invariance, PTL

\* Two pairs that a call has seen with different identifiers count as more
\* than one.
LEMMA TwoIdentifiers ==
    ASSUME NEW S, IsFiniteSet(S), NEW p \in S, NEW q \in S, p[1] # q[1]
    PROVE  Cardinality({pair[1] : pair \in S}) > 1
<1> DEFINE T == {pair[1] : pair \in S}
           f == [pair \in S |-> pair[1]]
<1>1. f \in Surjection(S, T)
  BY DEF Surjection
<1>2. p[1] \in T /\ q[1] \in T
  OBVIOUS
<1> HIDE DEF f, T
<1>3. IsFiniteSet(T)
  BY <1>1, FS_Surjection
<1>4. Cardinality(T) \in Nat
  BY <1>3, FS_CardinalityType
<1>5. Cardinality(T) # 0
  BY <1>2, <1>3, FS_EmptySet
<1>6. Cardinality(T) # 1
  <2> SUFFICES ASSUME Cardinality(T) = 1 PROVE FALSE
    OBVIOUS
  <2>1. PICK x : T = {x}
    BY <1>3, FS_Singleton
  <2>2. QED
    BY <1>2, <2>1
<1>7. Cardinality(T) > 1
  BY <1>4, <1>5, <1>6
<1>8. QED
  BY <1>7 DEF T

\* A request goes out with the header block of its TLS profile as long as
\* nobody manages the headers, although _headers_customized is read without
\* the lock and AsyncSession compares with the live identifier.
THEOREM HeadersPaired == Spec => []PairedHeaders
<1>1. IInv => PairedHeaders
  <2> SUFFICES ASSUME IInv, NEW t \in Requesting, pc[t] = "call",
                      ~call[t].customized, ~call[t].managed
               PROVE  \/ call[t].wire[2] = Profile(call[t].wire[1])
                      \/ /\ facade = "async"
                         /\ Cardinality({pair[1] : pair \in call[t].seen}) > 1
    BY DEF PairedHeaders, At
  <2>1. t \in Threads /\ call[t].op = "request" /\ call[t] # NoCall
    BY NoOp DEF Requesting
  <2>2. \/ call[t].wire[2] = Profile(call[t].wire[1])
        \/ facade = "async" /\ \E p, q \in call[t].seen : p[1] # q[1]
    BY <2>1 DEF IInv, CallInv, Fits, Unmanaged
  <2>3. IsFiniteSet(call[t].seen)
    BY <2>1 DEF IInv, CallInv, Witnessed
  <2>4. QED
    BY <2>2, <2>3, TwoIdentifiers
<1>2. QED
  BY <1>1, Invariance, PTL

\* _get_ffi lets no call into a library that is missing, of another ABI than
\* the gates assumed, or inherited through fork(), outside the two windows
\* CallsSound names.
THEOREM NativeCallsSound == Spec => []CallsSound
<1>1. IInv => CallsSound
  <2> SUFFICES ASSUME IInv, NEW t \in Threads
               PROVE  /\ pc[t] = "lib stored" \/ (pc[t] = "call" /\ call[t].lib)
                            => runtime = "alive" \/ torn
                      /\ pc[t] = "call" /\ call[t].loaded =>
                            /\ call[t].lib
                            /\ call[t].op = "request" => call[t].gate = LibraryAbi
    BY DEF CallsSound, At
  <2>0. LibTypes /\ LoadOrder /\ Guarded /\ Routed /\ Complete
    BY DEF IInv, LibInv, CallInv
  <2>1. pc[t] = "call" => call[t] # NoCall
    BY <2>0, IsCall DEF Routed, CallOn
  <2>2. ASSUME pc[t] = "lib stored" \/ (pc[t] = "call" /\ call[t].lib)
        PROVE  runtime = "alive" \/ torn
    <3>1. runtime # "none"
      BY <2>0, <2>1, <2>2 DEF LoadOrder, Complete
    <3>2. ~forkedAfterLoad
      BY <2>0, <2>2 DEF Guarded, Loading, HasLibrary, Sends
    <3>3. QED
      BY <2>0, <3>1, <3>2 DEF LibTypes, Guarded
  <2>3. ASSUME pc[t] = "call", call[t].loaded
        PROVE  call[t].lib /\ (call[t].op = "request" => call[t].gate = LibraryAbi)
    BY <2>0, <2>1, <2>3 DEF Complete, HasLibrary, Sends
  <2>4. QED
    BY <2>2, <2>3
<1>2. QED
  BY <1>1, Invariance, PTL
=============================================================================
