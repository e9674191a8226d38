------------------------ MODULE TransportCacheProofs ------------------------
(***************************************************************************)
(* Proofs about TransportCache for any number of goroutines, addresses and *)
(* protocol changes.  The invariants of interest rest on three more facts  *)
(* that tie a request, its transport and its address together.             *)
(***************************************************************************)
EXTENDS TransportCache, TLAPS

\* A transport is cached for at most one address.
OneAddress ==
    \A a, b \in Addrs :
        cachedTransports[a] # None /\ cachedTransports[a] = cachedTransports[b] => a = b

\* A request whose transport is cached is a request to that address.
OwnTransport ==
    \A g \in Goroutines, a \in Addrs :
        tr[g] # None /\ tr[g] = cachedTransports[a] => addr[g] = a

\* Nothing is cached for an address while its first dial is under way.
SetupOnMiss ==
    \A g \in Goroutines :
        pc[g] \in {"setup", "setupDial"} => cachedTransports[addr[g]] = None

Links == OneAddress /\ OwnTransport /\ SetupOnMiss

IInv == TypeOK /\ Links /\ StashFits /\ NoPanic /\ KindsHonest

USE KindsAssumption, SchemesAssumption, NoneAssumption, MovesAssumption

-----------------------------------------------------------------------------
\* Types and lock ownership.
LEMMA TypeInit == Init => TypeOK
  BY DEF Init, TypeOK, PCs

LEMMA TypeStep == TypeOK /\ [Next]_vars => TypeOK'
<1> SUFFICES ASSUME TypeOK, [Next]_vars PROVE TypeOK'
  OBVIOUS
<1> USE DEF TypeOK, PCs, caches, locks, world, request
<1>1. ASSUME NEW g \in Goroutines, NEW a \in Addrs, NEW s \in Schemes,
             RoundTrip(g, a, s)
      PROVE  TypeOK'
  BY <1>1 DEF RoundTrip, Goto
<1>2. ASSUME NEW g \in Goroutines, LookupHit(g)
      PROVE  TypeOK'
  BY <1>2 DEF LookupHit, Goto
<1>3. ASSUME NEW g \in Goroutines, NEW t \in Transports, GetTransportPlain(g, t)
      PROVE  TypeOK'
  BY <1>3 DEF GetTransportPlain, Goto
<1>4. ASSUME NEW g \in Goroutines, GetTransportRejects(g)
      PROVE  TypeOK'
  BY <1>4 DEF GetTransportRejects, Finish, Goto
<1>5. ASSUME NEW g \in Goroutines, GetTransportTLS(g)
      PROVE  TypeOK'
  BY <1>5 DEF GetTransportTLS, Goto
<1>6. ASSUME NEW g \in Goroutines, SetupFindsStash(g)
      PROVE  TypeOK'
  BY <1>6 DEF SetupFindsStash, Goto
<1>7. ASSUME NEW g \in Goroutines, SetupDials(g)
      PROVE  TypeOK'
  BY <1>7 DEF SetupDials, Goto
<1>8. ASSUME NEW g \in Goroutines, SetupFails(g)
      PROVE  TypeOK'
  BY <1>8 DEF SetupFails, Finish, Goto
<1>9. ASSUME NEW g \in Goroutines, NEW t \in Transports, SetupBuilds(g, t)
      PROVE  TypeOK'
  BY <1>9 DEF SetupBuilds, BuildAndStash, Goto
<1>10. ASSUME NEW g \in Goroutines, ReuseConnection(g)
      PROVE  TypeOK'
  BY <1>10 DEF ReuseConnection, Finish, Goto
<1>11. ASSUME NEW g \in Goroutines, RequestFails(g)
      PROVE  TypeOK'
  BY <1>11 DEF RequestFails, Finish, Goto
<1>12. ASSUME NEW g \in Goroutines, SendWithoutTLSDial(g)
      PROVE  TypeOK'
  BY <1>12 DEF SendWithoutTLSDial, Finish, Goto
<1>13. ASSUME NEW g \in Goroutines, DialTakesStash(g)
      PROVE  TypeOK'
  BY <1>13 DEF DialTakesStash, Dials, Goto
<1>14. ASSUME NEW g \in Goroutines, DialTLS(g)
      PROVE  TypeOK'
  BY <1>14 DEF DialTLS, Dials, Goto
<1>15. ASSUME NEW g \in Goroutines, DialFails(g)
      PROVE  TypeOK'
  BY <1>15 DEF DialFails, Finish, Goto
<1>16. ASSUME NEW g \in Goroutines, DialFits(g)
      PROVE  TypeOK'
  BY <1>16 DEF DialFits, Goto
<1>17. ASSUME NEW g \in Goroutines, DialChanged(g)
      PROVE  TypeOK'
  BY <1>17 DEF DialChanged, Goto
<1>18. ASSUME NEW g \in Goroutines, UseConnection(g)
      PROVE  TypeOK'
  BY <1>18 DEF UseConnection, Finish, Goto
<1>19. ASSUME NEW g \in Goroutines, DropTransport(g)
      PROVE  TypeOK'
  BY <1>19 DEF DropTransport, Goto
<1>20. ASSUME NEW g \in Goroutines, DropKind(g)
      PROVE  TypeOK'
  BY <1>20 DEF DropKind, Finish, Goto
<1>21. CASE CloseIdleConnections
  BY <1>21 DEF CloseIdleConnections
<1>22. ASSUME NEW t \in Transports, ConnectionDies(t)
      PROVE  TypeOK'
  BY <1>22 DEF ConnectionDies
<1>23. ASSUME NEW a \in Addrs, NEW k \in Kinds, ServerMoves(a, k)
      PROVE  TypeOK'
  BY <1>23 DEF ServerMoves
<1>24. CASE UNCHANGED vars
  BY <1>24 DEF vars
<1>25. QED
  BY <1>1, <1>2, <1>3, <1>4, <1>5, <1>6, <1>7, <1>8, <1>9, <1>10, <1>11, <1>12, <1>13,
     <1>14, <1>15, <1>16, <1>17, <1>18, <1>19, <1>20, <1>21, <1>22, <1>23, <1>24 DEF Next, Step, SetupEnters

\* The two caches are written by four steps only.
LEMMA CacheWriters ==
    ASSUME [Next]_vars
    PROVE  \/ UNCHANGED <<cachedTransports, cachedKinds>>
           \/ \E g \in Goroutines, t \in Transports :
                 GetTransportPlain(g, t) \/ SetupBuilds(g, t)
           \/ \E g \in Goroutines : DropTransport(g) \/ DropKind(g)
  BY DEF Next, Step, SetupEnters, vars, caches, RoundTrip, LookupHit, GetTransportRejects,
         GetTransportTLS, SetupFindsStash, SetupDials, SetupFails, ReuseConnection,
         RequestFails, SendWithoutTLSDial, DialTakesStash, DialTLS, DialFails,
         DialFits, DialChanged, UseConnection, CloseIdleConnections,
         ConnectionDies, ServerMoves

\* One step alone panics, and two hand a connection to a transport.
LEMMA Moves ==
    ASSUME TypeOK, [Next]_vars, NEW g \in Goroutines
    PROVE  /\ pc'[g] = "panic" => pc[g] = "panic" \/ SetupFindsStash(g)
           /\ Handed(g) => DialTakesStash(g) \/ DialFits(g)
<1> DEFINE Goal == /\ pc'[g] = "panic" => pc[g] = "panic" \/ SetupFindsStash(g)
                   /\ Handed(g) => DialTakesStash(g) \/ DialFits(g)
<1> SUFFICES Goal
  OBVIOUS
<1> USE DEF TypeOK, Handed
<1>1. ASSUME NEW h \in Goroutines, NEW a \in Addrs, NEW s \in Schemes,
             RoundTrip(h, a, s)
      PROVE  Goal
  BY <1>1 DEF RoundTrip, Goto
<1>2. ASSUME NEW h \in Goroutines, LookupHit(h)
      PROVE  Goal
  BY <1>2 DEF LookupHit, Goto
<1>3. ASSUME NEW h \in Goroutines, NEW t \in Transports, GetTransportPlain(h, t)
      PROVE  Goal
  BY <1>3 DEF GetTransportPlain, Goto
<1>4. ASSUME NEW h \in Goroutines, GetTransportRejects(h)
      PROVE  Goal
  BY <1>4 DEF GetTransportRejects, Finish, Goto
<1>5. ASSUME NEW h \in Goroutines, GetTransportTLS(h)
      PROVE  Goal
  BY <1>5 DEF GetTransportTLS, Goto
<1>6. ASSUME NEW h \in Goroutines, SetupFindsStash(h)
      PROVE  Goal
  BY <1>6 DEF SetupFindsStash, Goto
<1>7. ASSUME NEW h \in Goroutines, SetupDials(h)
      PROVE  Goal
  BY <1>7 DEF SetupDials, Goto
<1>8. ASSUME NEW h \in Goroutines, SetupFails(h)
      PROVE  Goal
  BY <1>8 DEF SetupFails, Finish, Goto
<1>9. ASSUME NEW h \in Goroutines, NEW t \in Transports, SetupBuilds(h, t)
      PROVE  Goal
  BY <1>9 DEF SetupBuilds, BuildAndStash, Goto
<1>10. ASSUME NEW h \in Goroutines, ReuseConnection(h)
      PROVE  Goal
  BY <1>10 DEF ReuseConnection, Finish, Goto
<1>11. ASSUME NEW h \in Goroutines, RequestFails(h)
      PROVE  Goal
  BY <1>11 DEF RequestFails, Finish, Goto
<1>12. ASSUME NEW h \in Goroutines, SendWithoutTLSDial(h)
      PROVE  Goal
  BY <1>12 DEF SendWithoutTLSDial, Finish, Goto
<1>13. ASSUME NEW h \in Goroutines, DialTakesStash(h)
      PROVE  Goal
  BY <1>13 DEF DialTakesStash, Dials, Goto
<1>14. ASSUME NEW h \in Goroutines, DialTLS(h)
      PROVE  Goal
  BY <1>14 DEF DialTLS, Dials, Goto
<1>15. ASSUME NEW h \in Goroutines, DialFails(h)
      PROVE  Goal
  BY <1>15 DEF DialFails, Finish, Goto
<1>16. ASSUME NEW h \in Goroutines, DialFits(h)
      PROVE  Goal
  BY <1>16 DEF DialFits, Goto
<1>17. ASSUME NEW h \in Goroutines, DialChanged(h)
      PROVE  Goal
  BY <1>17 DEF DialChanged, Goto
<1>18. ASSUME NEW h \in Goroutines, UseConnection(h)
      PROVE  Goal
  BY <1>18 DEF UseConnection, Finish, Goto
<1>19. ASSUME NEW h \in Goroutines, DropTransport(h)
      PROVE  Goal
  BY <1>19 DEF DropTransport, Goto
<1>20. ASSUME NEW h \in Goroutines, DropKind(h)
      PROVE  Goal
  BY <1>20 DEF DropKind, Finish, Goto
<1>21. CASE CloseIdleConnections
  BY <1>21 DEF CloseIdleConnections
<1>22. ASSUME NEW t \in Transports, ConnectionDies(t)
      PROVE  Goal
  BY <1>22 DEF ConnectionDies
<1>23. ASSUME NEW a \in Addrs, NEW k \in Kinds, ServerMoves(a, k)
      PROVE  Goal
  BY <1>23 DEF ServerMoves
<1>24. CASE UNCHANGED vars
  BY <1>24 DEF vars
<1>25. QED
  BY <1>1, <1>2, <1>3, <1>4, <1>5, <1>6, <1>7, <1>8, <1>9, <1>10, <1>11, <1>12, <1>13,
     <1>14, <1>15, <1>16, <1>17, <1>18, <1>19, <1>20, <1>21, <1>22, <1>23, <1>24 DEF Next, Step, SetupEnters

-----------------------------------------------------------------------------
\* A transport that is put in the cache was not referred to before.
LEMMA OneAddressStep == IInv /\ [Next]_vars => OneAddress'
<1> SUFFICES ASSUME IInv, [Next]_vars PROVE OneAddress'
  OBVIOUS
<1>0. TypeOK /\ OneAddress
  BY DEF IInv, Links
<1> USE DEF TypeOK, OneAddress
<1>1. CASE UNCHANGED <<cachedTransports, cachedKinds>>
  BY <1>0, <1>1
<1>2. ASSUME NEW g \in Goroutines, NEW t \in Transports, GetTransportPlain(g, t)
      PROVE  OneAddress'
  BY <1>0, <1>2 DEF GetTransportPlain, Unused
<1>3. ASSUME NEW g \in Goroutines, NEW t \in Transports, SetupBuilds(g, t)
      PROVE  OneAddress'
  BY <1>0, <1>3 DEF SetupBuilds, BuildAndStash, Unused
<1>4. ASSUME NEW g \in Goroutines, DropTransport(g)
      PROVE  OneAddress'
  BY <1>0, <1>4 DEF DropTransport
<1>5. ASSUME NEW g \in Goroutines, DropKind(g)
      PROVE  OneAddress'
  BY <1>0, <1>5 DEF DropKind
<1>6. QED
  BY <1>1, <1>2, <1>3, <1>4, <1>5, CacheWriters

\* The kind and the transport are written together and deleted apart.
LEMMA KindsHonestStep == IInv /\ [Next]_vars => KindsHonest'
<1> SUFFICES ASSUME IInv, [Next]_vars PROVE KindsHonest'
  OBVIOUS
<1>0. TypeOK /\ KindsHonest
  BY DEF IInv
<1> USE DEF TypeOK, KindsHonest
<1>1. CASE UNCHANGED <<cachedTransports, cachedKinds>>
  BY <1>0, <1>1
<1>2. ASSUME NEW g \in Goroutines, NEW t \in Transports, GetTransportPlain(g, t)
      PROVE  KindsHonest'
  BY <1>0, <1>2 DEF GetTransportPlain
<1>3. ASSUME NEW g \in Goroutines, NEW t \in Transports, SetupBuilds(g, t)
      PROVE  KindsHonest'
  BY <1>0, <1>3 DEF SetupBuilds, BuildAndStash
<1>4. ASSUME NEW g \in Goroutines, DropTransport(g)
      PROVE  KindsHonest'
  BY <1>0, <1>4 DEF DropTransport
<1>5. ASSUME NEW g \in Goroutines, DropKind(g)
      PROVE  KindsHonest'
  BY <1>0, <1>5 DEF DropKind
<1>6. QED
  BY <1>1, <1>2, <1>3, <1>4, <1>5, CacheWriters

\* A setup starts on a miss, and a stash means a hit.
LEMMA NoPanicStep == IInv /\ [Next]_vars => NoPanic'
<1> SUFFICES ASSUME IInv, [Next]_vars, NEW g \in Goroutines
             PROVE  pc'[g] # "panic"
  BY DEF NoPanic
<1>1. TypeOK /\ SetupOnMiss /\ StashFits /\ pc[g] # "panic"
  BY DEF IInv, Links, NoPanic
<1>2. ~SetupFindsStash(g)
  BY <1>1 DEF SetupFindsStash, SetupOnMiss, StashFits, TypeOK
<1>3. QED
  BY <1>1, <1>2, Moves

\* A request keeps its transport from being built again.
LEMMA OwnTransportStep == IInv /\ [Next]_vars => OwnTransport'
<1> SUFFICES ASSUME IInv, [Next]_vars PROVE OwnTransport'
  OBVIOUS
<1>0. TypeOK /\ TypeOK' /\ Links
  BY TypeStep DEF IInv
<1> USE DEF Links, TypeOK, caches, request, OwnTransport, Unused
<1>1. ASSUME NEW g \in Goroutines, NEW a \in Addrs, NEW s \in Schemes,
             RoundTrip(g, a, s)
      PROVE  OwnTransport'
  BY <1>0, <1>1 DEF RoundTrip, Goto
<1>2. ASSUME NEW g \in Goroutines, LookupHit(g)
      PROVE  OwnTransport'
  BY <1>0, <1>2 DEF LookupHit, Goto, OneAddress
<1>3. ASSUME NEW g \in Goroutines, NEW t \in Transports, GetTransportPlain(g, t)
      PROVE  OwnTransport'
  BY <1>0, <1>3 DEF GetTransportPlain, Goto
<1>4. ASSUME NEW g \in Goroutines, GetTransportRejects(g)
      PROVE  OwnTransport'
  BY <1>0, <1>4 DEF GetTransportRejects, Finish, Goto
<1>5. ASSUME NEW g \in Goroutines, GetTransportTLS(g)
      PROVE  OwnTransport'
  BY <1>0, <1>5 DEF GetTransportTLS, Goto
<1>6. ASSUME NEW g \in Goroutines, SetupFindsStash(g)
      PROVE  OwnTransport'
  BY <1>0, <1>6 DEF SetupFindsStash, Goto
<1>7. ASSUME NEW g \in Goroutines, SetupDials(g)
      PROVE  OwnTransport'
  BY <1>0, <1>7 DEF SetupDials, Goto
<1>8. ASSUME NEW g \in Goroutines, SetupFails(g)
      PROVE  OwnTransport'
  BY <1>0, <1>8 DEF SetupFails, Finish, Goto
<1>9. ASSUME NEW g \in Goroutines, NEW t \in Transports, SetupBuilds(g, t)
      PROVE  OwnTransport'
  BY <1>0, <1>9 DEF SetupBuilds, BuildAndStash, Goto
<1>10. ASSUME NEW g \in Goroutines, ReuseConnection(g)
      PROVE  OwnTransport'
  BY <1>0, <1>10 DEF ReuseConnection, Finish, Goto
<1>11. ASSUME NEW g \in Goroutines, RequestFails(g)
      PROVE  OwnTransport'
  BY <1>0, <1>11 DEF RequestFails, Finish, Goto
<1>12. ASSUME NEW g \in Goroutines, SendWithoutTLSDial(g)
      PROVE  OwnTransport'
  BY <1>0, <1>12 DEF SendWithoutTLSDial, Finish, Goto
<1>13. ASSUME NEW g \in Goroutines, DialTakesStash(g)
      PROVE  OwnTransport'
  BY <1>0, <1>13 DEF DialTakesStash, Dials, Goto
<1>14. ASSUME NEW g \in Goroutines, DialTLS(g)
      PROVE  OwnTransport'
  BY <1>0, <1>14 DEF DialTLS, Dials, Goto
<1>15. ASSUME NEW g \in Goroutines, DialFails(g)
      PROVE  OwnTransport'
  BY <1>0, <1>15 DEF DialFails, Finish, Goto
<1>16. ASSUME NEW g \in Goroutines, DialFits(g)
      PROVE  OwnTransport'
  BY <1>0, <1>16 DEF DialFits, Goto
<1>17. ASSUME NEW g \in Goroutines, DialChanged(g)
      PROVE  OwnTransport'
  BY <1>0, <1>17 DEF DialChanged, Goto
<1>18. ASSUME NEW g \in Goroutines, UseConnection(g)
      PROVE  OwnTransport'
  BY <1>0, <1>18 DEF UseConnection, Finish, Goto
<1>19. ASSUME NEW g \in Goroutines, DropTransport(g)
      PROVE  OwnTransport'
  BY <1>0, <1>19 DEF DropTransport, Goto
<1>20. ASSUME NEW g \in Goroutines, DropKind(g)
      PROVE  OwnTransport'
  BY <1>0, <1>20 DEF DropKind, Finish, Goto
<1>21. CASE CloseIdleConnections
  BY <1>0, <1>21 DEF CloseIdleConnections
<1>22. ASSUME NEW t \in Transports, ConnectionDies(t)
      PROVE  OwnTransport'
  BY <1>0, <1>22 DEF ConnectionDies
<1>23. ASSUME NEW a \in Addrs, NEW k \in Kinds, ServerMoves(a, k)
      PROVE  OwnTransport'
  BY <1>0, <1>23 DEF ServerMoves
<1>24. CASE UNCHANGED vars
  BY <1>0, <1>24 DEF vars
<1>25. QED
  BY <1>1, <1>2, <1>3, <1>4, <1>5, <1>6, <1>7, <1>8, <1>9, <1>10, <1>11, <1>12, <1>13,
     <1>14, <1>15, <1>16, <1>17, <1>18, <1>19, <1>20, <1>21, <1>22, <1>23, <1>24 DEF Next, Step, SetupEnters

\* cachedTransportsLck keeps others from caching during a setup.
LEMMA SetupOnMissStep == IInv /\ [Next]_vars => SetupOnMiss'
<1> SUFFICES ASSUME IInv, [Next]_vars PROVE SetupOnMiss'
  OBVIOUS
<1>0. TypeOK /\ TypeOK' /\ Links
  BY TypeStep DEF IInv
<1> USE DEF Links, TypeOK, caches, locks, request, SetupOnMiss
<1>1. ASSUME NEW g \in Goroutines, NEW a \in Addrs, NEW s \in Schemes,
             RoundTrip(g, a, s)
      PROVE  SetupOnMiss'
  BY <1>0, <1>1 DEF RoundTrip, Goto
<1>2. ASSUME NEW g \in Goroutines, LookupHit(g)
      PROVE  SetupOnMiss'
  BY <1>0, <1>2 DEF LookupHit, Goto
<1>3. ASSUME NEW g \in Goroutines, NEW t \in Transports, GetTransportPlain(g, t)
      PROVE  SetupOnMiss'
  BY <1>0, <1>3 DEF GetTransportPlain, Goto
<1>4. ASSUME NEW g \in Goroutines, GetTransportRejects(g)
      PROVE  SetupOnMiss'
  BY <1>0, <1>4 DEF GetTransportRejects, Finish, Goto
<1>5. ASSUME NEW g \in Goroutines, GetTransportTLS(g)
      PROVE  SetupOnMiss'
  BY <1>0, <1>5 DEF GetTransportTLS, Goto
<1>6. ASSUME NEW g \in Goroutines, SetupFindsStash(g)
      PROVE  SetupOnMiss'
  BY <1>0, <1>6 DEF SetupFindsStash, Goto
<1>7. ASSUME NEW g \in Goroutines, SetupDials(g)
      PROVE  SetupOnMiss'
  BY <1>0, <1>7 DEF SetupDials, Goto
<1>8. ASSUME NEW g \in Goroutines, SetupFails(g)
      PROVE  SetupOnMiss'
  BY <1>0, <1>8 DEF SetupFails, Finish, Goto
<1>9. ASSUME NEW g \in Goroutines, NEW t \in Transports, SetupBuilds(g, t)
      PROVE  SetupOnMiss'
  BY <1>0, <1>9 DEF SetupBuilds, BuildAndStash, Goto
<1>10. ASSUME NEW g \in Goroutines, ReuseConnection(g)
      PROVE  SetupOnMiss'
  BY <1>0, <1>10 DEF ReuseConnection, Finish, Goto
<1>11. ASSUME NEW g \in Goroutines, RequestFails(g)
      PROVE  SetupOnMiss'
  BY <1>0, <1>11 DEF RequestFails, Finish, Goto
<1>12. ASSUME NEW g \in Goroutines, SendWithoutTLSDial(g)
      PROVE  SetupOnMiss'
  BY <1>0, <1>12 DEF SendWithoutTLSDial, Finish, Goto
<1>13. ASSUME NEW g \in Goroutines, DialTakesStash(g)
      PROVE  SetupOnMiss'
  BY <1>0, <1>13 DEF DialTakesStash, Dials, Goto
<1>14. ASSUME NEW g \in Goroutines, DialTLS(g)
      PROVE  SetupOnMiss'
  BY <1>0, <1>14 DEF DialTLS, Dials, Goto
<1>15. ASSUME NEW g \in Goroutines, DialFails(g)
      PROVE  SetupOnMiss'
  BY <1>0, <1>15 DEF DialFails, Finish, Goto
<1>16. ASSUME NEW g \in Goroutines, DialFits(g)
      PROVE  SetupOnMiss'
  BY <1>0, <1>16 DEF DialFits, Goto
<1>17. ASSUME NEW g \in Goroutines, DialChanged(g)
      PROVE  SetupOnMiss'
  BY <1>0, <1>17 DEF DialChanged, Goto
<1>18. ASSUME NEW g \in Goroutines, UseConnection(g)
      PROVE  SetupOnMiss'
  BY <1>0, <1>18 DEF UseConnection, Finish, Goto
<1>19. ASSUME NEW g \in Goroutines, DropTransport(g)
      PROVE  SetupOnMiss'
  BY <1>0, <1>19 DEF DropTransport, Goto
<1>20. ASSUME NEW g \in Goroutines, DropKind(g)
      PROVE  SetupOnMiss'
  BY <1>0, <1>20 DEF DropKind, Finish, Goto
<1>21. CASE CloseIdleConnections
  BY <1>0, <1>21 DEF CloseIdleConnections
<1>22. ASSUME NEW t \in Transports, ConnectionDies(t)
      PROVE  SetupOnMiss'
  BY <1>0, <1>22 DEF ConnectionDies
<1>23. ASSUME NEW a \in Addrs, NEW k \in Kinds, ServerMoves(a, k)
      PROVE  SetupOnMiss'
  BY <1>0, <1>23 DEF ServerMoves
<1>24. CASE UNCHANGED vars
  BY <1>0, <1>24 DEF vars
<1>25. QED
  BY <1>1, <1>2, <1>3, <1>4, <1>5, <1>6, <1>7, <1>8, <1>9, <1>10, <1>11, <1>12, <1>13,
     <1>14, <1>15, <1>16, <1>17, <1>18, <1>19, <1>20, <1>21, <1>22, <1>23, <1>24 DEF Next, Step, SetupEnters

\* The stash is emptied before its transport can be dropped.
LEMMA StashFitsStep == IInv /\ [Next]_vars => StashFits'
<1> SUFFICES ASSUME IInv, [Next]_vars PROVE StashFits'
  OBVIOUS
<1>0. TypeOK /\ TypeOK' /\ Links
  BY TypeStep DEF IInv
<1> USE DEF IInv, Links, TypeOK, caches, request, StashFits, OneAddress,
           OwnTransport, SetupOnMiss, Unused
<1>1. ASSUME NEW g \in Goroutines, NEW a \in Addrs, NEW s \in Schemes,
             RoundTrip(g, a, s)
      PROVE  StashFits'
  BY <1>0, <1>1 DEF RoundTrip, Goto
<1>2. ASSUME NEW g \in Goroutines, LookupHit(g)
      PROVE  StashFits'
  BY <1>0, <1>2 DEF LookupHit, Goto
<1>3. ASSUME NEW g \in Goroutines, NEW t \in Transports, GetTransportPlain(g, t)
      PROVE  StashFits'
  BY <1>0, <1>3 DEF GetTransportPlain, Goto
<1>4. ASSUME NEW g \in Goroutines, GetTransportRejects(g)
      PROVE  StashFits'
  BY <1>0, <1>4 DEF GetTransportRejects, Finish, Goto
<1>5. ASSUME NEW g \in Goroutines, GetTransportTLS(g)
      PROVE  StashFits'
  BY <1>0, <1>5 DEF GetTransportTLS, Goto
<1>6. ASSUME NEW g \in Goroutines, SetupFindsStash(g)
      PROVE  StashFits'
  BY <1>0, <1>6 DEF SetupFindsStash, Goto
<1>7. ASSUME NEW g \in Goroutines, SetupDials(g)
      PROVE  StashFits'
  BY <1>0, <1>7 DEF SetupDials, Goto
<1>8. ASSUME NEW g \in Goroutines, SetupFails(g)
      PROVE  StashFits'
  BY <1>0, <1>8 DEF SetupFails, Finish, Goto
<1>9. ASSUME NEW g \in Goroutines, NEW t \in Transports, SetupBuilds(g, t)
      PROVE  StashFits'
  BY <1>0, <1>9 DEF SetupBuilds, BuildAndStash, Goto
<1>10. ASSUME NEW g \in Goroutines, ReuseConnection(g)
      PROVE  StashFits'
  BY <1>0, <1>10 DEF ReuseConnection, Finish, Goto
<1>11. ASSUME NEW g \in Goroutines, RequestFails(g)
      PROVE  StashFits'
  BY <1>0, <1>11 DEF RequestFails, Finish, Goto
<1>12. ASSUME NEW g \in Goroutines, SendWithoutTLSDial(g)
      PROVE  StashFits'
  BY <1>0, <1>12 DEF SendWithoutTLSDial, Finish, Goto
<1>13. ASSUME NEW g \in Goroutines, DialTakesStash(g)
      PROVE  StashFits'
  BY <1>0, <1>13 DEF DialTakesStash, Dials, Goto
<1>14. ASSUME NEW g \in Goroutines, DialTLS(g)
      PROVE  StashFits'
  BY <1>0, <1>14 DEF DialTLS, Dials, Goto
<1>15. ASSUME NEW g \in Goroutines, DialFails(g)
      PROVE  StashFits'
  BY <1>0, <1>15 DEF DialFails, Finish, Goto
<1>16. ASSUME NEW g \in Goroutines, DialFits(g)
      PROVE  StashFits'
  BY <1>0, <1>16 DEF DialFits, Goto
<1>17. ASSUME NEW g \in Goroutines, DialChanged(g)
      PROVE  StashFits'
  BY <1>0, <1>17 DEF DialChanged, Goto
<1>18. ASSUME NEW g \in Goroutines, UseConnection(g)
      PROVE  StashFits'
  BY <1>0, <1>18 DEF UseConnection, Finish, Goto
<1>19. ASSUME NEW g \in Goroutines, DropTransport(g)
      PROVE  StashFits'
  BY <1>0, <1>19 DEF DropTransport, Goto
<1>20. ASSUME NEW g \in Goroutines, DropKind(g)
      PROVE  StashFits'
  BY <1>0, <1>20 DEF DropKind, Finish, Goto
<1>21. CASE CloseIdleConnections
  BY <1>0, <1>21 DEF CloseIdleConnections
<1>22. ASSUME NEW t \in Transports, ConnectionDies(t)
      PROVE  StashFits'
  BY <1>0, <1>22 DEF ConnectionDies
<1>23. ASSUME NEW a \in Addrs, NEW k \in Kinds, ServerMoves(a, k)
      PROVE  StashFits'
  BY <1>0, <1>23 DEF ServerMoves
<1>24. CASE UNCHANGED vars
  BY <1>0, <1>24 DEF vars
<1>25. QED
  BY <1>1, <1>2, <1>3, <1>4, <1>5, <1>6, <1>7, <1>8, <1>9, <1>10, <1>11, <1>12, <1>13,
     <1>14, <1>15, <1>16, <1>17, <1>18, <1>19, <1>20, <1>21, <1>22, <1>23, <1>24 DEF Next, Step, SetupEnters

-----------------------------------------------------------------------------
\* The inductive invariant of the transport cache holds throughout.
LEMMA Inductive == Spec => []IInv
<1>1. Init => IInv
  <2> SUFFICES ASSUME Init PROVE IInv
    OBVIOUS
  <2>1. TypeOK
    BY TypeInit
  <2>2. Links /\ StashFits /\ NoPanic /\ KindsHonest
    BY DEF Init, Links, OneAddress, OwnTransport, SetupOnMiss, StashFits, NoPanic, KindsHonest
  <2>3. QED
    BY <2>1, <2>2 DEF IInv
<1>2. IInv /\ [Next]_vars => IInv'
  BY TypeStep, OneAddressStep, OwnTransportStep, SetupOnMissStep, StashFitsStep,
     NoPanicStep, KindsHonestStep DEF IInv, Links
<1>3. QED
  BY <1>1, <1>2, PTL DEF Spec

\* The caches keep their types and each mutex is held by the request whose
\* code holds it, for any number of goroutines in RoundTrip.
THEOREM TypeCorrect == Spec => []TypeOK
<1>1. IInv => TypeOK
  BY DEF IInv
<1>2. QED
  BY Inductive, <1>1, PTL

\* getTransport's "Should never happen" panic never happens.
THEOREM SetupNeverPanics == Spec => []NoPanic
<1>1. IInv => NoPanic
  BY DEF IInv
<1>2. QED
  BY Inductive, <1>1, PTL

\* A stashed connection always belongs to the cached transport.
THEOREM StashBelongs == Spec => []StashFits
<1>1. IInv => StashFits
  BY DEF IInv
<1>2. QED
  BY Inductive, <1>1, PTL

\* cachedKinds never holds the wrong kind for a transport set up over TLS.
THEOREM KindsNeverLie == Spec => []KindsHonest
<1>1. IInv => KindsHonest
  BY DEF IInv
<1>2. QED
  BY Inductive, <1>1, PTL

\* Only a transport that has been replaced, or one built for plain http, is
\* ever handed a connection of another protocol by dialTLS.
THEOREM MixupNeedsStale == Spec => MixupOnlyStale
<1> DEFINE NoMix ==
      \A g \in Goroutines :
         Handed(g) /\ got'[g] # tr[g].kind
             => cachedTransports[addr[g]] # tr[g] \/ tr[g].plain
<1>1. IInv /\ [Next]_vars => [NoMix]_vars
  <2> SUFFICES ASSUME IInv, Next, NEW g \in Goroutines, Handed(g),
                      got'[g] # tr[g].kind
               PROVE  cachedTransports[addr[g]] # tr[g] \/ tr[g].plain
    OBVIOUS
  <2>0. TypeOK
    BY DEF IInv
  <2>1. DialTakesStash(g) \/ DialFits(g)
    BY <2>0, Moves
  <2>2. CASE DialTakesStash(g)
    BY <2>0, <2>2 DEF DialTakesStash, Dials, Goto, Handed, IInv, TypeOK, StashFits
  <2>3. CASE DialFits(g)
    BY <2>0, <2>3 DEF DialFits, Goto, Handed, IInv, TypeOK, KindsHonest
  <2>4. QED
    BY <2>1, <2>2, <2>3
<1>2. QED
  BY Inductive, <1>1, PTL DEF Spec, MixupOnlyStale
=============================================================================
