-------------------------- MODULE WsHandlesProofs --------------------------
(***************************************************************************)
(* Proofs about WsHandles for any number of Python threads, websocket      *)
(* clients and connections.  The invariants of interest rest on who may    *)
(* hold a number: a drawn number is stored once, by the call that drew it, *)
(* and a connection that a closer has taken out of the table stays out.    *)
(***************************************************************************)
EXTENDS WsHandles, TLAPS

\* Where a call works on a client, and where on a connection.
ClientPlaces == {"newStore", "connectLoad", "dial", "wsFree1", "wsFree2", "wsMark"}
ConnPlaces == {"connectStore", "readLoad", "reading", "sendLoad", "closeLoad",
               "closeDelete", "closeSock", "connFree1", "connFree2", "connMark"}

\* WebsocketClose has deleted the connection or found it deleted.
PastDelete == {"closeSock", "connFree1", "connFree2", "connMark"}

\* A client number is drawn by one call of WebsocketNew, which alone stores
\* it; every other call was given an object that has been stored.
ClientNumbers ==
    /\ \A w \in WsIds : w > wsHandleSeq => ws[w] = "none"
    /\ \A w \in wsHandles : ws[w] # "none"
    /\ \A t \in Threads :
          pc[t] \in ClientPlaces =>
              /\ arg[t] \in 1 .. wsHandleSeq
              /\ ws[arg[t]] = "none" <=> pc[t] = "newStore"
    /\ \A t, u \in Threads :
          pc[t] = "newStore" /\ pc[u] = "newStore" /\ arg[t] = arg[u] => t = u

\* The same for connections; the number is drawn once the dial has succeeded,
\* and until it is stored nobody else can close what it stands for.
ConnNumbers ==
    /\ \A c \in ConnIds : c > wsConnHandleSeq => conn[c] = "none" /\ sock[c] = "none"
    /\ \A c \in wsConnHandles : conn[c] # "none"
    /\ \A t \in Threads :
          pc[t] \in ConnPlaces =>
              /\ arg[t] \in 1 .. wsConnHandleSeq
              /\ conn[arg[t]] = "none" <=> pc[t] = "connectStore"
              /\ pc[t] = "connectStore" => sock[arg[t]] = "open"
    /\ \A t, u \in Threads :
          pc[t] = "connectStore" /\ pc[u] = "connectStore" /\ arg[t] = arg[u] => t = u

\* A connection that is past the deletion of WebsocketClose does not come
\* back into the table.
DeletedForGood ==
    /\ \A t \in Threads : pc[t] \in PastDelete => arg[t] \notin wsConnHandles
    /\ \A c \in ConnIds : conn[c] = "closed" => c \notin wsConnHandles

Links == ClientNumbers /\ ConnNumbers /\ DeletedForGood

IInv == TypeOK /\ Links /\ RegisteredIsOpen /\ LostOnlyByNamesake /\ ReleasedOnlyByNamesake

USE BoundsAssumption DEF WsIds, ConnIds

-----------------------------------------------------------------------------
\* Types: what the steps assign is of the declared type.
LEMMA TypeInit == Init => TypeOK
  BY DEF Init, TypeOK, PCs

-----------------------------------------------------------------------------
\* A table lookup changes nothing but the place of its thread.
LEMMA Lookups ==
    ASSUME NEW t \in Threads
    PROVE  /\ WebsocketConnectLoad(t) =>
                 /\ Goto(t, "connectLoad", "dial") \/ Return(t, "connectLoad", "error")
                 /\ UNCHANGED <<tables, objects, sock, peer>>
           /\ WebsocketReadLoad(t) =>
                 /\ Goto(t, "readLoad", "reading") \/ Return(t, "readLoad", "error")
                 /\ UNCHANGED <<tables, objects, sock, peer>>
           /\ WebsocketCloseLoad(t) =>
                 /\ \/ Goto(t, "closeLoad", "closeDelete")
                    \/ /\ Goto(t, "closeLoad", "connFree1")
                       /\ ConnId(arg[t]) \notin wsConnHandles
                 /\ UNCHANGED <<tables, objects, sock, peer>>
<1>1. WebsocketConnectLoad(t) =>
          /\ Goto(t, "connectLoad", "dial") \/ Return(t, "connectLoad", "error")
          /\ UNCHANGED <<tables, objects, sock, peer>>
  BY Zenon DEF WebsocketConnectLoad
<1>2. WebsocketReadLoad(t) =>
          /\ Goto(t, "readLoad", "reading") \/ Return(t, "readLoad", "error")
          /\ UNCHANGED <<tables, objects, sock, peer>>
  BY Zenon DEF WebsocketReadLoad
<1>3. WebsocketCloseLoad(t) =>
          /\ \/ Goto(t, "closeLoad", "closeDelete")
             \/ /\ Goto(t, "closeLoad", "connFree1")
                /\ ConnId(arg[t]) \notin wsConnHandles
          /\ UNCHANGED <<tables, objects, sock, peer>>
  BY Zenon DEF WebsocketCloseLoad
<1>4. QED
  BY <1>1, <1>2, <1>3

\* Every step keeps the types; numbers enter a table only once drawn.
LEMMA TypeStep == IInv /\ [Next]_vars => TypeOK'
<1> SUFFICES ASSUME IInv, [Next]_vars PROVE TypeOK'
  OBVIOUS
<1>0. TypeOK /\ ClientNumbers /\ ConnNumbers
  BY DEF IInv, Links
<1> USE DEF TypeOK, PCs, tables, objects, ClientPlaces, ConnPlaces
<1>1. ASSUME NEW t \in Threads, WebsocketNew(t)
      PROVE  TypeOK'
  BY <1>0, <1>1 DEF WebsocketNew, Call
<1>2. ASSUME NEW t \in Threads, WebsocketNewFails(t)
      PROVE  TypeOK'
  BY <1>0, <1>2 DEF WebsocketNewFails
<1>3. ASSUME NEW t \in Threads, WebsocketNewStore(t)
      PROVE  TypeOK'
  <2>1. arg[t] \in 1 .. wsHandleSeq
    BY <1>0, <1>3 DEF WebsocketNewStore, Return, ClientNumbers
  <2>2. QED
    BY <1>0, <1>3, <2>1 DEF WebsocketNewStore, Return
<1>4. ASSUME NEW t \in Threads, NEW w \in WsIds, Connect(t, w)
      PROVE  TypeOK'
  BY <1>0, <1>4 DEF Connect, Call
<1>5. ASSUME NEW t \in Threads, WebsocketConnectLoad(t)
      PROVE  TypeOK'
  <2>1. /\ Goto(t, "connectLoad", "dial") \/ Return(t, "connectLoad", "error")
        /\ UNCHANGED <<tables, objects, sock, peer>>
    BY <1>5, Lookups
  <2>2. CASE Goto(t, "connectLoad", "dial")
    BY <1>0, <2>1, <2>2 DEF Goto
  <2>3. CASE Return(t, "connectLoad", "error")
    BY <1>0, <2>1, <2>3 DEF Return
  <2>4. QED
    BY <2>1, <2>2, <2>3
<1>6. ASSUME NEW t \in Threads, WebsocketDialFails(t)
      PROVE  TypeOK'
  BY <1>0, <1>6 DEF WebsocketDialFails, Return
<1>7. ASSUME NEW t \in Threads, WebsocketDialed(t)
      PROVE  TypeOK'
  BY <1>0, <1>7 DEF WebsocketDialed
<1>8. ASSUME NEW t \in Threads, WebsocketConnectStore(t)
      PROVE  TypeOK'
  <2>1. arg[t] \in 1 .. wsConnHandleSeq
    BY <1>0, <1>8 DEF WebsocketConnectStore, Return, ConnNumbers
  <2>2. QED
    BY <1>0, <1>8, <2>1 DEF WebsocketConnectStore, Return
<1>9. ASSUME NEW t \in Threads, NEW c \in ConnIds, ReadMessage(t, c)
      PROVE  TypeOK'
  BY <1>0, <1>9 DEF ReadMessage, Call
<1>10. ASSUME NEW t \in Threads, WebsocketReadLoad(t)
      PROVE  TypeOK'
  <2>1. /\ Goto(t, "readLoad", "reading") \/ Return(t, "readLoad", "error")
        /\ UNCHANGED <<tables, objects, sock, peer>>
    BY <1>10, Lookups
  <2>2. CASE Goto(t, "readLoad", "reading")
    BY <1>0, <2>1, <2>2 DEF Goto
  <2>3. CASE Return(t, "readLoad", "error")
    BY <1>0, <2>1, <2>3 DEF Return
  <2>4. QED
    BY <2>1, <2>2, <2>3
<1>11. ASSUME NEW t \in Threads, ReadFrame(t)
      PROVE  TypeOK'
  BY <1>0, <1>11 DEF ReadFrame, Return
<1>12. ASSUME NEW t \in Threads, ReadEnds(t)
      PROVE  TypeOK'
  BY <1>0, <1>12 DEF ReadEnds, Return
<1>13. ASSUME NEW t \in Threads, NEW c \in ConnIds, Send(t, c)
      PROVE  TypeOK'
  BY <1>0, <1>13 DEF Send, Call
<1>14. ASSUME NEW t \in Threads, WebsocketWriteMessage(t)
      PROVE  TypeOK'
  BY <1>0, <1>14 DEF WebsocketWriteMessage, Return
<1>15. ASSUME NEW c \in ConnIds, NEW how \in {"cleanly", "broken"}, PeerEnds(c, how)
      PROVE  TypeOK'
  BY <1>0, <1>15 DEF PeerEnds
<1>16. ASSUME NEW t \in Threads, NEW c \in ConnIds, ConnClose(t, c)
      PROVE  TypeOK'
  BY <1>0, <1>16 DEF ConnClose, Call
<1>17. ASSUME NEW t \in Threads, WebsocketCloseLoad(t)
      PROVE  TypeOK'
  <2>1. /\ \/ Goto(t, "closeLoad", "closeDelete")
           \/ /\ Goto(t, "closeLoad", "connFree1")
              /\ ConnId(arg[t]) \notin wsConnHandles
        /\ UNCHANGED <<tables, objects, sock, peer>>
    BY <1>17, Lookups
  <2>2. CASE Goto(t, "closeLoad", "closeDelete")
    BY <1>0, <2>1, <2>2 DEF Goto
  <2>3. CASE Goto(t, "closeLoad", "connFree1") /\ ConnId(arg[t]) \notin wsConnHandles
    BY <1>0, <2>1, <2>3 DEF Goto
  <2>4. QED
    BY <2>1, <2>2, <2>3
<1>18. ASSUME NEW t \in Threads, WebsocketCloseDelete(t)
      PROVE  TypeOK'
  BY <1>0, <1>18 DEF WebsocketCloseDelete, Goto
<1>19. ASSUME NEW t \in Threads, WebsocketCloseSock(t)
      PROVE  TypeOK'
  BY <1>0, <1>19 DEF WebsocketCloseSock, Goto
<1>20. ASSUME NEW t \in Threads, ConnFree1(t)
      PROVE  TypeOK'
  BY <1>0, <1>20 DEF ConnFree1, FreeFromConns, ConnId, Goto
<1>21. ASSUME NEW t \in Threads, ConnFree2(t)
      PROVE  TypeOK'
  BY <1>0, <1>21 DEF ConnFree2, FreeFromClients, Goto
<1>22. ASSUME NEW t \in Threads, ConnMark(t)
      PROVE  TypeOK'
  BY <1>0, <1>22 DEF ConnMark, Return
<1>23. ASSUME NEW t \in Threads, NEW w \in WsIds, WsClose(t, w)
      PROVE  TypeOK'
  BY <1>0, <1>23 DEF WsClose, Call
<1>24. ASSUME NEW t \in Threads, WsFree1(t)
      PROVE  TypeOK'
  BY <1>0, <1>24 DEF WsFree1, FreeFromConns, WsId, Goto
<1>25. ASSUME NEW t \in Threads, WsFree2(t)
      PROVE  TypeOK'
  BY <1>0, <1>25 DEF WsFree2, FreeFromClients, Goto
<1>26. ASSUME NEW t \in Threads, WsMark(t)
      PROVE  TypeOK'
  BY <1>0, <1>26 DEF WsMark, Return
<1>27. CASE UNCHANGED vars
  BY <1>0, <1>27 DEF vars
<1>28. QED
  BY <1>1, <1>2, <1>3, <1>4, <1>5, <1>6, <1>7, <1>8, <1>9, <1>10, <1>11,
     <1>12, <1>13, <1>14, <1>15, <1>16, <1>17, <1>18, <1>19, <1>20, <1>21,
     <1>22, <1>23, <1>24, <1>25, <1>26, <1>27 DEF Next, Step

\* A client number is drawn once and stored by the thread that drew it.
LEMMA ClientNumbersStep == IInv /\ [Next]_vars => ClientNumbers'
<1> SUFFICES ASSUME IInv, [Next]_vars PROVE ClientNumbers'
  OBVIOUS
<1>0. TypeOK /\ ClientNumbers
  BY DEF IInv, Links
<1> USE DEF TypeOK, PCs, tables, objects, ClientPlaces, ClientNumbers
<1>1. ASSUME NEW t \in Threads, WebsocketNew(t)
      PROVE  ClientNumbers'
  BY <1>0, <1>1 DEF WebsocketNew, Call
<1>2. ASSUME NEW t \in Threads, WebsocketNewFails(t)
      PROVE  ClientNumbers'
  BY <1>0, <1>2 DEF WebsocketNewFails
<1>3. ASSUME NEW t \in Threads, WebsocketNewStore(t)
      PROVE  ClientNumbers'
  BY <1>0, <1>3 DEF WebsocketNewStore, Return
<1>4. ASSUME NEW t \in Threads, NEW w \in WsIds, Connect(t, w)
      PROVE  ClientNumbers'
  BY <1>0, <1>4 DEF Connect, Call
<1>5. ASSUME NEW t \in Threads, WebsocketConnectLoad(t)
      PROVE  ClientNumbers'
  <2>1. /\ Goto(t, "connectLoad", "dial") \/ Return(t, "connectLoad", "error")
        /\ UNCHANGED <<tables, objects, sock, peer>>
    BY <1>5, Lookups
  <2>2. CASE Goto(t, "connectLoad", "dial")
    BY <1>0, <2>1, <2>2 DEF Goto
  <2>3. CASE Return(t, "connectLoad", "error")
    BY <1>0, <2>1, <2>3 DEF Return
  <2>4. QED
    BY <2>1, <2>2, <2>3
<1>6. ASSUME NEW t \in Threads, WebsocketDialFails(t)
      PROVE  ClientNumbers'
  BY <1>0, <1>6 DEF WebsocketDialFails, Return
<1>7. ASSUME NEW t \in Threads, WebsocketDialed(t)
      PROVE  ClientNumbers'
  BY <1>0, <1>7 DEF WebsocketDialed
<1>8. ASSUME NEW t \in Threads, WebsocketConnectStore(t)
      PROVE  ClientNumbers'
  BY <1>0, <1>8 DEF WebsocketConnectStore, Return
<1>9. ASSUME NEW t \in Threads, NEW c \in ConnIds, ReadMessage(t, c)
      PROVE  ClientNumbers'
  BY <1>0, <1>9 DEF ReadMessage, Call
<1>10. ASSUME NEW t \in Threads, WebsocketReadLoad(t)
      PROVE  ClientNumbers'
  <2>1. /\ Goto(t, "readLoad", "reading") \/ Return(t, "readLoad", "error")
        /\ UNCHANGED <<tables, objects, sock, peer>>
    BY <1>10, Lookups
  <2>2. CASE Goto(t, "readLoad", "reading")
    BY <1>0, <2>1, <2>2 DEF Goto
  <2>3. CASE Return(t, "readLoad", "error")
    BY <1>0, <2>1, <2>3 DEF Return
  <2>4. QED
    BY <2>1, <2>2, <2>3
<1>11. ASSUME NEW t \in Threads, ReadFrame(t)
      PROVE  ClientNumbers'
  BY <1>0, <1>11 DEF ReadFrame, Return
<1>12. ASSUME NEW t \in Threads, ReadEnds(t)
      PROVE  ClientNumbers'
  BY <1>0, <1>12 DEF ReadEnds, Return
<1>13. ASSUME NEW t \in Threads, NEW c \in ConnIds, Send(t, c)
      PROVE  ClientNumbers'
  BY <1>0, <1>13 DEF Send, Call
<1>14. ASSUME NEW t \in Threads, WebsocketWriteMessage(t)
      PROVE  ClientNumbers'
  BY <1>0, <1>14 DEF WebsocketWriteMessage, Return
<1>15. ASSUME NEW c \in ConnIds, NEW how \in {"cleanly", "broken"}, PeerEnds(c, how)
      PROVE  ClientNumbers'
  BY <1>0, <1>15 DEF PeerEnds
<1>16. ASSUME NEW t \in Threads, NEW c \in ConnIds, ConnClose(t, c)
      PROVE  ClientNumbers'
  BY <1>0, <1>16 DEF ConnClose, Call
<1>17. ASSUME NEW t \in Threads, WebsocketCloseLoad(t)
      PROVE  ClientNumbers'
  <2>1. /\ \/ Goto(t, "closeLoad", "closeDelete")
           \/ /\ Goto(t, "closeLoad", "connFree1")
              /\ ConnId(arg[t]) \notin wsConnHandles
        /\ UNCHANGED <<tables, objects, sock, peer>>
    BY <1>17, Lookups
  <2>2. CASE Goto(t, "closeLoad", "closeDelete")
    BY <1>0, <2>1, <2>2 DEF Goto
  <2>3. CASE Goto(t, "closeLoad", "connFree1") /\ ConnId(arg[t]) \notin wsConnHandles
    BY <1>0, <2>1, <2>3 DEF Goto
  <2>4. QED
    BY <2>1, <2>2, <2>3
<1>18. ASSUME NEW t \in Threads, WebsocketCloseDelete(t)
      PROVE  ClientNumbers'
  BY <1>0, <1>18 DEF WebsocketCloseDelete, Goto
<1>19. ASSUME NEW t \in Threads, WebsocketCloseSock(t)
      PROVE  ClientNumbers'
  BY <1>0, <1>19 DEF WebsocketCloseSock, Goto
<1>20. ASSUME NEW t \in Threads, ConnFree1(t)
      PROVE  ClientNumbers'
  BY <1>0, <1>20 DEF ConnFree1, FreeFromConns, ConnId, Goto
<1>21. ASSUME NEW t \in Threads, ConnFree2(t)
      PROVE  ClientNumbers'
  BY <1>0, <1>21 DEF ConnFree2, FreeFromClients, Goto
<1>22. ASSUME NEW t \in Threads, ConnMark(t)
      PROVE  ClientNumbers'
  BY <1>0, <1>22 DEF ConnMark, Return
<1>23. ASSUME NEW t \in Threads, NEW w \in WsIds, WsClose(t, w)
      PROVE  ClientNumbers'
  BY <1>0, <1>23 DEF WsClose, Call
<1>24. ASSUME NEW t \in Threads, WsFree1(t)
      PROVE  ClientNumbers'
  BY <1>0, <1>24 DEF WsFree1, FreeFromConns, WsId, Goto
<1>25. ASSUME NEW t \in Threads, WsFree2(t)
      PROVE  ClientNumbers'
  BY <1>0, <1>25 DEF WsFree2, FreeFromClients, Goto
<1>26. ASSUME NEW t \in Threads, WsMark(t)
      PROVE  ClientNumbers'
  BY <1>0, <1>26 DEF WsMark, Return
<1>27. CASE UNCHANGED vars
  BY <1>0, <1>27 DEF vars
<1>28. QED
  BY <1>1, <1>2, <1>3, <1>4, <1>5, <1>6, <1>7, <1>8, <1>9, <1>10, <1>11,
     <1>12, <1>13, <1>14, <1>15, <1>16, <1>17, <1>18, <1>19, <1>20, <1>21,
     <1>22, <1>23, <1>24, <1>25, <1>26, <1>27 DEF Next, Step

\* And so for the number of a connection.
LEMMA ConnNumbersStep == IInv /\ [Next]_vars => ConnNumbers'
<1> SUFFICES ASSUME IInv, [Next]_vars PROVE ConnNumbers'
  OBVIOUS
<1>0. TypeOK /\ ConnNumbers
  BY DEF IInv, Links
<1> USE DEF TypeOK, PCs, tables, objects, ConnPlaces, ConnNumbers
<1>1. ASSUME NEW t \in Threads, WebsocketNew(t)
      PROVE  ConnNumbers'
  BY <1>0, <1>1 DEF WebsocketNew, Call
<1>2. ASSUME NEW t \in Threads, WebsocketNewFails(t)
      PROVE  ConnNumbers'
  BY <1>0, <1>2 DEF WebsocketNewFails
<1>3. ASSUME NEW t \in Threads, WebsocketNewStore(t)
      PROVE  ConnNumbers'
  BY <1>0, <1>3 DEF WebsocketNewStore, Return
<1>4. ASSUME NEW t \in Threads, NEW w \in WsIds, Connect(t, w)
      PROVE  ConnNumbers'
  BY <1>0, <1>4 DEF Connect, Call
<1>5. ASSUME NEW t \in Threads, WebsocketConnectLoad(t)
      PROVE  ConnNumbers'
  <2>1. /\ Goto(t, "connectLoad", "dial") \/ Return(t, "connectLoad", "error")
        /\ UNCHANGED <<tables, objects, sock, peer>>
    BY <1>5, Lookups
  <2>2. CASE Goto(t, "connectLoad", "dial")
    BY <1>0, <2>1, <2>2 DEF Goto
  <2>3. CASE Return(t, "connectLoad", "error")
    BY <1>0, <2>1, <2>3 DEF Return
  <2>4. QED
    BY <2>1, <2>2, <2>3
<1>6. ASSUME NEW t \in Threads, WebsocketDialFails(t)
      PROVE  ConnNumbers'
  BY <1>0, <1>6 DEF WebsocketDialFails, Return
<1>7. ASSUME NEW t \in Threads, WebsocketDialed(t)
      PROVE  ConnNumbers'
  BY <1>0, <1>7 DEF WebsocketDialed
<1>8. ASSUME NEW t \in Threads, WebsocketConnectStore(t)
      PROVE  ConnNumbers'
  BY <1>0, <1>8 DEF WebsocketConnectStore, Return
<1>9. ASSUME NEW t \in Threads, NEW c \in ConnIds, ReadMessage(t, c)
      PROVE  ConnNumbers'
  BY <1>0, <1>9 DEF ReadMessage, Call
<1>10. ASSUME NEW t \in Threads, WebsocketReadLoad(t)
      PROVE  ConnNumbers'
  <2>1. /\ Goto(t, "readLoad", "reading") \/ Return(t, "readLoad", "error")
        /\ UNCHANGED <<tables, objects, sock, peer>>
    BY <1>10, Lookups
  <2>2. CASE Goto(t, "readLoad", "reading")
    BY <1>0, <2>1, <2>2 DEF Goto
  <2>3. CASE Return(t, "readLoad", "error")
    BY <1>0, <2>1, <2>3 DEF Return
  <2>4. QED
    BY <2>1, <2>2, <2>3
<1>11. ASSUME NEW t \in Threads, ReadFrame(t)
      PROVE  ConnNumbers'
  BY <1>0, <1>11 DEF ReadFrame, Return
<1>12. ASSUME NEW t \in Threads, ReadEnds(t)
      PROVE  ConnNumbers'
  BY <1>0, <1>12 DEF ReadEnds, Return
<1>13. ASSUME NEW t \in Threads, NEW c \in ConnIds, Send(t, c)
      PROVE  ConnNumbers'
  BY <1>0, <1>13 DEF Send, Call
<1>14. ASSUME NEW t \in Threads, WebsocketWriteMessage(t)
      PROVE  ConnNumbers'
  BY <1>0, <1>14 DEF WebsocketWriteMessage, Return
<1>15. ASSUME NEW c \in ConnIds, NEW how \in {"cleanly", "broken"}, PeerEnds(c, how)
      PROVE  ConnNumbers'
  BY <1>0, <1>15 DEF PeerEnds
<1>16. ASSUME NEW t \in Threads, NEW c \in ConnIds, ConnClose(t, c)
      PROVE  ConnNumbers'
  BY <1>0, <1>16 DEF ConnClose, Call
<1>17. ASSUME NEW t \in Threads, WebsocketCloseLoad(t)
      PROVE  ConnNumbers'
  <2>1. /\ \/ Goto(t, "closeLoad", "closeDelete")
           \/ /\ Goto(t, "closeLoad", "connFree1")
              /\ ConnId(arg[t]) \notin wsConnHandles
        /\ UNCHANGED <<tables, objects, sock, peer>>
    BY <1>17, Lookups
  <2>2. CASE Goto(t, "closeLoad", "closeDelete")
    BY <1>0, <2>1, <2>2 DEF Goto
  <2>3. CASE Goto(t, "closeLoad", "connFree1") /\ ConnId(arg[t]) \notin wsConnHandles
    BY <1>0, <2>1, <2>3 DEF Goto
  <2>4. QED
    BY <2>1, <2>2, <2>3
<1>18. ASSUME NEW t \in Threads, WebsocketCloseDelete(t)
      PROVE  ConnNumbers'
  BY <1>0, <1>18 DEF WebsocketCloseDelete, Goto
<1>19. ASSUME NEW t \in Threads, WebsocketCloseSock(t)
      PROVE  ConnNumbers'
  BY <1>0, <1>19 DEF WebsocketCloseSock, Goto
<1>20. ASSUME NEW t \in Threads, ConnFree1(t)
      PROVE  ConnNumbers'
  BY <1>0, <1>20 DEF ConnFree1, FreeFromConns, ConnId, Goto
<1>21. ASSUME NEW t \in Threads, ConnFree2(t)
      PROVE  ConnNumbers'
  BY <1>0, <1>21 DEF ConnFree2, FreeFromClients, Goto
<1>22. ASSUME NEW t \in Threads, ConnMark(t)
      PROVE  ConnNumbers'
  BY <1>0, <1>22 DEF ConnMark, Return
<1>23. ASSUME NEW t \in Threads, NEW w \in WsIds, WsClose(t, w)
      PROVE  ConnNumbers'
  BY <1>0, <1>23 DEF WsClose, Call
<1>24. ASSUME NEW t \in Threads, WsFree1(t)
      PROVE  ConnNumbers'
  BY <1>0, <1>24 DEF WsFree1, FreeFromConns, WsId, Goto
<1>25. ASSUME NEW t \in Threads, WsFree2(t)
      PROVE  ConnNumbers'
  BY <1>0, <1>25 DEF WsFree2, FreeFromClients, Goto
<1>26. ASSUME NEW t \in Threads, WsMark(t)
      PROVE  ConnNumbers'
  BY <1>0, <1>26 DEF WsMark, Return
<1>27. CASE UNCHANGED vars
  BY <1>0, <1>27 DEF vars
<1>28. QED
  BY <1>1, <1>2, <1>3, <1>4, <1>5, <1>6, <1>7, <1>8, <1>9, <1>10, <1>11,
     <1>12, <1>13, <1>14, <1>15, <1>16, <1>17, <1>18, <1>19, <1>20, <1>21,
     <1>22, <1>23, <1>24, <1>25, <1>26, <1>27 DEF Next, Step

\* Nobody stores a connection a second time.
LEMMA DeletedForGoodStep == IInv /\ [Next]_vars => DeletedForGood'
<1> SUFFICES ASSUME IInv, [Next]_vars PROVE DeletedForGood'
  OBVIOUS
<1>0. TypeOK /\ ConnNumbers /\ DeletedForGood
  BY DEF IInv, Links
<1> USE DEF TypeOK, PCs, tables, objects, PastDelete, ConnPlaces,
    ConnNumbers, DeletedForGood
<1>1. ASSUME NEW t \in Threads, WebsocketNew(t)
      PROVE  DeletedForGood'
  BY <1>0, <1>1 DEF WebsocketNew, Call
<1>2. ASSUME NEW t \in Threads, WebsocketNewFails(t)
      PROVE  DeletedForGood'
  BY <1>0, <1>2 DEF WebsocketNewFails
<1>3. ASSUME NEW t \in Threads, WebsocketNewStore(t)
      PROVE  DeletedForGood'
  BY <1>0, <1>3 DEF WebsocketNewStore, Return
<1>4. ASSUME NEW t \in Threads, NEW w \in WsIds, Connect(t, w)
      PROVE  DeletedForGood'
  BY <1>0, <1>4 DEF Connect, Call
<1>5. ASSUME NEW t \in Threads, WebsocketConnectLoad(t)
      PROVE  DeletedForGood'
  <2>1. /\ Goto(t, "connectLoad", "dial") \/ Return(t, "connectLoad", "error")
        /\ UNCHANGED <<tables, objects, sock, peer>>
    BY <1>5, Lookups
  <2>2. CASE Goto(t, "connectLoad", "dial")
    BY <1>0, <2>1, <2>2 DEF Goto
  <2>3. CASE Return(t, "connectLoad", "error")
    BY <1>0, <2>1, <2>3 DEF Return
  <2>4. QED
    BY <2>1, <2>2, <2>3
<1>6. ASSUME NEW t \in Threads, WebsocketDialFails(t)
      PROVE  DeletedForGood'
  BY <1>0, <1>6 DEF WebsocketDialFails, Return
<1>7. ASSUME NEW t \in Threads, WebsocketDialed(t)
      PROVE  DeletedForGood'
  BY <1>0, <1>7 DEF WebsocketDialed
<1>8. ASSUME NEW t \in Threads, WebsocketConnectStore(t)
      PROVE  DeletedForGood'
  BY <1>0, <1>8 DEF WebsocketConnectStore, Return
<1>9. ASSUME NEW t \in Threads, NEW c \in ConnIds, ReadMessage(t, c)
      PROVE  DeletedForGood'
  BY <1>0, <1>9 DEF ReadMessage, Call
<1>10. ASSUME NEW t \in Threads, WebsocketReadLoad(t)
      PROVE  DeletedForGood'
  <2>1. /\ Goto(t, "readLoad", "reading") \/ Return(t, "readLoad", "error")
        /\ UNCHANGED <<tables, objects, sock, peer>>
    BY <1>10, Lookups
  <2>2. CASE Goto(t, "readLoad", "reading")
    BY <1>0, <2>1, <2>2 DEF Goto
  <2>3. CASE Return(t, "readLoad", "error")
    BY <1>0, <2>1, <2>3 DEF Return
  <2>4. QED
    BY <2>1, <2>2, <2>3
<1>11. ASSUME NEW t \in Threads, ReadFrame(t)
      PROVE  DeletedForGood'
  BY <1>0, <1>11 DEF ReadFrame, Return
<1>12. ASSUME NEW t \in Threads, ReadEnds(t)
      PROVE  DeletedForGood'
  BY <1>0, <1>12 DEF ReadEnds, Return
<1>13. ASSUME NEW t \in Threads, NEW c \in ConnIds, Send(t, c)
      PROVE  DeletedForGood'
  BY <1>0, <1>13 DEF Send, Call
<1>14. ASSUME NEW t \in Threads, WebsocketWriteMessage(t)
      PROVE  DeletedForGood'
  BY <1>0, <1>14 DEF WebsocketWriteMessage, Return
<1>15. ASSUME NEW c \in ConnIds, NEW how \in {"cleanly", "broken"}, PeerEnds(c, how)
      PROVE  DeletedForGood'
  BY <1>0, <1>15 DEF PeerEnds
<1>16. ASSUME NEW t \in Threads, NEW c \in ConnIds, ConnClose(t, c)
      PROVE  DeletedForGood'
  BY <1>0, <1>16 DEF ConnClose, Call
<1>17. ASSUME NEW t \in Threads, WebsocketCloseLoad(t)
      PROVE  DeletedForGood'
  <2>1. /\ \/ Goto(t, "closeLoad", "closeDelete")
           \/ /\ Goto(t, "closeLoad", "connFree1")
              /\ ConnId(arg[t]) \notin wsConnHandles
        /\ UNCHANGED <<tables, objects, sock, peer>>
    BY <1>17, Lookups
  <2>2. CASE Goto(t, "closeLoad", "closeDelete")
    BY <1>0, <2>1, <2>2 DEF Goto, ConnId
  <2>3. CASE Goto(t, "closeLoad", "connFree1") /\ ConnId(arg[t]) \notin wsConnHandles
    BY <1>0, <2>1, <2>3 DEF Goto, ConnId
  <2>4. QED
    BY <2>1, <2>2, <2>3
<1>18. ASSUME NEW t \in Threads, WebsocketCloseDelete(t)
      PROVE  DeletedForGood'
  BY <1>0, <1>18 DEF WebsocketCloseDelete, Goto
<1>19. ASSUME NEW t \in Threads, WebsocketCloseSock(t)
      PROVE  DeletedForGood'
  BY <1>0, <1>19 DEF WebsocketCloseSock, Goto
<1>20. ASSUME NEW t \in Threads, ConnFree1(t)
      PROVE  DeletedForGood'
  BY <1>0, <1>20 DEF ConnFree1, FreeFromConns, ConnId, Goto
<1>21. ASSUME NEW t \in Threads, ConnFree2(t)
      PROVE  DeletedForGood'
  BY <1>0, <1>21 DEF ConnFree2, FreeFromClients, Goto
<1>22. ASSUME NEW t \in Threads, ConnMark(t)
      PROVE  DeletedForGood'
  BY <1>0, <1>22 DEF ConnMark, Return
<1>23. ASSUME NEW t \in Threads, NEW w \in WsIds, WsClose(t, w)
      PROVE  DeletedForGood'
  BY <1>0, <1>23 DEF WsClose, Call
<1>24. ASSUME NEW t \in Threads, WsFree1(t)
      PROVE  DeletedForGood'
  BY <1>0, <1>24 DEF WsFree1, FreeFromConns, WsId, Goto
<1>25. ASSUME NEW t \in Threads, WsFree2(t)
      PROVE  DeletedForGood'
  BY <1>0, <1>25 DEF WsFree2, FreeFromClients, Goto
<1>26. ASSUME NEW t \in Threads, WsMark(t)
      PROVE  DeletedForGood'
  BY <1>0, <1>26 DEF WsMark, Return
<1>27. CASE UNCHANGED vars
  BY <1>0, <1>27 DEF vars
<1>28. QED
  BY <1>1, <1>2, <1>3, <1>4, <1>5, <1>6, <1>7, <1>8, <1>9, <1>10, <1>11,
     <1>12, <1>13, <1>14, <1>15, <1>16, <1>17, <1>18, <1>19, <1>20, <1>21,
     <1>22, <1>23, <1>24, <1>25, <1>26, <1>27 DEF Next, Step

-----------------------------------------------------------------------------
\* The table of connections and the connections themselves are written by
\* six steps only.
LEMMA ConnWriters ==
    ASSUME [Next]_vars
    PROVE  \/ UNCHANGED <<wsConnHandles, sock>>
           \/ \E t \in Threads :
                 \/ WebsocketDialed(t) \/ WebsocketConnectStore(t)
                 \/ WebsocketCloseDelete(t) \/ WebsocketCloseSock(t)
                 \/ ConnFree1(t) \/ WsFree1(t)
  BY Lookups DEF Next, Step, vars, tables, WebsocketNew, WebsocketNewFails,
         WebsocketNewStore, Connect, WebsocketConnectLoad, WebsocketDialFails,
         ReadMessage, WebsocketReadLoad, ReadFrame, ReadEnds, Send,
         WebsocketWriteMessage, PeerEnds, ConnClose, WebsocketCloseLoad,
         ConnFree2, ConnMark, WsClose, WsFree2, WsMark

\* WebsocketClose closes what it has deleted before, and what is stored has
\* just been dialled.
LEMMA RegisteredStep == IInv /\ [Next]_vars => RegisteredIsOpen'
<1> SUFFICES ASSUME IInv, [Next]_vars PROVE RegisteredIsOpen'
  OBVIOUS
<1>0. TypeOK /\ ConnNumbers /\ DeletedForGood /\ RegisteredIsOpen
  BY DEF IInv, Links
<1> USE DEF TypeOK, tables, ConnPlaces, PastDelete, RegisteredIsOpen
<1>1. CASE UNCHANGED <<wsConnHandles, sock>>
  BY <1>0, <1>1
<1>2. ASSUME NEW t \in Threads, WebsocketDialed(t)
      PROVE  RegisteredIsOpen'
  BY <1>0, <1>2 DEF WebsocketDialed
<1>3. ASSUME NEW t \in Threads, WebsocketConnectStore(t)
      PROVE  RegisteredIsOpen'
  BY <1>0, <1>3 DEF WebsocketConnectStore, Return, ConnNumbers
<1>4. ASSUME NEW t \in Threads, WebsocketCloseDelete(t)
      PROVE  RegisteredIsOpen'
  BY <1>0, <1>4 DEF WebsocketCloseDelete
<1>5. ASSUME NEW t \in Threads, WebsocketCloseSock(t)
      PROVE  RegisteredIsOpen'
  BY <1>0, <1>5 DEF WebsocketCloseSock, Goto, DeletedForGood
<1>6. ASSUME NEW t \in Threads, ConnFree1(t)
      PROVE  RegisteredIsOpen'
  BY <1>0, <1>6 DEF ConnFree1, FreeFromConns
<1>7. ASSUME NEW t \in Threads, WsFree1(t)
      PROVE  RegisteredIsOpen'
  BY <1>0, <1>7 DEF WsFree1, FreeFromConns
<1>8. QED
  BY <1>1, <1>2, <1>3, <1>4, <1>5, <1>6, <1>7, ConnWriters

\* A connection leaves the table by the closer that goes on to close it, or by
\* the free of the client with its number, which is remembered in ws.
LEMMA LostStep == IInv /\ [Next]_vars => LostOnlyByNamesake'
<1> SUFFICES ASSUME IInv, [Next]_vars PROVE LostOnlyByNamesake'
  OBVIOUS
<1>0. TypeOK /\ Links /\ LostOnlyByNamesake
  BY DEF IInv, Links
<1> USE DEF TypeOK, PCs, tables, objects, PastDelete, ClientPlaces,
    ClientNumbers, ConnPlaces, ConnNumbers, DeletedForGood,
    LostOnlyByNamesake, ClientFreed, At, Links
<1>1. ASSUME NEW t \in Threads, WebsocketNew(t)
      PROVE  LostOnlyByNamesake'
  BY <1>0, <1>1 DEF WebsocketNew, Call
<1>2. ASSUME NEW t \in Threads, WebsocketNewFails(t)
      PROVE  LostOnlyByNamesake'
  BY <1>0, <1>2 DEF WebsocketNewFails
<1>3. ASSUME NEW t \in Threads, WebsocketNewStore(t)
      PROVE  LostOnlyByNamesake'
  BY <1>0, <1>3 DEF WebsocketNewStore, Return
<1>4. ASSUME NEW t \in Threads, NEW w \in WsIds, Connect(t, w)
      PROVE  LostOnlyByNamesake'
  BY <1>0, <1>4 DEF Connect, Call
<1>5. ASSUME NEW t \in Threads, WebsocketConnectLoad(t)
      PROVE  LostOnlyByNamesake'
  <2>1. /\ Goto(t, "connectLoad", "dial") \/ Return(t, "connectLoad", "error")
        /\ UNCHANGED <<tables, objects, sock, peer>>
    BY <1>5, Lookups
  <2>2. CASE Goto(t, "connectLoad", "dial")
    BY <1>0, <2>1, <2>2 DEF Goto
  <2>3. CASE Return(t, "connectLoad", "error")
    BY <1>0, <2>1, <2>3 DEF Return
  <2>4. QED
    BY <2>1, <2>2, <2>3
<1>6. ASSUME NEW t \in Threads, WebsocketDialFails(t)
      PROVE  LostOnlyByNamesake'
  BY <1>0, <1>6 DEF WebsocketDialFails, Return
<1>7. ASSUME NEW t \in Threads, WebsocketDialed(t)
      PROVE  LostOnlyByNamesake'
  <2>1. /\ conn' = conn /\ ws' = ws /\ wsConnHandles' = wsConnHandles
        /\ conn[wsConnHandleSeq + 1] = "none"
        /\ \A c \in ConnIds : c # wsConnHandleSeq + 1 => sock'[c] = sock[c]
    BY <1>0, <1>7 DEF WebsocketDialed
  <2>2. /\ pc[t] = "dial"
        /\ \A u \in Threads : u # t => pc'[u] = pc[u] /\ arg'[u] = arg[u]
    BY <1>0, <1>7 DEF WebsocketDialed
  <2> SUFFICES ASSUME NEW c \in ConnIds, conn[c] # "none", sock'[c] = "open",
                      c \notin wsConnHandles
               PROVE  (ClientFreed(c) \/ \E u \in Threads : At(u, {"closeSock"}, c))'
    BY <2>1
  <2>3. ClientFreed(c) \/ \E u \in Threads : At(u, {"closeSock"}, c)
    BY <1>0, <2>1
  <2>4. CASE ws[c] = "closed" /\ c \in WsIds
    BY <2>1, <2>4
  <2>5. ASSUME NEW u \in Threads, At(u, {"closeSock", "wsFree2", "wsMark"}, c)
        PROVE  u # t /\ pc'[u] = pc[u] /\ arg'[u] = arg[u]
    BY <2>2, <2>5
  <2>6. QED
    BY <2>3, <2>4, <2>5
<1>8. ASSUME NEW t \in Threads, WebsocketConnectStore(t)
      PROVE  LostOnlyByNamesake'
  BY <1>0, <1>8 DEF WebsocketConnectStore, Return
<1>9. ASSUME NEW t \in Threads, NEW c \in ConnIds, ReadMessage(t, c)
      PROVE  LostOnlyByNamesake'
  BY <1>0, <1>9 DEF ReadMessage, Call
<1>10. ASSUME NEW t \in Threads, WebsocketReadLoad(t)
      PROVE  LostOnlyByNamesake'
  <2>1. /\ Goto(t, "readLoad", "reading") \/ Return(t, "readLoad", "error")
        /\ UNCHANGED <<tables, objects, sock, peer>>
    BY <1>10, Lookups
  <2>2. CASE Goto(t, "readLoad", "reading")
    BY <1>0, <2>1, <2>2 DEF Goto
  <2>3. CASE Return(t, "readLoad", "error")
    BY <1>0, <2>1, <2>3 DEF Return
  <2>4. QED
    BY <2>1, <2>2, <2>3
<1>11. ASSUME NEW t \in Threads, ReadFrame(t)
      PROVE  LostOnlyByNamesake'
  BY <1>0, <1>11 DEF ReadFrame, Return
<1>12. ASSUME NEW t \in Threads, ReadEnds(t)
      PROVE  LostOnlyByNamesake'
  BY <1>0, <1>12 DEF ReadEnds, Return
<1>13. ASSUME NEW t \in Threads, NEW c \in ConnIds, Send(t, c)
      PROVE  LostOnlyByNamesake'
  BY <1>0, <1>13 DEF Send, Call
<1>14. ASSUME NEW t \in Threads, WebsocketWriteMessage(t)
      PROVE  LostOnlyByNamesake'
  BY <1>0, <1>14 DEF WebsocketWriteMessage, Return
<1>15. ASSUME NEW c \in ConnIds, NEW how \in {"cleanly", "broken"}, PeerEnds(c, how)
      PROVE  LostOnlyByNamesake'
  BY <1>0, <1>15 DEF PeerEnds
<1>16. ASSUME NEW t \in Threads, NEW c \in ConnIds, ConnClose(t, c)
      PROVE  LostOnlyByNamesake'
  BY <1>0, <1>16 DEF ConnClose, Call
<1>17. ASSUME NEW t \in Threads, WebsocketCloseLoad(t)
      PROVE  LostOnlyByNamesake'
  <2>1. /\ \/ Goto(t, "closeLoad", "closeDelete")
           \/ /\ Goto(t, "closeLoad", "connFree1")
              /\ ConnId(arg[t]) \notin wsConnHandles
        /\ UNCHANGED <<tables, objects, sock, peer>>
    BY <1>17, Lookups
  <2>2. CASE Goto(t, "closeLoad", "closeDelete")
    BY <1>0, <2>1, <2>2 DEF Goto
  <2>3. CASE Goto(t, "closeLoad", "connFree1") /\ ConnId(arg[t]) \notin wsConnHandles
    BY <1>0, <2>1, <2>3 DEF Goto
  <2>4. QED
    BY <2>1, <2>2, <2>3
<1>18. ASSUME NEW t \in Threads, WebsocketCloseDelete(t)
      PROVE  LostOnlyByNamesake'
  BY <1>0, <1>18 DEF WebsocketCloseDelete, Goto
<1>19. ASSUME NEW t \in Threads, WebsocketCloseSock(t)
      PROVE  LostOnlyByNamesake'
  BY <1>0, <1>19 DEF WebsocketCloseSock, Goto
<1>20. ASSUME NEW t \in Threads, ConnFree1(t)
      PROVE  LostOnlyByNamesake'
  BY <1>0, <1>20 DEF ConnFree1, FreeFromConns, ConnId, Goto
<1>21. ASSUME NEW t \in Threads, ConnFree2(t)
      PROVE  LostOnlyByNamesake'
  BY <1>0, <1>21 DEF ConnFree2, FreeFromClients, Goto
<1>22. ASSUME NEW t \in Threads, ConnMark(t)
      PROVE  LostOnlyByNamesake'
  BY <1>0, <1>22 DEF ConnMark, Return
<1>23. ASSUME NEW t \in Threads, NEW w \in WsIds, WsClose(t, w)
      PROVE  LostOnlyByNamesake'
  BY <1>0, <1>23 DEF WsClose, Call
<1>24. ASSUME NEW t \in Threads, WsFree1(t)
      PROVE  LostOnlyByNamesake'
  BY <1>0, <1>24 DEF WsFree1, FreeFromConns, WsId, Goto
<1>25. ASSUME NEW t \in Threads, WsFree2(t)
      PROVE  LostOnlyByNamesake'
  BY <1>0, <1>25 DEF WsFree2, FreeFromClients, Goto
<1>26. ASSUME NEW t \in Threads, WsMark(t)
      PROVE  LostOnlyByNamesake'
  BY <1>0, <1>26 DEF WsMark, Return
<1>27. CASE UNCHANGED vars
  BY <1>0, <1>27 DEF vars
<1>28. QED
  BY <1>1, <1>2, <1>3, <1>4, <1>5, <1>6, <1>7, <1>8, <1>9, <1>10, <1>11,
     <1>12, <1>13, <1>14, <1>15, <1>16, <1>17, <1>18, <1>19, <1>20, <1>21,
     <1>22, <1>23, <1>24, <1>25, <1>26, <1>27 DEF Next, Step

\* A client leaves its table by the close of its own object or by the free of
\* the connection with its number, which is remembered in conn.
LEMMA ReleasedStep == IInv /\ [Next]_vars => ReleasedOnlyByNamesake'
<1> SUFFICES ASSUME IInv, [Next]_vars PROVE ReleasedOnlyByNamesake'
  OBVIOUS
<1>0. TypeOK /\ Links /\ ReleasedOnlyByNamesake
  BY DEF IInv, Links
<1> USE DEF TypeOK, PCs, tables, objects, ClientPlaces, ClientNumbers,
    ConnPlaces, ConnNumbers, ReleasedOnlyByNamesake, ConnFreed, At, Links
<1>1. ASSUME NEW t \in Threads, WebsocketNew(t)
      PROVE  ReleasedOnlyByNamesake'
  BY <1>0, <1>1 DEF WebsocketNew, Call
<1>2. ASSUME NEW t \in Threads, WebsocketNewFails(t)
      PROVE  ReleasedOnlyByNamesake'
  BY <1>0, <1>2 DEF WebsocketNewFails
<1>3. ASSUME NEW t \in Threads, WebsocketNewStore(t)
      PROVE  ReleasedOnlyByNamesake'
  BY <1>0, <1>3 DEF WebsocketNewStore, Return
<1>4. ASSUME NEW t \in Threads, NEW w \in WsIds, Connect(t, w)
      PROVE  ReleasedOnlyByNamesake'
  BY <1>0, <1>4 DEF Connect, Call
<1>5. ASSUME NEW t \in Threads, WebsocketConnectLoad(t)
      PROVE  ReleasedOnlyByNamesake'
  <2>1. /\ Goto(t, "connectLoad", "dial") \/ Return(t, "connectLoad", "error")
        /\ UNCHANGED <<tables, objects, sock, peer>>
    BY <1>5, Lookups
  <2>2. CASE Goto(t, "connectLoad", "dial")
    BY <1>0, <2>1, <2>2 DEF Goto
  <2>3. CASE Return(t, "connectLoad", "error")
    BY <1>0, <2>1, <2>3 DEF Return
  <2>4. QED
    BY <2>1, <2>2, <2>3
<1>6. ASSUME NEW t \in Threads, WebsocketDialFails(t)
      PROVE  ReleasedOnlyByNamesake'
  BY <1>0, <1>6 DEF WebsocketDialFails, Return
<1>7. ASSUME NEW t \in Threads, WebsocketDialed(t)
      PROVE  ReleasedOnlyByNamesake'
  BY <1>0, <1>7 DEF WebsocketDialed
<1>8. ASSUME NEW t \in Threads, WebsocketConnectStore(t)
      PROVE  ReleasedOnlyByNamesake'
  BY <1>0, <1>8 DEF WebsocketConnectStore, Return
<1>9. ASSUME NEW t \in Threads, NEW c \in ConnIds, ReadMessage(t, c)
      PROVE  ReleasedOnlyByNamesake'
  BY <1>0, <1>9 DEF ReadMessage, Call
<1>10. ASSUME NEW t \in Threads, WebsocketReadLoad(t)
      PROVE  ReleasedOnlyByNamesake'
  <2>1. /\ Goto(t, "readLoad", "reading") \/ Return(t, "readLoad", "error")
        /\ UNCHANGED <<tables, objects, sock, peer>>
    BY <1>10, Lookups
  <2>2. CASE Goto(t, "readLoad", "reading")
    BY <1>0, <2>1, <2>2 DEF Goto
  <2>3. CASE Return(t, "readLoad", "error")
    BY <1>0, <2>1, <2>3 DEF Return
  <2>4. QED
    BY <2>1, <2>2, <2>3
<1>11. ASSUME NEW t \in Threads, ReadFrame(t)
      PROVE  ReleasedOnlyByNamesake'
  BY <1>0, <1>11 DEF ReadFrame, Return
<1>12. ASSUME NEW t \in Threads, ReadEnds(t)
      PROVE  ReleasedOnlyByNamesake'
  BY <1>0, <1>12 DEF ReadEnds, Return
<1>13. ASSUME NEW t \in Threads, NEW c \in ConnIds, Send(t, c)
      PROVE  ReleasedOnlyByNamesake'
  BY <1>0, <1>13 DEF Send, Call
<1>14. ASSUME NEW t \in Threads, WebsocketWriteMessage(t)
      PROVE  ReleasedOnlyByNamesake'
  BY <1>0, <1>14 DEF WebsocketWriteMessage, Return
<1>15. ASSUME NEW c \in ConnIds, NEW how \in {"cleanly", "broken"}, PeerEnds(c, how)
      PROVE  ReleasedOnlyByNamesake'
  BY <1>0, <1>15 DEF PeerEnds
<1>16. ASSUME NEW t \in Threads, NEW c \in ConnIds, ConnClose(t, c)
      PROVE  ReleasedOnlyByNamesake'
  BY <1>0, <1>16 DEF ConnClose, Call
<1>17. ASSUME NEW t \in Threads, WebsocketCloseLoad(t)
      PROVE  ReleasedOnlyByNamesake'
  <2>1. /\ \/ Goto(t, "closeLoad", "closeDelete")
           \/ /\ Goto(t, "closeLoad", "connFree1")
              /\ ConnId(arg[t]) \notin wsConnHandles
        /\ UNCHANGED <<tables, objects, sock, peer>>
    BY <1>17, Lookups
  <2>2. CASE Goto(t, "closeLoad", "closeDelete")
    BY <1>0, <2>1, <2>2 DEF Goto
  <2>3. CASE Goto(t, "closeLoad", "connFree1") /\ ConnId(arg[t]) \notin wsConnHandles
    BY <1>0, <2>1, <2>3 DEF Goto
  <2>4. QED
    BY <2>1, <2>2, <2>3
<1>18. ASSUME NEW t \in Threads, WebsocketCloseDelete(t)
      PROVE  ReleasedOnlyByNamesake'
  BY <1>0, <1>18 DEF WebsocketCloseDelete, Goto
<1>19. ASSUME NEW t \in Threads, WebsocketCloseSock(t)
      PROVE  ReleasedOnlyByNamesake'
  BY <1>0, <1>19 DEF WebsocketCloseSock, Goto
<1>20. ASSUME NEW t \in Threads, ConnFree1(t)
      PROVE  ReleasedOnlyByNamesake'
  BY <1>0, <1>20 DEF ConnFree1, FreeFromConns, ConnId, Goto
<1>21. ASSUME NEW t \in Threads, ConnFree2(t)
      PROVE  ReleasedOnlyByNamesake'
  BY <1>0, <1>21 DEF ConnFree2, FreeFromClients, Goto
<1>22. ASSUME NEW t \in Threads, ConnMark(t)
      PROVE  ReleasedOnlyByNamesake'
  BY <1>0, <1>22 DEF ConnMark, Return
<1>23. ASSUME NEW t \in Threads, NEW w \in WsIds, WsClose(t, w)
      PROVE  ReleasedOnlyByNamesake'
  BY <1>0, <1>23 DEF WsClose, Call
<1>24. ASSUME NEW t \in Threads, WsFree1(t)
      PROVE  ReleasedOnlyByNamesake'
  BY <1>0, <1>24 DEF WsFree1, FreeFromConns, WsId, Goto
<1>25. ASSUME NEW t \in Threads, WsFree2(t)
      PROVE  ReleasedOnlyByNamesake'
  BY <1>0, <1>25 DEF WsFree2, FreeFromClients, Goto
<1>26. ASSUME NEW t \in Threads, WsMark(t)
      PROVE  ReleasedOnlyByNamesake'
  BY <1>0, <1>26 DEF WsMark, Return
<1>27. CASE UNCHANGED vars
  BY <1>0, <1>27 DEF vars
<1>28. QED
  BY <1>1, <1>2, <1>3, <1>4, <1>5, <1>6, <1>7, <1>8, <1>9, <1>10, <1>11,
     <1>12, <1>13, <1>14, <1>15, <1>16, <1>17, <1>18, <1>19, <1>20, <1>21,
     <1>22, <1>23, <1>24, <1>25, <1>26, <1>27 DEF Next, Step

-----------------------------------------------------------------------------
\* The inductive invariant.
LEMMA InvInit == Init => IInv
  BY TypeInit DEF Init, IInv, Links, ClientNumbers, ConnNumbers, DeletedForGood,
     ClientPlaces, ConnPlaces, PastDelete, RegisteredIsOpen, LostOnlyByNamesake,
     ReleasedOnlyByNamesake

\* No step of any call breaks it.
LEMMA InvStep == IInv /\ [Next]_vars => IInv'
  BY TypeStep, ClientNumbersStep, ConnNumbersStep, DeletedForGoodStep, RegisteredStep,
     LostStep, ReleasedStep DEF IInv, Links

\* The whole invariant holds at every moment of every execution, however the
\* steps of the calls interleave.
THEOREM Invariance == Spec => []IInv
<1>1. Init => IInv
  BY InvInit
<1>2. IInv /\ [Next]_vars => IInv'
  BY InvStep
<1>3. QED
  BY <1>1, <1>2, PTL DEF Spec

\* Both tables hold drawn numbers only, and the locals of every call keep
\* their types.
THEOREM TypeCorrect == Spec => []TypeOK
<1>1. IInv => TypeOK
  BY DEF IInv
<1>2. QED
  BY <1>1, Invariance, PTL

\* A lookup in wsConnHandles never yields a connection that a concurrent
\* WebsocketClose has closed.
THEOREM HandlesAreOpen == Spec => []RegisteredIsOpen
<1>1. IInv => RegisteredIsOpen
  BY DEF IInv
<1>2. QED
  BY <1>1, Invariance, PTL

\* An open connection that Python holds is lost from the table only to its
\* own closer or to WebsocketFreeHandle of the client of the same number.
THEOREM ConnLost == Spec => []LostOnlyByNamesake
<1>1. IInv => LostOnlyByNamesake
  BY DEF IInv
<1>2. QED
  BY <1>1, Invariance, PTL

\* An open WebSocket loses its client only to its own close() or to
\* WebsocketFreeHandle of the connection of the same number.
THEOREM ClientReleased == Spec => []ReleasedOnlyByNamesake
<1>1. IInv => ReleasedOnlyByNamesake
  BY DEF IInv
<1>2. QED
  BY <1>1, Invariance, PTL

\* A number that has been handed to Python and left the table of connections
\* never comes back into it, and a connection once closed stays closed: no
\* call can reach, through an old number, a connection opened later.
NeverBack ==
    \A c \in ConnIds :
        /\ conn[c] # "none" /\ c \notin wsConnHandles => c \notin wsConnHandles'
        /\ sock[c] = "closed" => sock'[c] = "closed"

\* wsConnHandleSeq only grows and a number is stored by the one call that drew
\* it, so that a stale number in a Python object stays dead for ever.
THEOREM NumbersNeverReused == Spec => [][NeverBack]_vars
<1>1. IInv /\ [Next]_vars => [NeverBack]_vars
  <2> SUFFICES ASSUME IInv, [Next]_vars PROVE NeverBack
    OBVIOUS
  <2>0. TypeOK /\ ConnNumbers
    BY DEF IInv, Links
  <2> USE DEF TypeOK, tables, ConnPlaces, NeverBack
  <2>1. CASE UNCHANGED <<wsConnHandles, sock>>
    BY <2>0, <2>1
  <2>2. ASSUME NEW t \in Threads, WebsocketDialed(t)
        PROVE  NeverBack
    BY <2>0, <2>2 DEF WebsocketDialed, ConnNumbers
  <2>3. ASSUME NEW t \in Threads, WebsocketConnectStore(t)
        PROVE  NeverBack
    BY <2>0, <2>3 DEF WebsocketConnectStore, Return, ConnNumbers
  <2>4. ASSUME NEW t \in Threads, WebsocketCloseDelete(t)
        PROVE  NeverBack
    BY <2>0, <2>4 DEF WebsocketCloseDelete
  <2>5. ASSUME NEW t \in Threads, WebsocketCloseSock(t)
        PROVE  NeverBack
    BY <2>0, <2>5 DEF WebsocketCloseSock
  <2>6. ASSUME NEW t \in Threads, ConnFree1(t)
        PROVE  NeverBack
    BY <2>0, <2>6 DEF ConnFree1, FreeFromConns
  <2>7. ASSUME NEW t \in Threads, WsFree1(t)
        PROVE  NeverBack
    BY <2>0, <2>7 DEF WsFree1, FreeFromConns
  <2>8. QED
    BY <2>1, <2>2, <2>3, <2>4, <2>5, <2>6, <2>7, ConnWriters
<1>2. QED
  BY <1>1, Invariance, PTL DEF Spec
=============================================================================
