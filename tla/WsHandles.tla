----------------------------- MODULE WsHandles -----------------------------
(***************************************************************************)
(* The WebSocket handle table.  Go pointers cannot cross the C boundary,   *)
(* so cffi_binding/main.go keeps every websocket client in wsHandles and   *)
(* every live connection in wsConnHandles, each keyed by a number drawn    *)
(* from a sequence of its own, and tls_client/websocket.py holds only the  *)
(* numbers.  Python threads call the library with the GIL released, so the *)
(* steps of two calls interleave at every access to a map.                 *)
(*                                                                         *)
(* A Python object is named by the number it was created with: WebSocket w *)
(* has _ws_id = w until close() sets it to 0, and so for connection c.     *)
(* Payloads, headers and options are left out; only whether a call finds   *)
(* its handle, succeeds or fails matters here.                             *)
(***************************************************************************)
EXTENDS Naturals

CONSTANTS Threads,    \* Python threads
          MaxWs,      \* bound: WebSocket objects created
          MaxConns    \* bound: connections opened

ASSUME BoundsAssumption == MaxWs \in Nat /\ MaxConns \in Nat

WsIds == 1 .. MaxWs
ConnIds == 1 .. MaxConns

VARIABLES wsHandles,        \* numbers of the clients in the table
          wsConnHandles,    \* numbers of the connections in the table
          wsHandleSeq, wsConnHandleSeq,
          ws,               \* Python WebSocket objects
          conn,             \* Python WebSocketConnection objects
          sock,             \* the connection itself (Go side, then the OS)
          peer,             \* what the other end has done with it
          pc, arg,          \* where each thread is, and on which object
          res               \* how its last call ended

tables == <<wsHandles, wsConnHandles, wsHandleSeq, wsConnHandleSeq>>
objects == <<ws, conn>>
vars == <<tables, objects, sock, peer, pc, arg, res>>

Init ==
    /\ wsHandles = {} /\ wsConnHandles = {}
    /\ wsHandleSeq = 0 /\ wsConnHandleSeq = 0
    /\ ws = [w \in WsIds |-> "none"]
    /\ conn = [c \in ConnIds |-> "none"]
    /\ sock = [c \in ConnIds |-> "none"]
    /\ peer = [c \in ConnIds |-> "talking"]
    /\ pc = [t \in Threads |-> "idle"]
    /\ arg = [t \in Threads |-> 0]
    /\ res = [t \in Threads |-> "none"]

\* The attribute read of self._ws_id and self._conn_id.
WsId(w) == IF ws[w] = "open" THEN w ELSE 0
ConnId(c) == IF conn[c] = "open" THEN c ELSE 0

Call(t, at, a) ==
    /\ pc[t] = "idle"
    /\ pc' = [pc EXCEPT ![t] = at]
    /\ arg' = [arg EXCEPT ![t] = a]
    /\ res' = [res EXCEPT ![t] = "none"]

Goto(t, from, to) ==
    /\ pc[t] = from
    /\ pc' = [pc EXCEPT ![t] = to]
    /\ UNCHANGED <<arg, res>>

Return(t, from, r) ==
    /\ pc[t] = from
    /\ pc' = [pc EXCEPT ![t] = "idle"]
    /\ res' = [res EXCEPT ![t] = r]
    /\ UNCHANGED arg

-----------------------------------------------------------------------------
(* WebSocket(...): the options are built, WebsocketNew obtains a client,   *)
(* draws a number and stores the client under it.                          *)

\* Mutant: the number is read from the sequence without advancing it.
WebsocketNewNoAdd(t) ==
    /\ wsHandleSeq < MaxWs
    /\ Call(t, "newStore", wsHandleSeq + 1)
    /\ UNCHANGED <<tables, objects, sock, peer>>

WebsocketNew(t) ==
    /\ wsHandleSeq < MaxWs
    /\ wsHandleSeq' = wsHandleSeq + 1
    /\ Call(t, "newStore", wsHandleSeq + 1)
    /\ UNCHANGED <<wsHandles, wsConnHandles, wsConnHandleSeq, objects, sock, peer>>

\* Unsupported identifier, no client, or NewWebsocket rejects the options.
WebsocketNewFails(t) ==
    /\ pc[t] = "idle"
    /\ res' = [res EXCEPT ![t] = "error"]
    /\ UNCHANGED <<tables, objects, sock, peer, pc, arg>>

\* Mutant: the object is handed out and its client never stored.
WebsocketNewUnstored(t) ==
    /\ Return(t, "newStore", "ok")
    /\ ws' = [ws EXCEPT ![arg[t]] = "open"]
    /\ UNCHANGED <<tables, conn, sock, peer>>

WebsocketNewStore(t) ==
    /\ Return(t, "newStore", "ok")
    /\ wsHandles' = wsHandles \cup {arg[t]}
    /\ ws' = [ws EXCEPT ![arg[t]] = "open"]
    /\ UNCHANGED <<wsConnHandles, wsHandleSeq, wsConnHandleSeq, conn, sock, peer>>

-----------------------------------------------------------------------------
(* WebSocket.connect(): the _closed test, then WebsocketConnect.           *)

Connect(t, w) ==
    /\ ws[w] = "open"
    /\ Call(t, "connectLoad", w)
    /\ UNCHANGED <<tables, objects, sock, peer>>

WebsocketConnectLoad(t) ==
    /\ pc[t] = "connectLoad"
    /\ IF WsId(arg[t]) \in wsHandles
       THEN Goto(t, "connectLoad", "dial")
       ELSE Return(t, "connectLoad", "error")
    /\ UNCHANGED <<tables, objects, sock, peer>>

\* ws.Connect: the TLS handshake and the upgrade.
WebsocketDialFails(t) ==
    /\ Return(t, "dial", "error")
    /\ UNCHANGED <<tables, objects, sock, peer>>

WebsocketDialed(t) ==
    LET c == wsConnHandleSeq + 1 IN
    /\ pc[t] = "dial"
    /\ c \in ConnIds
    /\ sock' = [sock EXCEPT ![c] = "open"]
    /\ wsConnHandleSeq' = c
    /\ pc' = [pc EXCEPT ![t] = "connectStore"]
    /\ arg' = [arg EXCEPT ![t] = c]
    /\ UNCHANGED <<wsHandles, wsConnHandles, wsHandleSeq, objects, peer, res>>

WebsocketConnectStore(t) ==
    /\ Return(t, "connectStore", "ok")
    /\ wsConnHandles' = wsConnHandles \cup {arg[t]}
    /\ conn' = [conn EXCEPT ![arg[t]] = "open"]
    /\ UNCHANGED <<wsHandles, wsHandleSeq, wsConnHandleSeq, ws, sock, peer>>

-----------------------------------------------------------------------------
(* read_message() and send(): the _closed test, the table lookup, then the *)
(* operation on the connection.  A read blocks until a frame arrives or    *)
(* either end closes.                                                      *)

ReadMessage(t, c) ==
    /\ conn[c] = "open"
    /\ Call(t, "readLoad", c)
    /\ UNCHANGED <<tables, objects, sock, peer>>

WebsocketReadLoad(t) ==
    /\ pc[t] = "readLoad"
    /\ IF ConnId(arg[t]) \in wsConnHandles
       THEN Goto(t, "readLoad", "reading")
       ELSE Return(t, "readLoad", "error")
    /\ UNCHANGED <<tables, objects, sock, peer>>

ReadFrame(t) ==
    /\ pc[t] = "reading"
    /\ sock[arg[t]] = "open"
    /\ peer[arg[t]] = "talking"
    /\ Return(t, "reading", "message")
    /\ UNCHANGED <<tables, objects, sock, peer>>

\* Mutant: only the peer wakes a blocked read.
ReadEndsOnPeer(t) ==
    /\ pc[t] = "reading"
    /\ peer[arg[t]] # "talking"
    /\ Return(t, "reading", "error")
    /\ UNCHANGED <<tables, objects, sock, peer>>

\* ReadMessage returns an error for a close frame of the peer, for a broken
\* connection and for a connection closed on this side alike; Python raises.
ReadEnds(t) ==
    /\ pc[t] = "reading"
    /\ sock[arg[t]] = "closed" \/ peer[arg[t]] # "talking"
    /\ Return(t, "reading", "error")
    /\ UNCHANGED <<tables, objects, sock, peer>>

Send(t, c) ==
    /\ conn[c] = "open"
    /\ Call(t, "sendLoad", c)
    /\ UNCHANGED <<tables, objects, sock, peer>>

\* Not found, or found and the body is empty, or found and written.
WebsocketWriteMessage(t) ==
    /\ pc[t] = "sendLoad"
    /\ \E r \in {"ok", "error"} :
         /\ r = "ok" => ConnId(arg[t]) \in wsConnHandles /\ sock[arg[t]] = "open"
         /\ Return(t, "sendLoad", r)
    /\ UNCHANGED <<tables, objects, sock, peer>>

\* The other end sends a close frame, or the connection breaks.
PeerEnds(c, how) ==
    /\ sock[c] = "open"
    /\ peer[c] = "talking"
    /\ peer' = [peer EXCEPT ![c] = how]
    /\ UNCHANGED <<tables, objects, sock, pc, arg, res>>

-----------------------------------------------------------------------------
(* WebSocketConnection.close(), also run by __exit__ and __del__: the      *)
(* _closed test, WebsocketClose (Load, Delete, conn.Close), then           *)
(* WebsocketFreeHandle (Delete from both maps), then the attributes.       *)

ConnClose(t, c) ==
    /\ conn[c] = "open"
    /\ Call(t, "closeLoad", c)
    /\ UNCHANGED <<tables, objects, sock, peer>>

WebsocketCloseLoad(t) ==
    /\ pc[t] = "closeLoad"
    /\ IF ConnId(arg[t]) \in wsConnHandles
       THEN Goto(t, "closeLoad", "closeDelete")
       ELSE Goto(t, "closeLoad", "connFree1")
    /\ UNCHANGED <<tables, objects, sock, peer>>

\* Mutant: the connection stays in the table when it is closed.
WebsocketCloseKeeps(t) ==
    /\ Goto(t, "closeDelete", "closeSock")
    /\ UNCHANGED <<tables, objects, sock, peer>>

WebsocketCloseDelete(t) ==
    /\ Goto(t, "closeDelete", "closeSock")
    /\ wsConnHandles' = wsConnHandles \ {arg[t]}
    /\ UNCHANGED <<wsHandles, wsHandleSeq, wsConnHandleSeq, objects, sock, peer>>

\* Mutant: the handle goes and the connection stays open.
WebsocketCloseDropsOnly(t) ==
    /\ Goto(t, "closeSock", "connFree1")
    /\ UNCHANGED <<tables, objects, sock, peer>>

\* An error of conn.Close is reported in err, which Python does not read.
WebsocketCloseSock(t) ==
    /\ Goto(t, "closeSock", "connFree1")
    /\ sock' = [sock EXCEPT ![arg[t]] = "closed"]
    /\ UNCHANGED <<tables, objects, peer>>

\* WebsocketFreeHandle(id), its two deletions one after the other.  The id is
\* the attribute as read for the call; for the 0 another closer has left
\* there is nothing to delete.
FreeFromConns(id) == wsConnHandles' = wsConnHandles \ {id}
FreeFromClients(id) == wsHandles' = wsHandles \ {id}

ConnFree1(t) ==
    /\ Goto(t, "connFree1", IF ConnId(arg[t]) = 0 THEN "connMark" ELSE "connFree2")
    /\ FreeFromConns(ConnId(arg[t]))
    /\ UNCHANGED <<wsHandles, wsHandleSeq, wsConnHandleSeq, objects, sock, peer>>

ConnFree2(t) ==
    /\ Goto(t, "connFree2", "connMark")
    /\ FreeFromClients(arg[t])
    /\ UNCHANGED <<wsConnHandles, wsHandleSeq, wsConnHandleSeq, objects, sock, peer>>

ConnMark(t) ==
    /\ Return(t, "connMark", "ok")
    /\ conn' = [conn EXCEPT ![arg[t]] = "closed"]
    /\ UNCHANGED <<tables, ws, sock, peer>>

-----------------------------------------------------------------------------
(* WebSocket.close(), also run by __exit__ and __del__.                    *)

WsClose(t, w) ==
    /\ ws[w] = "open"
    /\ Call(t, "wsFree1", w)
    /\ UNCHANGED <<tables, objects, sock, peer>>

WsFree1(t) ==
    /\ Goto(t, "wsFree1", IF WsId(arg[t]) = 0 THEN "wsMark" ELSE "wsFree2")
    /\ FreeFromConns(WsId(arg[t]))
    /\ UNCHANGED <<wsHandles, wsHandleSeq, wsConnHandleSeq, objects, sock, peer>>

WsFree2(t) ==
    /\ Goto(t, "wsFree2", "wsMark")
    /\ FreeFromClients(arg[t])
    /\ UNCHANGED <<wsConnHandles, wsHandleSeq, wsConnHandleSeq, objects, sock, peer>>

WsMark(t) ==
    /\ Return(t, "wsMark", "ok")
    /\ ws' = [ws EXCEPT ![arg[t]] = "closed"]
    /\ UNCHANGED <<tables, conn, sock, peer>>

-----------------------------------------------------------------------------
\* What a thread inside a call does next without waiting for the network.
Step(t) ==
    \/ WebsocketNewStore(t) \/ WebsocketConnectLoad(t) \/ WebsocketConnectStore(t)
    \/ WebsocketReadLoad(t) \/ ReadEnds(t) \/ WebsocketWriteMessage(t)
    \/ WebsocketCloseLoad(t) \/ WebsocketCloseDelete(t) \/ WebsocketCloseSock(t)
    \/ ConnFree1(t) \/ ConnFree2(t) \/ ConnMark(t)
    \/ WsFree1(t) \/ WsFree2(t) \/ WsMark(t)

Next ==
    \/ \E t \in Threads :
         \/ WebsocketNew(t) \/ WebsocketNewFails(t)
         \/ \E w \in WsIds : Connect(t, w) \/ WsClose(t, w)
         \/ \E c \in ConnIds : ReadMessage(t, c) \/ Send(t, c) \/ ConnClose(t, c)
         \/ WebsocketDialFails(t) \/ WebsocketDialed(t) \/ ReadFrame(t)
         \/ Step(t)
    \/ \E c \in ConnIds, how \in {"cleanly", "broken"} : PeerEnds(c, how)

Spec == Init /\ [][Next]_vars

\* A thread that can go on does; nobody is obliged to call or to send.
FairSpec == Spec /\ \A t \in Threads : WF_vars(Step(t))

-----------------------------------------------------------------------------
PCs == {"idle", "newStore", "connectLoad", "dial", "connectStore", "readLoad",
        "reading", "sendLoad", "closeLoad", "closeDelete", "closeSock",
        "connFree1", "connFree2", "connMark", "wsFree1", "wsFree2", "wsMark"}

\* Types; a number in a table has been drawn from that table's sequence.
TypeOK ==
    /\ wsHandleSeq \in 0 .. MaxWs /\ wsConnHandleSeq \in 0 .. MaxConns
    /\ wsHandles \subseteq 1 .. wsHandleSeq
    /\ wsConnHandles \subseteq 1 .. wsConnHandleSeq
    /\ ws \in [WsIds -> {"none", "open", "closed"}]
    /\ conn \in [ConnIds -> {"none", "open", "closed"}]
    /\ sock \in [ConnIds -> {"none", "open", "closed"}]
    /\ peer \in [ConnIds -> {"talking", "cleanly", "broken"}]
    /\ pc \in [Threads -> PCs]
    /\ arg \in [Threads -> WsIds \cup ConnIds \cup {0}]
    /\ res \in [Threads -> {"none", "ok", "error", "message"}]

At(t, places, a) == pc[t] \in places /\ arg[t] = a

\* WebsocketFreeHandle has run, at least in part, for client n or is about
\* to have its effect recorded; and the same for connection n.
ClientFreed(n) ==
    n \in WsIds /\ (ws[n] = "closed" \/ \E t \in Threads : At(t, {"wsFree2", "wsMark"}, n))
ConnFreed(n) ==
    n \in ConnIds /\ (conn[n] = "closed" \/ \E t \in Threads : At(t, {"connMark"}, n))

\* A connection reachable through the table is one nobody has closed, in
\* spite of concurrent close() calls: WebsocketClose deletes, then closes.
RegisteredIsOpen == \A c \in wsConnHandles : sock[c] = "open"

\* An open connection handed to Python leaves the table only in the hands of
\* a closer that is about to close it, or because WebsocketFreeHandle ran
\* for the client with the same number.
LostOnlyByNamesake ==
    \A c \in ConnIds :
        conn[c] # "none" /\ sock[c] = "open" /\ c \notin wsConnHandles
            => ClientFreed(c) \/ \E t \in Threads : At(t, {"closeSock"}, c)

\* A WebSocket that has not been closed loses its client only because
\* WebsocketFreeHandle ran for the connection with the same number.
ReleasedOnlyByNamesake ==
    \A w \in WsIds :
        ws[w] = "open" /\ w \notin wsHandles
            => ConnFreed(w) \/ \E t \in Threads : At(t, {"wsMark"}, w)

\* A thread blocked in read_message() is woken once another thread's close()
\* has returned, unless the client with the same number had been released.
CloseWakesReader ==
    \A t \in Threads, c \in ConnIds :
        At(t, {"reading"}, c) /\ conn[c] = "closed" /\ ~ClientFreed(c)
            ~> ~At(t, {"reading"}, c)

\* What the documentation of websocket.py says, and the code does not do.

\* WebSocketConnection.close: "Close the underlying connection".
CloseReachesSocket ==
    \A c \in ConnIds : conn[c] = "closed" => sock[c] = "closed"
=============================================================================
