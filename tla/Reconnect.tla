----------------------------- MODULE Reconnect -----------------------------
(***************************************************************************)
(* The client's end when the connection is lost and made again: the        *)
(* connector and its timer, socket_client and its is_connected, and what   *)
(* node_sync does with the nodes it tracks.  The client is a               *)
(* client_nonroot; every connection meets a new server object, which       *)
(* counts its nids from 1 again (0 is the root on both ends).              *)
(*                                                                         *)
(* Threads: "io" runs all handlers of the sockets and the timer, "app" is  *)
(* the application, "worker" serves the packages of the queue.  The        *)
(* dispatcher and the codec are seen as they leave things: send writes one *)
(* package and waits, write writes one package.  socket_client::write is   *)
(* three steps, because the io thread may run between them: it looks at    *)
(* is_connected, it writes, and after an error it clears is_connected.     *)
(***************************************************************************)
EXTENDS Integers, Sequences

CONSTANTS
  MaxConn,  \* bound: connections
  MaxNid,   \* bound: nids a server gives on one connection
  MaxOps,   \* bound: operations of the application
  Nobody

ASSUME ReconnectAssumption ==
  /\ MaxConn \in Nat \ {0} /\ MaxNid \in Nat /\ MaxOps \in Nat
  /\ Nobody \notin {"io", "app", "worker"}

Thread == {"app", "worker"}

VARIABLES
  do_reconnect,  \* of the connector; never changes
  conn,          \* number of the socket in socket_client, 0 before the first
  dead,          \* that socket is broken (or there is none)
  is_connected,
  pending,       \* asynchronous operations handed to asio
  io,            \* where the io thread is, and the nid it deletes
  tracked,       \* a map from nids to nodes
  holder,        \* the thread that has tracked_mutex
  package_queue,
  reply,         \* the reply for each waiting thread, if it has come
  th,            \* the local state of app and worker
  ops,
  listens,       \* the root has node_sync as a listener
  wire,          \* packages on their way from the server
  asked,         \* threads whose request the server has
  server,        \* the server: nids given, subscribed, nids it may set
  late,          \* history: an error of an older socket cleared is_connected
  carried        \* history: work for an older connection outlived it

socketVars == <<conn, dead, is_connected>>
nodeVars   == <<tracked, listens>>
serverVars == <<wire, asked, server>>
vars == <<socketVars, nodeVars, serverVars, pending, io, holder, package_queue,
          reply, th, ops, late, carried, do_reconnect>>

Root      == [kind |-> "root", conn |-> 0]
Own(c)    == [kind |-> "own", conn |-> c]
Proxy(c)  == [kind |-> "proxy", conn |-> c]
Null      == [kind |-> "null", conn |-> 0]
NoNid     == -1

Msg(kind, nid) == [kind |-> kind, nid |-> nid, conn |-> conn]
NoReply        == [kind |-> "none", nid |-> NoNid, conn |-> 0]
Idle           == [pc |-> "idle", what |-> "none", nid |-> NoNid, conn |-> 0]
NewServer      == [nids |-> 0, subscribed |-> FALSE, sets |-> {}]

(* connector::connect has been called for the first time.                  *)
Init ==
  /\ do_reconnect \in BOOLEAN
  /\ conn = 0 /\ dead = TRUE /\ is_connected = FALSE
  /\ pending = {"connect"}
  /\ io = [pc |-> "idle", nid |-> NoNid]
  /\ tracked = [k \in {} |-> Root]
  /\ holder = Nobody
  /\ package_queue = <<>>
  /\ reply = [t \in Thread |-> NoReply]
  /\ th = [t \in Thread |-> Idle]
  /\ ops = 0
  /\ listens = FALSE
  /\ wire = <<>> /\ asked = {} /\ server = NewServer
  /\ late = FALSE /\ carried = FALSE

-----------------------------------------------------------------------------
At(t, pc)     == th[t].pc = pc
Become(t, s)  == th' = [th EXCEPT ![t] = s]
Goto(t, pc)   == th' = [th EXCEPT ![t].pc = pc]
IoGoto(pc)    == io' = [io EXCEPT !.pc = pc]
Free(t)       == holder \in {Nobody, t}
Track(nid, n) == [k \in DOMAIN tracked \cup {nid} |->
                    IF k = nid THEN n ELSE tracked[k]]
Erase(nid)    == [k \in DOMAIN tracked \ {nid} |-> tracked[k]]
IsTracked(n)  == \E k \in DOMAIN tracked : tracked[k] = n

-----------------------------------------------------------------------------
(* The connector.  A failed attempt is repeated only with do_reconnect; a  *)
(* lost connection is always followed by another attempt.                  *)

IoHandles(op) == io.pc = "idle" /\ op \in pending

ConnectFails ==
  /\ IoHandles("connect")
  /\ IF do_reconnect
     THEN pending' = {"timer"} /\ io' = io
     ELSE pending' = {} /\ IoGoto("stopped")
  /\ UNCHANGED <<socketVars, nodeVars, serverVars, holder, package_queue, reply,
                 th, ops, late, carried>>

ReconnectHandler ==
  /\ IoHandles("timer")
  /\ pending' = {"connect"}
  /\ UNCHANGED <<socketVars, nodeVars, serverVars, io, holder, package_queue,
                 reply, th, ops, late, carried>>

(* Mutant: set_socket leaves is_connected as the last error has set it.    *)
SetSocketSilently ==
  /\ conn' = conn + 1
  /\ dead' = FALSE
  /\ is_connected' = is_connected

SetSocket ==
  /\ conn' = conn + 1
  /\ dead' = FALSE
  /\ is_connected' = TRUE

ConnectSucceeds ==
  /\ IoHandles("connect")
  /\ conn < MaxConn
  /\ SetSocket
  /\ pending' = {}
  /\ IoGoto("opened")
  /\ wire' = <<>> /\ asked' = {} /\ server' = NewServer
  /\ UNCHANGED <<nodeVars, holder, package_queue, reply, th, ops, late, carried>>

(* stream_opened, still inside set_socket: nothing is received before it   *)
(* ends.  do_track needs tracked_mutex.                                    *)
StreamOpened ==
  /\ io.pc = "opened"
  /\ Free("io")
  /\ tracked' = Track(0, Root)
  /\ IoGoto("subscribe")
  /\ UNCHANGED <<socketVars, listens, serverVars, pending, holder,
                 package_queue, reply, th, ops, late, carried>>

Subscribe ==
  /\ io.pc = "subscribe"
  /\ is_connected' = (is_connected /\ ~dead)
  /\ server' = [server EXCEPT !.subscribed = is_connected /\ ~dead]
  /\ listens' = TRUE
  /\ pending' = {"receive"}
  /\ IoGoto("idle")
  /\ UNCHANGED <<conn, dead, tracked, wire, asked, holder, package_queue,
                 reply, th, ops, late, carried>>

(* data_ready: replies wake their sender, the rest is for the worker.      *)
DataReady ==
  /\ IoHandles("receive")
  /\ wire # <<>>
  /\ wire' = Tail(wire)
  /\ LET m == Head(wire) IN
     IF m.kind \in Thread
     THEN reply' = [reply EXCEPT ![m.kind] = m] /\ UNCHANGED package_queue
     ELSE package_queue' = Append(package_queue, m) /\ UNCHANGED reply
  /\ UNCHANGED <<socketVars, nodeVars, asked, server, pending, io, holder, th,
                 ops, late, carried>>

DataReadyError ==
  /\ IoHandles("receive")
  /\ dead /\ wire = <<>>
  /\ is_connected' = FALSE
  /\ pending' = {}
  /\ IoGoto("closed")
  /\ UNCHANGED <<conn, dead, nodeVars, serverVars, holder, package_queue, reply,
                 th, ops, late, carried>>

-----------------------------------------------------------------------------
(* cleanup_children, called by stream_closed.  It takes the nodes in the   *)
(* order of their nids.  A proxy is deleted without the lock; its          *)
(* destructor takes the lock to erase its nid.                             *)

Announcing == th["app"].what = "own" /\ th["app"].pc \in {"check", "some", "error"}

CleanupBegins ==
  /\ io.pc = "closed"
  /\ Free("io")
  /\ holder' = "io"
  /\ IoGoto("cleanup")
  /\ carried' = (\/ carried \/ package_queue # <<>> \/ ~At("worker", "idle")
                 \/ Announcing)
  /\ UNCHANGED <<socketVars, nodeVars, serverVars, pending, package_queue, reply,
                 th, ops, late>>

IsFirst(k) == \A j \in DOMAIN tracked : k <= j

CleanupNode ==
  /\ io.pc = "cleanup"
  /\ \E k \in DOMAIN tracked :
       /\ IsFirst(k) /\ tracked[k].kind \in {"root", "own"}
       /\ tracked' = Erase(k)
  /\ UNCHANGED <<socketVars, listens, serverVars, pending, io, holder,
                 package_queue, reply, th, ops, late, carried>>

CleanupProxy ==
  /\ io.pc = "cleanup"
  /\ \E k \in DOMAIN tracked :
       /\ IsFirst(k) /\ tracked[k].kind = "proxy"
       /\ io' = [pc |-> "delete", nid |-> k]
  /\ holder' = Nobody
  /\ UNCHANGED <<socketVars, nodeVars, serverVars, pending, package_queue,
                 reply, th, ops, late, carried>>

(* n->get_name() of a null pointer.                                        *)
CleanupNull ==
  /\ io.pc = "cleanup"
  /\ \E k \in DOMAIN tracked : IsFirst(k) /\ tracked[k] = Null
  /\ IoGoto("crashed")
  /\ UNCHANGED <<socketVars, nodeVars, serverVars, pending, holder,
                 package_queue, reply, th, ops, late, carried>>

RemoveClientNode ==
  /\ io.pc = "delete"
  /\ Free("io")
  /\ tracked' = Erase(io.nid)
  /\ io' = [pc |-> "relock", nid |-> NoNid]
  /\ UNCHANGED <<socketVars, listens, serverVars, pending, holder,
                 package_queue, reply, th, ops, late, carried>>

CleanupRelocks ==
  /\ io.pc = "relock"
  /\ Free("io")
  /\ holder' = "io"
  /\ IoGoto("cleanup")
  /\ UNCHANGED <<socketVars, nodeVars, serverVars, pending, package_queue,
                 reply, th, ops, late, carried>>

(* Mutant: nothing starts the timer.                                       *)
CleanupEndsForGood ==
  /\ io.pc = "cleanup"
  /\ DOMAIN tracked = {}
  /\ holder' = Nobody
  /\ IoGoto("idle")
  /\ UNCHANGED <<socketVars, nodeVars, serverVars, pending, package_queue, reply,
                 th, ops, late, carried>>

(* data_ready goes on: conn->reconnect().                                  *)
CleanupEnds ==
  /\ io.pc = "cleanup"
  /\ DOMAIN tracked = {}
  /\ holder' = Nobody
  /\ pending' = {"timer"}
  /\ IoGoto("idle")
  /\ UNCHANGED <<socketVars, nodeVars, serverVars, package_queue, reply, th, ops,
                 late, carried>>

IoContinues ==
  \/ ReconnectHandler \/ StreamOpened \/ Subscribe \/ DataReady \/ DataReadyError
  \/ CleanupBegins \/ CleanupNode \/ CleanupProxy \/ CleanupNull
  \/ RemoveClientNode \/ CleanupRelocks \/ CleanupEnds

-----------------------------------------------------------------------------
(* Writing.  th[t].what says on whose behalf: "fetch" and "root"/"child"   *)
(* send a request with tracked_mutex held, "own", "sub" and "note" write.  *)

Request == {"fetch", "root", "child"}

(* What follows when a thread has done what th[t].what says:               *)
(* child_added of a node of the application asks for the nid of the root,  *)
(* then for that of the node, and announces it; the worker's attach of a   *)
(* proxy calls child_added too, which ends after the nid of the root.      *)
After(t, nid) ==
  CASE th[t].what = "root" /\ t = "app" ->
         [Idle EXCEPT !.pc = "get_nid", !.what = "child"]
    [] th[t].what = "child" ->
         [Idle EXCEPT !.pc = "check", !.what = "own", !.nid = nid]
    [] th[t].what = "sub" ->
         [Idle EXCEPT !.pc = "get_nid", !.what = "root"]
    [] OTHER -> Idle

(* get_nid finds the root.                                                 *)
GetNidFound(t) ==
  /\ At(t, "get_nid") /\ th[t].what = "root"
  /\ Free(t)
  /\ IsTracked(Root)
  /\ Become(t, After(t, 0))
  /\ UNCHANGED <<socketVars, nodeVars, serverVars, pending, io, holder,
                 package_queue, reply, ops, late, carried>>

(* Mutant: the request is sent before the lock is taken.                   *)
RequestUnlocked(t) ==
  /\ At(t, "get_nid")
  /\ ~(th[t].what = "root" /\ IsTracked(Root))
  /\ Goto(t, "check")
  /\ UNCHANGED <<socketVars, nodeVars, serverVars, pending, io, holder,
                 package_queue, reply, ops, late, carried>>

(* get_nid finds nothing, or fetch_node: the lock is kept over the send.   *)
RequestLocked(t) ==
  /\ At(t, "get_nid")
  /\ ~(th[t].what = "root" /\ IsTracked(Root))
  /\ Free(t)
  /\ holder' = t
  /\ Goto(t, "check")
  /\ UNCHANGED <<socketVars, nodeVars, serverVars, pending, io,
                 package_queue, reply, ops, late, carried>>

(* socket_client::write: a write that is not made or fails.                *)
Fails(t) ==
  IF th[t].what \in Request
  THEN [th[t] EXCEPT !.pc = "track", !.nid = 0, !.conn = 0]
  ELSE After(t, NoNid)

WriteChecks(t) ==
  /\ At(t, "check")
  /\ Become(t, IF is_connected THEN [th[t] EXCEPT !.pc = "some"] ELSE Fails(t))
  /\ UNCHANGED <<socketVars, nodeVars, serverVars, pending, io, holder,
                 package_queue, reply, ops, late, carried>>

Written(t) == IF th[t].what \in Request
              THEN [th[t] EXCEPT !.pc = "wait"] ELSE After(t, NoNid)

WriteSome(t) ==
  /\ At(t, "some") /\ ~dead
  /\ asked' = IF th[t].what \in Request THEN asked \cup {t} ELSE asked
  /\ server' = IF th[t].what = "own"
               THEN [server EXCEPT !.sets = @ \cup {th[t].nid}] ELSE server
  /\ Become(t, Written(t))
  /\ UNCHANGED <<socketVars, nodeVars, wire, pending, io, holder,
                 package_queue, reply, ops, late, carried>>

(* A broken connection may still take the bytes, or report an error.       *)
WriteLost(t) ==
  /\ At(t, "some") /\ dead
  /\ Become(t, Written(t))
  /\ UNCHANGED <<socketVars, nodeVars, serverVars, pending, io, holder,
                 package_queue, reply, ops, late, carried>>

WriteError(t) ==
  /\ At(t, "some") /\ dead
  /\ Become(t, [th[t] EXCEPT !.pc = "error", !.conn = conn])
  /\ UNCHANGED <<socketVars, nodeVars, serverVars, pending, io, holder,
                 package_queue, reply, ops, late, carried>>

WriteEnds(t) ==
  /\ At(t, "error")
  /\ is_connected' = FALSE
  /\ late' = (late \/ th[t].conn # conn)
  /\ Become(t, Fails(t))
  /\ UNCHANGED <<conn, dead, nodeVars, serverVars, pending, io, holder,
                 package_queue, reply, ops, carried>>

SendReturns(t) ==
  /\ At(t, "wait")
  /\ reply[t] # NoReply
  /\ Become(t, [th[t] EXCEPT !.pc = "track", !.nid = reply[t].nid,
                             !.conn = reply[t].conn])
  /\ reply' = [reply EXCEPT ![t] = NoReply]
  /\ UNCHANGED <<socketVars, nodeVars, serverVars, pending, io, holder,
                 package_queue, ops, late, carried>>

(* generate_nid and fetch_node take the nid of the reply without asking    *)
(* whether there was one; a package that nobody filled in has nid 0.       *)
DoTrack(t) ==
  /\ At(t, "track")
  /\ Free(t)
  /\ LET node == CASE th[t].what = "fetch" -> Proxy(th[t].conn)
                   [] th[t].what = "root"  -> Root
                   [] th[t].what = "child" -> Own(th[t].conn)
     IN  tracked' = Track(th[t].nid, node)
  /\ holder' = Nobody
  /\ Become(t, After(t, th[t].nid))
  /\ UNCHANGED <<socketVars, listens, serverVars, pending, io, package_queue,
                 reply, ops, late, carried>>

ThreadStep(t) ==
  \/ GetNidFound(t) \/ RequestLocked(t) \/ WriteChecks(t) \/ WriteSome(t)
  \/ WriteLost(t) \/ WriteError(t) \/ WriteEnds(t) \/ SendReturns(t)
  \/ DoTrack(t)

-----------------------------------------------------------------------------
(* The application fetches a child of some proxy, attaches a node of its   *)
(* own to the root, or sets a property.                                    *)
AppBegins(what, pc) ==
  /\ At("app", "idle")
  /\ ops < MaxOps /\ ops' = ops + 1
  /\ Become("app", [Idle EXCEPT !.pc = pc, !.what = what])
  /\ UNCHANGED <<socketVars, nodeVars, serverVars, pending, io, holder,
                 package_queue, reply, late, carried>>

HasProxy == \E k \in DOMAIN tracked : tracked[k].kind = "proxy"
Fetch    == HasProxy /\ AppBegins("fetch", "get_nid")
Create   == listens /\ AppBegins("root", "get_nid")
SetValue == HasProxy /\ AppBegins("note", "check")

(* The worker: cmd_child_added for a child of the root, in its three       *)
(* critical sections, and cmd_prop_value, whose tracked[nid] makes an      *)
(* entry for a nid that has none.                                          *)
Pop(kind) ==
  /\ At("worker", "idle")
  /\ package_queue # <<>> /\ Head(package_queue).kind = kind
  /\ Free("worker")
  /\ package_queue' = Tail(package_queue)

CmdChildAdded ==
  /\ Pop("child")
  /\ LET m == Head(package_queue) IN
     IF 0 \in DOMAIN tracked
     THEN Become("worker", [pc |-> "find", what |-> "sub", nid |-> m.nid,
                            conn |-> m.conn])
     ELSE th' = th
  /\ UNCHANGED <<socketVars, nodeVars, serverVars, pending, io, holder, reply,
                 ops, late, carried>>

FindChild ==
  /\ At("worker", "find")
  /\ Free("worker")
  /\ IF th["worker"].nid \in DOMAIN tracked
     THEN Become("worker", After("worker", NoNid))
     ELSE Goto("worker", "make")
  /\ UNCHANGED <<socketVars, nodeVars, serverVars, pending, io, holder,
                 package_queue, reply, ops, late, carried>>

MakeChild ==
  /\ At("worker", "make")
  /\ Free("worker")
  /\ tracked' = Track(th["worker"].nid, Proxy(th["worker"].conn))
  /\ Goto("worker", "check")
  /\ UNCHANGED <<socketVars, listens, serverVars, pending, io, holder,
                 package_queue, reply, ops, late, carried>>

CmdPropValue ==
  /\ Pop("set")
  /\ LET nid == Head(package_queue).nid IN
     tracked' = IF nid \in DOMAIN tracked THEN tracked ELSE Track(nid, Null)
  /\ UNCHANGED <<socketVars, listens, serverVars, pending, io, holder, reply,
                 th, ops, late, carried>>

WorkerServes == CmdChildAdded \/ FindChild \/ MakeChild \/ CmdPropValue

-----------------------------------------------------------------------------
(* The server and the network.                                             *)
GiveNid == /\ ~dead /\ server.nids < MaxNid
           /\ server' = [server EXCEPT !.nids = @ + 1]

ServerReplies(t) ==
  /\ t \in asked
  /\ GiveNid
  /\ asked' = asked \ {t}
  /\ wire' = Append(wire, Msg(t, server.nids + 1))
  /\ UNCHANGED <<socketVars, nodeVars, pending, io, holder, package_queue, reply,
                 th, ops, late, carried>>

ServerAdds ==
  /\ server.subscribed
  /\ GiveNid
  /\ wire' = Append(wire, Msg("child", server.nids + 1))
  /\ UNCHANGED <<socketVars, nodeVars, asked, pending, io, holder, package_queue,
                 reply, th, ops, late, carried>>

ServerSets(nid) ==
  /\ ~dead /\ nid \in server.sets
  /\ server' = [server EXCEPT !.sets = @ \ {nid}]
  /\ wire' = Append(wire, Msg("set", nid))
  /\ UNCHANGED <<socketVars, nodeVars, asked, pending, io, holder, package_queue,
                 reply, th, ops, late, carried>>

(* The connection breaks; what is on the wire may still be received.       *)
Break ==
  /\ ~dead
  /\ dead' = TRUE
  /\ wire' \in {wire, <<>>}
  /\ asked' = {} /\ server' = NewServer
  /\ UNCHANGED <<conn, is_connected, nodeVars, pending, io, holder,
                 package_queue, reply, th, ops, late, carried>>

Next ==
  /\ \/ IoContinues \/ ConnectFails \/ ConnectSucceeds
     \/ \E t \in Thread : ThreadStep(t)
     \/ Fetch \/ Create \/ SetValue
     \/ WorkerServes
     \/ \E t \in Thread : ServerReplies(t)
     \/ ServerAdds \/ (\E nid \in server.sets : ServerSets(nid)) \/ Break
  /\ do_reconnect' = do_reconnect

Spec == Init /\ [][Next]_vars

(***************************************************************************)
(* Threads keep running, and a client that tries again and again is once   *)
(* accepted.  Nothing is assumed of the application, of what the server    *)
(* sends or of when the connection breaks.                                 *)
(***************************************************************************)
FairSpec ==
  /\ Spec
  /\ WF_vars(IoContinues /\ do_reconnect' = do_reconnect)
  /\ SF_vars(ConnectSucceeds /\ do_reconnect' = do_reconnect)
  /\ WF_vars((IoHandles("connect") /\ (ConnectFails \/ ConnectSucceeds))
             /\ do_reconnect' = do_reconnect)
  /\ WF_vars(ThreadStep("app") /\ do_reconnect' = do_reconnect)
  /\ WF_vars((ThreadStep("worker") \/ WorkerServes)
             /\ do_reconnect' = do_reconnect)

-----------------------------------------------------------------------------
Nid  == 0 .. MaxNid
Conn == 0 .. MaxConn
NodeOf == [kind : {"root", "own", "proxy", "null"}, conn : Conn]
Message == [kind : Thread \cup {"child", "set", "none"}, nid : Nid \cup {NoNid},
            conn : Conn]
ThreadState == [pc : {"idle", "get_nid", "check", "some", "error", "wait",
                      "track", "find", "make"},
                what : {"none", "fetch", "root", "child", "own", "sub", "note"},
                nid : Nid \cup {NoNid}, conn : Conn]

(* Types.  An idle io thread has exactly one operation with asio, and only *)
(* a connector that gave up has none; a null entry of tracked, which       *)
(* crashes the next cleanup, comes from no package of the connection.      *)
TypeOK ==
  /\ conn \in Conn /\ dead \in BOOLEAN /\ is_connected \in BOOLEAN
  /\ pending \in {{}, {"connect"}, {"timer"}, {"receive"}}
  /\ io \in [pc : {"idle", "stopped", "opened", "subscribe", "closed", "cleanup",
                   "delete", "relock", "crashed"}, nid : Nid \cup {NoNid}]
  /\ io.pc = "idle" <=> pending # {}
  /\ DOMAIN tracked \subseteq Nid /\ tracked \in [DOMAIN tracked -> NodeOf]
  /\ IsTracked(Null) \/ io.pc = "crashed" => carried
  /\ holder \in Thread \cup {"io", Nobody}
  /\ wire \in Seq(Message) /\ package_queue \in Seq(Message)
  /\ reply \in [Thread -> Message]
  /\ th \in [Thread -> ThreadState]
  /\ asked \subseteq Thread
  /\ server \in [nids : Nid, subscribed : BOOLEAN, sets : SUBSET Nid]
  /\ ops \in 0 .. MaxOps
  /\ listens \in BOOLEAN /\ late \in BOOLEAN /\ carried \in BOOLEAN

IsOpen == io.pc = "idle" /\ "receive" \in pending /\ ~dead

(* While the connection is up and being read, write uses it.  The one      *)
(* exception is an error of an older socket that is recorded late          *)
(* (socket_client.cpp:37): from then on the client is mute until the       *)
(* connection breaks again.                                                *)
KnowsItIsUp == IsOpen /\ ~late => is_connected

(* On an open connection 0 is the root and every other nid was given on    *)
(* this connection, although failed calls put nodes under 0 and servers    *)
(* number their nodes from the start each time; unless work for an older   *)
(* connection was under way when its nodes were cleaned up, or             *)
(* is_connected is wrong.                                                  *)
NidsAreCurrent ==
  IsOpen /\ ~late /\ ~carried =>
    /\ 0 \in DOMAIN tracked /\ tracked[0] = Root
    /\ \A k \in DOMAIN tracked \ {0} : tracked[k].conn = conn

(* The io thread waits for tracked_mutex, the thread that has it for a     *)
(* reply only the io thread could read: after a loss (node_sync.cpp:816),  *)
(* or before the first receive on a new socket (socket_client.cpp:85).     *)
Stuck ==
  /\ io.pc \in {"closed", "opened"}
  /\ \E t \in Thread : holder = t /\ At(t, "wait") /\ reply[t] = NoReply

(* A lost connection is made again and read, unless the io thread is       *)
(* stuck, a null entry stops it, or the connector was told not to retry.   *)
Reconnects ==
  \A c \in 1 .. MaxConn - 1 :
    (conn = c /\ dead) ~> \/ conn > c /\ io.pc = "idle"
                          \/ Stuck
                          \/ io.pc \in {"crashed", "stopped"}
=============================================================================
