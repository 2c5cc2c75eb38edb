-------------------------- MODULE ReconnectProofs --------------------------
(***************************************************************************)
(* For any number of connections, nids and operations: while a connection  *)
(* is read, write uses it, and every nid the client keeps was given on     *)
(* this connection, with the two exceptions the properties name.           *)
(***************************************************************************)
EXTENDS Reconnect, SequenceTheorems, TLAPS

(* The root is tracked from stream_opened to cleanup_children; nothing is  *)
(* sent or received between the loss of a connection and set_socket.       *)
Reading == "receive" \in pending
Up      == io.pc \in {"subscribe", "closed"} \/ Reading
Down    == ~Reading /\ io.pc \notin {"opened", "subscribe"}

In(q, m)      == \E i \in DOMAIN q : q[i] = m
OnlyOne(q, k) == \A i, j \in DOMAIN q : q[i].kind = k /\ q[j].kind = k => i = j

(* Which steps a thread takes for what, and when it has tracked_mutex.     *)
Locked(t) == th[t].what \in Request
             /\ th[t].pc \in {"check", "some", "error", "wait", "track"}
Work ==
  /\ \A t \in Thread :
       /\ holder = t <=> Locked(t)
       /\ th[t].pc \in {"get_nid", "wait", "track"} => th[t].what \in Request
       /\ th[t].pc = "track" => th[t].nid \in Nid
       /\ th[t].what = "own" => /\ t = "app" /\ th[t].nid \in Nid
                                /\ th[t].pc \in {"check", "some", "error"}
       /\ th[t].pc \in {"find", "make"} =>
            t = "worker" /\ th[t].what = "sub" /\ th[t].nid \in 1 .. MaxNid
  /\ th["app"].what # "sub"
  /\ th["worker"].what \in {"none", "sub", "root"}
  /\ holder = "io" <=> io.pc \in {"cleanup", "crashed"}

(* is_connected is only wrong after an error that was recorded late; what  *)
(* is down stays so until set_socket.                                      *)
Socket ==
  /\ \A t \in Thread : /\ th[t].conn <= conn
                       /\ th[t].pc = "error" /\ th[t].conn = conn => dead
  /\ ~dead /\ ~late => is_connected
  /\ Down => dead /\ ~is_connected /\ wire = <<>>
  /\ dead => asked = {} /\ server = NewServer

(* A thread that holds the lock over a request keeps cleanup and           *)
(* stream_opened waiting, so that its reply is one of this connection.     *)
Locks ==
  \A t \in Thread : Locked(t) =>
    /\ th[t].pc \in {"some", "wait", "error"} => Up \/ io.pc = "opened"
    /\ th[t].what = "root" /\ th[t].pc \in {"some", "wait", "error"} => io.pc = "opened"
    /\ th[t].what = "root" /\ th[t].pc = "check" => io.pc = "opened" \/ ~is_connected
    /\ th[t].pc = "track" =>
         \/ th[t].nid = 0 /\ (io.pc = "opened" \/ ~is_connected)
         \/ /\ th[t].nid \in 1 .. MaxNid /\ th[t].conn = conn
            /\ th[t].what # "root" /\ Up

(* One reply to one request.                                               *)
Replies ==
  /\ \A t \in Thread : reply[t] # NoReply =>
       /\ th[t].pc = "wait" /\ th[t].what # "root" /\ Up
       /\ reply[t].nid \in 1 .. MaxNid /\ reply[t].conn = conn
  /\ \A t \in asked : /\ th[t].pc = "wait" /\ reply[t] = NoReply
                      /\ \A m \in Message : In(wire, m) => m.kind # t
  /\ \A t \in Thread : OnlyOne(wire, t)
  /\ \A m \in Message : In(wire, m) =>
       /\ m.kind # "none" /\ m.conn = conn /\ m.nid \in Nid
       /\ m.kind # "set" => m.nid # 0
       /\ m.kind \in Thread => th[m.kind].pc = "wait" /\ reply[m.kind] = NoReply
  /\ \A m \in Message : In(package_queue, m) =>
       /\ m.kind \in {"child", "set"} /\ m.nid \in Nid /\ m.conn <= conn
       /\ m.kind = "child" => m.nid # 0

RootTracked ==
  Up => 0 \in DOMAIN tracked /\ (is_connected => tracked[0] = Root)

(* What is under way belongs to this connection, unless it was carried     *)
(* over from one before.                                                   *)
Current ==
  ~carried =>
    /\ Up => \A k \in DOMAIN tracked \ {0} : tracked[k].conn = conn
    /\ io.pc \in {"opened", "stopped"} \/ (io.pc = "idle" /\ ~Reading) =>
         DOMAIN tracked \subseteq {0}
    /\ ~Reading /\ io.pc # "closed" =>
         package_queue = <<>> /\ th["worker"].pc = "idle"
    /\ \A m \in Message : In(package_queue, m) => m.conn = conn
    /\ th["worker"].pc \in {"find", "make"} => th["worker"].conn = conn

Settable(nid) == IF Up THEN nid \in DOMAIN tracked ELSE nid = 0

(* A property is only set for a node the client has announced.             *)
Announced ==
  ~carried =>
    /\ \A nid \in server.sets : Settable(nid)
    /\ \A m \in Message : In(wire, m) /\ m.kind = "set" => Settable(m.nid)
    /\ \A m \in Message : In(package_queue, m) /\ m.kind = "set" => Settable(m.nid)
    /\ th["app"].what = "own" => Settable(th["app"].nid)

IInv == /\ TypeOK /\ Work /\ Socket /\ Locks /\ Replies /\ RootTracked
        /\ Current /\ Announced

-----------------------------------------------------------------------------
USE ReconnectAssumption DEF Thread, Request, NoNid, Root, Own,
    Proxy, Null, NoReply, NewServer

(* What a queue holds after an element is appended, and what is left of it *)
(* when its head is taken.                                                 *)
LEMMA InAppend ==
  ASSUME NEW q \in Seq(Message), NEW e \in Message, NEW m
  PROVE  In(Append(q, e), m) <=> In(q, m) \/ m = e
  BY DEF In

(* What is left of a queue when its head is taken was in it.               *)
LEMMA InTail ==
  ASSUME NEW q \in Seq(Message), q # <<>>, NEW m, In(Tail(q), m)
  PROVE  In(q, m)
  BY DEF In

(* The package pop takes was in the queue.                                 *)
LEMMA InHead ==
  ASSUME NEW q \in Seq(Message), q # <<>>
  PROVE  In(q, Head(q)) /\ Head(q) \in Message
  BY DEF In

(* A queue that has been emptied holds nothing.                            *)
LEMMA InNone ==
  ASSUME NEW m
  PROVE  ~In(<<>>, m)
  BY DEF In

(* A package whose kind the queue does not hold may be added.              *)
LEMMA OnlyOneAppend ==
  ASSUME NEW q \in Seq(Message), NEW e \in Message, NEW k, OnlyOne(q, k),
         e.kind = k => \A m \in Message : In(q, m) => m.kind # k
  PROVE  OnlyOne(Append(q, e), k)
  BY DEF In, OnlyOne

(* Once the only package of a kind is taken there is none left.            *)
LEMMA OnlyOneTail ==
  ASSUME NEW q \in Seq(Message), q # <<>>, NEW k, OnlyOne(q, k)
  PROVE  /\ OnlyOne(Tail(q), k)
         /\ Head(q).kind = k => \A m \in Message : In(Tail(q), m) => m.kind # k
  BY DEF In, OnlyOne

(* The wire of a new connection holds nothing twice.                       *)
LEMMA OnlyOneNone ==
  ASSUME NEW k
  PROVE  OnlyOne(<<>>, k)
  BY DEF OnlyOne

(* Nid 0, the root's, and connection 0, the time before the first one.     *)
LEMMA Zero == 0 \in Nid /\ 0 \in Conn
  BY DEF Nid, Conn

(* The values the actions write have their types.                          *)
LEMMA AfterType ==
  ASSUME NEW t \in Thread, NEW nid \in Nid \cup {NoNid}
  PROVE  After(t, nid) \in ThreadState
<1>1. /\ Idle \in ThreadState
      /\ [Idle EXCEPT !.pc = "get_nid", !.what = "child"] \in ThreadState
      /\ [Idle EXCEPT !.pc = "get_nid", !.what = "root"] \in ThreadState
      /\ [Idle EXCEPT !.pc = "check", !.what = "own", !.nid = nid] \in ThreadState
  BY Zero DEF Idle, ThreadState
<1> QED BY <1>1 DEF After

(* What a thread does after its write has gone through.                    *)
LEMMA WrittenType ==
  ASSUME NEW t \in Thread, th[t] \in ThreadState
  PROVE  Written(t) \in ThreadState
  BY AfterType DEF Written, ThreadState

(* What a thread does after a write that failed: a request goes on with    *)
(* nid 0.                                                                  *)
LEMMA FailsType ==
  ASSUME NEW t \in Thread, th[t] \in ThreadState
  PROVE  Fails(t) \in ThreadState
<1>1. [th[t] EXCEPT !.pc = "track", !.nid = 0, !.conn = 0] \in ThreadState
  BY Zero DEF ThreadState
<1> QED BY <1>1, AfterType DEF Fails

(* The moves of a thread through get_nid, write and send.                  *)
LEMMA GotoType ==
  ASSUME NEW s \in ThreadState
  PROVE  /\ [s EXCEPT !.pc = "check"] \in ThreadState
         /\ [s EXCEPT !.pc = "some"] \in ThreadState
         /\ [s EXCEPT !.pc = "make"] \in ThreadState
         /\ \A c \in Conn : [s EXCEPT !.pc = "error", !.conn = c] \in ThreadState
         /\ \A nid \in Nid \cup {NoNid}, c \in Conn :
              [s EXCEPT !.pc = "track", !.nid = nid, !.conn = c] \in ThreadState
  BY DEF ThreadState

(* The nodes an entry of tracked can point at; none of them is null.       *)
LEMMA NodeType ==
  ASSUME NEW c \in Conn
  PROVE  {Root, Null, Own(c), Proxy(c)} \subseteq NodeOf /\ Null \notin {Root, Own(c), Proxy(c)}
  BY Zero DEF NodeOf

(* An assignment to tracked[nid] adds no null entry but a null node.       *)
LEMMA TrackType ==
  ASSUME TypeOK, NEW nid \in Nid, NEW n \in NodeOf, tracked' = Track(nid, n)
  PROVE  /\ DOMAIN tracked' \subseteq Nid /\ tracked' \in [DOMAIN tracked' -> NodeOf]
         /\ IsTracked(Null)' => n = Null \/ IsTracked(Null)
  BY DEF TypeOK, Track, IsTracked

(* tracked.erase adds no entry.                                            *)
LEMMA EraseType ==
  ASSUME TypeOK, NEW nid, tracked' = Erase(nid)
  PROVE  /\ DOMAIN tracked' \subseteq Nid /\ tracked' \in [DOMAIN tracked' -> NodeOf]
         /\ IsTracked(Null)' => IsTracked(Null)
  BY DEF TypeOK, Erase, IsTracked

(* A refused attempt leaves everything but the timer alone.                *)
LEMMA ConnectFailsKeeps ==
  ASSUME IInv, ConnectFails
  PROVE  IInv'
<1>1. TypeOK'
  BY DEF IInv, TypeOK, IsTracked, ConnectFails, IoHandles, IoGoto, socketVars,
     nodeVars, serverVars
<1>2. Work'
  BY DEF IInv, TypeOK, Work, Locked, ConnectFails, IoHandles, IoGoto
<1>3. Socket'
  BY DEF IInv, Work, Locked, Socket, Locks, Replies, RootTracked, Announced,
     Up, Down, Nid, ConnectFails, IoHandles, socketVars, serverVars
<1>4. Locks'
  BY DEF IInv, Locked, Socket, Locks, RootTracked, Current, Announced, Down,
     Reading, ConnectFails, IoHandles, socketVars
<1>5. Replies'
  BY DEF IInv, TypeOK, Replies, Up, Reading, ConnectFails, IoHandles,
     socketVars, serverVars
<1>6. RootTracked'
  BY DEF IInv, TypeOK, RootTracked, Up, Reading, ConnectFails, IoGoto,
     socketVars, nodeVars
<1>7. Current'
  BY DEF IInv, TypeOK, Work, Current, Reading, ConnectFails, IoHandles,
     socketVars, nodeVars
<1>8. Announced'
  BY DEF IInv, TypeOK, Work, Announced, Settable, Up, Reading, ConnectFails,
     IoHandles, IoGoto, serverVars
<1> QED BY <1>1, <1>2, <1>3, <1>4, <1>5, <1>6, <1>7, <1>8 DEF IInv

(* The timer starts the next attempt; nothing is read meanwhile.           *)
LEMMA ReconnectHandlerKeeps ==
  ASSUME IInv, ReconnectHandler
  PROVE  IInv'
<1>1. TypeOK'
  BY DEF IInv, TypeOK, ReconnectHandler, IoHandles, IsTracked, socketVars,
     nodeVars, serverVars
<1>2. Work'
  BY DEF IInv, Work, Locked, ReconnectHandler
<1>3. Socket'
  BY DEF IInv, Work, Locked, Socket, RootTracked, Announced, Up, Down,
     Reading, ReconnectHandler, IoHandles, socketVars, nodeVars, serverVars
<1>4. Locks'
  BY DEF IInv, Locked, Socket, Locks, RootTracked, ReconnectHandler,
     socketVars
<1>5. Replies'
  <2>1. ~Reading /\ ~Reading' /\ io' = io
    BY DEF ReconnectHandler, IoHandles, IInv, TypeOK, Reading
  <2> QED BY <2>1 DEF IInv, Replies, Up, ReconnectHandler, socketVars,
     serverVars
<1>6. RootTracked'
  BY DEF IInv, RootTracked, Up, Reading, ReconnectHandler, socketVars,
     nodeVars
<1>7. Current'
  BY DEF IInv, TypeOK, Current, Reading, ReconnectHandler, IoHandles,
     socketVars, nodeVars
<1>8. Announced'
  BY DEF IInv, TypeOK, Work, Locked, Socket, Announced, Settable, Up, Reading,
     ReconnectHandler, IoHandles, serverVars
<1> QED BY <1>1, <1>2, <1>3, <1>4, <1>5, <1>6, <1>7, <1>8 DEF IInv

(* set_socket: nothing of the connection before is on the new wire, and    *)
(* what is still under way was either given up or is carried.              *)
LEMMA ConnectSucceedsKeeps ==
  ASSUME IInv, ConnectSucceeds
  PROVE  IInv'
<1>1. TypeOK'
  <2>1. conn' \in Conn
    BY DEF IInv, TypeOK, ConnectSucceeds, SetSocket, Conn
  <2>2. NewServer \in [nids : Nid, subscribed : BOOLEAN, sets : SUBSET Nid]
    BY Zero
  <2>3. wire' \in Seq(Message) /\ asked' \subseteq Thread
    BY DEF ConnectSucceeds
  <2>4. /\ io' \in [pc : {"idle", "stopped", "opened", "subscribe", "closed", "cleanup",
                       "delete", "relock", "crashed"}, nid : Nid \cup {NoNid}]
        /\ (io.pc = "idle" <=> pending # {})'
        /\ (IsTracked(Null) \/ io.pc = "crashed" => carried)'
    BY DEF IInv, TypeOK, ConnectSucceeds, IsTracked, IoGoto, nodeVars
  <2> QED BY <2>1, <2>2, <2>3, <2>4 DEF IInv, TypeOK, ConnectSucceeds,
     SetSocket, socketVars, nodeVars, serverVars
<1>2. Work'
  BY DEF IInv, Work, Locked, ConnectSucceeds, IoHandles, IoGoto
<1>3. Socket'
  BY DEF IInv, TypeOK, Socket, Down, Conn, ThreadState, ConnectSucceeds,
     SetSocket, IoGoto
<1>4. Locks'
  BY DEF IInv, Locked, Socket, Locks, Replies, RootTracked, Current,
     Announced, Settable, Up, Down, Reading, Nid, ConnectSucceeds, IoHandles,
     IoGoto, nodeVars
<1>5. Replies'
  <2>1. /\ wire' = <<>> /\ asked' = {} /\ package_queue' = package_queue /\ reply' = reply
        /\ io.pc = "idle" /\ ~Reading /\ conn \in Int /\ conn' = conn + 1
    BY DEF ConnectSucceeds, SetSocket, IoHandles, IInv, TypeOK, Reading, Conn
  <2>2. \A k \in Thread : reply[k] = NoReply
    BY <2>1 DEF IInv, Replies, Up
  <2>3. \A m \in Message : m.conn \in Int
    BY DEF Message, Conn
  <2> QED BY <2>1, <2>2, <2>3, InNone, OnlyOneNone DEF IInv, Replies
<1>6. RootTracked'
  BY DEF IInv, RootTracked, Up, Reading, ConnectSucceeds, IoGoto
<1>7. Current'
  <2>1. /\ package_queue' = package_queue /\ th' = th /\ tracked' = tracked
        /\ io.pc = "idle" /\ ~Reading /\ ~Up' /\ ~Reading' /\ io'.pc = "opened"
        /\ carried' = carried
    BY DEF ConnectSucceeds, IoHandles, IoGoto, IInv, TypeOK, Reading, Up,
       nodeVars
  <2> QED BY <2>1, InNone DEF IInv, Current
<1>8. Announced'
  BY DEF IInv, Work, Locked, Socket, Locks, Replies, RootTracked, Current,
     Announced, Settable, Up, Down, Reading, Nid, ConnectSucceeds, SetSocket,
     IoHandles, IoGoto
<1> QED BY <1>1, <1>2, <1>3, <1>4, <1>5, <1>6, <1>7, <1>8 DEF IInv

(* stream_opened puts the root back under tracked_mutex, so after any      *)
(* request that began before it.                                           *)
LEMMA StreamOpenedKeeps ==
  ASSUME IInv, StreamOpened
  PROVE  IInv'
<1>1. TypeOK'
  <2>1. /\ DOMAIN tracked' \subseteq Nid /\ tracked' \in [DOMAIN tracked' -> NodeOf]
        /\ IsTracked(Null)' => IsTracked(Null)
    BY Zero, TrackType, NodeType DEF IInv, TypeOK, StreamOpened
  <2> QED BY <2>1 DEF IInv, TypeOK, IoGoto, StreamOpened, socketVars,
     nodeVars, serverVars
<1>2. Work'
  BY DEF IInv, Work, Locked, StreamOpened, IoGoto
<1>3. Socket'
  BY DEF IInv, Socket, Down, StreamOpened, IoGoto, socketVars, serverVars
<1>4. Locks'
  BY DEF IInv, Work, Locked, Locks, StreamOpened, Free
<1>5. Replies'
  BY DEF IInv, Replies, Up, StreamOpened, IoGoto, socketVars, serverVars
<1>6. RootTracked'
  BY DEF IInv, RootTracked, StreamOpened, Track
<1>7. Current'
  BY DEF IInv, Current, Reading, StreamOpened, Track, socketVars
<1>8. Announced'
  BY DEF IInv, Announced, Settable, Up, StreamOpened, Track, IoGoto,
     serverVars
<1> QED BY <1>1, <1>2, <1>3, <1>4, <1>5, <1>6, <1>7, <1>8 DEF IInv

(* The rest of stream_opened and the first receive: from here on the       *)
(* connection is read.                                                     *)
LEMMA SubscribeKeeps ==
  ASSUME IInv, Subscribe
  PROVE  IInv'
<1>1. TypeOK'
  BY DEF IInv, TypeOK, Work, Locked, Socket, Locks, Replies, RootTracked,
     Current, Announced, Settable, Up, Down, Reading, Idle, Nid, Conn,
     ThreadState, Subscribe, IoGoto, IsTracked, socketVars, nodeVars,
     serverVars
<1>2. Work'
  BY DEF IInv, Work, Locked, Subscribe, IoGoto
<1>3. Socket'
  <2>1. dead => server' = NewServer
    <3>1. dead => server = NewServer /\ server' = [server EXCEPT !.subscribed = FALSE]
      BY DEF IInv, Socket, Subscribe
    <3> QED BY <3>1
  <2> QED BY <2>1 DEF IInv, TypeOK, Socket, Down, Reading, Subscribe
<1>4. Locks'
  BY DEF IInv, TypeOK, Locked, Locks, Up, Reading, Subscribe
<1>5. Replies'
  BY DEF IInv, Replies, Up, Reading, Subscribe
<1>6. RootTracked'
  BY DEF IInv, TypeOK, RootTracked, Up, Subscribe
<1>7. Current'
  BY DEF IInv, Current, Up, Reading, Subscribe, IoGoto
<1>8. Announced'
  BY DEF IInv, Announced, Settable, Up, Reading, Subscribe
<1> QED BY <1>1, <1>2, <1>3, <1>4, <1>5, <1>6, <1>7, <1>8 DEF IInv

(* The io thread takes a package: a reply goes to the one thread that      *)
(* waits for it, the rest to the queue.                                    *)
LEMMA DataReadyKeeps ==
  ASSUME IInv, DataReady
  PROVE  IInv'
<1> DEFINE m == Head(wire)
<1>a. /\ wire \in Seq(Message) /\ wire # <<>> /\ wire' = Tail(wire) /\ Reading /\ io.pc = "idle"
      /\ UNCHANGED <<conn, dead, is_connected, tracked, listens, asked, server, pending,
                     io, holder, th, ops, late, carried>>
  BY DEF DataReady, IoHandles, IInv, TypeOK, Reading, socketVars, nodeVars
<1>b. m \in Message /\ In(wire, m) /\ wire' \in Seq(Message)
  BY <1>a, InHead
<1>c. \A x \in Message : In(wire', x) => In(wire, x)
  BY <1>a, InTail
<1>d. \A k \in Thread : /\ OnlyOne(wire', k)
                        /\ m.kind = k => \A x \in Message : In(wire', x) => x.kind # k
  <2> TAKE k \in Thread
  <2>1. OnlyOne(wire, k)
    BY DEF IInv, Replies
  <2> QED BY <1>a, <2>1, OnlyOneTail
<1>e. \/ m.kind \in Thread /\ reply' = [reply EXCEPT ![m.kind] = m]
         /\ package_queue' = package_queue
      \/ m.kind \notin Thread /\ reply' = reply /\ package_queue' = Append(package_queue, m)
  BY DEF DataReady
<1>f. m.kind \in {"app", "worker", "child", "set", "none"}
  BY <1>b DEF Message
<1>g. package_queue' \in Seq(Message)
  <2>1. package_queue \in Seq(Message)
    BY DEF IInv, TypeOK
  <2>2. Append(package_queue, m) \in Seq(Message)
    BY <1>b, <2>1
  <2> QED BY <1>e, <2>1, <2>2
<1>h. \A x \in Message : In(package_queue', x) =>
        In(package_queue, x) \/ (x = m /\ m.kind \notin Thread)
  <2> TAKE x \in Message
  <2>1. package_queue \in Seq(Message)
    BY DEF IInv, TypeOK
  <2>2. In(Append(package_queue, m), x) <=> In(package_queue, x) \/ x = m
    BY <1>b, <2>1, InAppend
  <2> QED BY <1>e, <2>2
<1>1. TypeOK'
  <2>1. reply' \in [Thread -> Message]
    BY <1>b, <1>e DEF IInv, TypeOK
  <2> QED BY <1>a, <1>b, <1>g, <2>1 DEF IInv, TypeOK, IsTracked
<1>2. Work'
  BY DEF IInv, Work, Locked, DataReady
<1>3. Socket'
  BY DEF IInv, Socket, Down, Reading, DataReady, socketVars
<1>4. Locks'
  BY DEF IInv, Locked, Locks, Up, Reading, DataReady, socketVars
<1>5. Replies'
  <2>1. m.kind \in Thread => th[m.kind].what # "root"
    BY <1>a, <1>b DEF IInv, Replies, Locks, Locked
  <2>2. \A k \in Thread : reply'[k] # NoReply =>
          \/ reply[k] # NoReply /\ reply'[k] = reply[k]
          \/ m.kind = k /\ reply'[k] = m
    <3>1. reply \in [Thread -> Message]
      BY DEF IInv, TypeOK
    <3>2. CASE m.kind \in Thread /\ reply' = [reply EXCEPT ![m.kind] = m]
      BY <3>1, <3>2
    <3>3. CASE reply' = reply
      BY <3>3
    <3> QED BY <1>e, <3>2, <3>3
  <2>3. (\A k \in Thread : reply[k] # NoReply =>
          /\ th[k].pc = "wait" /\ th[k].what # "root" /\ Up
          /\ reply[k].nid \in 1 .. MaxNid /\ reply[k].conn = conn)'
    BY <1>a, <1>b, <2>1, <2>2 DEF IInv, Replies, Up, Reading, Nid
  <2>4. (\A k \in asked : /\ th[k].pc = "wait" /\ reply[k] = NoReply
                         /\ \A x \in Message : In(wire, x) => x.kind # k)'
    BY <1>a, <1>b, <1>c, <2>2 DEF IInv, TypeOK, Replies
  <2>5. (\A x \in Message : In(wire, x) =>
          /\ x.kind # "none" /\ x.conn = conn /\ x.nid \in Nid
          /\ x.kind # "set" => x.nid # 0
          /\ x.kind \in Thread => th[x.kind].pc = "wait" /\ reply[x.kind] = NoReply)'
    BY <1>a, <1>b, <1>c, <1>d, <2>2 DEF IInv, Replies
  <2>6. (\A x \in Message : In(package_queue, x) =>
          /\ x.kind \in {"child", "set"} /\ x.nid \in Nid /\ x.conn <= conn
          /\ x.kind = "child" => x.nid # 0)'
    BY <1>a, <1>b, <1>f, <1>h DEF IInv, TypeOK, Replies, Conn
  <2> QED BY <1>d, <2>3, <2>4, <2>5, <2>6 DEF Replies
<1>6. RootTracked'
  BY DEF IInv, RootTracked, Up, Reading, DataReady, socketVars, nodeVars
<1>7. Current'
  BY <1>a, <1>b, <1>c, <1>f, <1>h DEF IInv, Replies, Current, Up, Reading
<1>8. Announced'
  BY <1>a, <1>b, <1>c, <1>f, <1>h DEF IInv, Announced, Settable, Up, Reading
<1> QED BY <1>1, <1>2, <1>3, <1>4, <1>5, <1>6, <1>7, <1>8 DEF IInv

(* The receive fails, is_connected is cleared, and the cleanup is next.    *)
LEMMA DataReadyErrorKeeps ==
  ASSUME IInv, DataReadyError
  PROVE  IInv'
<1>1. TypeOK'
  BY DEF IInv, TypeOK, Work, Locked, Socket, Locks, Replies, RootTracked,
     Current, Announced, Settable, Up, Down, Reading, Idle, Nid, Conn,
     ThreadState, DataReadyError, IoHandles, IoGoto, IsTracked, socketVars,
     nodeVars, serverVars
<1>2. Work'
  BY DEF IInv, Locked, Replies, RootTracked, Up, Reading, Nid, DataReadyError,
     IoHandles, IoGoto
<1>3. Socket'
  BY DEF IInv, RootTracked, Current, Up, Reading, DataReadyError, IoHandles,
     IoGoto, nodeVars, serverVars
<1>4. Locks'
  BY DEF IInv, RootTracked, Announced, Up, Reading, DataReadyError, IoHandles
<1>5. Replies'
  BY DEF IInv, RootTracked, Current, Up, Reading, DataReadyError, IoHandles,
     IoGoto, nodeVars, serverVars
<1>6. RootTracked'
  BY DEF IInv, RootTracked, Up, Reading, DataReadyError, IoHandles
<1>7. Current'
  BY DEF IInv, Current, Up, DataReadyError, IoHandles, IoGoto, nodeVars
<1>8. Announced'
  BY DEF IInv, Announced, Settable, Up, Reading, DataReadyError, IoHandles,
     IoGoto, nodeVars, serverVars
<1> QED BY <1>1, <1>2, <1>3, <1>4, <1>5, <1>6, <1>7, <1>8 DEF IInv

(* cleanup_children gets tracked_mutex: no request is under way.           *)
LEMMA CleanupBeginsKeeps ==
  ASSUME IInv, CleanupBegins
  PROVE  IInv'
<1>1. TypeOK'
  BY DEF IInv, TypeOK, Work, Locked, Socket, Locks, Replies, RootTracked,
     Current, Announced, Settable, Up, Down, Reading, Idle, Nid, Conn,
     ThreadState, CleanupBegins, Free, IoGoto, At, Announcing, IsTracked,
     socketVars, nodeVars, serverVars
<1>2. Work'
  BY DEF IInv, Locked, Socket, Locks, Replies, RootTracked, Current, Up, Nid,
     CleanupBegins, IoGoto, nodeVars, serverVars
<1>3. Socket'
  BY DEF IInv, RootTracked, Current, Announced, Up, CleanupBegins, Free,
     socketVars, serverVars
<1>4. Locks'
  BY DEF IInv, Work, Locked, Locks, CleanupBegins, Free
<1>5. Replies'
  BY DEF IInv, Locked, Locks, Replies, RootTracked, Current, Announced,
     Settable, Up, Reading, Nid, CleanupBegins, Free, IoGoto, Announcing,
     socketVars, nodeVars
<1>6. RootTracked'
  BY DEF IInv, RootTracked, Up, CleanupBegins, nodeVars, serverVars
<1>7. Current'
  BY DEF IInv, Current, Up, CleanupBegins, IoGoto, At, socketVars, nodeVars
<1>8. Announced'
  BY DEF IInv, Work, RootTracked, Current, Up, Nid, CleanupBegins, IoGoto,
     serverVars
<1> QED BY <1>1, <1>2, <1>3, <1>4, <1>5, <1>6, <1>7, <1>8 DEF IInv

(* The cleanup erases an entry for the root or a node of this process.     *)
LEMMA CleanupNodeKeeps ==
  ASSUME IInv, CleanupNode
  PROVE  IInv'
<1>1. TypeOK'
  <2>1. /\ DOMAIN tracked' \subseteq Nid /\ tracked' \in [DOMAIN tracked' -> NodeOf]
        /\ IsTracked(Null)' => IsTracked(Null)
    BY EraseType DEF IInv, CleanupNode
  <2> QED BY <2>1 DEF IInv, TypeOK, CleanupNode, socketVars, serverVars
<1>2. Work'
  BY DEF IInv, Work, Locked, CleanupNode
<1>3. Socket'
  BY DEF IInv, Socket, Down, Reading, CleanupNode, socketVars, serverVars
<1>4. Locks'
  BY DEF IInv, Locked, Locks, Up, Reading, CleanupNode, socketVars
<1>5. Replies'
  BY DEF IInv, Replies, Up, Reading, CleanupNode, socketVars, serverVars
<1>6. RootTracked'
  BY DEF IInv, TypeOK, Work, Locked, Socket, Locks, Replies, RootTracked,
     Current, Announced, Settable, Up, Down, Reading, Idle, Nid, Conn,
     ThreadState, CleanupNode, IsFirst, Erase, socketVars, nodeVars,
     serverVars
<1>7. Current'
  BY DEF IInv, Current, Up, Reading, CleanupNode, Erase, socketVars
<1>8. Announced'
  BY DEF IInv, TypeOK, Announced, Settable, Up, Reading, CleanupNode,
     serverVars
<1> QED BY <1>1, <1>2, <1>3, <1>4, <1>5, <1>6, <1>7, <1>8 DEF IInv

(* The cleanup unlocks to delete a proxy, whose entry is still there.      *)
LEMMA CleanupProxyKeeps ==
  ASSUME IInv, CleanupProxy
  PROVE  IInv'
<1>1. TypeOK'
  BY DEF IInv, TypeOK, IsTracked, CleanupProxy, socketVars, nodeVars,
     serverVars
<1>2. Work'
  BY DEF IInv, Work, Locked, CleanupProxy
<1>3. Socket'
  BY DEF IInv, Socket, Down, Reading, CleanupProxy, socketVars, serverVars
<1>4. Locks'
  BY DEF IInv, Locked, Locks, Up, Reading, CleanupProxy, socketVars
<1>5. Replies'
  BY DEF IInv, Replies, Up, Reading, CleanupProxy, socketVars, serverVars
<1>6. RootTracked'
  BY DEF IInv, RootTracked, Up, Reading, CleanupProxy, socketVars, nodeVars
<1>7. Current'
  BY DEF IInv, Current, Up, Reading, CleanupProxy, socketVars, nodeVars
<1>8. Announced'
  BY DEF IInv, Announced, Settable, Up, Reading, CleanupProxy, nodeVars,
     serverVars
<1> QED BY <1>1, <1>2, <1>3, <1>4, <1>5, <1>6, <1>7, <1>8 DEF IInv

(* The cleanup meets a null entry, which only carried work leaves behind.  *)
LEMMA CleanupNullKeeps ==
  ASSUME IInv, CleanupNull
  PROVE  IInv'
<1>1. TypeOK'
  BY DEF IInv, TypeOK, Work, Locked, Socket, Locks, Replies, RootTracked,
     Current, Announced, Settable, Up, Down, Reading, Idle, Nid, Conn,
     ThreadState, CleanupNull, IsFirst, IoGoto, IsTracked, socketVars,
     nodeVars, serverVars
<1>2. Work'
  BY DEF IInv, Work, Locked, CleanupNull, IoGoto
<1>3. Socket'
  BY DEF IInv, Socket, Down, Reading, CleanupNull, socketVars, serverVars
<1>4. Locks'
  BY DEF IInv, Locked, Locks, Up, Reading, CleanupNull, socketVars
<1>5. Replies'
  BY DEF IInv, Replies, Up, Reading, CleanupNull, socketVars, serverVars
<1>6. RootTracked'
  BY DEF IInv, RootTracked, Up, Reading, CleanupNull, IoGoto, socketVars,
     nodeVars
<1>7. Current'
  BY DEF IInv, Current, Up, Reading, CleanupNull, IoGoto, socketVars, nodeVars
<1>8. Announced'
  BY DEF IInv, Announced, Settable, Up, Reading, CleanupNull, IoGoto,
     nodeVars, serverVars
<1> QED BY <1>1, <1>2, <1>3, <1>4, <1>5, <1>6, <1>7, <1>8 DEF IInv

(* The deleted proxy erases itself from tracked, under the mutex.          *)
LEMMA RemoveClientNodeKeeps ==
  ASSUME IInv, RemoveClientNode
  PROVE  IInv'
<1>1. TypeOK'
  <2>1. /\ DOMAIN tracked' \subseteq Nid /\ tracked' \in [DOMAIN tracked' -> NodeOf]
        /\ IsTracked(Null)' => IsTracked(Null)
    BY EraseType DEF IInv, RemoveClientNode
  <2> QED BY <2>1 DEF IInv, TypeOK, RemoveClientNode, socketVars, serverVars
<1>2. Work'
  BY DEF IInv, Work, Locked, RemoveClientNode
<1>3. Socket'
  BY DEF IInv, Socket, Down, Reading, RemoveClientNode, socketVars, serverVars
<1>4. Locks'
  BY DEF IInv, Locked, Locks, Up, Reading, RemoveClientNode, socketVars
<1>5. Replies'
  BY DEF IInv, Replies, Up, Reading, RemoveClientNode, socketVars, serverVars
<1>6. RootTracked'
  BY DEF IInv, TypeOK, RootTracked, Up, Reading, RemoveClientNode
<1>7. Current'
  BY DEF IInv, Current, Up, Reading, RemoveClientNode, Erase, socketVars
<1>8. Announced'
  BY DEF IInv, TypeOK, Announced, Settable, Up, Reading, RemoveClientNode,
     serverVars
<1> QED BY <1>1, <1>2, <1>3, <1>4, <1>5, <1>6, <1>7, <1>8 DEF IInv

(* The cleanup takes the mutex again after a deletion.                     *)
LEMMA CleanupRelocksKeeps ==
  ASSUME IInv, CleanupRelocks
  PROVE  IInv'
<1>1. TypeOK'
  BY DEF IInv, TypeOK, Work, Locked, Socket, Locks, Replies, RootTracked,
     Current, Announced, Settable, Up, Down, Reading, Idle, Nid, Conn,
     ThreadState, CleanupRelocks, Free, IoGoto, IsTracked, socketVars,
     nodeVars, serverVars
<1>2. Work'
  BY DEF IInv, Work, Locked, CleanupRelocks, Free, IoGoto
<1>3. Socket'
  BY DEF IInv, Socket, Down, Reading, CleanupRelocks, socketVars, serverVars
<1>4. Locks'
  BY DEF IInv, Locked, Locks, Up, Reading, CleanupRelocks, socketVars
<1>5. Replies'
  BY DEF IInv, Replies, Up, Reading, CleanupRelocks, socketVars, serverVars
<1>6. RootTracked'
  BY DEF IInv, RootTracked, Up, Reading, CleanupRelocks, IoGoto, socketVars,
     nodeVars
<1>7. Current'
  BY DEF IInv, Current, Up, Reading, CleanupRelocks, IoGoto, socketVars,
     nodeVars
<1>8. Announced'
  BY DEF IInv, Announced, Settable, Up, Reading, CleanupRelocks, IoGoto,
     nodeVars, serverVars
<1> QED BY <1>1, <1>2, <1>3, <1>4, <1>5, <1>6, <1>7, <1>8 DEF IInv

(* The end of the cleanup: nothing is tracked, and the timer is started.   *)
LEMMA CleanupEndsKeeps ==
  ASSUME IInv, CleanupEnds
  PROVE  IInv'
<1>1. TypeOK'
  BY DEF IInv, TypeOK, Work, Locked, Socket, Locks, Replies, RootTracked,
     Current, Announced, Settable, Up, Down, Reading, Idle, Nid, Conn,
     ThreadState, CleanupEnds, IoGoto, IsTracked, socketVars, nodeVars,
     serverVars
<1>2. Work'
  BY DEF IInv, Work, Locked, CleanupEnds, IoGoto
<1>3. Socket'
  BY DEF IInv, Socket, RootTracked, Up, Down, CleanupEnds, socketVars,
     serverVars
<1>4. Locks'
  BY DEF IInv, Locked, Locks, RootTracked, CleanupEnds, socketVars
<1>5. Replies'
  BY DEF IInv, Replies, RootTracked, CleanupEnds, socketVars, serverVars
<1>6. RootTracked'
  BY DEF IInv, RootTracked, Up, Reading, CleanupEnds, IoGoto
<1>7. Current'
  BY DEF IInv, RootTracked, Current, Up, CleanupEnds, socketVars, nodeVars
<1>8. Announced'
  BY DEF IInv, Announced, Settable, Up, Reading, CleanupEnds, IoGoto,
     serverVars
<1> QED BY <1>1, <1>2, <1>3, <1>4, <1>5, <1>6, <1>7, <1>8 DEF IInv

(* get_nid finds the root, and the thread goes on.                         *)
LEMMA GetNidFoundKeeps ==
  ASSUME IInv, NEW t \in Thread, GetNidFound(t)
  PROVE  IInv'
<1>1. TypeOK'
  <2>1. th' \in [Thread -> ThreadState]
    BY Zero, AfterType DEF IInv, TypeOK, GetNidFound, Become
  <2> QED BY <2>1 DEF IInv, TypeOK, IsTracked, GetNidFound, socketVars,
     nodeVars, serverVars
<1>2. Work'
  BY DEF IInv, Work, Locked, Idle, GetNidFound, At, Become, After
<1>3. Socket'
  BY DEF IInv, TypeOK, Socket, Down, Reading, Idle, Conn, GetNidFound, Become,
     After, socketVars, serverVars
<1>4. Locks'
  BY DEF IInv, Locked, Locks, Up, Reading, Idle, GetNidFound, Become, After,
     socketVars
<1>5. Replies'
  BY DEF IInv, Replies, Up, Reading, GetNidFound, At, Become, socketVars,
     serverVars
<1>6. RootTracked'
  BY DEF IInv, RootTracked, Up, Reading, GetNidFound, socketVars, nodeVars
<1>7. Current'
  BY DEF IInv, Current, Up, Reading, Idle, GetNidFound, Become, After,
     socketVars, nodeVars
<1>8. Announced'
  BY DEF IInv, Announced, Settable, Up, Reading, GetNidFound, Become, After,
     nodeVars, serverVars
<1> QED BY <1>1, <1>2, <1>3, <1>4, <1>5, <1>6, <1>7, <1>8 DEF IInv

(* generate_nid and fetch_node take tracked_mutex and keep it over send.   *)
LEMMA RequestLockedKeeps ==
  ASSUME IInv, NEW t \in Thread, RequestLocked(t)
  PROVE  IInv'
<1>1. TypeOK'
  <2>1. th' \in [Thread -> ThreadState]
    BY GotoType DEF IInv, TypeOK, RequestLocked, At, Free, Goto, IsTracked
  <2> QED BY <2>1 DEF IInv, TypeOK, IsTracked, RequestLocked, socketVars,
     nodeVars, serverVars
<1>2. Work'
  BY DEF IInv, TypeOK, Work, Locked, RequestLocked, At, Free, Goto
<1>3. Socket'
  BY DEF IInv, Socket, Down, Reading, RequestLocked, Goto, socketVars,
     serverVars
<1>4. Locks'
  BY DEF IInv, Locked, Socket, Locks, RootTracked, Up, Down, RequestLocked,
     At, Goto, IsTracked, socketVars, nodeVars
<1>5. Replies'
  BY DEF IInv, Replies, Up, Reading, RequestLocked, At, Goto, socketVars,
     serverVars
<1>6. RootTracked'
  BY DEF IInv, RootTracked, Up, Reading, RequestLocked, socketVars, nodeVars
<1>7. Current'
  BY DEF IInv, Current, Up, Reading, RequestLocked, At, Goto, socketVars,
     nodeVars
<1>8. Announced'
  BY DEF IInv, Announced, Settable, Up, Reading, RequestLocked, Goto,
     nodeVars, serverVars
<1> QED BY <1>1, <1>2, <1>3, <1>4, <1>5, <1>6, <1>7, <1>8 DEF IInv

(* write looks at is_connected: a request that sees it set holds cleanup   *)
(* and stream_opened off.                                                  *)
LEMMA WriteChecksKeeps ==
  ASSUME IInv, NEW t \in Thread, WriteChecks(t)
  PROVE  IInv'
<1>1. TypeOK'
  <2>1. th' \in [Thread -> ThreadState]
    BY GotoType, FailsType DEF IInv, TypeOK, WriteChecks, At, Become
  <2> QED BY <2>1 DEF IInv, TypeOK, IsTracked, WriteChecks, socketVars,
     nodeVars, serverVars
<1>2. Work'
  BY DEF IInv, Work, Locked, Idle, Nid, WriteChecks, At, Become, Fails, After
<1>3. Socket'
  BY DEF IInv, TypeOK, Socket, Down, Reading, Idle, Conn, WriteChecks, Become,
     Fails, After, socketVars, serverVars
<1>4. Locks'
  BY DEF IInv, Locked, Socket, Locks, Up, Down, Reading, Idle, WriteChecks,
     At, Become, Fails, After, socketVars
<1>5. Replies'
  BY DEF IInv, Replies, Up, Reading, WriteChecks, At, Become, socketVars,
     serverVars
<1>6. RootTracked'
  BY DEF IInv, RootTracked, Up, Reading, WriteChecks, socketVars, nodeVars
<1>7. Current'
  BY DEF IInv, Current, Up, Reading, Idle, WriteChecks, At, Become, Fails,
     After, socketVars, nodeVars
<1>8. Announced'
  BY DEF IInv, Announced, Settable, Up, Reading, Idle, WriteChecks, Become,
     Fails, After, nodeVars, serverVars
<1> QED BY <1>1, <1>2, <1>3, <1>4, <1>5, <1>6, <1>7, <1>8 DEF IInv

(* The write goes through on a socket that works; the server now owes a    *)
(* request its reply.                                                      *)
LEMMA WriteSomeKeeps ==
  ASSUME IInv, NEW t \in Thread, WriteSome(t)
  PROVE  IInv'
<1>1. TypeOK'
  <2>1. th' \in [Thread -> ThreadState]
    BY WrittenType DEF IInv, TypeOK, WriteSome, Become
  <2>2. server' \in [nids : Nid, subscribed : BOOLEAN, sets : SUBSET Nid]
    BY DEF IInv, TypeOK, WriteSome, Work
  <2> QED BY <2>1, <2>2 DEF IInv, TypeOK, IsTracked, WriteSome, socketVars,
     nodeVars
<1>2. Work'
  BY DEF IInv, Work, Locked, Idle, WriteSome, At, Become, Written, After
<1>3. Socket'
  BY DEF IInv, TypeOK, Socket, Down, Reading, Idle, Conn, WriteSome, Become,
     Written, After, socketVars
<1>4. Locks'
  BY DEF IInv, Locked, Locks, Up, Reading, Idle, WriteSome, At, Become,
     Written, After, socketVars
<1>5. Replies'
  BY DEF IInv, TypeOK, Work, Locked, Socket, Replies, RootTracked, Up,
     Reading, WriteSome, At, Become, Written, socketVars
<1>6. RootTracked'
  BY DEF IInv, RootTracked, Up, Reading, WriteSome, socketVars, nodeVars
<1>7. Current'
  BY DEF IInv, Current, Up, Reading, Idle, WriteSome, At, Become, Written,
     After, socketVars, nodeVars
<1>8. Announced'
  BY DEF IInv, Work, Announced, Settable, Up, Reading, Idle, WriteSome,
     Become, Written, After, nodeVars
<1> QED BY <1>1, <1>2, <1>3, <1>4, <1>5, <1>6, <1>7, <1>8 DEF IInv

(* A dead socket takes the bytes; a request waits for a reply that will    *)
(* not come, with the lock held.                                           *)
LEMMA WriteLostKeeps ==
  ASSUME IInv, NEW t \in Thread, WriteLost(t)
  PROVE  IInv'
<1>1. TypeOK'
  <2>1. th' \in [Thread -> ThreadState]
    BY WrittenType DEF IInv, TypeOK, WriteLost, Become
  <2> QED BY <2>1 DEF IInv, TypeOK, IsTracked, WriteLost, socketVars,
     nodeVars, serverVars
<1>2. Work'
  BY DEF IInv, Work, Locked, Idle, WriteLost, At, Become, Written, After
<1>3. Socket'
  BY DEF IInv, TypeOK, Socket, Down, Reading, Idle, Conn, WriteLost, Become,
     Written, After, socketVars, serverVars
<1>4. Locks'
  BY DEF IInv, Locked, Locks, Up, Reading, Idle, WriteLost, At, Become,
     Written, After, socketVars
<1>5. Replies'
  BY DEF IInv, Replies, Up, Reading, WriteLost, At, Become, socketVars,
     serverVars
<1>6. RootTracked'
  BY DEF IInv, RootTracked, Up, Reading, WriteLost, socketVars, nodeVars
<1>7. Current'
  BY DEF IInv, Current, Up, Reading, Idle, WriteLost, At, Become, Written,
     After, socketVars, nodeVars
<1>8. Announced'
  BY DEF IInv, Announced, Settable, Up, Reading, Idle, WriteLost, Become,
     Written, After, nodeVars, serverVars
<1> QED BY <1>1, <1>2, <1>3, <1>4, <1>5, <1>6, <1>7, <1>8 DEF IInv

(* The write fails, and the thread is about to record that.                *)
LEMMA WriteErrorKeeps ==
  ASSUME IInv, NEW t \in Thread, WriteError(t)
  PROVE  IInv'
<1>1. TypeOK'
  <2>1. th' \in [Thread -> ThreadState]
    BY GotoType DEF IInv, TypeOK, WriteError, At, Become
  <2> QED BY <2>1 DEF IInv, TypeOK, IsTracked, WriteError, socketVars,
     nodeVars, serverVars
<1>2. Work'
  BY DEF IInv, Work, Locked, WriteError, At, Become
<1>3. Socket'
  BY DEF IInv, TypeOK, Socket, Down, Reading, Conn, WriteError, Become,
     socketVars, serverVars
<1>4. Locks'
  BY DEF IInv, Locked, Locks, Up, Reading, WriteError, At, Become, socketVars
<1>5. Replies'
  BY DEF IInv, Replies, Up, Reading, WriteError, At, Become, socketVars,
     serverVars
<1>6. RootTracked'
  BY DEF IInv, RootTracked, Up, Reading, WriteError, socketVars, nodeVars
<1>7. Current'
  BY DEF IInv, Current, Up, Reading, WriteError, At, Become, socketVars,
     nodeVars
<1>8. Announced'
  BY DEF IInv, Announced, Settable, Up, Reading, WriteError, Become, nodeVars,
     serverVars
<1> QED BY <1>1, <1>2, <1>3, <1>4, <1>5, <1>6, <1>7, <1>8 DEF IInv

(* The error is recorded: it is late if set_socket came in between.        *)
LEMMA WriteEndsKeeps ==
  ASSUME IInv, NEW t \in Thread, WriteEnds(t)
  PROVE  IInv'
<1>1. TypeOK'
  <2>1. th' \in [Thread -> ThreadState]
    BY FailsType DEF IInv, TypeOK, WriteEnds, Become
  <2> QED BY <2>1 DEF IInv, TypeOK, IsTracked, WriteEnds, socketVars,
     nodeVars, serverVars
<1>2. Work'
  BY DEF IInv, Work, Locked, Idle, Nid, WriteEnds, At, Become, Fails, After
<1>3. Socket'
  BY DEF IInv, TypeOK, Socket, Down, Reading, Idle, Conn, WriteEnds, At,
     Become, Fails, After, serverVars
<1>4. Locks'
  BY DEF IInv, Locked, Locks, Up, Reading, Idle, WriteEnds, Become, Fails,
     After
<1>5. Replies'
  BY DEF IInv, Replies, Up, Reading, WriteEnds, At, Become, serverVars
<1>6. RootTracked'
  BY DEF IInv, RootTracked, Up, Reading, WriteEnds, nodeVars
<1>7. Current'
  BY DEF IInv, Current, Up, Reading, Idle, WriteEnds, At, Become, Fails,
     After, nodeVars
<1>8. Announced'
  BY DEF IInv, Announced, Settable, Up, Reading, Idle, WriteEnds, Become,
     Fails, After, nodeVars, serverVars
<1> QED BY <1>1, <1>2, <1>3, <1>4, <1>5, <1>6, <1>7, <1>8 DEF IInv

(* send returns with the reply of this connection.                         *)
LEMMA SendReturnsKeeps ==
  ASSUME IInv, NEW t \in Thread, SendReturns(t)
  PROVE  IInv'
<1>1. TypeOK'
  <2>1. /\ NoReply \in Message /\ reply[t].nid \in Nid \cup {NoNid}
        /\ reply[t].conn \in Conn /\ th[t] \in ThreadState
    BY Zero DEF IInv, TypeOK, Message
  <2>2. [th[t] EXCEPT !.pc = "track", !.nid = reply[t].nid, !.conn = reply[t].conn]
          \in ThreadState
    BY <2>1, GotoType
  <2>3. th' \in [Thread -> ThreadState]
    BY <2>2 DEF IInv, TypeOK, SendReturns, Become
  <2> QED BY <2>1, <2>3 DEF IInv, TypeOK, IsTracked, SendReturns, socketVars,
     nodeVars, serverVars
<1>2. Work'
  BY DEF IInv, Work, Locked, Replies, Nid, SendReturns, Become
<1>3. Socket'
  BY DEF IInv, TypeOK, Locked, Socket, Locks, Replies, Down, Reading, Conn,
     SendReturns, Become, socketVars, serverVars
<1>4. Locks'
  BY DEF IInv, Locked, Locks, Replies, Up, Reading, SendReturns, Become,
     socketVars
<1>5. Replies'
  BY DEF IInv, TypeOK, Replies, Up, Reading, SendReturns, Become, socketVars,
     serverVars
<1>6. RootTracked'
  BY DEF IInv, RootTracked, Up, Reading, SendReturns, socketVars, nodeVars
<1>7. Current'
  BY DEF IInv, Current, Up, Reading, SendReturns, At, Become, socketVars,
     nodeVars
<1>8. Announced'
  BY DEF IInv, Locked, Socket, Locks, Replies, RootTracked, Up, Down, Reading,
     SendReturns, At, socketVars, serverVars
<1> QED BY <1>1, <1>2, <1>3, <1>4, <1>5, <1>6, <1>7, <1>8 DEF IInv

(* do_track and track enter the nid under the lock kept since the request, *)
(* so on the connection it was given on.                                   *)
LEMMA DoTrackKeeps ==
  ASSUME IInv, NEW t \in Thread, DoTrack(t)
  PROVE  IInv'
<1>1. TypeOK'
  <2>1. /\ th[t].nid \in Nid /\ th[t].conn \in Conn /\ th[t].what \in Request
    BY DEF IInv, TypeOK, Work, ThreadState, DoTrack, At
  <2>2. PICK n \in NodeOf : n # Null /\ tracked' = Track(th[t].nid, n)
    BY <2>1, NodeType DEF DoTrack
  <2>3. /\ DOMAIN tracked' \subseteq Nid /\ tracked' \in [DOMAIN tracked' -> NodeOf]
        /\ IsTracked(Null)' => IsTracked(Null)
    BY <2>1, <2>2, TrackType DEF IInv
  <2>4. th' \in [Thread -> ThreadState]
    BY <2>1, AfterType DEF IInv, TypeOK, DoTrack, Become
  <2> QED BY <2>3, <2>4 DEF IInv, TypeOK, DoTrack, socketVars, nodeVars,
     serverVars
<1>2. Work'
  BY DEF IInv, TypeOK, Work, Locked, Idle, DoTrack, At, Become, After
<1>3. Socket'
  BY DEF IInv, TypeOK, Socket, Down, Reading, Idle, Conn, DoTrack, Become,
     After, socketVars, serverVars
<1>4. Locks'
  BY DEF IInv, Locked, Locks, Up, Reading, Idle, DoTrack, Become, After,
     socketVars
<1>5. Replies'
  BY DEF IInv, Replies, Up, Reading, DoTrack, At, Become, socketVars,
     serverVars
<1>6. RootTracked'
  BY DEF IInv, Work, Locked, Socket, Replies, RootTracked, Current, Announced,
     Settable, Up, Down, Reading, Idle, DoTrack, After
<1>7. Current'
  BY DEF IInv, TypeOK, Work, Locked, Socket, Locks, Current, Up, Reading,
     Idle, DoTrack, At, Track, Become, After, socketVars
<1>8. Announced'
  BY DEF IInv, Locked, Locks, Announced, Settable, Up, Reading, Idle, DoTrack,
     At, Track, Become, After, serverVars
<1> QED BY <1>1, <1>2, <1>3, <1>4, <1>5, <1>6, <1>7, <1>8 DEF IInv

(* The application fetches a child, attaches a node or sets a property.    *)
LEMMA AppBeginsKeeps ==
  ASSUME IInv, NEW what \in {"fetch", "root", "note"},
         NEW pc \in {"get_nid", "check"}, pc = "check" <=> what = "note", AppBegins(what, pc)
  PROVE  IInv'
<1>a. /\ th["app"].pc = "idle" /\ th'["worker"] = th["worker"]
      /\ th'["app"].pc = pc /\ th'["app"].what = what /\ th'["app"].conn = 0
      /\ UNCHANGED <<io, holder>>
  BY DEF AppBegins, At, Become, IInv, TypeOK, Idle
<1>1. TypeOK'
  <2>1. [Idle EXCEPT !.pc = pc, !.what = what] \in ThreadState
    BY Zero DEF ThreadState, Idle
  <2>2. th' \in [Thread -> ThreadState]
    BY <2>1 DEF IInv, TypeOK, AppBegins, Become
  <2> QED BY <2>2 DEF IInv, TypeOK, IsTracked, AppBegins, socketVars,
     nodeVars, serverVars
<1>2. Work'
  BY <1>a DEF IInv, Work, Locked
<1>3. Socket'
  BY DEF IInv, TypeOK, Work, Socket, Down, Reading, Idle, Conn, AppBegins,
     Become, socketVars, serverVars
<1>4. Locks'
  BY DEF IInv, Locked, Locks, Up, Reading, AppBegins, Become, socketVars
<1>5. Replies'
  BY DEF IInv, Replies, Up, Reading, AppBegins, At, Become, socketVars,
     serverVars
<1>6. RootTracked'
  BY DEF IInv, RootTracked, Up, Reading, AppBegins, socketVars, nodeVars
<1>7. Current'
  BY DEF IInv, Current, Up, Reading, AppBegins, Become, socketVars, nodeVars
<1>8. Announced'
  BY DEF IInv, Announced, Settable, Up, Reading, AppBegins, Become, nodeVars,
     serverVars
<1> QED BY <1>1, <1>2, <1>3, <1>4, <1>5, <1>6, <1>7, <1>8 DEF IInv

(* The worker takes an announcement from the queue; it is of this          *)
(* connection unless carried.                                              *)
LEMMA CmdChildAddedKeeps ==
  ASSUME IInv, CmdChildAdded
  PROVE  IInv'
<1> DEFINE m == Head(package_queue)
<1>a. /\ package_queue \in Seq(Message) /\ package_queue # <<>>
      /\ package_queue' = Tail(package_queue) /\ m.kind = "child" /\ th["worker"].pc = "idle"
      /\ holder \in {Nobody, "worker"}
      /\ UNCHANGED <<conn, dead, is_connected, tracked, listens, wire, asked, server,
                    pending, io, holder, reply, ops, late, carried>>
  BY DEF CmdChildAdded, Pop, At, Free, IInv, TypeOK, socketVars, nodeVars,
     serverVars
<1>b. m \in Message /\ In(package_queue, m) /\ package_queue' \in Seq(Message)
  BY <1>a, InHead
<1>c. m.nid \in 1 .. MaxNid /\ m.conn \in Conn /\ (~carried => m.conn = conn)
  BY <1>a, <1>b DEF IInv, Replies, Current, Message, Nid
<1>d. \A x \in Message : In(package_queue', x) => In(package_queue, x)
  BY <1>a, InTail
<1>e. \/ th' = th
      \/ th' = [th EXCEPT !["worker"] = [pc |-> "find", what |-> "sub", nid |-> m.nid,
                                         conn |-> m.conn]]
  BY DEF CmdChildAdded, Become
<1>f. /\ th'["app"] = th["app"]
      /\ \/ th'["worker"] = th["worker"]
         \/ /\ th'["worker"].pc = "find" /\ th'["worker"].what = "sub"
            /\ th'["worker"].nid = m.nid /\ th'["worker"].conn = m.conn
  BY <1>e DEF IInv, TypeOK
<1>1. TypeOK'
  <2>1. [pc |-> "find", what |-> "sub", nid |-> m.nid, conn |-> m.conn] \in ThreadState
    BY <1>b DEF ThreadState, Message
  <2>2. th' \in [Thread -> ThreadState]
    BY <1>e, <2>1 DEF IInv, TypeOK
  <2> QED BY <1>a, <1>b, <2>2 DEF IInv, TypeOK, IsTracked
<1>2. Work'
  BY <1>a, <1>c, <1>f DEF IInv, Work, Locked
<1>3. Socket'
  <2>1. m.conn <= conn
    BY <1>b DEF IInv, Replies
  <2> QED BY <1>a, <2>1, <1>f DEF IInv, Socket, Down, Reading
<1>4. Locks'
  BY <1>a, <1>b, <1>c, <1>d, <1>e DEF IInv, TypeOK, Work, Locked, Locks,
     RootTracked
<1>5. Replies'
  BY <1>a, <1>b, <1>c, <1>d, <1>e DEF IInv, TypeOK, Work, Locked, Socket,
     Locks, Replies, RootTracked, Current, Announced, Settable, Up, Down,
     Reading, Idle, Nid, Conn, ThreadState
<1>6. RootTracked'
  BY <1>a, <1>b, <1>c, <1>d, <1>e DEF IInv, RootTracked, Up, Reading
<1>7. Current'
  BY <1>a, <1>b, <1>c, <1>d, <1>f DEF IInv, Current, Up, Reading
<1>8. Announced'
  BY <1>a, <1>b, <1>d, <1>f DEF IInv, Announced, Settable, Up, Reading
<1> QED BY <1>1, <1>2, <1>3, <1>4, <1>5, <1>6, <1>7, <1>8 DEF IInv

(* cmd_child_added looks its nid up and, if it is known, only asks for the *)
(* nid of the root.                                                        *)
LEMMA FindChildKeeps ==
  ASSUME IInv, FindChild
  PROVE  IInv'
<1>a. /\ th["worker"].pc = "find" /\ th["worker"].what = "sub"
      /\ UNCHANGED <<conn, dead, is_connected, tracked, listens, wire, asked, server,
                    pending, io, holder, package_queue, reply, ops, late, carried>>
  BY DEF FindChild, At, IInv, Work, socketVars, nodeVars, serverVars
<1>b. \/ th' = [th EXCEPT !["worker"] = [Idle EXCEPT !.pc = "get_nid", !.what = "root"]]
      \/ th' = [th EXCEPT !["worker"].pc = "make"]
  BY <1>a DEF FindChild, Become, Goto, After
<1>c. /\ th'["app"] = th["app"]
      /\ \/ /\ th'["worker"].pc = "get_nid" /\ th'["worker"].what = "root"
            /\ th'["worker"].conn = 0
         \/ /\ th'["worker"].pc = "make" /\ th'["worker"].what = "sub"
            /\ th'["worker"].nid = th["worker"].nid
            /\ th'["worker"].conn = th["worker"].conn
  <2>1. th \in [Thread -> ThreadState] /\ th["worker"] \in ThreadState
    BY DEF IInv, TypeOK
  <2>2. CASE th' = [th EXCEPT !["worker"] = [Idle EXCEPT !.pc = "get_nid", !.what = "root"]]
    BY <2>1, <2>2 DEF Idle
  <2>3. CASE th' = [th EXCEPT !["worker"].pc = "make"]
    BY <1>a, <2>1, <2>3
  <2> QED BY <1>b, <2>2, <2>3
<1>1. TypeOK'
  <2>1. [Idle EXCEPT !.pc = "get_nid", !.what = "root"] \in ThreadState
    BY Zero DEF Idle, ThreadState
  <2>2. th["worker"] \in ThreadState /\ [th["worker"] EXCEPT !.pc = "make"] \in ThreadState
    <3>1. th["worker"] \in ThreadState
      BY DEF IInv, TypeOK
    <3> QED BY <3>1, GotoType
  <2>3. th' \in [Thread -> ThreadState]
    BY <1>b, <2>1, <2>2 DEF IInv, TypeOK
  <2> QED BY <1>a, <2>3 DEF IInv, TypeOK, IsTracked
<1>2. Work'
  BY <1>a, <1>c DEF IInv, Work, Locked
<1>3. Socket'
  BY <1>a, <1>c DEF IInv, TypeOK, Conn, Socket, Down, Reading
<1>4. Locks'
  BY <1>a, <1>c DEF IInv, Locks, Locked, Up, Reading
<1>5. Replies'
  BY <1>a, <1>c DEF IInv, TypeOK, Replies, Up, Reading
<1>6. RootTracked'
  BY <1>a, <1>b DEF IInv, RootTracked, Up, Reading
<1>7. Current'
  BY <1>a, <1>c DEF IInv, Current, Up, Reading
<1>8. Announced'
  BY <1>a, <1>c DEF IInv, Announced, Settable, Up, Reading
<1> QED BY <1>1, <1>2, <1>3, <1>4, <1>5, <1>6, <1>7, <1>8 DEF IInv

(* cmd_child_added tracks a proxy of the connection the package came on,   *)
(* and goes on to subscribe.                                               *)
LEMMA MakeChildKeeps ==
  ASSUME IInv, MakeChild
  PROVE  IInv'
<1>1. TypeOK'
  <2>a. th["worker"].nid \in Nid /\ th["worker"].conn \in Conn
    BY DEF IInv, TypeOK, Work, ThreadState, MakeChild, At
  <2>1. /\ DOMAIN tracked' \subseteq Nid /\ tracked' \in [DOMAIN tracked' -> NodeOf]
        /\ IsTracked(Null)' => IsTracked(Null)
    BY <2>a, TrackType, NodeType DEF IInv, TypeOK, MakeChild
  <2>2. th' \in [Thread -> ThreadState]
    BY GotoType DEF IInv, TypeOK, MakeChild, At, Become, Goto
  <2> QED BY <2>1, <2>2 DEF IInv, TypeOK, MakeChild, socketVars, serverVars
<1>2. Work'
  BY DEF IInv, Work, Locked, MakeChild, At, Goto
<1>3. Socket'
  BY DEF IInv, Socket, Down, Reading, MakeChild, Goto, socketVars, serverVars
<1>4. Locks'
  BY DEF IInv, Work, Locked, Locks, MakeChild, At, Free, Goto
<1>5. Replies'
  BY DEF IInv, Replies, Up, Reading, MakeChild, At, Goto, socketVars,
     serverVars
<1>6. RootTracked'
  BY DEF IInv, Locked, Socket, Replies, RootTracked, Current, Announced, Up,
     Down, Reading, MakeChild, Free
<1>7. Current'
  BY DEF IInv, TypeOK, Current, Up, Reading, MakeChild, At, Goto, Track,
     socketVars
<1>8. Announced'
  BY DEF IInv, Announced, Settable, Up, Reading, MakeChild, Goto, Track,
     serverVars
<1> QED BY <1>1, <1>2, <1>3, <1>4, <1>5, <1>6, <1>7, <1>8 DEF IInv

(* The worker takes a value from the queue. Its tracked[nid] makes no null *)
(* entry unless work is carried: the client announced the node.            *)
LEMMA CmdPropValueKeeps ==
  ASSUME IInv, CmdPropValue
  PROVE  IInv'
<1> DEFINE m == Head(package_queue)
<1>a. /\ package_queue \in Seq(Message) /\ package_queue # <<>>
      /\ package_queue' = Tail(package_queue) /\ m.kind = "set"
      /\ UNCHANGED <<conn, dead, is_connected, listens, wire, asked, server,
                    pending, io, holder, reply, th, ops, late, carried>>
  BY DEF CmdPropValue, Pop, IInv, TypeOK, socketVars, serverVars
<1>b. m \in Message /\ In(package_queue, m) /\ package_queue' \in Seq(Message) /\ m.nid \in Nid
  BY <1>a, InHead DEF IInv, Replies
<1>c. \A x \in Message : In(package_queue', x) => In(package_queue, x)
  BY <1>a, InTail
<1>d. ~carried => m.nid \in DOMAIN tracked
  BY <1>a, <1>b DEF IInv, Current, Announced, Settable, Up
<1>e. tracked' = IF m.nid \in DOMAIN tracked THEN tracked ELSE Track(m.nid, Null)
  BY DEF CmdPropValue
<1>1. TypeOK'
  <2>1. /\ DOMAIN tracked' \subseteq Nid /\ tracked' \in [DOMAIN tracked' -> NodeOf]
        /\ IsTracked(Null)' => IsTracked(Null) \/ carried
    <3>1. CASE m.nid \in DOMAIN tracked
      BY <1>e, <3>1 DEF IInv, TypeOK, IsTracked
    <3>2. CASE m.nid \notin DOMAIN tracked
      BY <1>b, <1>d, <1>e, <3>2, Zero, NodeType, TrackType DEF IInv
    <3> QED BY <3>1, <3>2
  <2> QED BY <1>a, <1>b, <2>1 DEF IInv, TypeOK
<1>2. Work'
  BY <1>a, <1>b, <1>c, <1>d, <1>e DEF IInv, Work, Locked
<1>3. Socket'
  BY <1>a, <1>b, <1>c, <1>d, <1>e DEF IInv, Socket, Down, Reading
<1>4. Locks'
  BY <1>a, <1>b, <1>c, <1>d, <1>e DEF IInv, Locked, Locks, Up, Reading
<1>5. Replies'
  BY <1>a, <1>b, <1>c, <1>d, <1>e DEF IInv, Replies, Up, Reading
<1>6. RootTracked'
  BY <1>a, <1>b, <1>c, <1>d, <1>e DEF IInv, RootTracked, Up, Reading, Track
<1>7. Current'
  BY <1>a, <1>b, <1>c, <1>d, <1>e DEF IInv, Current, Up, Reading
<1>8. Announced'
  BY <1>a, <1>b, <1>c, <1>d, <1>e DEF IInv, Announced, Settable, Up, Reading
<1> QED BY <1>1, <1>2, <1>3, <1>4, <1>5, <1>6, <1>7, <1>8 DEF IInv

(* The server gives the next nid of this connection to a request.          *)
LEMMA ServerRepliesKeeps ==
  ASSUME IInv, NEW t \in Thread, ServerReplies(t)
  PROVE  IInv'
<1> DEFINE e == Msg(t, server.nids + 1)
<1>a. /\ wire \in Seq(Message) /\ wire' = Append(wire, e) /\ ~dead
      /\ t \in asked /\ asked' = asked \ {t}
      /\ UNCHANGED <<conn, dead, is_connected, tracked, listens, pending, io, holder,
                    package_queue, reply, th, ops, late, carried>>
  BY DEF ServerReplies, GiveNid, IInv, TypeOK, socketVars, nodeVars
<1>b. /\ e \in Message /\ e.kind = t /\ e.conn = conn
      /\ e.nid \in 1 .. MaxNid
  BY DEF ServerReplies, GiveNid, Msg, IInv, TypeOK, Message, Nid
<1>c. \A x \in Message : In(wire', x) => In(wire, x) \/ x = e
  BY <1>a, <1>b, InAppend
<1>d. \A k \in Thread : OnlyOne(wire', k)
  <2> SUFFICES ASSUME NEW k \in Thread PROVE OnlyOne(wire', k)
    OBVIOUS
  <2>1. OnlyOne(wire, k)
    BY DEF IInv, Replies
  <2>2. e.kind = k => \A x \in Message : In(wire, x) => x.kind # k
    BY <1>a, <1>b DEF IInv, Replies
  <2> QED BY <1>a, <1>b, <2>1, <2>2, OnlyOneAppend
<1>e. /\ server' \in [nids : Nid, subscribed : BOOLEAN, sets : SUBSET Nid]
      /\ server'.sets \subseteq server.sets
  <2>1. server.nids + 1 \in Nid
    BY DEF ServerReplies, GiveNid, IInv, TypeOK, Nid
  <2> QED BY <2>1 DEF ServerReplies, GiveNid, IInv, TypeOK
<1>1. TypeOK'
  BY <1>a, <1>b, <1>e DEF IInv, TypeOK, IsTracked
<1>2. Work'
  BY <1>a, <1>b, <1>c, <1>d, <1>e DEF IInv, Work, Locked
<1>3. Socket'
  BY <1>a, <1>b, <1>c, <1>d, <1>e DEF IInv, Socket, Down, Reading
<1>4. Locks'
  BY <1>a DEF IInv, Locks, Locked, Up, Reading
<1>5. Replies'
  <2>1. (\A k \in asked : /\ th[k].pc = "wait" /\ reply[k] = NoReply
                         /\ \A x \in Message : In(wire, x) => x.kind # k)'
    BY <1>a, <1>b, <1>c DEF IInv, Replies
  <2>2. (\A x \in Message : In(wire, x) =>
          /\ x.kind # "none" /\ x.conn = conn /\ x.nid \in Nid
          /\ x.kind # "set" => x.nid # 0
          /\ x.kind \in Thread => th[x.kind].pc = "wait" /\ reply[x.kind] = NoReply)'
    BY <1>a, <1>b, <1>c DEF IInv, Replies, Nid
  <2> QED BY <1>a, <1>d, <2>1, <2>2 DEF IInv, Replies, Up, Reading
<1>6. RootTracked'
  BY <1>a, <1>b, <1>c, <1>d, <1>e DEF IInv, RootTracked, Up, Reading
<1>7. Current'
  BY <1>a, <1>b, <1>c, <1>d, <1>e DEF IInv, Current, Up, Reading
<1>8. Announced'
  BY <1>a, <1>b, <1>c, <1>e DEF IInv, Announced, Settable, Up, Reading
<1> QED BY <1>1, <1>2, <1>3, <1>4, <1>5, <1>6, <1>7, <1>8 DEF IInv

(* The server announces a child under the next nid of this connection.     *)
LEMMA ServerAddsKeeps ==
  ASSUME IInv, ServerAdds
  PROVE  IInv'
<1> DEFINE e == Msg("child", server.nids + 1)
<1>a. /\ wire \in Seq(Message) /\ wire' = Append(wire, e) /\ ~dead
      /\ asked' = asked
      /\ UNCHANGED <<conn, dead, is_connected, tracked, listens, pending, io, holder,
                    package_queue, reply, th, ops, late, carried>>
  BY DEF ServerAdds, GiveNid, IInv, TypeOK, socketVars, nodeVars
<1>b. /\ e \in Message /\ e.kind = "child" /\ e.conn = conn
      /\ e.nid \in 1 .. MaxNid
  BY DEF ServerAdds, GiveNid, Msg, IInv, TypeOK, Message, Nid
<1>c. \A x \in Message : In(wire', x) => In(wire, x) \/ x = e
  BY <1>a, <1>b, InAppend
<1>d. \A k \in Thread : OnlyOne(wire', k)
  <2> SUFFICES ASSUME NEW k \in Thread PROVE OnlyOne(wire', k)
    OBVIOUS
  <2>1. OnlyOne(wire, k)
    BY DEF IInv, Replies
  <2>2. e.kind = k => \A x \in Message : In(wire, x) => x.kind # k
    BY <1>a, <1>b DEF IInv
  <2> QED BY <1>a, <1>b, <2>1, <2>2, OnlyOneAppend
<1>e. /\ server' \in [nids : Nid, subscribed : BOOLEAN, sets : SUBSET Nid]
      /\ server'.sets \subseteq server.sets
  <2>1. server.nids + 1 \in Nid
    BY DEF ServerAdds, GiveNid, IInv, TypeOK, Nid
  <2> QED BY <2>1 DEF ServerAdds, GiveNid, IInv, TypeOK
<1>1. TypeOK'
  BY <1>a, <1>b, <1>e DEF IInv, TypeOK, IsTracked
<1>2. Work'
  BY <1>a, <1>b, <1>c, <1>d, <1>e DEF IInv, Work, Locked
<1>3. Socket'
  BY <1>a, <1>b, <1>c, <1>d, <1>e DEF IInv, Socket, Down, Reading
<1>4. Locks'
  BY <1>a DEF IInv, Locks, Locked, Up, Reading
<1>5. Replies'
  <2>1. (\A k \in asked : /\ th[k].pc = "wait" /\ reply[k] = NoReply
                         /\ \A x \in Message : In(wire, x) => x.kind # k)'
    BY <1>a, <1>b, <1>c DEF IInv, TypeOK, Replies
  <2>2. (\A x \in Message : In(wire, x) =>
          /\ x.kind # "none" /\ x.conn = conn /\ x.nid \in Nid
          /\ x.kind # "set" => x.nid # 0
          /\ x.kind \in Thread => th[x.kind].pc = "wait" /\ reply[x.kind] = NoReply)'
    BY <1>a, <1>b, <1>c DEF IInv, Replies, Nid
  <2> QED BY <1>a, <1>d, <2>1, <2>2 DEF IInv, Replies, Up, Reading
<1>6. RootTracked'
  BY <1>a, <1>b, <1>c, <1>d, <1>e DEF IInv, RootTracked, Up, Reading
<1>7. Current'
  BY <1>a, <1>b, <1>c, <1>d, <1>e DEF IInv, Current, Up, Reading
<1>8. Announced'
  BY <1>a, <1>b, <1>c, <1>e DEF IInv, Announced, Settable, Up, Reading
<1> QED BY <1>1, <1>2, <1>3, <1>4, <1>5, <1>6, <1>7, <1>8 DEF IInv

(* The server sets a property the client has announced to it.              *)
LEMMA ServerSetsKeeps ==
  ASSUME IInv, NEW nid \in server.sets, ServerSets(nid)
  PROVE  IInv'
<1> DEFINE e == Msg("set", nid)
<1>a. /\ wire \in Seq(Message) /\ wire' = Append(wire, e) /\ ~dead
      /\ asked' = asked /\ nid \in server.sets
      /\ UNCHANGED <<conn, dead, is_connected, tracked, listens, pending, io, holder,
                    package_queue, reply, th, ops, late, carried>>
  BY DEF ServerSets, IInv, TypeOK, socketVars, nodeVars
<1>b. /\ e \in Message /\ e.kind = "set" /\ e.conn = conn
      /\ e.nid = nid /\ nid \in Nid
  BY DEF Msg, IInv, TypeOK, Message
<1>c. \A x \in Message : In(wire', x) => In(wire, x) \/ x = e
  BY <1>a, <1>b, InAppend
<1>d. \A k \in Thread : OnlyOne(wire', k)
  <2> SUFFICES ASSUME NEW k \in Thread PROVE OnlyOne(wire', k)
    OBVIOUS
  <2>1. OnlyOne(wire, k)
    BY DEF IInv, Replies
  <2>2. e.kind = k => \A x \in Message : In(wire, x) => x.kind # k
    BY <1>a, <1>b DEF IInv
  <2> QED BY <1>a, <1>b, <2>1, <2>2, OnlyOneAppend
<1>e. /\ server' \in [nids : Nid, subscribed : BOOLEAN, sets : SUBSET Nid]
      /\ server'.sets \subseteq server.sets
  BY DEF ServerSets, IInv, TypeOK, Nid
<1>1. TypeOK'
  BY <1>a, <1>b, <1>e DEF IInv, TypeOK, IsTracked
<1>2. Work'
  BY <1>a, <1>b, <1>c, <1>d, <1>e DEF IInv, Work, Locked
<1>3. Socket'
  BY <1>a, <1>b, <1>c, <1>d, <1>e DEF IInv, Socket, Down, Reading
<1>4. Locks'
  BY <1>a, <1>b, <1>c, <1>d, <1>e DEF IInv, Locked, Locks, Up, Reading
<1>5. Replies'
  <2>1. (\A k \in asked : /\ th[k].pc = "wait" /\ reply[k] = NoReply
                         /\ \A x \in Message : In(wire, x) => x.kind # k)'
    BY <1>a, <1>b, <1>c DEF IInv, TypeOK, Replies
  <2>2. (\A x \in Message : In(wire, x) =>
          /\ x.kind # "none" /\ x.conn = conn /\ x.nid \in Nid
          /\ x.kind # "set" => x.nid # 0
          /\ x.kind \in Thread => th[x.kind].pc = "wait" /\ reply[x.kind] = NoReply)'
    BY <1>a, <1>b, <1>c DEF IInv, Replies
  <2> QED BY <1>a, <1>d, <2>1, <2>2 DEF IInv, Replies, Up, Reading
<1>6. RootTracked'
  BY <1>a, <1>b, <1>c, <1>d, <1>e DEF IInv, RootTracked, Up, Reading
<1>7. Current'
  BY <1>a, <1>b, <1>c, <1>d, <1>e DEF IInv, Current, Up, Reading
<1>8. Announced'
  BY <1>a, <1>b, <1>c, <1>e DEF IInv, Announced, Settable, Up, Reading
<1> QED BY <1>1, <1>2, <1>3, <1>4, <1>5, <1>6, <1>7, <1>8 DEF IInv

(* The connection breaks: what is on the wire may still be read, and no    *)
(* request is answered any more.                                           *)
LEMMA BreakKeeps ==
  ASSUME IInv, Break
  PROVE  IInv'
<1>a. /\ wire' = wire \/ wire' = <<>>
      /\ ~dead /\ dead' = TRUE /\ asked' = {} /\ server' = NewServer
      /\ UNCHANGED <<conn, is_connected, tracked, listens, pending, io, holder,
                    package_queue, reply, th, ops, late, carried>>
  BY DEF Break, nodeVars
<1>b. \A x \in Message : In(wire', x) => In(wire, x)
  BY <1>a, InNone
<1>c. \A k \in Thread : OnlyOne(wire', k)
  BY <1>a, OnlyOneNone DEF IInv, Replies
<1>1. TypeOK'
  <2>1. NewServer \in [nids : Nid, subscribed : BOOLEAN, sets : SUBSET Nid]
    BY Zero
  <2>2. wire \in Seq(Message) /\ <<>> \in Seq(Message)
    BY DEF IInv, TypeOK
  <2>3. wire' \in Seq(Message)
    BY <1>a, <2>2
  <2> QED BY <1>a, <2>1, <2>3 DEF IInv, TypeOK, IsTracked
<1>2. Work'
  BY DEF IInv, Work, Locked, Break
<1>3. Socket'
  BY DEF IInv, Socket, Down, Reading, Break
<1>4. Locks'
  BY DEF IInv, Locked, Locks, Up, Reading, Break
<1>5. Replies'
  BY <1>a, <1>b, <1>c DEF IInv, Replies, Up, Reading
<1>6. RootTracked'
  BY DEF IInv, RootTracked, Up, Reading, Break
<1>7. Current'
  BY DEF IInv, Current, Up, Reading, Break, nodeVars
<1>8. Announced'
  BY <1>a, <1>b, <1>c DEF IInv, Announced, Settable, Up, Reading
<1> QED BY <1>1, <1>2, <1>3, <1>4, <1>5, <1>6, <1>7, <1>8 DEF IInv

-----------------------------------------------------------------------------
(* Before the first connection nothing is tracked and nothing is under way. *)
LEMMA InitKeeps ==
  ASSUME Init
  PROVE  IInv
<1>1. TypeOK
  <2>1. /\ Idle \in ThreadState /\ NoReply \in Message
        /\ NewServer \in [nids : Nid, subscribed : BOOLEAN, sets : SUBSET Nid]
    BY Zero DEF Idle, ThreadState, Message
  <2>2. /\ dead \in BOOLEAN /\ is_connected \in BOOLEAN /\ listens \in BOOLEAN
        /\ late \in BOOLEAN /\ carried \in BOOLEAN
    BY Zenon DEF Init
  <2>3. ~IsTracked(Null) /\ tracked \in [DOMAIN tracked -> NodeOf]
        /\ DOMAIN tracked \subseteq Nid
    BY DEF Init, IsTracked
  <2>4. conn \in Conn /\ ops \in 0 .. MaxOps
    BY Zero DEF Init
  <2>5. /\ io \in [pc : {"idle", "stopped", "opened", "subscribe", "closed",
                         "cleanup", "delete", "relock", "crashed"},
                   nid : Nid \cup {NoNid}]
        /\ io.pc = "idle" /\ pending = {"connect"}
    BY DEF Init
  <2>6. wire \in Seq(Message) /\ package_queue \in Seq(Message)
    BY DEF Init
  <2> QED BY <2>1, <2>2, <2>3, <2>4, <2>5, <2>6 DEF TypeOK, Init
<1>2. Work
  BY DEF Init, Work, Locked, Idle
<1>3. Socket
  BY DEF Init, Socket, Down, Reading, Idle
<1>4. Locks
  BY DEF Init, Locks, Locked, Idle
<1>5. Replies
  BY InNone, OnlyOneNone DEF Init, Replies
<1>6. RootTracked
  BY DEF Init, RootTracked, Up, Reading
<1>7. Current
  BY InNone DEF Init, Current, Up, Reading, Idle
<1>8. Announced
  BY InNone DEF Init, Announced, Idle
<1> QED BY <1>1, <1>2, <1>3, <1>4, <1>5, <1>6, <1>7, <1>8 DEF IInv

(* Every step keeps the invariant.                                         *)
LEMMA StepKeeps ==
  ASSUME IInv, [Next]_vars
  PROVE  IInv'
<1>1. CASE UNCHANGED vars
  <2>1. UNCHANGED <<conn, dead, is_connected, tracked, listens, wire, asked,
                    server, pending, io, holder, package_queue, reply, th, ops,
                    late, carried>>
    BY <1>1 DEF vars, socketVars, nodeVars, serverVars
  <2> QED BY <2>1 DEF IInv, TypeOK, IsTracked, Work, Locked, Socket, Down,
        Reading, Locks, Up, Replies, RootTracked, Current, Announced, Settable
<1>2. CASE IoContinues
  BY <1>2, ReconnectHandlerKeeps, StreamOpenedKeeps, SubscribeKeeps,
     DataReadyKeeps, DataReadyErrorKeeps, CleanupBeginsKeeps, CleanupNodeKeeps,
     CleanupProxyKeeps, CleanupNullKeeps, RemoveClientNodeKeeps,
     CleanupRelocksKeeps, CleanupEndsKeeps DEF IoContinues
<1>3. CASE ConnectFails \/ ConnectSucceeds
  BY <1>3, ConnectFailsKeeps, ConnectSucceedsKeeps
<1>4. ASSUME NEW t \in Thread, ThreadStep(t)
      PROVE  IInv'
  BY <1>4, GetNidFoundKeeps, RequestLockedKeeps, WriteChecksKeeps,
     WriteSomeKeeps, WriteLostKeeps, WriteErrorKeeps, WriteEndsKeeps,
     SendReturnsKeeps, DoTrackKeeps DEF ThreadStep
<1>5. CASE Fetch \/ Create \/ SetValue
  BY <1>5, AppBeginsKeeps DEF Fetch, Create, SetValue
<1>6. CASE WorkerServes
  BY <1>6, CmdChildAddedKeeps, FindChildKeeps, MakeChildKeeps,
     CmdPropValueKeeps DEF WorkerServes
<1>7. ASSUME NEW t \in Thread, ServerReplies(t)
      PROVE  IInv'
  BY <1>7, ServerRepliesKeeps
<1>8. CASE ServerAdds \/ (\E nid \in server.sets : ServerSets(nid)) \/ Break
  BY <1>8, ServerAddsKeeps, ServerSetsKeeps, BreakKeeps
<1> QED BY <1>1, <1>2, <1>3, <1>4, <1>5, <1>6, <1>7, <1>8 DEF Next

(* The invariant holds in every state.                                     *)
THEOREM Invariance == Spec => []IInv
<1>1. Init => IInv
  BY InitKeeps
<1>2. IInv /\ [Next]_vars => IInv'
  BY StepKeeps
<1> QED BY <1>1, <1>2, PTL DEF Spec

(* The types, the one operation an idle io thread has with asio, and that  *)
(* cleanup_children only meets a null entry when work outlived its         *)
(* connection.                                                             *)
THEOREM TypeCorrect == Spec => []TypeOK
<1>1. IInv => TypeOK
  BY DEF IInv
<1> QED BY <1>1, Invariance, PTL

(* While a connection is up and being read, socket_client::write uses it,  *)
(* unless an error of an older socket was recorded after set_socket.       *)
THEOREM KnowsWhenUp == Spec => []KnowsItIsUp
<1>1. IInv => KnowsItIsUp
  BY DEF IInv, Socket, KnowsItIsUp, IsOpen
<1> QED BY <1>1, Invariance, PTL

(* On an open connection tracked holds the root under 0 and otherwise only *)
(* nids of this connection, unless work for an older one was under way     *)
(* when cleanup_children ran, or is_connected is wrong.                    *)
THEOREM TracksCurrentNids == Spec => []NidsAreCurrent
<1>1. IInv => NidsAreCurrent
  BY DEF IInv, Socket, RootTracked, Current, NidsAreCurrent, IsOpen, Up, Reading
<1> QED BY <1>1, Invariance, PTL
=============================================================================
