------------------------------ MODULE NodeSync ------------------------------
(***************************************************************************)
(* node_sync (node_sync.cpp) on the two ends of one connection: how a node *)
(* of one process becomes known to the other under a node id (nid), and    *)
(* who waits for whom meanwhile.                                           *)
(*                                                                         *)
(* Each end has an application thread, the worker thread that serves the   *)
(* packages of the queue, and the thread that reads the socket.  The       *)
(* dispatcher below appears as RequestReply leaves it: a waiting thread    *)
(* has a message id of its own (so a call is named by its thread), and all *)
(* threads of an end share the one package "in" replies are copied to.     *)
(*                                                                         *)
(* A step runs from one blocking point to the next: a lock of              *)
(* tracked_mutex, a wait in send, or, for the nid counter, between its     *)
(* load and its store, since the counter has no lock of its own.           *)
(***************************************************************************)
EXTENDS Integers, Sequences

CONSTANTS
  Node,      \* nodes the application creates below the root
  Root,      \* the root: a node of its own at each end, nid 0 on both
  Programs,  \* what the two applications may be
  MaxOps,    \* bound: operations per application thread
  NoThread   \* nobody

End       == {"client", "server"}
Peer(e)   == IF e = "client" THEN "server" ELSE "client"
Thread    == End \X {"app", "worker"}
EndOf(t)  == t[1]

(* Mutant: is_server is set at the wrong end.                              *)
IsServerSwapped(e) == e = "client"
IsServer(e) == e = "server"

(***************************************************************************)
(* A pair of applications: the nodes they create, where each is attached   *)
(* and by which end, and the operations either of them uses.               *)
(***************************************************************************)
IsProgram(p) ==
  /\ DOMAIN p.parent \subseteq Node
  /\ p.parent \in [DOMAIN p.parent -> DOMAIN p.parent \cup {Root}]
  /\ p.home \in [DOMAIN p.parent -> End]
  /\ p.ops \in [End -> SUBSET {"create", "fetch", "update", "ls"}]

ASSUME NodeAssumption ==
  /\ Root \notin Node
  /\ \A p \in Programs : IsProgram(p)
  /\ MaxOps \in Nat
  /\ NoThread \notin Thread

VARIABLES
  program,      \* the applications of this behaviour; never changes
  tracked,      \* tracked[e]: a map from nids to objects
  tree,         \* tree[e]: the objects attached to e's tree, by node
  made,         \* proxies generated by each end, to tell them apart
  watched,      \* nodes whose tree_node_listener is e's node_sync
  holder,       \* the thread that has tracked_mutex
  current_nid,  \* the server's counter
  wire,         \* wire[e]: packages on their way to e
  package_queue,
  th,           \* the local state of each thread
  in,           \* the package replies are copied to
  ready,        \* threads whose sender_response_received is true
  io,           \* the reading thread between load and store of current_nid
  ops           \* operations each application has begun

nodeVars   == <<tracked, tree, made, watched>>
streamVars == <<wire, in, ready>>
serverVars == <<current_nid, io>>
vars == <<nodeVars, streamVars, serverVars, holder, package_queue, th, ops,
          program>>

Parent == program.parent
Home   == program.home
Ops    == program.ops

(* The real object of a node is number 0, its proxies are numbered from 1. *)
Object(n, k) == [node |-> n, obj |-> k]

Msg(kind, from, nid, n, cnid) ==
  [kind |-> kind, from |-> from, nid |-> nid, node |-> n, cnid |-> cnid]

Note(kind, nid, n, cnid) == Msg(kind, NoThread, nid, n, cnid)
Answer(kind, t, nid)     == Msg(kind, t, nid, Root, 0)
NoMsg                    == Note("none", 0, Root, 0)

Idle == [pc |-> "idle", then |-> "idle", node |-> Root, nid |-> 0, pnid |-> 0,
         msg |-> NoMsg]

(***************************************************************************)
(* The connection is up: server::set_root has tracked the root under the   *)
(* first nid, client_nonroot::stream_opened has tracked its own root under *)
(* 0, asked for the server's additions and listens to its own.             *)
(***************************************************************************)
Init ==
  /\ program \in Programs
  /\ tracked = [e \in End |-> [i \in {0} |-> Object(Root, 0)]]
  /\ tree = [e \in End |-> <<>>]
  /\ made = [e \in End |-> 0]
  /\ watched = [e \in End |-> IF e = "client" THEN {Root} ELSE {}]
  /\ holder = [e \in End |-> NoThread]
  /\ current_nid = 1
  /\ wire = [e \in End |-> IF e = "server" THEN <<Note("sub", 0, Root, 0)>> ELSE <<>>]
  /\ package_queue = [e \in End |-> <<>>]
  /\ th = [t \in Thread |-> Idle]
  /\ in = [e \in End |-> NoMsg]
  /\ ready = {}
  /\ io = [e \in End |-> 0]
  /\ ops = [e \in End |-> 0]

-----------------------------------------------------------------------------
(* tracked_mutex is recursive.                                             *)
CanLock(t)    == holder[EndOf(t)] \in {NoThread, t}
LockUnlock(t) == CanLock(t) /\ holder' = holder
Acquire(t)    == CanLock(t) /\ holder' = [holder EXCEPT ![EndOf(t)] = t]
Release(t)    == holder' = [holder EXCEPT ![EndOf(t)] = NoThread]

Write(e, m) == wire' = [wire EXCEPT ![Peer(e)] = Append(@, m)]

(* send up to its wait: the flag is cleared and the request written.       *)
SendBegin(t, kind, nid, n) ==
  /\ ready' = ready \ {t}
  /\ Write(EndOf(t), Msg(kind, t, nid, n, 0))

Become(t, r) == th' = [th EXCEPT ![t] = r]
At(t, pc)    == th[t].pc = pc

IsTracked(e, nid) == nid \in DOMAIN tracked[e]
NidsOf(e, o)      == {i \in DOMAIN tracked[e] : tracked[e][i] = o}

(* A map with v under x, replacing what it held there (map::operator[]).   *)
Put(f, x, v) == [y \in DOMAIN f \cup {x} |-> IF y = x THEN v ELSE f[y]]

(* do_track(n, nid) replaces whatever the map held under that nid.         *)
DoTrack(e, nid, o) == tracked' = [tracked EXCEPT ![e] = Put(@, nid, o)]

(* What get_nid searches for: the object the tree has for this node.       *)
ObjectOf(e, n) ==
  IF n = Root THEN Object(Root, 0) ELSE Object(n, tree[e][n].obj)

IsProxy(e, n) == n \in DOMAIN tree[e] /\ tree[e][n].obj # 0

(* Mutant: the generated proxy is not told its nid (set_nid is left out).  *)
AttachWithoutNid(e, n, k, nid) ==
  tree' = IF n \in DOMAIN tree[e] THEN tree
          ELSE [tree EXCEPT ![e] = Put(@, n, [obj |-> k, nid |-> 0])]

(* tree_node::attach and insert (external): a name that exists stays.      *)
AttachToTree(e, n, k, nid) ==
  tree' = IF n \in DOMAIN tree[e] THEN tree
          ELSE [tree EXCEPT ![e] = Put(@, n, [obj |-> k, nid |-> nid])]

-----------------------------------------------------------------------------
(***************************************************************************)
(* get_nid with tracking: search, and if nothing is found generate_nid and *)
(* do_track.  The lock is kept by attach, which took it itself, and given  *)
(* up by the other callers.                                                *)
(***************************************************************************)
Continue(t, nid) ==
  /\ Become(t, [th[t] EXCEPT !.pc = th[t].then, !.nid = nid])
  /\ IF th[t].then = "write_attach"
     THEN holder' = [holder EXCEPT ![EndOf(t)] = t]
     ELSE Release(t)

GetNidFound(t) == LET e == EndOf(t) IN
  /\ At(t, "get_nid")
  /\ CanLock(t)
  /\ \E nid \in NidsOf(e, ObjectOf(e, th[t].node)) :
       /\ \A i \in NidsOf(e, ObjectOf(e, th[t].node)) : nid <= i
       /\ Continue(t, nid)
  /\ UNCHANGED <<nodeVars, streamVars, serverVars, package_queue, ops>>

(* generate_nid of the server: current_nid++, first its load ...           *)
LoadNid(t) == LET e == EndOf(t) IN
  /\ At(t, "get_nid")
  /\ IsServer(e)
  /\ NidsOf(e, ObjectOf(e, th[t].node)) = {}
  /\ Acquire(t)
  /\ Become(t, [th[t] EXCEPT !.pc = "store_nid", !.nid = current_nid])
  /\ UNCHANGED <<nodeVars, streamVars, serverVars, package_queue, ops>>

(* ... then its store, and do_track.                                       *)
StoreNid(t) == LET e == EndOf(t) IN
  /\ At(t, "store_nid")
  /\ current_nid' = th[t].nid + 1
  /\ DoTrack(e, th[t].nid, ObjectOf(e, th[t].node))
  /\ Continue(t, th[t].nid)
  /\ UNCHANGED <<streamVars, tree, made, watched, package_queue, io, ops>>

(* generate_nid of the client asks the server, with tracked_mutex held.    *)
RequestNid(t) == LET e == EndOf(t) IN
  /\ At(t, "get_nid")
  /\ ~IsServer(e)
  /\ NidsOf(e, ObjectOf(e, th[t].node)) = {}
  /\ Acquire(t)
  /\ SendBegin(t, "gen", 0, Root)
  /\ Become(t, [th[t] EXCEPT !.pc = "gen"])
  /\ UNCHANGED <<nodeVars, serverVars, package_queue, in, ops>>

ReceiveNid(t) == LET e == EndOf(t) IN
  /\ At(t, "gen")
  /\ t \in ready
  /\ DoTrack(e, in[e].nid, ObjectOf(e, th[t].node))
  /\ Continue(t, in[e].nid)
  /\ UNCHANGED <<streamVars, serverVars, tree, made, watched, package_queue,
                 ops>>
-----------------------------------------------------------------------------
(* The application thread.                                                 *)
App(e) == <<e, "app">>

MayBegin(e, op) ==
  /\ At(App(e), "idle")
  /\ op \in Ops[e]
  /\ ops[e] < MaxOps

Begun(e) == ops' = [ops EXCEPT ![e] = @ + 1]

InTree(e, n) == n = Root \/ n \in DOMAIN tree[e]

(***************************************************************************)
(* The application attaches a node of its own to a parent of its own.  If  *)
(* the node_sync listens to the parent, child_added is called.             *)
(***************************************************************************)
CreateLocal(e, n) ==
  /\ MayBegin(e, "create")
  /\ Home[n] = e /\ ~InTree(e, n)
  /\ InTree(e, Parent[n]) /\ ~IsProxy(e, Parent[n])
  /\ AttachToTree(e, n, 0, 0)
  /\ Begun(e)
  /\ IF Parent[n] \in watched[e]
     THEN Become(App(e), [Idle EXCEPT !.pc = "get_nid", !.then = "child_nid",
                                      !.node = Parent[n],
                                      !.msg = Note("child", 0, n, 0)])
     ELSE th' = th
  /\ UNCHANGED <<streamVars, serverVars, tracked, made, watched, holder,
                 package_queue>>

(* child_added, between the nid of the parent and the nid of the child.    *)
ChildAdded(e) == LET t == App(e) IN
  /\ At(t, "child_nid")
  /\ Become(t, [th[t] EXCEPT !.pc = "get_nid", !.then = "write_child",
                             !.pnid = th[t].nid, !.node = th[t].msg.node])
  /\ UNCHANGED <<nodeVars, streamVars, serverVars, holder, package_queue, ops>>

WriteChildAdded(e) == LET t == App(e) IN
  /\ At(t, "write_child")
  /\ Write(e, Note("child", th[t].pnid, th[t].node, th[t].nid))
  /\ Become(t, Idle)
  /\ UNCHANGED <<nodeVars, serverVars, holder, package_queue, in, ready, ops>>

(***************************************************************************)
(* client_node::attach: the application attaches a node of its own to a    *)
(* proxy.  node_sync::attach takes tracked_mutex first, so a thread that   *)
(* waits for it has already changed the tree.                              *)
(***************************************************************************)
CreateRemote(e, n) ==
  /\ MayBegin(e, "create")
  /\ Home[n] = e /\ ~InTree(e, n)
  /\ IsProxy(e, Parent[n])
  /\ AttachToTree(e, n, 0, 0)
  /\ Begun(e)
  /\ Become(App(e), [Idle EXCEPT !.pc = "get_nid", !.then = "write_attach",
                                 !.node = n, !.pnid = tree[e][Parent[n]].nid])
  /\ UNCHANGED <<streamVars, serverVars, tracked, made, watched, holder,
                 package_queue>>

WriteAttach(e) == LET t == App(e) IN
  /\ At(t, "write_attach")
  /\ Write(e, Note("attach", th[t].pnid, th[t].node, th[t].nid))
  /\ Release(t)
  /\ Become(t, Idle)
  /\ UNCHANGED <<nodeVars, serverVars, package_queue, in, ready, ops>>

(***************************************************************************)
(* client_node::get: a child the tree does not have is fetched from the    *)
(* peer.  fetch_node keeps tracked_mutex while it waits.                   *)
(***************************************************************************)
FetchBegin(e, n) == LET t == App(e) IN
  /\ MayBegin(e, "fetch")
  /\ ~InTree(e, n) /\ IsProxy(e, Parent[n])
  /\ Acquire(t)
  /\ SendBegin(t, "at", tree[e][Parent[n]].nid, n)
  /\ Become(t, [Idle EXCEPT !.pc = "fetch", !.node = n])
  /\ Begun(e)
  /\ UNCHANGED <<nodeVars, serverVars, package_queue, in>>

FetchFails(e) == LET t == App(e) IN
  /\ At(t, "fetch") /\ t \in ready
  /\ in[e].kind = "error"
  /\ Release(t)
  /\ Become(t, Idle)
  /\ UNCHANGED <<nodeVars, streamVars, serverVars, package_queue, ops>>

FetchEnds(e) == LET t == App(e) IN
  /\ At(t, "fetch") /\ t \in ready
  /\ in[e].kind # "error"
  /\ made' = [made EXCEPT ![e] = @ + 1]
  /\ DoTrack(e, in[e].nid, Object(th[t].node, made[e] + 1))
  /\ Release(t)
  /\ Become(t, [th[t] EXCEPT !.pc = "insert", !.nid = in[e].nid, !.pnid = made[e] + 1])
  /\ UNCHANGED <<streamVars, serverVars, tree, watched, package_queue, ops>>

(* tree_node::insert, after fetch_node has returned.                       *)
Insert(e) == LET t == App(e) IN
  /\ At(t, "insert")
  /\ AttachToTree(e, th[t].node, th[t].pnid, th[t].nid)
  /\ Become(t, Idle)
  /\ UNCHANGED <<streamVars, serverVars, tracked, made, watched, holder,
                 package_queue, ops>>

(* update_prop, behind get_value of a proxy: waits with tracked_mutex held *)
(* unless the proxy's nid is not tracked.                                  *)
UpdateBegin(e, n) == LET t == App(e) IN
  /\ MayBegin(e, "update")
  /\ IsProxy(e, n)
  /\ Begun(e)
  /\ IF IsTracked(e, tree[e][n].nid)
     THEN /\ Acquire(t)
          /\ SendBegin(t, "get", tree[e][n].nid, n)
          /\ Become(t, [Idle EXCEPT !.pc = "update", !.node = n])
     ELSE /\ LockUnlock(t)
          /\ UNCHANGED <<wire, ready, th>>
  /\ UNCHANGED <<nodeVars, serverVars, package_queue, in>>

UpdateEnds(e) == LET t == App(e) IN
  /\ At(t, "update") /\ t \in ready
  /\ Release(t)
  /\ Become(t, Idle)
  /\ UNCHANGED <<nodeVars, streamVars, serverVars, package_queue, ops>>

(* ls waits too, but without tracked_mutex.                                *)
LsBegin(e, n) == LET t == App(e) IN
  /\ MayBegin(e, "ls")
  /\ IsProxy(e, n)
  /\ SendBegin(t, "ls", tree[e][n].nid, n)
  /\ Become(t, [Idle EXCEPT !.pc = "ls", !.node = n])
  /\ Begun(e)
  /\ UNCHANGED <<nodeVars, serverVars, holder, package_queue, in>>

LsEnds(e) == LET t == App(e) IN
  /\ At(t, "ls") /\ t \in ready
  /\ Become(t, Idle)
  /\ UNCHANGED <<nodeVars, streamVars, serverVars, holder, package_queue, ops>>
-----------------------------------------------------------------------------
(* The worker thread: package_processing_routine and process_package.      *)
Worker(e) == <<e, "worker">>

Handler(m) ==
  CASE m.kind = "at"     -> "cmd_at"
    [] m.kind = "ls"     -> "cmd_ls"
    [] m.kind = "get"    -> "cmd_get_prop"
    [] m.kind = "attach" -> "cmd_attach"
    [] m.kind = "child"  -> "cmd_child_added"
    [] m.kind = "sub"    -> "cmd_subscribe_add_remove"

Pop(e) == LET t == Worker(e) IN
  /\ At(t, "idle")
  /\ package_queue[e] # <<>>
  /\ Become(t, [Idle EXCEPT !.pc = Handler(Head(package_queue[e])),
                            !.msg = Head(package_queue[e])])
  /\ package_queue' = [package_queue EXCEPT ![e] = Tail(@)]
  /\ UNCHANGED <<nodeVars, streamVars, serverVars, holder, ops>>

(* cmd_at: get_node, and at on the node found; get_nid comes after.        *)
CmdAt(e) ==
  LET t == Worker(e)
      m == th[t].msg
      found == /\ IsTracked(e, m.nid)
               /\ m.node \in DOMAIN tree[e]
               /\ Parent[m.node] = tracked[e][m.nid].node
  IN
  /\ At(t, "cmd_at")
  /\ LockUnlock(t)
  /\ Become(t, IF found
               THEN [th[t] EXCEPT !.pc = "get_nid", !.then = "reply", !.node = m.node]
               ELSE [th[t] EXCEPT !.pc = "reply_error", !.nid = m.nid])
  /\ UNCHANGED <<nodeVars, streamVars, serverVars, package_queue, ops>>

(* cmd_ls and cmd_get_prop: get_node or get_prop, and the reply.           *)
CmdLsOrGet(e) ==
  LET t == Worker(e)  m == th[t].msg IN
  /\ At(t, "cmd_ls") \/ At(t, "cmd_get_prop")
  /\ LockUnlock(t)
  /\ Become(t, [th[t] EXCEPT !.pc = IF IsTracked(e, m.nid) THEN "reply" ELSE "reply_error",
                             !.nid = m.nid])
  /\ UNCHANGED <<nodeVars, streamVars, serverVars, package_queue, ops>>

(* Mutant: no reply to a request that fails.                               *)
ReplyToSuccess(e) == LET t == Worker(e) IN
  /\ At(t, "reply") \/ At(t, "reply_error")
  /\ IF At(t, "reply") THEN Write(e, Answer("ok", th[t].msg.from, th[t].nid))
                       ELSE wire' = wire
  /\ Become(t, Idle)
  /\ UNCHANGED <<nodeVars, serverVars, holder, package_queue, in, ready, ops>>

Reply(e) == LET t == Worker(e) IN
  /\ At(t, "reply") \/ At(t, "reply_error")
  /\ Write(e, Answer(IF At(t, "reply") THEN "ok" ELSE "error",
                     th[t].msg.from, th[t].nid))
  /\ Become(t, Idle)
  /\ UNCHANGED <<nodeVars, serverVars, holder, package_queue, in, ready, ops>>

(* cmd_attach, under tracked_mutex from beginning to end.                  *)
CmdAttach(e) ==
  LET t == Worker(e)  m == th[t].msg IN
  /\ At(t, "cmd_attach")
  /\ LockUnlock(t)
  /\ IF IsTracked(e, m.nid)
     THEN /\ made' = [made EXCEPT ![e] = @ + 1]
          /\ DoTrack(e, m.cnid, Object(m.node, made[e] + 1))
          /\ AttachToTree(e, m.node, made[e] + 1, m.cnid)
          /\ Write(e, Note("sub", m.cnid, Root, 0))
     ELSE UNCHANGED <<made, tracked, tree, wire>>
  /\ Become(t, Idle)
  /\ UNCHANGED <<serverVars, watched, package_queue, in, ready, ops>>

(* cmd_subscribe_add_remove reads the map without the lock.                *)
CmdSubscribeAddRemove(e) ==
  LET t == Worker(e)  m == th[t].msg IN
  /\ At(t, "cmd_subscribe_add_remove")
  /\ watched' = IF IsTracked(e, m.nid)
                THEN [watched EXCEPT ![e] = @ \cup {tracked[e][m.nid].node}]
                ELSE watched
  /\ Become(t, Idle)
  /\ UNCHANGED <<streamVars, serverVars, tracked, tree, made, holder,
                 package_queue, ops>>

(* Mutant: the nid of the child is looked up in place of the parent's.     *)
FindParentByChild(e) == LET t == Worker(e) IN
  /\ At(t, "cmd_child_added")
  /\ LockUnlock(t)
  /\ Become(t, IF IsTracked(e, th[t].msg.cnid)
               THEN [th[t] EXCEPT !.pc = "find_child"]
               ELSE Idle)
  /\ UNCHANGED <<nodeVars, streamVars, serverVars, package_queue, ops>>

(***************************************************************************)
(* cmd_child_added: the lock is taken for get_node of the parent, again    *)
(* for get_node of the child, and again for do_track.                      *)
(***************************************************************************)
FindParent(e) == LET t == Worker(e) IN
  /\ At(t, "cmd_child_added")
  /\ LockUnlock(t)
  /\ Become(t, IF IsTracked(e, th[t].msg.nid)
               THEN [th[t] EXCEPT !.pc = "find_child"]
               ELSE Idle)
  /\ UNCHANGED <<nodeVars, streamVars, serverVars, package_queue, ops>>

FindChild(e) ==
  LET t == Worker(e)  m == th[t].msg IN
  /\ At(t, "find_child")
  /\ LockUnlock(t)
  /\ IF IsTracked(e, m.cnid)
     THEN /\ AttachToTree(e, m.node, tracked[e][m.cnid].obj, m.cnid)
          /\ Become(t, Idle)
     ELSE /\ tree' = tree
          /\ Become(t, [th[t] EXCEPT !.pc = "make_child"])
  /\ UNCHANGED <<streamVars, serverVars, tracked, made, watched, package_queue,
                 ops>>

MakeChild(e) ==
  LET t == Worker(e)  m == th[t].msg IN
  /\ At(t, "make_child")
  /\ LockUnlock(t)
  /\ made' = [made EXCEPT ![e] = @ + 1]
  /\ DoTrack(e, m.cnid, Object(m.node, made[e] + 1))
  /\ Write(e, Note("sub", m.cnid, Root, 0))
  /\ Become(t, [th[t] EXCEPT !.pc = "attach_child", !.nid = made[e] + 1])
  /\ UNCHANGED <<serverVars, tree, watched, package_queue, in, ready, ops>>

(* If the node_sync listens to the parent, attach calls its child_added,   *)
(* which finds the parent's nid under the lock and the child a proxy.      *)
AttachChild(e) ==
  LET t == Worker(e)  m == th[t].msg IN
  /\ At(t, "attach_child")
  /\ Parent[m.node] \in watched[e] => CanLock(t)
  /\ AttachToTree(e, m.node, th[t].nid, m.cnid)
  /\ Become(t, Idle)
  /\ UNCHANGED <<streamVars, serverVars, tracked, made, watched, holder,
                 package_queue, ops>>

-----------------------------------------------------------------------------
(***************************************************************************)
(* The thread that reads the socket.  A reply is copied to "in" and wakes  *)
(* its sender; a request for a nid is answered on the spot; everything     *)
(* else goes to the worker's queue.                                        *)
(***************************************************************************)
IsAnswer(m) == m.kind \in {"ok", "error"}

Take(e) == wire' = [wire EXCEPT ![e] = Tail(@)]

ReceiveReply(e) ==
  /\ io[e] = 0 /\ wire[e] # <<>>
  /\ IsAnswer(Head(wire[e]))
  /\ in' = [in EXCEPT ![e] = Head(wire[e])]
  /\ ready' = ready \cup {Head(wire[e]).from}
  /\ Take(e)
  /\ UNCHANGED <<nodeVars, serverVars, holder, package_queue, th, ops>>

Enqueue(e) ==
  /\ io[e] = 0 /\ wire[e] # <<>>
  /\ ~IsAnswer(Head(wire[e])) /\ Head(wire[e]).kind # "gen"
  /\ package_queue' = [package_queue EXCEPT ![e] = Append(@, Head(wire[e]))]
  /\ Take(e)
  /\ UNCHANGED <<nodeVars, serverVars, holder, th, in, ready, ops>>

(* Mutant: the reading thread takes tracked_mutex for generate_nid.        *)
LoadForPeerLocked(e) ==
  /\ io[e] = 0 /\ wire[e] # <<>>
  /\ Head(wire[e]).kind = "gen"
  /\ holder[e] = NoThread
  /\ io' = [io EXCEPT ![e] = current_nid]
  /\ UNCHANGED <<nodeVars, streamVars, holder, current_nid, package_queue, th,
                 ops>>

(* generate_nid on the reading thread: the load of current_nid ...         *)
LoadForPeer(e) ==
  /\ io[e] = 0 /\ wire[e] # <<>>
  /\ Head(wire[e]).kind = "gen"
  /\ io' = [io EXCEPT ![e] = current_nid]
  /\ UNCHANGED <<nodeVars, streamVars, holder, current_nid, package_queue, th,
                 ops>>

(* Mutant: the counter is not advanced for a nid given to the peer.        *)
StoreNothing(e) ==
  /\ io[e] # 0
  /\ io' = [io EXCEPT ![e] = 0]
  /\ wire' = [wire EXCEPT ![e] = Tail(@),
                          ![Peer(e)] = Append(@, Answer("ok", Head(wire[e]).from, io[e]))]
  /\ UNCHANGED <<nodeVars, holder, current_nid, package_queue, th, in, ready, ops>>

(* ... its store, and the reply.                                           *)
StoreForPeer(e) ==
  /\ io[e] # 0
  /\ current_nid' = io[e] + 1
  /\ io' = [io EXCEPT ![e] = 0]
  /\ wire' = [wire EXCEPT ![e] = Tail(@),
                          ![Peer(e)] = Append(@, Answer("ok", Head(wire[e]).from, io[e]))]
  /\ UNCHANGED <<nodeVars, holder, package_queue, th, in, ready, ops>>

-----------------------------------------------------------------------------
NidStep(t) ==
  \/ GetNidFound(t)
  \/ LoadNid(t)
  \/ StoreNid(t)
  \/ RequestNid(t)
  \/ ReceiveNid(t)

AppBegins(e) ==
  \E n \in DOMAIN Parent :
    \/ CreateLocal(e, n)
    \/ CreateRemote(e, n)
    \/ FetchBegin(e, n)
    \/ UpdateBegin(e, n)
    \/ LsBegin(e, n)

AppContinues(e) ==
  \/ NidStep(App(e))
  \/ ChildAdded(e)
  \/ WriteChildAdded(e)
  \/ WriteAttach(e)
  \/ FetchFails(e)
  \/ FetchEnds(e)
  \/ Insert(e)
  \/ UpdateEnds(e)
  \/ LsEnds(e)

WorkerStep(e) ==
  \/ NidStep(Worker(e))
  \/ Pop(e)
  \/ CmdAt(e)
  \/ CmdLsOrGet(e)
  \/ Reply(e)
  \/ CmdAttach(e)
  \/ CmdSubscribeAddRemove(e)
  \/ FindParent(e)
  \/ FindChild(e)
  \/ MakeChild(e)
  \/ AttachChild(e)

IoStep(e) ==
  \/ ReceiveReply(e)
  \/ Enqueue(e)
  \/ LoadForPeer(e)
  \/ StoreForPeer(e)

Next ==
  /\ \E e \in End : AppBegins(e) \/ AppContinues(e) \/ WorkerStep(e) \/ IoStep(e)
  /\ program' = program

Spec == Init /\ [][Next]_vars

(***************************************************************************)
(* Every thread that can go on does.  An application need not begin        *)
(* anything.  Weak fairness is enough for the lock: the operations are     *)
(* finitely many, so a lock that is free again and again is finally free.  *)
(***************************************************************************)
Fairness ==
  \A e \in End :
    /\ WF_vars(AppContinues(e) /\ program' = program)
    /\ WF_vars(WorkerStep(e) /\ program' = program)
    /\ WF_vars(IoStep(e) /\ program' = program)

FairSpec == Spec /\ Fairness

-----------------------------------------------------------------------------
Waiting == {"fetch", "update", "ls", "gen"}

(* What the variables hold (node_sync.h:20-30, package_stream.h:71-79).    *)
TypeOK ==
  /\ \A e \in End :
       /\ DOMAIN tracked[e] \subseteq Nat
       /\ \A i \in DOMAIN tracked[e] :
            /\ tracked[e][i].node \in Node \cup {Root}
            /\ tracked[e][i].obj \in 0..made[e]
       /\ DOMAIN tree[e] \subseteq Node
       /\ \A n \in DOMAIN tree[e] : tree[e][n].obj \in 0..made[e]
       /\ watched[e] \subseteq Node \cup {Root}
       /\ holder[e] \in {NoThread, App(e), Worker(e)}
       /\ io[e] \in Nat /\ ops[e] \in 0..MaxOps
  /\ io["client"] = 0      \* only the server counts, only the client asks it
  /\ \A t \in Thread :
       /\ At(t, "store_nid") => EndOf(t) = "server"
       /\ At(t, "gen") => EndOf(t) = "client"
  /\ current_nid \in Nat \ {0}
  /\ ready \subseteq Thread

(***************************************************************************)
(* A nid is a "unique id" (package_stream_base.h:13): the two ends mean    *)
(* the same node by it, and neither has a node under two nids.             *)
(***************************************************************************)
NidsAgree ==
  /\ \A i \in DOMAIN tracked["client"] \cap DOMAIN tracked["server"] :
       tracked["client"][i].node = tracked["server"][i].node
  /\ \A e \in End : \A i, j \in DOMAIN tracked[e] :
       tracked[e][i].node = tracked[e][j].node => i = j

(***************************************************************************)
(* A node is found where it was tracked: no nid given to a node is later   *)
(* given to another (do_track silently replaces an entry).                 *)
(***************************************************************************)
NidsAreKept ==
  [][\A e \in End : \A i \in DOMAIN tracked[e] :
       i \in DOMAIN tracked'[e] /\ tracked'[e][i].node = tracked[e][i].node]_vars

(***************************************************************************)
(* The proxy the tree shows is the one updates are delivered to: the       *)
(* object a tree has for a node is the object tracked under its nid.  A    *)
(* fetch_node between two critical sections of cmd_child_added breaks it,  *)
(* so it is stated of applications that do not fetch.                      *)
(***************************************************************************)
Uses(op) == \E e \in End : op \in Ops[e]

TreeShowsTracked ==
  ~Uses("fetch") =>
    \A e \in End : \A n \in DOMAIN tree[e] :
      IsProxy(e, n) => tracked[e][tree[e][n].nid] = Object(n, tree[e][n].obj)

(***************************************************************************)
(* A thread that is woken finds the reply to its own request in "in": who  *)
(* sends with tracked_mutex held cannot meet another's reply.  ls sends    *)
(* without it; that is safe only while no other thread of its end needs a  *)
(* nid, as in the programs this is checked for.                            *)
(***************************************************************************)
WokenByOwnReply ==
  \A t \in Thread :
    (t \in ready /\ th[t].pc \in Waiting) => in[EndOf(t)].from = t

(***************************************************************************)
(* A call that waits for the peer ends; a request for a nid does whatever  *)
(* locks are held at the other end, because the reading thread answers it  *)
(* on the spot (node_sync.cpp:153).                                        *)
(***************************************************************************)
CallsEnd ==
  \A t \in Thread : th[t].pc \in Waiting ~> th[t].pc \notin Waiting

(***************************************************************************)
(* A child announced to the peer, by child_added or by attach, is finally  *)
(* in the peer's tree.                                                     *)
(***************************************************************************)
ChildrenArrive ==
  \A e \in End : \A n \in Node :
    /\ th[App(e)].pc \in {"write_child", "write_attach"}
    /\ th[App(e)].node = n
    ~> n \in DOMAIN tree[Peer(e)]
=============================================================================
