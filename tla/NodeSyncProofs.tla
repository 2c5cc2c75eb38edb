--------------------------- MODULE NodeSyncProofs ---------------------------
(***************************************************************************)
(* For any two applications: who may be where in node_sync, with which     *)
(* package and which lock, and that a thread which is woken finds its own  *)
(* reply (CInv); that the ends agree on their nids unless two threads of   *)
(* the server draw one at the same time (NInv); and that a tree shows the  *)
(* proxy that is tracked if neither application fetches (SInv).            *)
(***************************************************************************)
EXTENDS NodeSync, SequenceTheorems, TLAPS

Nodes == Node \cup {Root}

Kind == {"at", "ls", "get", "gen", "attach", "child", "sub", "ok", "error", "none"}

Message == [kind : Kind, from : Thread \cup {NoThread}, nid : Nat, node : Nodes,
            cnid : Nat]

NidPc  == {"get_nid", "store_nid", "gen"}
AppPc  == {"idle", "child_nid", "write_child", "write_attach", "fetch", "insert",
           "update", "ls"} \cup NidPc
WorkPc == {"idle", "cmd_at", "cmd_ls", "cmd_get_prop", "cmd_attach", "cmd_child_added",
           "cmd_subscribe_add_remove", "reply", "reply_error", "find_child",
           "make_child", "attach_child"} \cup NidPc

Local == [pc : AppPc \cup WorkPc, then : AppPc \cup WorkPc, node : Nodes, nid : Nat,
          pnid : Nat, msg : Message]

(* What each variable holds, the contents of the two maps included.        *)
Types ==
  /\ program \in Programs
  /\ DOMAIN tracked = End /\ DOMAIN tree = End
  /\ made \in [End -> Nat] /\ watched \in [End -> SUBSET Nodes]
  /\ holder \in [End -> Thread \cup {NoThread}]
  /\ current_nid \in Nat \ {0} /\ io \in [End -> Nat]
  /\ wire \in [End -> Seq(Message)] /\ package_queue \in [End -> Seq(Message)]
  /\ th \in [Thread -> Local] /\ in \in [End -> Message]
  /\ ready \subseteq Thread /\ ops \in [End -> 0 .. MaxOps]

Maps ==
  \A e \in End :
    /\ DOMAIN tracked[e] \subseteq Nat
    /\ \A i \in DOMAIN tracked[e] : /\ tracked[e][i].node \in Nodes
                                    /\ tracked[e][i].obj \in 0 .. made[e]
    /\ DOMAIN tree[e] \subseteq DOMAIN Parent
    /\ \A n \in DOMAIN tree[e] : tree[e][n].obj \in 0 .. made[e] /\ tree[e][n].nid \in Nat

(* A package to e: requests are made by the peer's threads, answers are to *)
(* e's, only the client asks for nids, and only an application that        *)
(* fetches sends cmd_at.                                                   *)
Request == {"at", "ls", "get", "gen"}

Sent(m, e) ==
  /\ m.kind \in Request => m.from \in Thread /\ EndOf(m.from) = Peer(e)
  /\ IsAnswer(m) => m.from \in Thread /\ EndOf(m.from) = e
  /\ m.kind \notin Request /\ ~IsAnswer(m) => m.from = NoThread
  /\ m.kind = "gen" => e = "server"
  /\ m.kind = "at" => "fetch" \in Ops[Peer(e)]
  /\ m.kind \in {"at", "attach", "child"} => m.node \in DOMAIN Parent
  /\ m.kind # "none"

(* A package the worker gets.                                              *)
Queued(m, e) == Sent(m, e) /\ ~IsAnswer(m) /\ m.kind # "gen"

Packages ==
  \A e \in End :
    /\ \A i \in DOMAIN wire[e] : Sent(wire[e][i], e)
    /\ \A i \in DOMAIN package_queue[e] : Queued(package_queue[e][i], e)

(* The reading thread between load and store has the request before it.    *)
Reading ==
  /\ io["client"] = 0
  /\ io["server"] # 0 => wire["server"] # <<>> /\ Head(wire["server"]).kind = "gen"

Announces == {"child_nid", "write_child", "write_attach"}

(* What a thread of the application is about.                              *)
AppOK(e, r) ==
  /\ r.pc \in AppPc
  /\ r.pc \in NidPc =>
       /\ r.then \in Announces
       /\ r.node = Root \/ r.node \in DOMAIN tree[e]
       /\ r.then # "child_nid" => r.node \in DOMAIN Parent
  /\ r.pc \in {"write_child", "write_attach"} => r.node \in DOMAIN Parent
  /\ r.pc = "child_nid" \/ (r.pc \in NidPc /\ r.then = "child_nid") =>
       r.msg.node \in DOMAIN tree[e]
  /\ r.pc \in {"fetch", "insert"} => r.node \in DOMAIN Parent
  /\ r.pc = "insert" => r.pnid \in 0 .. made[e]
  /\ r.pc = "store_nid" => e = "server"
  /\ r.pc = "gen" => e = "client"
  /\ r.pc = "ls" => "ls" \in Ops[e]

(* What the worker is about.  While it serves a request it owes the reply. *)
Serves == {"cmd_at", "cmd_ls", "cmd_get_prop", "reply", "reply_error"} \cup NidPc

WorkOK(e, r) ==
  /\ r.pc \in WorkPc
  /\ r.pc # "idle" => Queued(r.msg, e)
  /\ r.pc \in Serves <=> r.pc # "idle" /\ r.msg.kind \in Request
  /\ r.pc = "cmd_at" => r.msg.kind = "at"
  /\ r.pc \in NidPc => /\ r.msg.kind = "at" /\ r.then = "reply"
                       /\ r.node \in DOMAIN tree[e]
  /\ r.pc \in {"cmd_attach", "cmd_child_added", "find_child", "make_child",
               "attach_child"} => r.msg.kind \in {"attach", "child"}
  /\ r.pc = "attach_child" => r.nid \in 0 .. made[e]
  /\ r.pc = "store_nid" => e = "server"
  /\ r.pc = "gen" => e = "client"

Threads == \A e \in End : AppOK(e, th[App(e)]) /\ WorkOK(e, th[Worker(e)])

(* tracked_mutex: one of the end's threads has it, and who waits for the   *)
(* peer has it, but for ls.                                                *)
Owning == {"store_nid", "gen", "write_attach", "fetch", "update"}

Locks ==
  /\ \A e \in End : holder[e] \in {NoThread, App(e), Worker(e)}
  /\ \A t \in Thread : th[t].pc \in Owning => holder[EndOf(t)] = t

TInv == Types /\ Maps /\ Packages /\ Reading /\ Threads /\ Locks

(* Where a request of t, or the reply to it, is.                           *)
Has(s, t)     == \E i \in DOMAIN s : s[i].from = t
NotTwice(s, t) == \A i, j \in DOMAIN s : s[i].from = t /\ s[j].from = t => i = j

Asked(t)    == Has(wire[Peer(EndOf(t))], t)
InQueue(t)  == Has(package_queue[Peer(EndOf(t))], t)
IsServed(t) == LET w == th[Worker(Peer(EndOf(t)))] IN w.pc \in Serves /\ w.msg.from = t
Replied(t)  == Has(wire[EndOf(t)], t)

(* It is in one place, once, and while it is anywhere t waits for it.      *)
Calls ==
  \A t \in Thread :
    /\ Asked(t) \/ InQueue(t) \/ IsServed(t) \/ Replied(t) =>
         th[t].pc \in Waiting /\ t \notin ready
    /\ Asked(t) => ~InQueue(t) /\ ~IsServed(t) /\ ~Replied(t)
    /\ InQueue(t) => ~IsServed(t) /\ ~Replied(t)
    /\ IsServed(t) => ~Replied(t)
    /\ NotTwice(wire[Peer(EndOf(t))], t) /\ NotTwice(wire[EndOf(t)], t)
    /\ NotTwice(package_queue[Peer(EndOf(t))], t)

(* ls sends without tracked_mutex, and the client's worker waits for a nid *)
(* when the server fetches: the two do not go together.                    *)
LsIsAlone == ~("ls" \in Ops["client"] /\ "fetch" \in Ops["server"])

Woken == LsIsAlone => WokenByOwnReply

CInv == TInv /\ Calls /\ Woken

-----------------------------------------------------------------------------
USE NodeAssumption

(* The two ends and their threads.                                         *)
LEMMA Ends ==
  /\ "client" \in End /\ "server" \in End /\ "client" # "server"
  /\ Peer("client") = "server" /\ Peer("server") = "client"
  /\ \A e \in End : /\ Peer(e) \in End /\ Peer(e) # e /\ Peer(Peer(e)) = e
                    /\ e = "client" \/ e = "server"
                    /\ \A x \in End : x = e \/ x = Peer(e)
  BY DEF End, Peer

(* Each end has the application's thread and the worker's, and no others.  *)
LEMMA TheThreads ==
  /\ \A e \in End : /\ App(e) \in Thread /\ EndOf(App(e)) = e
                    /\ Worker(e) \in Thread /\ EndOf(Worker(e)) = e
                    /\ \A x \in End : App(x) # Worker(e)
                    /\ \A x \in End : App(x) = App(e) \/ Worker(x) = Worker(e) => x = e
  /\ \A t \in Thread : /\ EndOf(t) \in End /\ t # NoThread
                       /\ t = App(EndOf(t)) \/ t = Worker(EndOf(t))
  BY DEF Thread, App, Worker, EndOf

(* A package added to a queue, ...                                         *)
LEMMA Added ==
  ASSUME NEW S, NEW s \in Seq(S), NEW m \in S
  PROVE  LET a == Append(s, m) IN
         /\ a \in Seq(S) /\ a # <<>> /\ (s # <<>> => Head(a) = Head(s))
         /\ \A i \in DOMAIN a : a[i] = m \/ (i \in DOMAIN s /\ a[i] = s[i])
         /\ \A t : /\ Has(a, t) <=> Has(s, t) \/ m.from = t
                   /\ NotTwice(s, t) /\ (m.from = t => ~Has(s, t)) => NotTwice(a, t)
<1> DEFINE a == Append(s, m)
<1> DEFINE n == Len(s)
<1>1. /\ n \in Nat /\ DOMAIN s = 1 .. n
  BY LenProperties
<1>2. /\ a \in Seq(S) /\ Len(a) = n + 1 /\ a[n + 1] = m /\ a # <<>>
      /\ \A i \in 1 .. n : a[i] = s[i]
  BY AppendProperties
<1>3. DOMAIN a = 1 .. n + 1
  BY <1>2, LenProperties
<1>4. s # <<>> => Head(a) = Head(s)
  BY AppendProperties
<1> HIDE DEF a, n
<1>5. \A i \in DOMAIN a : (i = n + 1 /\ a[i] = m) \/ (i \in DOMAIN s /\ a[i] = s[i])
  BY <1>1, <1>2, <1>3
<1>6. /\ n + 1 \in DOMAIN a /\ n + 1 \notin DOMAIN s
      /\ \A i \in DOMAIN s : i \in DOMAIN a /\ a[i] = s[i]
  BY <1>1, <1>2, <1>3
<1>7. \A t : Has(a, t) <=> Has(s, t) \/ m.from = t
  BY <1>2, <1>5, <1>6 DEF Has
<1>8. \A t : NotTwice(s, t) /\ (m.from = t => ~Has(s, t)) => NotTwice(a, t)
  BY <1>2, <1>5 DEF Has, NotTwice
<1> QED BY <1>2, <1>4, <1>5, <1>7, <1>8 DEF a

(* ... and the first one taken off it.                                     *)
LEMMA Taken ==
  ASSUME NEW S, NEW s \in Seq(S), s # <<>>
  PROVE  LET r == Tail(s) IN
         /\ r \in Seq(S) /\ Head(s) \in S /\ \E i \in DOMAIN s : s[i] = Head(s)
         /\ \A i \in DOMAIN r : \E j \in DOMAIN s : r[i] = s[j]
         /\ \A t : /\ Has(r, t) => Has(s, t)
                   /\ NotTwice(s, t) => NotTwice(r, t)
                   /\ Head(s).from = t => Has(s, t)
                   /\ NotTwice(s, t) /\ Head(s).from = t => ~Has(r, t)
<1> DEFINE r == Tail(s)
<1> DEFINE n == Len(s)
<1>1. /\ n \in Nat /\ n # 0 /\ DOMAIN s = 1 .. n
  BY LenProperties, EmptySeq
<1>2. /\ r \in Seq(S) /\ Len(r) = n - 1 /\ \A i \in 1 .. n - 1 : r[i] = s[i + 1]
  BY HeadTailProperties
<1>3. DOMAIN r = 1 .. n - 1
  BY <1>2, LenProperties
<1>4. Head(s) \in S /\ Head(s) = s[1] /\ 1 \in DOMAIN s
  BY <1>1, HeadTailProperties
<1> HIDE DEF r, n
<1>5. \A i \in DOMAIN r : i + 1 \in DOMAIN s /\ r[i] = s[i + 1] /\ i + 1 # 1
  BY <1>1, <1>2, <1>3
<1>6. \A i, j \in DOMAIN r : i + 1 = j + 1 => i = j
  BY <1>1, <1>3
<1>7. \A t : Has(r, t) => Has(s, t)
  BY <1>5 DEF Has
<1>8. \A t : NotTwice(s, t) => NotTwice(r, t)
  BY <1>5, <1>6 DEF NotTwice
<1>9. \A t : Head(s).from = t => Has(s, t)
  BY <1>4 DEF Has
<1>10. \A t : NotTwice(s, t) /\ Head(s).from = t => ~Has(r, t)
  BY <1>4, <1>5 DEF Has, NotTwice
<1>11. \A i \in DOMAIN r : \E j \in DOMAIN s : r[i] = s[j]
  BY <1>5
<1> QED BY <1>2, <1>4, <1>7, <1>8, <1>9, <1>10, <1>11 DEF r

(* The packages that are written.                                          *)
LEMMA Messages ==
  ASSUME NEW k \in Kind, NEW f \in Thread \cup {NoThread}, NEW i \in Nat,
         NEW n \in Nodes, NEW c \in Nat
  PROVE  LET m == Msg(k, f, i, n, c) IN
         /\ m \in Message /\ m.kind = k /\ m.from = f /\ m.nid = i /\ m.node = n
         /\ m.cnid = c
  BY DEF Msg, Message

(* A thread of either end moves; the others stay where they are.           *)
LEMMA ThreadsStay ==
  ASSUME TInv, NEW t \in Thread, program' = program,
         \A u \in Thread \ {t} : th'[u] = th[u],
         \A e \in End : /\ DOMAIN tree[e] \subseteq DOMAIN tree'[e]
                        /\ made'[e] \in Nat /\ made[e] <= made'[e]
                        /\ t = App(e) => AppOK(e, th[App(e)])'
                        /\ t = Worker(e) => WorkOK(e, th[Worker(e)])'
  PROVE  Threads'
<1>1. ASSUME NEW e \in End PROVE AppOK(e, th[App(e)])'
  <2>1. CASE t # App(e)
    <3>1. th'[App(e)] = th[App(e)] /\ AppOK(e, th[App(e)])
      BY <2>1, TheThreads DEF TInv, Threads
    <3>2. made[e] \in Nat
      BY DEF TInv, Types
    <3> QED BY <3>1, <3>2 DEF AppOK, Parent, Ops
  <2> QED BY <2>1
<1>2. ASSUME NEW e \in End PROVE WorkOK(e, th[Worker(e)])'
  <2>1. CASE t # Worker(e)
    <3>1. th'[Worker(e)] = th[Worker(e)] /\ WorkOK(e, th[Worker(e)])
      BY <2>1, TheThreads DEF TInv, Threads
    <3>2. made[e] \in Nat
      BY DEF TInv, Types
    <3> QED BY <3>1, <3>2 DEF WorkOK, Queued, Sent, Parent, Ops
  <2> QED BY <2>1
<1> QED BY <1>1, <1>2 DEF Threads

(* It locks or unlocks tracked_mutex, or leaves it.                        *)
LEMMA LocksStay ==
  ASSUME TInv, NEW t \in Thread, \A u \in Thread \ {t} : th'[u] = th[u],
         \A e \in End : \/ holder'[e] = holder[e]
                        \/ e = EndOf(t) /\ holder'[e] = t /\ CanLock(t)
                        \/ e = EndOf(t) /\ holder'[e] = NoThread /\ CanLock(t),
         th'[t].pc \in Owning => holder'[EndOf(t)] = t
  PROVE  Locks'
<1>1. \A e \in End : holder[e] \in {NoThread, App(e), Worker(e)}
  BY DEF TInv, Locks
<1>2. \A e \in End : holder'[e] \in {NoThread, App(e), Worker(e)}
  BY <1>1, TheThreads
<1>3. ASSUME NEW u \in Thread, th'[u].pc \in Owning
      PROVE  holder'[EndOf(u)] = u
  <2>1. CASE u = t
    BY <1>3, <2>1
  <2>2. CASE u # t
    <3>1. holder[EndOf(u)] = u /\ EndOf(u) \in End /\ u # NoThread
      BY <1>3, <2>2, TheThreads DEF TInv, Locks
    <3>2. EndOf(u) = EndOf(t) => ~CanLock(t)
      BY <2>2, <3>1 DEF CanLock
    <3> QED BY <3>1, <3>2
  <2> QED BY <2>1, <2>2
<1> QED BY <1>2, <1>3 DEF Locks

(* The calls of the others, and of t unless it was woken, are where they   *)
(* were when nothing but notes comes into a queue.                         *)
LEMMA CallsStay ==
  ASSUME Calls, NEW t \in Thread, \A u \in Thread \ {t} : th'[u] = th[u],
         \A x \in End, u \in Thread :
           /\ Has(wire'[x], u) => Has(wire[x], u)
           /\ NotTwice(wire[x], u) => NotTwice(wire'[x], u)
           /\ Has(package_queue'[x], u) => Has(package_queue[x], u)
           /\ NotTwice(package_queue[x], u) => NotTwice(package_queue'[x], u),
         ready' = ready,
         th[t].pc \in Waiting /\ t \notin ready => th'[t].pc \in Waiting,
         \A e \in End : t = Worker(e) /\ th'[t].pc \in Serves =>
                          th[t].pc \in Serves /\ th'[t].msg.from = th[t].msg.from
  PROVE  Calls'
<1>1. ASSUME NEW u \in Thread
      PROVE  /\ Asked(u)' => Asked(u)
             /\ InQueue(u)' => InQueue(u)
             /\ IsServed(u)' => IsServed(u)
             /\ Replied(u)' => Replied(u)
  <2>1. EndOf(u) \in End /\ Peer(EndOf(u)) \in End
    BY TheThreads, Ends
  <2>2. Worker(Peer(EndOf(u))) \in Thread
    BY <2>1, TheThreads
  <2>3. IsServed(u)' => IsServed(u)
    BY <2>1, <2>2 DEF IsServed
  <2> QED BY <2>1, <2>3 DEF Asked, InQueue, Replied
<1>2. ASSUME NEW u \in Thread
      PROVE  th[u].pc \in Waiting /\ u \notin ready => th'[u].pc \in Waiting
  OBVIOUS
<1>3. \A u \in Thread : EndOf(u) \in End /\ Peer(EndOf(u)) \in End
  BY TheThreads, Ends
<1> QED BY <1>1, <1>2, <1>3 DEF Calls

(* A call begins: the request is the only one under its thread.            *)
LEMMA CallsBegin ==
  ASSUME TInv, Calls, NEW t \in Thread, \A u \in Thread \ {t} : th'[u] = th[u],
         NEW m \in Message, m.from = t,
         wire' = [wire EXCEPT ![Peer(EndOf(t))] = Append(@, m)],
         package_queue' = package_queue, ready' = ready \ {t},
         th[t].pc \notin Waiting, th'[t].pc \in Waiting,
         \A e \in End : t = Worker(e) /\ th'[t].pc \in Serves =>
                          th[t].pc \in Serves /\ th'[t].msg.from = th[t].msg.from
  PROVE  Calls'
<1> DEFINE p == Peer(EndOf(t))
<1>1. /\ p \in End /\ EndOf(t) \in End /\ EndOf(t) # p /\ wire \in [End -> Seq(Message)]
  BY TheThreads, Ends DEF TInv, Types
<1> HIDE DEF p
<1>2. /\ \A u : Has(wire'[p], u) <=> Has(wire[p], u) \/ u = t
      /\ \A u : NotTwice(wire[p], u) /\ (u = t => ~Has(wire[p], u)) => NotTwice(wire'[p], u)
      /\ \A x \in End : x # p => wire'[x] = wire[x]
  <2>1. wire'[p] = Append(wire[p], m) /\ wire[p] \in Seq(Message)
    BY <1>1 DEF p
  <2>2. \A u : /\ Has(Append(wire[p], m), u) <=> Has(wire[p], u) \/ m.from = u
               /\ NotTwice(wire[p], u) /\ (m.from = u => ~Has(wire[p], u)) =>
                    NotTwice(Append(wire[p], m), u)
    BY <2>1, Added
  <2>3. \A x \in End : x # p => wire'[x] = wire[x]
    BY <1>1 DEF p
  <2> QED BY <2>1, <2>2, <2>3
<1>3. ~Asked(t) /\ ~InQueue(t) /\ ~IsServed(t) /\ ~Replied(t)
  BY DEF Calls
<1>4. ASSUME NEW u \in Thread
      PROVE  /\ Asked(u)' => Asked(u) \/ u = t
             /\ InQueue(u)' => InQueue(u)
             /\ IsServed(u)' => IsServed(u)
             /\ Replied(u)' => Replied(u)
             /\ NotTwice(wire[Peer(EndOf(u))], u)'
             /\ NotTwice(wire[EndOf(u)], u)'
             /\ NotTwice(package_queue[Peer(EndOf(u))], u)'
  <2>1. /\ EndOf(u) \in End /\ Peer(EndOf(u)) \in End /\ Peer(EndOf(u)) # EndOf(u)
        /\ Worker(Peer(EndOf(u))) \in Thread
        /\ u = t => Peer(EndOf(u)) = p
    BY TheThreads, Ends DEF p
  <2>2. IsServed(u)' => IsServed(u)
    BY <2>1 DEF IsServed
  <2>3. /\ NotTwice(wire[Peer(EndOf(u))], u) /\ NotTwice(wire[EndOf(u)], u)
        /\ NotTwice(package_queue[Peer(EndOf(u))], u)
    BY DEF Calls
  <2>4. u = t => ~Has(wire[p], u)
    BY <1>3, <2>1 DEF Asked
  <2>5. /\ NotTwice(wire'[Peer(EndOf(u))], u) /\ NotTwice(wire'[EndOf(u)], u)
    BY <1>2, <2>1, <2>3, <2>4
  <2>6. (Asked(u)' => Asked(u) \/ u = t) /\ (Replied(u)' => Replied(u))
    <3>1. u = t => EndOf(u) # p
      BY <1>1
    <3> QED BY <1>2, <2>1, <3>1 DEF Asked, Replied
  <2> QED BY <2>2, <2>3, <2>5, <2>6 DEF InQueue
<1> QED BY <1>3, <1>4 DEF Calls

(* A reply is found by whom it woke as long as "in" stays.                 *)
LEMMA WokenStays ==
  ASSUME Woken, in' = in, program' = program,
         \A t \in Thread : t \in ready' /\ th'[t].pc \in Waiting =>
                             t \in ready /\ th[t].pc \in Waiting
  PROVE  Woken'
  BY DEF Woken, LsIsAlone, WokenByOwnReply, Ops

(* What is on its way stays well formed, when nothing is written ...       *)
LEMMA PackagesStay ==
  ASSUME TInv, program' = program, wire' = wire, package_queue' = package_queue,
         io' = io
  PROVE  Packages' /\ Reading'
  BY DEF TInv, Packages, Reading, Queued, Sent, Parent, Ops

(* ... and when something is.                                              *)
LEMMA PackagesWrite ==
  ASSUME TInv, program' = program, NEW x \in End, NEW m \in Message, Sent(m, x),
         wire' = [wire EXCEPT ![x] = Append(@, m)],
         package_queue' = package_queue, io' = io
  PROVE  /\ wire' \in [End -> Seq(Message)] /\ Packages' /\ Reading'
         /\ m.from = NoThread =>
              \A y \in End, u \in Thread :
                /\ Has(wire'[y], u) => Has(wire[y], u)
                /\ NotTwice(wire[y], u) => NotTwice(wire'[y], u)
<1>1. wire \in [End -> Seq(Message)]
  BY DEF TInv, Types
<1> DEFINE M == Message
<1>2. m \in M /\ wire \in [End -> Seq(M)]
  BY <1>1
<1> HIDE DEF M
<1>3. /\ wire'[x] = Append(wire[x], m) /\ wire[x] \in Seq(M)
      /\ \A y \in End : y # x => wire'[y] = wire[y]
  BY <1>2
<1>4. LET a == Append(wire[x], m) IN
         /\ a \in Seq(M) /\ a # <<>> /\ (wire[x] # <<>> => Head(a) = Head(wire[x]))
         /\ \A i \in DOMAIN a : a[i] = m \/ (i \in DOMAIN wire[x] /\ a[i] = wire[x][i])
         /\ \A t : /\ Has(a, t) <=> Has(wire[x], t) \/ m.from = t
                   /\ NotTwice(wire[x], t) /\ (m.from = t => ~Has(wire[x], t)) =>
                        NotTwice(a, t)
  BY <1>2, <1>3, Added
<1>5. wire' \in [End -> Seq(M)]
  BY <1>2, <1>3, <1>4
<1>6. \A y \in End : \A i \in DOMAIN wire'[y] : Sent(wire'[y][i], y)
  BY <1>3, <1>4 DEF TInv, Packages
<1>7. Packages'
  BY <1>6 DEF TInv, Packages, Queued, Sent, Parent, Ops
<1>8. Reading'
  BY <1>3, <1>4, Ends DEF TInv, Reading
<1>9. m.from = NoThread =>
        \A y \in End, u \in Thread :
          /\ Has(wire'[y], u) => Has(wire[y], u)
          /\ NotTwice(wire[y], u) => NotTwice(wire'[y], u)
  BY <1>3, <1>4, TheThreads
<1> QED BY <1>5, <1>7, <1>8, <1>9 DEF M

(* The maps: an entry of tracked is replaced or added, ...                 *)
LEMMA TracksOne ==
  ASSUME TInv, NEW e \in End, NEW i, NEW n, NEW k, DoTrack(e, i, Object(n, k))
  PROVE  /\ DOMAIN tracked' = End
         /\ \A x \in End : DOMAIN tracked'[x] \subseteq DOMAIN tracked[x] \cup {i}
         /\ \A x \in End : \A j \in DOMAIN tracked'[x] :
              \/ j \in DOMAIN tracked[x] /\ tracked'[x][j] = tracked[x][j]
              \/ /\ x = e /\ j = i
                 /\ tracked'[x][j].node = n /\ tracked'[x][j].obj = k
<1>1. DOMAIN tracked = End
  BY DEF TInv, Types
<1>2. /\ DOMAIN tracked' = End /\ tracked'[e] = Put(tracked[e], i, Object(n, k))
      /\ \A x \in End : x # e => tracked'[x] = tracked[x]
  BY <1>1 DEF DoTrack
<1>3. /\ DOMAIN tracked'[e] = DOMAIN tracked[e] \cup {i}
      /\ \A j \in DOMAIN tracked'[e] : tracked'[e][j] = IF j = i THEN Object(n, k)
                                                        ELSE tracked[e][j]
  BY <1>2 DEF Put
<1>4. Object(n, k).node = n /\ Object(n, k).obj = k
  BY DEF Object
<1> QED BY <1>2, <1>3, <1>4

(* ... and a node that is not in the tree is attached.                     *)
LEMMA AttachesOne ==
  ASSUME TInv, NEW e \in End, NEW n, NEW k, NEW i, AttachToTree(e, n, k, i)
  PROVE  /\ DOMAIN tree' = End /\ n \in DOMAIN tree'[e]
         /\ \A x \in End : /\ DOMAIN tree[x] \subseteq DOMAIN tree'[x]
                           /\ DOMAIN tree'[x] \subseteq DOMAIN tree[x] \cup {n}
         /\ \A x \in End : \A y \in DOMAIN tree'[x] :
              \/ y \in DOMAIN tree[x] /\ tree'[x][y] = tree[x][y]
              \/ x = e /\ y = n /\ tree'[x][y].obj = k /\ tree'[x][y].nid = i
<1>1. DOMAIN tree = End
  BY DEF TInv, Types
<1>2. CASE n \in DOMAIN tree[e]
  BY <1>1, <1>2 DEF AttachToTree
<1>3. CASE n \notin DOMAIN tree[e]
  <2>1. /\ DOMAIN tree' = End /\ tree'[e] = Put(tree[e], n, [obj |-> k, nid |-> i])
        /\ \A x \in End : x # e => tree'[x] = tree[x]
    BY <1>1, <1>3 DEF AttachToTree
  <2>2. /\ DOMAIN tree'[e] = DOMAIN tree[e] \cup {n}
        /\ \A y \in DOMAIN tree'[e] : tree'[e][y] = IF y = n THEN [obj |-> k, nid |-> i]
                                                    ELSE tree[e][y]
    BY <2>1 DEF Put
  <2> QED BY <2>1, <2>2
<1> QED BY <1>2, <1>3

(* The maps stay well formed.                                              *)
LEMMA MapsStay ==
  ASSUME TInv, program' = program,
         \A x \in End :
           /\ made'[x] \in Nat /\ made[x] <= made'[x]
           /\ DOMAIN tracked'[x] \subseteq Nat
           /\ \A j \in DOMAIN tracked'[x] :
                \/ j \in DOMAIN tracked[x] /\ tracked'[x][j] = tracked[x][j]
                \/ /\ tracked'[x][j].node \in Nodes
                   /\ tracked'[x][j].obj \in 0 .. made'[x]
           /\ DOMAIN tree'[x] \subseteq DOMAIN Parent
           /\ \A y \in DOMAIN tree'[x] :
                \/ y \in DOMAIN tree[x] /\ tree'[x][y] = tree[x][y]
                \/ tree'[x][y].obj \in 0 .. made'[x] /\ tree'[x][y].nid \in Nat
  PROVE  Maps'
<1>1. \A x \in End : made[x] \in Nat
  BY DEF TInv, Types
<1>2. \A x \in End : \A k \in 0 .. made[x] : k \in 0 .. made'[x]
  BY <1>1
<1>3. Parent' = Parent
  BY DEF Parent
<1> QED BY <1>2, <1>3 DEF TInv, Maps

(* The application's nodes.                                                *)
LEMMA Nodewise ==
  ASSUME Types
  PROVE  /\ DOMAIN Parent \subseteq Node /\ Root \notin DOMAIN Parent
         /\ \A n \in DOMAIN Parent : n \in Nodes /\ Parent[n] \in Nodes
         /\ \A n \in DOMAIN Parent : Parent[n] \in DOMAIN Parent \cup {Root}
  BY DEF Types, IsProgram, Parent, Nodes

(* A thread that has nothing to do.                                        *)
LEMMA IdleIs ==
  /\ Idle \in Local /\ Idle.pc = "idle" /\ NoMsg \in Message
  /\ Idle.pc \notin Serves /\ Idle.pc \notin Waiting /\ Idle.pc \notin Owning
<1>1. NoMsg \in Message
  BY Messages DEF NoMsg, Note, Kind, Nodes
<1> QED BY <1>1 DEF Idle, Local, AppPc, WorkPc, NidPc, Serves, Waiting, Owning, Nodes

(* One thread moves.                                                       *)
LEMMA Moved ==
  ASSUME Types, NEW t \in Thread, NEW r \in Local, th' = [th EXCEPT ![t] = r]
  PROVE  /\ th' \in [Thread -> Local] /\ th'[t] = r
         /\ \A u \in Thread \ {t} : th'[u] = th[u]
  BY DEF Types

-----------------------------------------------------------------------------
(* A step grows the maps, and takes or gives back tracked_mutex.           *)
MapStep ==
  /\ made' \in [End -> Nat] /\ watched' \in [End -> SUBSET Nodes]
  /\ DOMAIN tracked' = End /\ DOMAIN tree' = End
  /\ \A x \in End : made[x] <= made'[x] /\ DOMAIN tree[x] \subseteq DOMAIN tree'[x]
  /\ Maps'

LockStep(t, r) ==
  /\ \/ holder' = holder
     \/ CanLock(t) /\ holder' = [holder EXCEPT ![EndOf(t)] = t]
     \/ CanLock(t) /\ holder' = [holder EXCEPT ![EndOf(t)] = NoThread]
  /\ r.pc \in Owning => holder'[EndOf(t)] = t

(* Where the thread t goes it does what may be done there.                 *)
ThreadStep(t) ==
  \A e \in End : /\ t = App(e) => AppOK(e, th[App(e)])'
                 /\ t = Worker(e) => WorkOK(e, th[Worker(e)])'

(* It goes on with the request it serves, if it serves one.                *)
ServesOn(t, r) ==
  \A e \in End : t = Worker(e) /\ r.pc \in Serves =>
                   th[t].pc \in Serves /\ r.msg.from = th[t].msg.from

(* The maps as they were.                                                  *)
LEMMA MapsAsTheyWere ==
  ASSUME TInv, UNCHANGED <<tracked, tree, made>>, program' = program,
         watched' \in [End -> SUBSET Nodes]
  PROVE  MapStep
<1>1. made \in [End -> Nat] /\ DOMAIN tracked = End /\ DOMAIN tree = End
  BY DEF TInv, Types
<1>2. Maps'
  BY DEF TInv, Maps, Parent
<1> QED BY <1>1, <1>2 DEF MapStep

(* A step of one thread keeps everything its parts keep.                   *)
LEMMA Assemble ==
  ASSUME CInv, program' = program, NEW t \in Thread, NEW r \in Local,
         th' = [th EXCEPT ![t] = r], MapStep, LockStep(t, r), ThreadStep(t),
         current_nid' \in Nat \ {0}, ops' \in [End -> 0 .. MaxOps],
         io' \in [End -> Nat], wire' \in [End -> Seq(Message)],
         package_queue' \in [End -> Seq(Message)], in' \in [End -> Message],
         ready' \subseteq Thread, Packages', Reading', Calls', Woken'
  PROVE  CInv'
<1>1. TInv /\ Types
  BY DEF CInv, TInv
<1>2. /\ th' \in [Thread -> Local] /\ th'[t] = r
      /\ \A u \in Thread \ {t} : th'[u] = th[u]
  BY <1>1, Moved
<1>3. /\ holder \in [End -> Thread \cup {NoThread}] /\ EndOf(t) \in End
      /\ program \in Programs
  BY <1>1, TheThreads DEF Types
<1>4. holder' \in [End -> Thread \cup {NoThread}]
  BY <1>3 DEF LockStep
<1>5. Types'
  BY <1>2, <1>3, <1>4 DEF Types, MapStep
<1>6. Locks'
  <2>1. \A e \in End : \/ holder'[e] = holder[e]
                       \/ e = EndOf(t) /\ holder'[e] = t /\ CanLock(t)
                       \/ e = EndOf(t) /\ holder'[e] = NoThread /\ CanLock(t)
    BY <1>3 DEF LockStep
  <2>2. th'[t].pc \in Owning => holder'[EndOf(t)] = t
    BY <1>2 DEF LockStep
  <2> QED BY <1>1, <1>2, <2>1, <2>2, LocksStay
<1>7. Threads'
  <2>1. \A e \in End : /\ DOMAIN tree[e] \subseteq DOMAIN tree'[e]
                       /\ made'[e] \in Nat /\ made[e] <= made'[e]
    BY DEF MapStep
  <2> QED BY <1>1, <1>2, <2>1, ThreadsStay DEF ThreadStep
<1> QED BY <1>5, <1>6, <1>7 DEF CInv, TInv, MapStep

(* A step that sends nothing.                                              *)
LEMMA QuietStep ==
  ASSUME CInv, program' = program, NEW t \in Thread, NEW r \in Local,
         th' = [th EXCEPT ![t] = r], MapStep, LockStep(t, r), ThreadStep(t),
         ServesOn(t, r), current_nid' \in Nat \ {0}, ops' \in [End -> 0 .. MaxOps],
         UNCHANGED <<wire, package_queue, in, ready, io>>,
         r.pc \notin Waiting, th[t].pc \in Waiting => t \in ready
  PROVE  CInv'
<1>1. TInv /\ Types /\ Calls /\ Woken
  BY DEF CInv, TInv
<1>2. /\ th'[t] = r /\ \A u \in Thread \ {t} : th'[u] = th[u]
  BY <1>1, Moved
<1>3. Calls'
  BY <1>1, <1>2, CallsStay DEF ServesOn
<1>4. Woken'
  BY <1>1, <1>2, WokenStays
<1>5. Packages' /\ Reading'
  BY <1>1, PackagesStay
<1>6. /\ io' \in [End -> Nat] /\ wire' \in [End -> Seq(Message)]
      /\ package_queue' \in [End -> Seq(Message)] /\ in' \in [End -> Message]
      /\ ready' \subseteq Thread
  BY <1>1 DEF Types
<1> QED BY <1>3, <1>4, <1>5, <1>6, Assemble

(* A step that writes a package nobody waits for.                          *)
LEMMA NoteStep ==
  ASSUME CInv, program' = program, NEW t \in Thread, NEW r \in Local,
         th' = [th EXCEPT ![t] = r], MapStep, LockStep(t, r), ThreadStep(t),
         ServesOn(t, r), current_nid' \in Nat \ {0}, ops' \in [End -> 0 .. MaxOps],
         NEW x \in End, NEW m \in Message, Sent(m, x), m.from = NoThread,
         wire' = [wire EXCEPT ![x] = Append(@, m)],
         UNCHANGED <<package_queue, in, ready, io>>,
         r.pc \notin Waiting, th[t].pc \in Waiting => t \in ready
  PROVE  CInv'
<1>1. TInv /\ Types /\ Calls /\ Woken
  BY DEF CInv, TInv
<1>2. /\ th'[t] = r /\ \A u \in Thread \ {t} : th'[u] = th[u]
  BY <1>1, Moved
<1>3. /\ wire' \in [End -> Seq(Message)] /\ Packages' /\ Reading'
      /\ \A y \in End, u \in Thread :
           /\ Has(wire'[y], u) => Has(wire[y], u)
           /\ NotTwice(wire[y], u) => NotTwice(wire'[y], u)
  BY <1>1, PackagesWrite
<1>4. Calls'
  BY <1>1, <1>2, <1>3, CallsStay DEF ServesOn
<1>5. Woken'
  BY <1>1, <1>2, WokenStays
<1>6. /\ io' \in [End -> Nat] /\ package_queue' \in [End -> Seq(Message)]
      /\ in' \in [End -> Message] /\ ready' \subseteq Thread
  BY <1>1 DEF Types
<1> QED BY <1>3, <1>4, <1>5, <1>6, Assemble

(* A step that sends a request and waits.                                  *)
LEMMA RequestStep ==
  ASSUME CInv, program' = program, NEW t \in Thread, NEW r \in Local,
         th' = [th EXCEPT ![t] = r], MapStep, LockStep(t, r), ThreadStep(t),
         ServesOn(t, r), current_nid' \in Nat \ {0}, ops' \in [End -> 0 .. MaxOps],
         NEW m \in Message, Sent(m, Peer(EndOf(t))), m.from = t,
         wire' = [wire EXCEPT ![Peer(EndOf(t))] = Append(@, m)],
         ready' = ready \ {t}, UNCHANGED <<package_queue, in, io>>,
         r.pc \in Waiting, th[t].pc \notin Waiting
  PROVE  CInv'
<1>1. TInv /\ Types /\ Calls /\ Woken /\ Peer(EndOf(t)) \in End
  BY TheThreads, Ends DEF CInv, TInv
<1>2. /\ th'[t] = r /\ \A u \in Thread \ {t} : th'[u] = th[u]
  BY <1>1, Moved
<1>3. wire' \in [End -> Seq(Message)] /\ Packages' /\ Reading'
  BY <1>1, PackagesWrite
<1>4. Calls'
  BY <1>1, <1>2, CallsBegin DEF ServesOn
<1>5. Woken'
  BY <1>1, <1>2, WokenStays
<1>6. /\ io' \in [End -> Nat] /\ package_queue' \in [End -> Seq(Message)]
      /\ in' \in [End -> Message] /\ ready' \subseteq Thread
  BY <1>1 DEF Types
<1> QED BY <1>3, <1>4, <1>5, <1>6, Assemble

(* The maps of a step that attaches a node, ...                            *)
LEMMA Attaching ==
  ASSUME TInv, program' = program, NEW e \in End, NEW n \in DOMAIN Parent, NEW k,
         k \in 0 .. made[e], NEW i \in Nat, AttachToTree(e, n, k, i),
         UNCHANGED <<tracked, made, watched>>
  PROVE  MapStep /\ n \in DOMAIN tree'[e]
<1>1. /\ made \in [End -> Nat] /\ DOMAIN tracked = End /\ Maps
      /\ watched \in [End -> SUBSET Nodes]
  BY DEF TInv, Types
<1>2. /\ DOMAIN tree' = End /\ n \in DOMAIN tree'[e]
      /\ \A x \in End : /\ DOMAIN tree[x] \subseteq DOMAIN tree'[x]
                        /\ DOMAIN tree'[x] \subseteq DOMAIN tree[x] \cup {n}
      /\ \A x \in End : \A y \in DOMAIN tree'[x] :
           \/ y \in DOMAIN tree[x] /\ tree'[x][y] = tree[x][y]
           \/ x = e /\ y = n /\ tree'[x][y].obj = k /\ tree'[x][y].nid = i
  BY AttachesOne
<1>3. \A x \in End : made'[x] \in Nat /\ made[x] <= made'[x]
  BY <1>1
<1>4. Maps'
  BY <1>1, <1>2, <1>3, MapsStay DEF Maps
<1> QED BY <1>1, <1>2, <1>3, <1>4 DEF MapStep

(* ... of one that tracks it, with or without a new proxy, ...             *)
LEMMA Tracking ==
  ASSUME TInv, program' = program, NEW e \in End, NEW n \in Nodes, NEW k,
         made' = made \/ made' = [made EXCEPT ![e] = @ + 1],
         k \in 0 .. made'[e], NEW i \in Nat, DoTrack(e, i, Object(n, k)),
         UNCHANGED <<tree, watched>>
  PROVE  MapStep
<1>1. /\ made \in [End -> Nat] /\ DOMAIN tree = End /\ Maps
      /\ watched \in [End -> SUBSET Nodes]
  BY DEF TInv, Types
<1>2. /\ DOMAIN tracked' = End
      /\ \A x \in End : DOMAIN tracked'[x] \subseteq DOMAIN tracked[x] \cup {i}
      /\ \A x \in End : \A j \in DOMAIN tracked'[x] :
           \/ j \in DOMAIN tracked[x] /\ tracked'[x][j] = tracked[x][j]
           \/ /\ x = e /\ j = i
              /\ tracked'[x][j].node = n /\ tracked'[x][j].obj = k
  BY TracksOne
<1>3. made' \in [End -> Nat] /\ \A x \in End : made'[x] \in Nat /\ made[x] <= made'[x]
  BY <1>1
<1>4. Maps'
  BY <1>1, <1>2, <1>3, MapsStay DEF Maps
<1> QED BY <1>1, <1>2, <1>3, <1>4 DEF MapStep

(* ... and of one that does both.                                          *)
LEMMA TrackingAndAttaching ==
  ASSUME TInv, program' = program, NEW e \in End, NEW n \in DOMAIN Parent, NEW i \in Nat,
         made' = [made EXCEPT ![e] = @ + 1], DoTrack(e, i, Object(n, made[e] + 1)),
         AttachToTree(e, n, made[e] + 1, i), watched' = watched
  PROVE  MapStep
<1>1. /\ made \in [End -> Nat] /\ Maps /\ watched \in [End -> SUBSET Nodes] /\ n \in Nodes
  BY Nodewise DEF TInv, Types
<1> DEFINE k == made[e] + 1
<1>2. /\ made' \in [End -> Nat] /\ k \in 0 .. made'[e]
      /\ \A x \in End : made'[x] \in Nat /\ made[x] <= made'[x]
  BY <1>1
<1> HIDE DEF k
<1>3. /\ DOMAIN tracked' = End
      /\ \A x \in End : DOMAIN tracked'[x] \subseteq DOMAIN tracked[x] \cup {i}
      /\ \A x \in End : \A j \in DOMAIN tracked'[x] :
           \/ j \in DOMAIN tracked[x] /\ tracked'[x][j] = tracked[x][j]
           \/ /\ x = e /\ j = i
              /\ tracked'[x][j].node = n /\ tracked'[x][j].obj = k
  BY TracksOne DEF k
<1>4. /\ DOMAIN tree' = End
      /\ \A x \in End : /\ DOMAIN tree[x] \subseteq DOMAIN tree'[x]
                        /\ DOMAIN tree'[x] \subseteq DOMAIN tree[x] \cup {n}
      /\ \A x \in End : \A y \in DOMAIN tree'[x] :
           \/ y \in DOMAIN tree[x] /\ tree'[x][y] = tree[x][y]
           \/ x = e /\ y = n /\ tree'[x][y].obj = k /\ tree'[x][y].nid = i
  BY AttachesOne DEF k
<1>5. Maps'
  BY <1>1, <1>2, <1>3, <1>4, MapsStay DEF Maps
<1> QED BY <1>1, <1>2, <1>3, <1>4, <1>5 DEF MapStep

(* Who must have the lock can take it again.                               *)
LEMMA OwnsLock ==
  ASSUME TInv, NEW t \in Thread, th[t].pc \in Owning
  PROVE  CanLock(t)
  BY DEF TInv, Locks, CanLock

-----------------------------------------------------------------------------
(* get_nid returns to its caller, whoever that is.                         *)
LEMMA Continues ==
  ASSUME CInv, NEW t \in Thread, th[t].pc \in NidPc, NEW nid \in Nat,
         Continue(t, nid), CanLock(t), program' = program, MapStep,
         current_nid' \in Nat \ {0}, ops' = ops,
         UNCHANGED <<wire, package_queue, in, ready, io>>,
         th[t].pc \in Waiting => t \in ready
  PROVE  CInv'
<1> DEFINE e == EndOf(t)
<1> DEFINE r == [th[t] EXCEPT !.pc = th[t].then, !.nid = nid]
<1>1. /\ TInv /\ e \in End /\ th[t] \in Local /\ Threads /\ (t = App(e) \/ t = Worker(e))
      /\ holder \in [End -> Thread \cup {NoThread}] /\ ops \in [End -> 0 .. MaxOps]
  BY TheThreads DEF CInv, TInv, Types
<1>2. /\ r \in Local /\ r.pc = th[t].then /\ r.node = th[t].node /\ r.msg = th[t].msg
  BY <1>1 DEF Local
<1>3. /\ th' = [th EXCEPT ![t] = r]
      /\ holder' = [holder EXCEPT ![e] = IF r.pc = "write_attach" THEN t ELSE NoThread]
  BY <1>2 DEF Continue, Become, Release
<1>4. \A x \in End : /\ t = App(x) => AppOK(x, th[t]) /\ x = e
                     /\ t = Worker(x) => WorkOK(x, th[t]) /\ x = e
  BY <1>1, TheThreads DEF Threads
<1>5. \A x \in End : /\ t = App(x) => r.pc \in Announces
                     /\ t = Worker(x) => r.pc = "reply" /\ th[t].pc \in Serves
  BY <1>2, <1>4 DEF AppOK, WorkOK, Serves
<1> HIDE DEF r
<1>6. th'[t] = r
  BY <1>1, <1>2, <1>3, Moved DEF TInv
<1>7. ThreadStep(t)
  <2>1. ASSUME NEW x \in End, t = App(x) PROVE AppOK(x, th[App(x)])'
    <3>1. AppOK(x, th[t]) /\ r.pc \in Announces
      BY <1>4, <1>5, <2>1
    <3>2. DOMAIN tree[x] \subseteq DOMAIN tree'[x]
      BY DEF MapStep
    <3>3. AppOK(x, th[t])'
      BY <1>2, <1>6, <3>1, <3>2 DEF AppOK, AppPc, NidPc, Announces, Parent
    <3> QED BY <2>1, <3>3
  <2>2. ASSUME NEW x \in End, t = Worker(x) PROVE WorkOK(x, th[Worker(x)])'
    <3>1. WorkOK(x, th[t]) /\ r.pc = "reply"
      BY <1>4, <1>5, <2>2
    <3>2. WorkOK(x, th[t])'
      BY <1>2, <1>6, <3>1 DEF WorkOK, WorkPc, NidPc, Serves, Queued, Sent, Parent, Ops
    <3> QED BY <2>2, <3>2
  <2> QED BY <2>1, <2>2 DEF ThreadStep
<1>8. LockStep(t, r)
  BY <1>1, <1>3, <1>5 DEF LockStep, Owning, Announces
<1>9. r.pc \notin Waiting
  BY <1>1, <1>5 DEF Waiting, Announces
<1>10. ServesOn(t, r)
  BY <1>2, <1>5 DEF ServesOn
<1> QED BY <1>1, <1>2, <1>3, <1>7, <1>8, <1>9, <1>10, QuietStep

(* The object get_nid is called for.                                       *)
LEMMA ObjectSought ==
  ASSUME CInv, NEW t \in Thread, th[t].pc \in NidPc
  PROVE  \E n \in Nodes : \E k \in 0 .. made[EndOf(t)] :
           ObjectOf(EndOf(t), th[t].node) = Object(n, k)
<1> DEFINE e == EndOf(t)
<1> DEFINE n == th[t].node
<1>1. /\ e \in End /\ Threads /\ (t = App(e) \/ t = Worker(e)) /\ n \in Nodes /\ Maps
      /\ made[e] \in Nat
  BY TheThreads DEF CInv, TInv, Types, Local
<1>2. n = Root \/ n \in DOMAIN tree[e]
  BY <1>1 DEF Threads, AppOK, WorkOK
<1>3. n # Root => tree[e][n].obj \in 0 .. made[e]
  BY <1>1, <1>2 DEF Maps
<1>4. 0 \in 0 .. made[e]
  BY <1>1
<1> QED BY <1>1, <1>3, <1>4 DEF ObjectOf

(* get_nid finds the object: it returns the least nid it is tracked under. *)
LEMMA GetNidFoundKeeps ==
  ASSUME CInv, NEW t \in Thread, GetNidFound(t), program' = program
  PROVE  CInv'
<1>1. /\ TInv /\ current_nid \in Nat \ {0} /\ watched \in [End -> SUBSET Nodes] /\ Maps
      /\ EndOf(t) \in End
  BY TheThreads DEF CInv, TInv, Types
<1>2. /\ th[t].pc = "get_nid" /\ CanLock(t)
      /\ UNCHANGED <<tracked, tree, made, watched, current_nid, wire, package_queue, in,
                     ready, io, ops>>
  BY DEF GetNidFound, At, nodeVars, streamVars, serverVars
<1>3. PICK nid \in DOMAIN tracked[EndOf(t)] : Continue(t, nid)
  BY DEF GetNidFound, NidsOf
<1>4. nid \in Nat
  BY <1>1 DEF Maps
<1>5. MapStep
  BY <1>1, <1>2, MapsAsTheyWere
<1>6. th[t].pc \in NidPc /\ th[t].pc \notin Waiting
  BY <1>2 DEF NidPc, Waiting
<1> QED BY <1>1, <1>2, <1>3, <1>4, <1>5, <1>6, Continues

(* The server's counter is stored and the object is tracked under the nid  *)
(* loaded.                                                                 *)
LEMMA StoreNidKeeps ==
  ASSUME CInv, NEW t \in Thread, StoreNid(t), program' = program
  PROVE  CInv'
<1> DEFINE e == EndOf(t)
<1>1. /\ TInv /\ e \in End /\ th[t].nid \in Nat
  BY TheThreads DEF CInv, TInv, Types, Local
<1>2. /\ th[t].pc = "store_nid" /\ current_nid' = th[t].nid + 1
      /\ DoTrack(e, th[t].nid, ObjectOf(e, th[t].node)) /\ Continue(t, th[t].nid)
      /\ UNCHANGED <<tree, made, watched, wire, package_queue, in, ready, io, ops>>
  BY DEF StoreNid, At, streamVars
<1>3. /\ th[t].pc \in NidPc /\ th[t].pc \notin Waiting /\ CanLock(t)
      /\ current_nid' \in Nat \ {0}
  BY <1>1, <1>2, OwnsLock DEF NidPc, Waiting, Owning
<1>4. PICK n \in Nodes, k \in 0 .. made[e] : ObjectOf(e, th[t].node) = Object(n, k)
  BY <1>3, ObjectSought
<1>5. MapStep
  BY <1>1, <1>2, <1>4, Tracking
<1> QED BY <1>1, <1>2, <1>3, <1>5, Continues

(* The client tracks the object under the nid it was sent, its lock still  *)
(* held.                                                                   *)
LEMMA ReceiveNidKeeps ==
  ASSUME CInv, NEW t \in Thread, ReceiveNid(t), program' = program
  PROVE  CInv'
<1> DEFINE e == EndOf(t)
<1>1. /\ TInv /\ e \in End /\ in[e].nid \in Nat /\ current_nid \in Nat \ {0}
  BY TheThreads DEF CInv, TInv, Types, Message
<1>2. /\ th[t].pc = "gen" /\ t \in ready
      /\ DoTrack(e, in[e].nid, ObjectOf(e, th[t].node)) /\ Continue(t, in[e].nid)
      /\ UNCHANGED <<tree, made, watched, current_nid, wire, package_queue, in, ready,
                     io, ops>>
  BY DEF ReceiveNid, At, streamVars, serverVars
<1>3. th[t].pc \in NidPc /\ CanLock(t)
  BY <1>1, <1>2, OwnsLock DEF NidPc, Owning
<1>4. PICK n \in Nodes, k \in 0 .. made[e] : ObjectOf(e, th[t].node) = Object(n, k)
  BY <1>3, ObjectSought
<1>5. MapStep
  BY <1>1, <1>2, <1>4, Tracking
<1> QED BY <1>1, <1>2, <1>3, <1>5, Continues

(* The server loads its counter, and has the lock from then on.            *)
LEMMA LoadNidKeeps ==
  ASSUME CInv, NEW t \in Thread, LoadNid(t), program' = program
  PROVE  CInv'
<1> DEFINE e == EndOf(t)
<1> DEFINE r == [th[t] EXCEPT !.pc = "store_nid", !.nid = current_nid]
<1>1. /\ TInv /\ e \in End /\ th[t] \in Local /\ Threads /\ (t = App(e) \/ t = Worker(e))
      /\ holder \in [End -> Thread \cup {NoThread}] /\ ops \in [End -> 0 .. MaxOps]
      /\ current_nid \in Nat \ {0} /\ watched \in [End -> SUBSET Nodes]
  BY TheThreads DEF CInv, TInv, Types
<1>2. /\ r \in Local /\ r.pc = "store_nid" /\ r.node = th[t].node /\ r.msg = th[t].msg
      /\ r.then = th[t].then
  BY <1>1 DEF Local, AppPc, NidPc
<1>3. /\ th' = [th EXCEPT ![t] = r] /\ th[t].pc = "get_nid" /\ e = "server"
      /\ CanLock(t) /\ holder' = [holder EXCEPT ![e] = t]
      /\ UNCHANGED <<tracked, tree, made, watched, current_nid, wire, package_queue, in,
                     ready, io, ops>>
  BY DEF LoadNid, At, Become, Acquire, IsServer, nodeVars, streamVars, serverVars
<1> HIDE DEF r
<1>4. th'[t] = r
  BY <1>1, <1>2, <1>3, Moved DEF TInv
<1>5. MapStep
  BY <1>1, <1>3, MapsAsTheyWere
<1>6. ThreadStep(t)
  <2>1. ASSUME NEW x \in End, t = App(x) PROVE AppOK(x, th[App(x)])'
    <3>1. AppOK(x, th[t]) /\ x = e
      BY <1>1, <2>1, TheThreads DEF Threads
    <3>2. AppOK(x, th[t])'
      BY <1>2, <1>3, <1>4, <3>1 DEF AppOK, AppPc, NidPc, Parent
    <3> QED BY <2>1, <3>2
  <2>2. ASSUME NEW x \in End, t = Worker(x) PROVE WorkOK(x, th[Worker(x)])'
    <3>1. WorkOK(x, th[t]) /\ x = e
      BY <1>1, <2>2, TheThreads DEF Threads
    <3>2. WorkOK(x, th[t])'
      BY <1>2, <1>3, <1>4, <3>1 DEF WorkOK, WorkPc, NidPc, Serves, Queued, Sent, Parent, Ops
    <3> QED BY <2>2, <3>2
  <2> QED BY <2>1, <2>2 DEF ThreadStep
<1>7. LockStep(t, r)
  BY <1>1, <1>3 DEF LockStep
<1>8. ServesOn(t, r) /\ r.pc \notin Waiting /\ th[t].pc \notin Waiting
  BY <1>2, <1>3 DEF ServesOn, Serves, NidPc, Waiting
<1> QED BY <1>1, <1>2, <1>3, <1>5, <1>6, <1>7, <1>8, QuietStep

(* The client asks for a nid, and waits with the lock held.                *)
LEMMA RequestNidKeeps ==
  ASSUME CInv, NEW t \in Thread, RequestNid(t), program' = program
  PROVE  CInv'
<1> DEFINE e == EndOf(t)
<1> DEFINE r == [th[t] EXCEPT !.pc = "gen"]
<1> DEFINE m == Msg("gen", t, 0, Root, 0)
<1>1. /\ TInv /\ e \in End /\ th[t] \in Local /\ Threads /\ (t = App(e) \/ t = Worker(e))
      /\ holder \in [End -> Thread \cup {NoThread}] /\ ops \in [End -> 0 .. MaxOps]
      /\ current_nid \in Nat \ {0} /\ watched \in [End -> SUBSET Nodes]
  BY TheThreads DEF CInv, TInv, Types
<1>2. /\ r \in Local /\ r.pc = "gen" /\ r.node = th[t].node /\ r.msg = th[t].msg
      /\ r.then = th[t].then
  BY <1>1 DEF Local, AppPc, NidPc
<1>3. /\ th' = [th EXCEPT ![t] = r] /\ th[t].pc = "get_nid" /\ e # "server"
      /\ CanLock(t) /\ holder' = [holder EXCEPT ![e] = t] /\ ready' = ready \ {t}
      /\ wire' = [wire EXCEPT ![Peer(EndOf(t))] = Append(@, m)]
      /\ UNCHANGED <<tracked, tree, made, watched, current_nid, package_queue, in,
                     io, ops>>
  BY DEF RequestNid, At, Become, Acquire, IsServer, SendBegin, Write, nodeVars, serverVars
<1> HIDE DEF r
<1>4. m \in Message /\ m.kind = "gen" /\ m.from = t
  BY Messages DEF Kind, Nodes
<1> HIDE DEF m
<1>5. e = "client" /\ Peer(e) = "server" /\ Peer(Peer(e)) = e
  BY <1>1, <1>3, Ends
<1>6. Sent(m, Peer(EndOf(t)))
  BY <1>4, <1>5 DEF Sent, IsAnswer, Request
<1>7. th'[t] = r
  BY <1>1, <1>2, <1>3, Moved DEF TInv
<1>8. MapStep
  BY <1>1, <1>3, MapsAsTheyWere
<1>9. ThreadStep(t)
  <2>1. ASSUME NEW x \in End, t = App(x) PROVE AppOK(x, th[App(x)])'
    <3>1. AppOK(x, th[t]) /\ x = e
      BY <1>1, <2>1, TheThreads DEF Threads
    <3>2. AppOK(x, th[t])'
      BY <1>2, <1>3, <1>5, <1>7, <3>1 DEF AppOK, AppPc, NidPc, Parent
    <3> QED BY <2>1, <3>2
  <2>2. ASSUME NEW x \in End, t = Worker(x) PROVE WorkOK(x, th[Worker(x)])'
    <3>1. WorkOK(x, th[t]) /\ x = e
      BY <1>1, <2>2, TheThreads DEF Threads
    <3>2. WorkOK(x, th[t])'
      BY <1>2, <1>3, <1>5, <1>7, <3>1
      DEF WorkOK, WorkPc, NidPc, Serves, Queued, Sent, Parent, Ops
    <3> QED BY <2>2, <3>2
  <2> QED BY <2>1, <2>2 DEF ThreadStep
<1>10. LockStep(t, r)
  BY <1>1, <1>3 DEF LockStep
<1>11. ServesOn(t, r) /\ r.pc \in Waiting /\ th[t].pc \notin Waiting
  BY <1>2, <1>3 DEF ServesOn, Serves, NidPc, Waiting
<1> QED
  BY <1>1, <1>2, <1>3, <1>4, <1>6, <1>8, <1>9, <1>10, <1>11, RequestStep

-----------------------------------------------------------------------------
(* What is known of the application's thread ...                           *)
LEMMA AppIs ==
  ASSUME CInv, NEW e \in End
  PROVE  /\ TInv /\ Types /\ Maps /\ App(e) \in Thread /\ EndOf(App(e)) = e
         /\ th[App(e)] \in Local /\ AppOK(e, th[App(e)])
         /\ holder \in [End -> Thread \cup {NoThread}]
         /\ ops \in [End -> 0 .. MaxOps] /\ current_nid \in Nat \ {0}
         /\ watched \in [End -> SUBSET Nodes] /\ made \in [End -> Nat]
         /\ \A r : ServesOn(App(e), r)
         /\ AppOK(e, th[App(e)])' => ThreadStep(App(e))
<1>1. /\ App(e) \in Thread /\ EndOf(App(e)) = e
      /\ \A x \in End : App(e) # Worker(x) /\ (App(e) = App(x) => x = e)
  BY TheThreads
<1>2. TInv /\ Types /\ Maps /\ Threads
  BY DEF CInv, TInv
<1>3. AppOK(e, th[App(e)])' => ThreadStep(App(e))
  BY <1>1 DEF ThreadStep
<1>4. \A r : ServesOn(App(e), r)
  BY <1>1 DEF ServesOn
<1> QED BY <1>1, <1>2, <1>3, <1>4 DEF Types, Threads

(* ... and of the worker's.                                                *)
LEMMA WorkerIs ==
  ASSUME CInv, NEW e \in End
  PROVE  /\ TInv /\ Types /\ Maps /\ Worker(e) \in Thread /\ EndOf(Worker(e)) = e
         /\ th[Worker(e)] \in Local /\ WorkOK(e, th[Worker(e)])
         /\ th[Worker(e)].msg \in Message
         /\ th[Worker(e)].msg.nid \in Nat /\ th[Worker(e)].msg.cnid \in Nat
         /\ th[Worker(e)].msg.node \in Nodes
         /\ holder \in [End -> Thread \cup {NoThread}]
         /\ ops \in [End -> 0 .. MaxOps] /\ current_nid \in Nat \ {0}
         /\ watched \in [End -> SUBSET Nodes] /\ made \in [End -> Nat]
         /\ WorkOK(e, th[Worker(e)])' => ThreadStep(Worker(e))
<1>1. /\ Worker(e) \in Thread /\ EndOf(Worker(e)) = e
      /\ \A x \in End : Worker(e) # App(x) /\ (Worker(e) = Worker(x) => x = e)
  BY TheThreads
<1>2. TInv /\ Types /\ Maps /\ Threads
  BY DEF CInv, TInv
<1>3. WorkOK(e, th[Worker(e)])' => ThreadStep(Worker(e))
  BY <1>1 DEF ThreadStep
<1>4. th[Worker(e)] \in Local
  BY <1>1, <1>2 DEF Types
<1>5. /\ th[Worker(e)].msg \in Message
      /\ th[Worker(e)].msg.nid \in Nat /\ th[Worker(e)].msg.cnid \in Nat
      /\ th[Worker(e)].msg.node \in Nodes
  BY <1>4 DEF Local, Message
<1> QED BY <1>1, <1>2, <1>3, <1>4, <1>5 DEF Types, Threads

(* A thread that has done its work.                                        *)
LEMMA GoesIdle ==
  ASSUME Types, NEW t \in Thread, th' = [th EXCEPT ![t] = Idle]
  PROVE  /\ Idle \in Local /\ Idle.pc \notin Waiting /\ Idle.pc \notin Owning
         /\ ThreadStep(t) /\ ServesOn(t, Idle)
<1>1. th'[t] = Idle
  BY IdleIs, Moved
<1>2. \A e \in End : t = App(e) => AppOK(e, th[App(e)])'
  BY <1>1, IdleIs DEF AppOK, AppPc, NidPc
<1>3. \A e \in End : t = Worker(e) => WorkOK(e, th[Worker(e)])'
  BY <1>1, IdleIs DEF WorkOK, WorkPc, NidPc
<1> QED BY <1>2, <1>3, IdleIs DEF ThreadStep, ServesOn

(* An operation is counted.                                                *)
LEMMA Counted ==
  ASSUME Types, NEW e \in End, ops[e] < MaxOps, Begun(e)
  PROVE  ops' \in [End -> 0 .. MaxOps]
<1>1. ops[e] + 1 \in 0 .. MaxOps /\ ops \in [End -> 0 .. MaxOps]
  BY DEF Types
<1> QED BY <1>1 DEF Begun

(* The application attaches a node to one of its own; nothing is sent yet. *)
LEMMA CreateLocalKeeps ==
  ASSUME CInv, NEW e \in End, NEW n \in DOMAIN Parent, CreateLocal(e, n),
         program' = program
  PROVE  CInv'
<1> DEFINE t == App(e)
<1> DEFINE r == [Idle EXCEPT !.pc = "get_nid", !.then = "child_nid", !.node = Parent[n],
                             !.msg = Note("child", 0, n, 0)]
<1>1. /\ th[t].pc = "idle" /\ InTree(e, Parent[n]) /\ AttachToTree(e, n, 0, 0)
      /\ th' = [th EXCEPT ![t] = r] \/ th' = th
      /\ ops[e] < MaxOps /\ Begun(e)
      /\ UNCHANGED <<tracked, made, watched, holder, current_nid, wire, package_queue,
                     in, ready, io>>
  BY DEF CreateLocal, MayBegin, At, Become, streamVars, serverVars
<1>2. n \in Nodes /\ Parent[n] \in Nodes
  BY AppIs, Nodewise
<1>3. /\ r \in Local /\ r.pc = "get_nid" /\ r.then = "child_nid" /\ r.node = Parent[n]
      /\ r.msg.node = n
  <2>1. Note("child", 0, n, 0) \in Message /\ Note("child", 0, n, 0).node = n
    BY <1>2, Messages DEF Note, Kind
  <2> QED BY <1>2, <2>1, IdleIs DEF Local, AppPc, NidPc, Idle
<1> HIDE DEF r
<1>4. MapStep /\ n \in DOMAIN tree'[e]
  <2>1. 0 \in 0 .. made[e]
    BY AppIs
  <2> QED BY <1>1, <2>1, AppIs, Attaching
<1>5. ops' \in [End -> 0 .. MaxOps]
  BY <1>1, AppIs, Counted
<1>6. CASE th' = [th EXCEPT ![t] = r]
  <2>1. th'[t] = r
    BY <1>3, <1>6, AppIs, Moved
  <2>2. AppOK(e, th[t])'
    <3>1. Parent[n] = Root \/ Parent[n] \in DOMAIN tree'[e]
      BY <1>1, <1>4 DEF InTree, MapStep
    <3> QED BY <1>3, <1>4, <2>1, <3>1 DEF AppOK, AppPc, NidPc, Announces, Parent
  <2>3. LockStep(t, r) /\ r.pc \notin Waiting /\ th[t].pc \notin Waiting
    BY <1>1, <1>3 DEF LockStep, Owning, Waiting
  <2> QED BY <1>1, <1>3, <1>4, <1>5, <1>6, <2>2, <2>3, AppIs, QuietStep
<1>7. CASE th' = th
  <2>1. th' = [th EXCEPT ![t] = th[t]]
    BY <1>7, AppIs DEF Types
  <2>2. AppOK(e, th[t])'
    BY <1>1, <1>7 DEF AppOK, AppPc, NidPc
  <2>3. LockStep(t, th[t]) /\ th[t].pc \notin Waiting
    BY <1>1 DEF LockStep, Owning, Waiting
  <2> QED BY <1>1, <1>4, <1>5, <2>1, <2>2, <2>3, AppIs, QuietStep
<1> QED BY <1>1, <1>6, <1>7

(* child_added goes from the parent's nid to the child's.                  *)
LEMMA ChildAddedKeeps ==
  ASSUME CInv, NEW e \in End, ChildAdded(e), program' = program
  PROVE  CInv'
<1> DEFINE t == App(e)
<1> DEFINE r == [th[t] EXCEPT !.pc = "get_nid", !.then = "write_child",
                              !.pnid = th[t].nid, !.node = th[t].msg.node]
<1>1. /\ th[t].pc = "child_nid" /\ th' = [th EXCEPT ![t] = r]
      /\ UNCHANGED <<tracked, tree, made, watched, current_nid, wire, package_queue, in,
                     ready, io, ops, holder>>
  BY DEF ChildAdded, At, Become, nodeVars, streamVars, serverVars
<1>2. /\ th[t].msg.node \in DOMAIN tree[e] /\ th[t].msg.node \in DOMAIN Parent
      /\ th[t].msg.node \in Nodes
  BY <1>1, AppIs, Nodewise DEF AppOK, Maps
<1>3. /\ r \in Local /\ r.pc = "get_nid" /\ r.then = "write_child"
      /\ r.node = th[t].msg.node
  BY <1>2, AppIs DEF Local, AppPc, NidPc
<1> HIDE DEF r
<1>4. th'[t] = r
  BY <1>1, <1>3, AppIs, Moved
<1>5. MapStep
  BY <1>1, AppIs, MapsAsTheyWere
<1>6. AppOK(e, th[t])'
  BY <1>1, <1>2, <1>3, <1>4 DEF AppOK, AppPc, NidPc, Announces, Parent
<1>7. LockStep(t, r) /\ r.pc \notin Waiting /\ th[t].pc \notin Waiting
  BY <1>1, <1>3 DEF LockStep, Owning, Waiting
<1> QED BY <1>1, <1>3, <1>5, <1>6, <1>7, AppIs, QuietStep

(* child_added writes its package, without the lock.                       *)
LEMMA WriteChildAddedKeeps ==
  ASSUME CInv, NEW e \in End, WriteChildAdded(e), program' = program
  PROVE  CInv'
<1> DEFINE t == App(e)
<1> DEFINE m == Note("child", th[t].pnid, th[t].node, th[t].nid)
<1>1. /\ th[t].pc = "write_child" /\ th' = [th EXCEPT ![t] = Idle]
      /\ wire' = [wire EXCEPT ![Peer(e)] = Append(@, m)]
      /\ UNCHANGED <<tracked, tree, made, watched, current_nid, package_queue, in,
                     ready, io, ops, holder>>
  BY DEF WriteChildAdded, At, Become, Write, nodeVars, serverVars
<1>2. th[t].node \in DOMAIN Parent /\ th[t].nid \in Nat /\ th[t].pnid \in Nat
      /\ th[t].node \in Nodes
  BY <1>1, AppIs DEF AppOK, Local
<1>3. m \in Message /\ m.kind = "child" /\ m.from = NoThread /\ m.node = th[t].node
  BY <1>2, Messages DEF Note, Kind
<1> HIDE DEF m
<1>4. Sent(m, Peer(e)) /\ Peer(e) \in End
  BY <1>2, <1>3, Ends DEF Sent, IsAnswer, Request
<1>5. MapStep
  BY <1>1, AppIs, MapsAsTheyWere
<1>6. Idle \in Local /\ Idle.pc \notin Waiting /\ Idle.pc \notin Owning /\ ThreadStep(t)
  BY <1>1, AppIs, GoesIdle
<1>7. LockStep(t, Idle) /\ th[t].pc \notin Waiting
  BY <1>1, <1>6 DEF LockStep, Waiting
<1> QED BY <1>1, <1>3, <1>4, <1>5, <1>6, <1>7, AppIs, NoteStep

(* The application attaches a node to a proxy, which is in the tree at     *)
(* once.                                                                   *)
LEMMA CreateRemoteKeeps ==
  ASSUME CInv, NEW e \in End, NEW n \in DOMAIN Parent, CreateRemote(e, n),
         program' = program
  PROVE  CInv'
<1> DEFINE t == App(e)
<1> DEFINE r == [Idle EXCEPT !.pc = "get_nid", !.then = "write_attach",
                             !.node = n, !.pnid = tree[e][Parent[n]].nid]
<1>1. /\ th[t].pc = "idle" /\ th' = [th EXCEPT ![t] = r] /\ IsProxy(e, Parent[n])
      /\ AttachToTree(e, n, 0, 0) /\ ops[e] < MaxOps /\ Begun(e)
      /\ UNCHANGED <<tracked, made, watched, current_nid, wire, package_queue, in,
                     ready, io, holder>>
  BY DEF CreateRemote, MayBegin, At, Become, streamVars, serverVars
<1>2. n \in Nodes /\ tree[e][Parent[n]].nid \in Nat
  BY <1>1, AppIs, Nodewise DEF Maps, IsProxy
<1>3. r \in Local /\ r.pc = "get_nid" /\ r.then = "write_attach" /\ r.node = n
  BY <1>2, IdleIs DEF Local, AppPc, NidPc, Idle
<1> HIDE DEF r
<1>4. th'[t] = r
  BY <1>1, <1>3, AppIs, Moved
<1>5. MapStep /\ n \in DOMAIN tree'[e]
  <2>1. 0 \in 0 .. made[e]
    BY AppIs
  <2> QED BY <1>1, <2>1, AppIs, Attaching
<1>6. AppOK(e, th[t])'
  BY <1>1, <1>3, <1>4, <1>5 DEF AppOK, AppPc, NidPc, Announces, Parent
<1>7. LockStep(t, r) /\ r.pc \notin Waiting /\ th[t].pc \notin Waiting
  BY <1>1, <1>3 DEF LockStep, Owning, Waiting
<1>8. ops' \in [End -> 0 .. MaxOps]
  BY <1>1, AppIs, Counted
<1> QED BY <1>1, <1>3, <1>5, <1>6, <1>7, <1>8, AppIs, QuietStep

(* attach writes its package and gives the lock back.                      *)
LEMMA WriteAttachKeeps ==
  ASSUME CInv, NEW e \in End, WriteAttach(e), program' = program
  PROVE  CInv'
<1> DEFINE t == App(e)
<1> DEFINE m == Note("attach", th[t].pnid, th[t].node, th[t].nid)
<1>1. /\ th[t].pc = "write_attach" /\ th' = [th EXCEPT ![t] = Idle]
      /\ wire' = [wire EXCEPT ![Peer(e)] = Append(@, m)]
      /\ holder' = [holder EXCEPT ![EndOf(t)] = NoThread]
      /\ UNCHANGED <<tracked, tree, made, watched, current_nid, package_queue, in,
                     ready, io, ops>>
  BY DEF WriteAttach, At, Become, Write, Release, nodeVars, serverVars
<1>2. th[t].node \in DOMAIN Parent /\ th[t].nid \in Nat /\ th[t].pnid \in Nat
      /\ th[t].node \in Nodes
  BY <1>1, AppIs DEF AppOK, Local
<1>3. m \in Message /\ m.kind = "attach" /\ m.from = NoThread /\ m.node = th[t].node
  BY <1>2, Messages DEF Note, Kind
<1> HIDE DEF m
<1>4. Sent(m, Peer(e)) /\ Peer(e) \in End
  BY <1>2, <1>3, Ends DEF Sent, IsAnswer, Request
<1>5. MapStep
  BY <1>1, AppIs, MapsAsTheyWere
<1>6. Idle \in Local /\ Idle.pc \notin Waiting /\ Idle.pc \notin Owning /\ ThreadStep(t)
  BY <1>1, AppIs, GoesIdle
<1>7. CanLock(t)
  BY <1>1, AppIs, OwnsLock DEF Owning
<1>8. LockStep(t, Idle) /\ th[t].pc \notin Waiting
  BY <1>1, <1>6, <1>7 DEF LockStep, Waiting
<1> QED BY <1>1, <1>3, <1>4, <1>5, <1>6, <1>8, AppIs, NoteStep

(* fetch_node asks for a child, and waits with the lock held.              *)
LEMMA FetchBeginKeeps ==
  ASSUME CInv, NEW e \in End, NEW n \in DOMAIN Parent, FetchBegin(e, n),
         program' = program
  PROVE  CInv'
<1> DEFINE t == App(e)
<1> DEFINE r == [Idle EXCEPT !.pc = "fetch", !.node = n]
<1> DEFINE m == Msg("at", t, tree[e][Parent[n]].nid, n, 0)
<1>1. /\ th[t].pc = "idle" /\ th' = [th EXCEPT ![t] = r] /\ IsProxy(e, Parent[n])
      /\ ops[e] < MaxOps /\ Begun(e) /\ "fetch" \in Ops[e]
      /\ CanLock(t) /\ holder' = [holder EXCEPT ![EndOf(t)] = t] /\ ready' = ready \ {t}
      /\ wire' = [wire EXCEPT ![Peer(EndOf(t))] = Append(@, m)]
      /\ UNCHANGED <<tracked, tree, made, watched, current_nid, package_queue, in, io>>
  BY DEF FetchBegin, MayBegin, At, Become, Acquire, SendBegin, Write, nodeVars, serverVars
<1>2. n \in Nodes /\ tree[e][Parent[n]].nid \in Nat
  BY <1>1, AppIs, Nodewise DEF Maps, IsProxy
<1>3. r \in Local /\ r.pc = "fetch" /\ r.node = n
  BY <1>2, IdleIs DEF Local, AppPc, Idle
<1>4. m \in Message /\ m.kind = "at" /\ m.from = t /\ m.node = n
  <2>1. t \in Thread \cup {NoThread} /\ "at" \in Kind /\ 0 \in Nat
    BY AppIs DEF Kind
  <2> HIDE DEF t
  <2> QED BY <1>2, <2>1, Messages
<1> HIDE DEF r, m
<1>5. Sent(m, Peer(EndOf(t)))
  BY <1>1, <1>4, AppIs, Ends DEF Sent, IsAnswer, Request
<1>6. th'[t] = r
  BY <1>1, <1>3, AppIs, Moved
<1>7. MapStep
  BY <1>1, AppIs, MapsAsTheyWere
<1>8. AppOK(e, th[t])'
  BY <1>3, <1>6 DEF AppOK, AppPc, NidPc, Parent
<1>9. LockStep(t, r) /\ r.pc \in Waiting /\ th[t].pc \notin Waiting
  BY <1>1, <1>3, AppIs DEF LockStep, Waiting
<1>10. ops' \in [End -> 0 .. MaxOps]
  BY <1>1, AppIs, Counted
<1> QED BY <1>1, <1>3, <1>4, <1>5, <1>7, <1>8, <1>9, <1>10, AppIs, RequestStep

(* fetch_node is told that there is no such child.                         *)
LEMMA FetchFailsKeeps ==
  ASSUME CInv, NEW e \in End, FetchFails(e), program' = program
  PROVE  CInv'
<1> DEFINE t == App(e)
<1>1. /\ th[t].pc = "fetch" /\ t \in ready /\ th' = [th EXCEPT ![t] = Idle]
      /\ holder' = [holder EXCEPT ![EndOf(t)] = NoThread]
      /\ UNCHANGED <<tracked, tree, made, watched, current_nid, wire, package_queue, in,
                     ready, io, ops>>
  BY DEF FetchFails, At, Become, Release, nodeVars, streamVars, serverVars
<1>2. MapStep
  BY <1>1, AppIs, MapsAsTheyWere
<1>3. Idle \in Local /\ Idle.pc \notin Waiting /\ Idle.pc \notin Owning /\ ThreadStep(t)
  BY <1>1, AppIs, GoesIdle
<1>4. LockStep(t, Idle)
  BY <1>1, <1>3, AppIs, OwnsLock DEF LockStep, Owning
<1> QED BY <1>1, <1>2, <1>3, <1>4, AppIs, QuietStep

(* fetch_node makes a proxy and tracks it, before the tree has it.         *)
LEMMA FetchEndsKeeps ==
  ASSUME CInv, NEW e \in End, FetchEnds(e), program' = program
  PROVE  CInv'
<1> DEFINE t == App(e)
<1> DEFINE r == [th[t] EXCEPT !.pc = "insert", !.nid = in[e].nid, !.pnid = made[e] + 1]
<1>1. /\ th[t].pc = "fetch" /\ t \in ready /\ th' = [th EXCEPT ![t] = r]
      /\ holder' = [holder EXCEPT ![EndOf(t)] = NoThread]
      /\ made' = [made EXCEPT ![e] = @ + 1]
      /\ DoTrack(e, in[e].nid, Object(th[t].node, made[e] + 1))
      /\ UNCHANGED <<tree, watched, current_nid, wire, package_queue, in, ready, io, ops>>
  BY DEF FetchEnds, At, Become, Release, streamVars, serverVars
<1>2. /\ in[e].nid \in Nat /\ th[t].node \in DOMAIN Parent /\ th[t].node \in Nodes
  BY <1>1, AppIs DEF AppOK, Types, Message, Local
<1>3. made[e] + 1 \in 0 .. made'[e] /\ made[e] + 1 \in Nat
  BY <1>1, AppIs
<1>4. r \in Local /\ r.pc = "insert" /\ r.node = th[t].node /\ r.pnid = made[e] + 1
  BY <1>2, <1>3, AppIs DEF Local, AppPc
<1> HIDE DEF r
<1>5. th'[t] = r
  BY <1>1, <1>4, AppIs, Moved
<1>6. MapStep
  BY <1>1, <1>2, <1>3, AppIs, Tracking
<1>7. AppOK(e, th[t])'
  BY <1>2, <1>3, <1>4, <1>5 DEF AppOK, AppPc, NidPc, Parent
<1>8. LockStep(t, r) /\ r.pc \notin Waiting
  BY <1>1, <1>4, AppIs, OwnsLock DEF LockStep, Owning, Waiting
<1> QED BY <1>1, <1>4, <1>6, <1>7, <1>8, AppIs, QuietStep

(* The proxy fetched is inserted, unless the tree has the node by now.     *)
LEMMA InsertKeeps ==
  ASSUME CInv, NEW e \in End, Insert(e), program' = program
  PROVE  CInv'
<1> DEFINE t == App(e)
<1>1. /\ th[t].pc = "insert" /\ th' = [th EXCEPT ![t] = Idle]
      /\ AttachToTree(e, th[t].node, th[t].pnid, th[t].nid)
      /\ UNCHANGED <<tracked, made, watched, current_nid, wire, package_queue, in,
                     ready, io, ops, holder>>
  BY DEF Insert, At, Become, streamVars, serverVars
<1>2. th[t].node \in DOMAIN Parent /\ th[t].pnid \in 0 .. made[e] /\ th[t].nid \in Nat
  BY <1>1, AppIs DEF AppOK, Local
<1>3. MapStep
  BY <1>1, <1>2, AppIs, Attaching
<1>4. Idle \in Local /\ Idle.pc \notin Waiting /\ Idle.pc \notin Owning /\ ThreadStep(t)
  BY <1>1, AppIs, GoesIdle
<1>5. LockStep(t, Idle) /\ th[t].pc \notin Waiting
  BY <1>1, <1>4 DEF LockStep, Waiting
<1> QED BY <1>1, <1>3, <1>4, <1>5, AppIs, QuietStep

(* update_prop asks for a value, if its node is tracked.                   *)
LEMMA UpdateBeginKeeps ==
  ASSUME CInv, NEW e \in End, NEW n \in DOMAIN Parent, UpdateBegin(e, n),
         program' = program
  PROVE  CInv'
<1> DEFINE t == App(e)
<1>1. /\ th[t].pc = "idle" /\ IsProxy(e, n) /\ ops[e] < MaxOps /\ Begun(e)
      /\ UNCHANGED <<tracked, tree, made, watched, current_nid, package_queue, in, io>>
  BY DEF UpdateBegin, MayBegin, At, nodeVars, serverVars
<1>2. n \in Nodes /\ tree[e][n].nid \in Nat
  BY <1>1, AppIs, Nodewise DEF Maps, IsProxy
<1>3. MapStep
  BY <1>1, AppIs, MapsAsTheyWere
<1>4. ops' \in [End -> 0 .. MaxOps]
  BY <1>1, AppIs, Counted
<1>5. CASE IsTracked(e, tree[e][n].nid)
  <2> DEFINE r == [Idle EXCEPT !.pc = "update", !.node = n]
  <2> DEFINE m == Msg("get", t, tree[e][n].nid, n, 0)
  <2>1. /\ th' = [th EXCEPT ![t] = r] /\ CanLock(t) /\ ready' = ready \ {t}
        /\ holder' = [holder EXCEPT ![EndOf(t)] = t]
        /\ wire' = [wire EXCEPT ![Peer(EndOf(t))] = Append(@, m)]
    BY <1>5 DEF UpdateBegin, Become, Acquire, SendBegin, Write
  <2>2. r \in Local /\ r.pc = "update"
    BY <1>2, IdleIs DEF Local, AppPc, Idle
  <2>3. m \in Message /\ m.kind = "get" /\ m.from = t
    <3>1. t \in Thread \cup {NoThread} /\ "get" \in Kind /\ 0 \in Nat
      BY AppIs DEF Kind
    <3> HIDE DEF t
    <3> QED BY <1>2, <3>1, Messages
  <2> HIDE DEF r, m
  <2>4. Sent(m, Peer(EndOf(t)))
    BY <2>3, AppIs, Ends DEF Sent, IsAnswer, Request
  <2>5. th'[t] = r
    BY <2>1, <2>2, AppIs, Moved
  <2>6. AppOK(e, th[t])'
    BY <2>2, <2>5 DEF AppOK, AppPc, NidPc
  <2>7. LockStep(t, r) /\ r.pc \in Waiting /\ th[t].pc \notin Waiting
    BY <1>1, <2>1, <2>2, AppIs DEF LockStep, Waiting
  <2> QED BY <1>1, <1>3, <1>4, <2>1, <2>2, <2>3, <2>4, <2>6, <2>7, AppIs, RequestStep
<1>6. CASE ~IsTracked(e, tree[e][n].nid)
  <2>1. UNCHANGED <<wire, ready, th, holder>>
    BY <1>6 DEF UpdateBegin, LockUnlock
  <2>2. th' = [th EXCEPT ![t] = th[t]]
    BY <2>1, AppIs DEF Types
  <2>3. AppOK(e, th[t])'
    BY <1>1, <2>1 DEF AppOK, AppPc, NidPc
  <2>4. LockStep(t, th[t]) /\ th[t].pc \notin Waiting
    BY <1>1, <2>1 DEF LockStep, Owning, Waiting
  <2> QED BY <1>1, <1>3, <1>4, <2>1, <2>2, <2>3, <2>4, AppIs, QuietStep
<1> QED BY <1>5, <1>6

(* update_prop has its value and gives the lock back.                      *)
LEMMA UpdateEndsKeeps ==
  ASSUME CInv, NEW e \in End, UpdateEnds(e), program' = program
  PROVE  CInv'
<1> DEFINE t == App(e)
<1>1. /\ th[t].pc = "update" /\ t \in ready /\ th' = [th EXCEPT ![t] = Idle]
      /\ holder' = [holder EXCEPT ![EndOf(t)] = NoThread]
      /\ UNCHANGED <<tracked, tree, made, watched, current_nid, wire, package_queue, in,
                     ready, io, ops>>
  BY DEF UpdateEnds, At, Become, Release, nodeVars, streamVars, serverVars
<1>2. MapStep
  BY <1>1, AppIs, MapsAsTheyWere
<1>3. Idle \in Local /\ Idle.pc \notin Waiting /\ Idle.pc \notin Owning /\ ThreadStep(t)
  BY <1>1, AppIs, GoesIdle
<1>4. LockStep(t, Idle)
  BY <1>1, <1>3, AppIs, OwnsLock DEF LockStep, Owning
<1> QED BY <1>1, <1>2, <1>3, <1>4, AppIs, QuietStep

(* ls asks for the children, without the lock.                             *)
LEMMA LsBeginKeeps ==
  ASSUME CInv, NEW e \in End, NEW n \in DOMAIN Parent, LsBegin(e, n),
         program' = program
  PROVE  CInv'
<1> DEFINE t == App(e)
<1> DEFINE r == [Idle EXCEPT !.pc = "ls", !.node = n]
<1> DEFINE m == Msg("ls", t, tree[e][n].nid, n, 0)
<1>1. /\ th[t].pc = "idle" /\ th' = [th EXCEPT ![t] = r] /\ IsProxy(e, n)
      /\ ops[e] < MaxOps /\ Begun(e) /\ "ls" \in Ops[e] /\ ready' = ready \ {t}
      /\ wire' = [wire EXCEPT ![Peer(EndOf(t))] = Append(@, m)]
      /\ UNCHANGED <<tracked, tree, made, watched, current_nid, package_queue, in, io,
                     holder>>
  BY DEF LsBegin, MayBegin, At, Become, SendBegin, Write, nodeVars, serverVars
<1>2. n \in Nodes /\ tree[e][n].nid \in Nat
  BY <1>1, AppIs, Nodewise DEF Maps, IsProxy
<1>3. r \in Local /\ r.pc = "ls"
  BY <1>2, IdleIs DEF Local, AppPc, Idle
<1>4. m \in Message /\ m.kind = "ls" /\ m.from = t
  <2>1. t \in Thread \cup {NoThread} /\ "ls" \in Kind /\ 0 \in Nat
    BY AppIs DEF Kind
  <2> HIDE DEF t
  <2> QED BY <1>2, <2>1, Messages
<1> HIDE DEF r, m
<1>5. Sent(m, Peer(EndOf(t)))
  BY <1>4, AppIs, Ends DEF Sent, IsAnswer, Request
<1>6. th'[t] = r
  BY <1>1, <1>3, AppIs, Moved
<1>7. MapStep
  BY <1>1, AppIs, MapsAsTheyWere
<1>8. AppOK(e, th[t])'
  BY <1>1, <1>3, <1>6 DEF AppOK, AppPc, NidPc, Ops
<1>9. LockStep(t, r) /\ r.pc \in Waiting /\ th[t].pc \notin Waiting
  BY <1>1, <1>3 DEF LockStep, Waiting, Owning
<1>10. ops' \in [End -> 0 .. MaxOps]
  BY <1>1, AppIs, Counted
<1> QED BY <1>1, <1>3, <1>4, <1>5, <1>7, <1>8, <1>9, <1>10, AppIs, RequestStep

(* ls has its answer.                                                      *)
LEMMA LsEndsKeeps ==
  ASSUME CInv, NEW e \in End, LsEnds(e), program' = program
  PROVE  CInv'
<1> DEFINE t == App(e)
<1>1. /\ th[t].pc = "ls" /\ t \in ready /\ th' = [th EXCEPT ![t] = Idle]
      /\ UNCHANGED <<tracked, tree, made, watched, current_nid, wire, package_queue, in,
                     ready, io, ops, holder>>
  BY DEF LsEnds, At, Become, nodeVars, streamVars, serverVars
<1>2. MapStep
  BY <1>1, AppIs, MapsAsTheyWere
<1>3. Idle \in Local /\ Idle.pc \notin Waiting /\ Idle.pc \notin Owning /\ ThreadStep(t)
  BY <1>1, AppIs, GoesIdle
<1>4. LockStep(t, Idle)
  BY <1>1, <1>3 DEF LockStep
<1> QED BY <1>1, <1>2, <1>3, <1>4, AppIs, QuietStep

-----------------------------------------------------------------------------
(* cmd_at looks for the child and either needs its nid or replies an       *)
(* error; either way it still serves the request.                          *)
LEMMA CmdAtKeeps ==
  ASSUME CInv, NEW e \in End, CmdAt(e), program' = program
  PROVE  CInv'
<1> DEFINE t == Worker(e)
<1> DEFINE m == th[t].msg
<1> DEFINE found == [th[t] EXCEPT !.pc = "get_nid", !.then = "reply", !.node = m.node]
<1> DEFINE error == [th[t] EXCEPT !.pc = "reply_error", !.nid = m.nid]
<1>1. /\ th[t].pc = "cmd_at"
      /\ \/ th' = [th EXCEPT ![t] = found] /\ m.node \in DOMAIN tree[e]
         \/ th' = [th EXCEPT ![t] = error]
      /\ UNCHANGED <<tracked, tree, made, watched, current_nid, wire, package_queue, in,
                     ready, io, ops, holder>>
  BY DEF CmdAt, At, Become, LockUnlock, nodeVars, streamVars, serverVars
<1>2. /\ found \in Local /\ found.pc = "get_nid" /\ found.then = "reply"
      /\ found.node = m.node /\ found.msg = m
  BY WorkerIs DEF Local, AppPc, WorkPc, NidPc
<1>3. error \in Local /\ error.pc = "reply_error" /\ error.msg = m
  BY WorkerIs DEF Local, WorkPc
<1>4. PICK r \in Local : /\ th' = [th EXCEPT ![t] = r] /\ r.msg = m
                         /\ \/ /\ r.pc = "get_nid" /\ r.then = "reply"
                               /\ r.node = m.node /\ m.node \in DOMAIN tree[e]
                            \/ r.pc = "reply_error"
  <2>1. CASE th' = [th EXCEPT ![t] = found] /\ m.node \in DOMAIN tree[e]
    BY <1>2, <2>1
  <2>2. CASE th' = [th EXCEPT ![t] = error]
    BY <1>3, <2>2
  <2> QED BY <1>1, <2>1, <2>2
<1> HIDE DEF found, error, m
<1>5. th'[t] = r
  BY <1>4, WorkerIs, Moved
<1>6. MapStep
  BY <1>1, WorkerIs, MapsAsTheyWere
<1>7. WorkOK(e, th[t])'
  <2>1. WorkOK(e, th[t]) /\ th[t].pc = "cmd_at" /\ m = th[t].msg
    BY <1>1, WorkerIs DEF m
  <2> QED BY <1>1, <1>4, <1>5, <2>1
          DEF WorkOK, WorkPc, NidPc, Serves, Queued, Sent, Parent, Ops
<1>8. LockStep(t, r) /\ r.pc \notin Waiting /\ th[t].pc \notin Waiting /\ ServesOn(t, r)
  BY <1>1, <1>4 DEF LockStep, Owning, Waiting, ServesOn, Serves, m
<1> QED BY <1>1, <1>4, <1>6, <1>7, <1>8, WorkerIs, QuietStep

(* cmd_ls and cmd_get_prop look for the node and owe the reply.            *)
LEMMA CmdLsOrGetKeeps ==
  ASSUME CInv, NEW e \in End, CmdLsOrGet(e), program' = program
  PROVE  CInv'
<1> DEFINE t == Worker(e)
<1> DEFINE m == th[t].msg
<1> DEFINE r == [th[t] EXCEPT !.pc = IF IsTracked(e, m.nid) THEN "reply" ELSE "reply_error",
                              !.nid = m.nid]
<1>1. /\ th[t].pc \in {"cmd_ls", "cmd_get_prop"} /\ th' = [th EXCEPT ![t] = r]
      /\ UNCHANGED <<tracked, tree, made, watched, current_nid, wire, package_queue, in,
                     ready, io, ops, holder>>
  BY DEF CmdLsOrGet, At, Become, LockUnlock, nodeVars, streamVars, serverVars
<1>2. r \in Local /\ r.pc \in {"reply", "reply_error"} /\ r.msg = m
  BY WorkerIs DEF Local, WorkPc
<1> HIDE DEF r, m
<1>3. th'[t] = r
  BY <1>1, <1>2, WorkerIs, Moved
<1>4. MapStep
  BY <1>1, WorkerIs, MapsAsTheyWere
<1>5. WorkOK(e, th[t])'
  <2>1. WorkOK(e, th[t]) /\ m = th[t].msg
    BY WorkerIs DEF m
  <2> QED BY <1>1, <1>2, <1>3, <2>1
          DEF WorkOK, WorkPc, NidPc, Serves, Queued, Sent, Parent, Ops
<1>6. LockStep(t, r) /\ r.pc \notin Waiting /\ th[t].pc \notin Waiting /\ ServesOn(t, r)
  BY <1>1, <1>2 DEF LockStep, Owning, Waiting, ServesOn, Serves, m
<1> QED BY <1>1, <1>2, <1>4, <1>5, <1>6, WorkerIs, QuietStep

(* The package "sub" the worker writes for a new proxy.                    *)
LEMMA Subscribes ==
  ASSUME NEW e \in End, NEW i \in Nat
  PROVE  LET m == Note("sub", i, Root, 0) IN
         m \in Message /\ m.from = NoThread /\ Sent(m, Peer(e)) /\ Peer(e) \in End
<1> DEFINE m == Note("sub", i, Root, 0)
<1>1. m \in Message /\ m.from = NoThread /\ m.kind = "sub"
  BY Messages DEF Note, Kind, Nodes
<1> HIDE DEF m
<1>2. Sent(m, Peer(e)) /\ Peer(e) \in End
  BY <1>1, Ends DEF Sent, IsAnswer, Request
<1> QED BY <1>1, <1>2 DEF m

(* cmd_attach makes, tracks and attaches a proxy and subscribes to it.     *)
LEMMA CmdAttachKeeps ==
  ASSUME CInv, NEW e \in End, CmdAttach(e), program' = program
  PROVE  CInv'
<1> DEFINE t == Worker(e)
<1> DEFINE m == th[t].msg
<1>1. /\ th[t].pc = "cmd_attach" /\ th' = [th EXCEPT ![t] = Idle]
      /\ UNCHANGED <<watched, current_nid, package_queue, in, ready, io, ops, holder>>
  BY DEF CmdAttach, At, Become, LockUnlock, serverVars
<1>2. /\ Idle \in Local /\ Idle.pc \notin Waiting /\ Idle.pc \notin Owning
      /\ ThreadStep(t) /\ ServesOn(t, Idle)
  BY <1>1, WorkerIs, GoesIdle
<1>3. LockStep(t, Idle) /\ th[t].pc \notin Waiting
  BY <1>1, <1>2 DEF LockStep, Waiting
<1>4. CASE IsTracked(e, m.nid)
  <2>1. /\ made' = [made EXCEPT ![e] = @ + 1]
        /\ DoTrack(e, m.cnid, Object(m.node, made[e] + 1))
        /\ AttachToTree(e, m.node, made[e] + 1, m.cnid)
        /\ wire' = [wire EXCEPT ![Peer(e)] = Append(@, Note("sub", m.cnid, Root, 0))]
    BY <1>4 DEF CmdAttach, Write
  <2>2. m.node \in DOMAIN Parent /\ m.cnid \in Nat
    BY <1>1, WorkerIs DEF WorkOK, Queued, Sent
  <2>3. MapStep
    BY <1>1, <2>1, <2>2, WorkerIs, TrackingAndAttaching
  <2> DEFINE s == Note("sub", m.cnid, Root, 0)
  <2>4. s \in Message /\ s.from = NoThread /\ Sent(s, Peer(e)) /\ Peer(e) \in End
    BY <2>2, Subscribes
  <2> HIDE DEF s
  <2>5. wire' = [wire EXCEPT ![Peer(e)] = Append(@, s)]
    BY <2>1 DEF s
  <2> QED BY <1>1, <1>2, <1>3, <2>3, <2>4, <2>5, WorkerIs, NoteStep
<1>5. CASE ~IsTracked(e, m.nid)
  <2>1. UNCHANGED <<made, tracked, tree, wire>>
    BY <1>5 DEF CmdAttach
  <2>2. MapStep
    BY <1>1, <2>1, WorkerIs, MapsAsTheyWere
  <2> QED BY <1>1, <1>2, <1>3, <2>1, <2>2, WorkerIs, QuietStep
<1> QED BY <1>4, <1>5

(* The node_sync listens to a node the peer subscribes to.                 *)
LEMMA CmdSubscribeAddRemoveKeeps ==
  ASSUME CInv, NEW e \in End, CmdSubscribeAddRemove(e), program' = program
  PROVE  CInv'
<1> DEFINE t == Worker(e)
<1> DEFINE m == th[t].msg
<1>1. /\ th[t].pc = "cmd_subscribe_add_remove" /\ th' = [th EXCEPT ![t] = Idle]
      /\ watched' = IF IsTracked(e, m.nid)
                    THEN [watched EXCEPT ![e] = @ \cup {tracked[e][m.nid].node}]
                    ELSE watched
      /\ UNCHANGED <<tracked, tree, made, current_nid, wire, package_queue, in, ready, io,
                     ops, holder>>
  BY DEF CmdSubscribeAddRemove, At, Become, streamVars, serverVars
<1>2. watched' \in [End -> SUBSET Nodes]
  <2>1. IsTracked(e, m.nid) => tracked[e][m.nid].node \in Nodes
    BY WorkerIs DEF Maps, IsTracked
  <2> QED BY <1>1, <2>1, WorkerIs
<1>3. MapStep
  BY <1>1, <1>2, WorkerIs, MapsAsTheyWere
<1>4. /\ Idle \in Local /\ Idle.pc \notin Waiting /\ Idle.pc \notin Owning
      /\ ThreadStep(t) /\ ServesOn(t, Idle)
  BY <1>1, WorkerIs, GoesIdle
<1>5. LockStep(t, Idle) /\ th[t].pc \notin Waiting
  BY <1>1, <1>4 DEF LockStep, Waiting
<1> QED BY <1>1, <1>3, <1>4, <1>5, WorkerIs, QuietStep

(* cmd_child_added goes on to its next critical section.                   *)
LEMMA ChildGoesOn ==
  ASSUME CInv, NEW e \in End, NEW r \in Local, program' = program,
         th[Worker(e)].pc \in {"cmd_child_added", "find_child", "make_child"},
         r.pc \in {"find_child", "make_child", "attach_child"},
         r.pc = "attach_child" => r.nid \in 0 .. made'[e],
         r.msg = th[Worker(e)].msg, th' = [th EXCEPT ![Worker(e)] = r],
         holder' = holder
  PROVE  /\ ThreadStep(Worker(e)) /\ ServesOn(Worker(e), r) /\ LockStep(Worker(e), r)
         /\ r.pc \notin Waiting /\ th[Worker(e)].pc \notin Waiting
<1> DEFINE t == Worker(e)
<1>1. th'[t] = r
  BY WorkerIs, Moved
<1>2. WorkOK(e, th[t])'
  <2>1. WorkOK(e, th[t])
    BY WorkerIs
  <2> QED BY <1>1, <2>1 DEF WorkOK, WorkPc, NidPc, Serves, Request, Queued, Sent, Parent, Ops
<1>3. ServesOn(t, r) /\ LockStep(t, r) /\ r.pc \notin Waiting /\ th[t].pc \notin Waiting
  BY DEF ServesOn, Serves, NidPc, LockStep, Owning, Waiting
<1> QED BY <1>2, <1>3, WorkerIs

(* cmd_child_added, first critical section: the parent is tracked or not.  *)
LEMMA FindParentKeeps ==
  ASSUME CInv, NEW e \in End, FindParent(e), program' = program
  PROVE  CInv'
<1> DEFINE t == Worker(e)
<1> DEFINE r == [th[t] EXCEPT !.pc = "find_child"]
<1>1. /\ th[t].pc = "cmd_child_added"
      /\ th' = [th EXCEPT ![t] = r] \/ th' = [th EXCEPT ![t] = Idle]
      /\ UNCHANGED <<tracked, tree, made, watched, current_nid, wire, package_queue, in,
                     ready, io, ops, holder>>
  BY DEF FindParent, At, Become, LockUnlock, nodeVars, streamVars, serverVars
<1>2. r \in Local /\ r.pc = "find_child" /\ r.msg = th[t].msg
  BY WorkerIs DEF Local, WorkPc
<1> HIDE DEF r
<1>3. MapStep
  BY <1>1, WorkerIs, MapsAsTheyWere
<1>4. CASE th' = [th EXCEPT ![t] = r]
  <2>1. /\ ThreadStep(t) /\ ServesOn(t, r) /\ LockStep(t, r)
        /\ r.pc \notin Waiting /\ th[t].pc \notin Waiting
    BY <1>1, <1>2, <1>4, ChildGoesOn
  <2> QED BY <1>1, <1>2, <1>3, <1>4, <2>1, WorkerIs, QuietStep
<1>5. CASE th' = [th EXCEPT ![t] = Idle]
  <2>1. /\ Idle \in Local /\ Idle.pc \notin Waiting /\ Idle.pc \notin Owning
        /\ ThreadStep(t) /\ ServesOn(t, Idle)
    BY <1>5, WorkerIs, GoesIdle
  <2>2. LockStep(t, Idle) /\ th[t].pc \notin Waiting
    BY <1>1, <2>1 DEF LockStep, Waiting
  <2> QED BY <1>1, <1>3, <1>5, <2>1, <2>2, WorkerIs, QuietStep
<1> QED BY <1>1, <1>4, <1>5

(* cmd_child_added, second: the child is tracked, and attached, or not.    *)
LEMMA FindChildKeeps ==
  ASSUME CInv, NEW e \in End, FindChild(e), program' = program
  PROVE  CInv'
<1> DEFINE t == Worker(e)
<1> DEFINE m == th[t].msg
<1>1. /\ th[t].pc = "find_child"
      /\ UNCHANGED <<tracked, made, watched, current_nid, wire, package_queue, in,
                     ready, io, ops, holder>>
  BY DEF FindChild, At, LockUnlock, streamVars, serverVars
<1>2. CASE IsTracked(e, m.cnid)
  <2>1. /\ AttachToTree(e, m.node, tracked[e][m.cnid].obj, m.cnid)
        /\ th' = [th EXCEPT ![t] = Idle]
    BY <1>2 DEF FindChild, Become
  <2>2. /\ m.node \in DOMAIN Parent /\ tracked[e][m.cnid].obj \in 0 .. made[e]
        /\ m.cnid \in Nat
    BY <1>1, <1>2, WorkerIs DEF WorkOK, Queued, Sent, Maps, IsTracked
  <2>3. MapStep
    BY <1>1, <2>1, <2>2, WorkerIs, Attaching
  <2>4. /\ Idle \in Local /\ Idle.pc \notin Waiting /\ Idle.pc \notin Owning
        /\ ThreadStep(t) /\ ServesOn(t, Idle)
    BY <2>1, WorkerIs, GoesIdle
  <2>5. LockStep(t, Idle) /\ th[t].pc \notin Waiting
    BY <1>1, <2>4 DEF LockStep, Waiting
  <2> QED BY <1>1, <2>1, <2>3, <2>4, <2>5, WorkerIs, QuietStep
<1>3. CASE ~IsTracked(e, m.cnid)
  <2> DEFINE r == [th[t] EXCEPT !.pc = "make_child"]
  <2>1. tree' = tree /\ th' = [th EXCEPT ![t] = r]
    BY <1>3 DEF FindChild, Become
  <2>2. r \in Local /\ r.pc = "make_child" /\ r.msg = th[t].msg
    BY WorkerIs DEF Local, WorkPc
  <2> HIDE DEF r
  <2>3. MapStep
    BY <1>1, <2>1, WorkerIs, MapsAsTheyWere
  <2>4. /\ ThreadStep(t) /\ ServesOn(t, r) /\ LockStep(t, r)
        /\ r.pc \notin Waiting /\ th[t].pc \notin Waiting
    BY <1>1, <2>1, <2>2, ChildGoesOn
  <2> QED BY <1>1, <2>1, <2>2, <2>3, <2>4, WorkerIs, QuietStep
<1> QED BY <1>2, <1>3

(* cmd_child_added, third: a proxy is made, tracked and subscribed to.     *)
LEMMA MakeChildKeeps ==
  ASSUME CInv, NEW e \in End, MakeChild(e), program' = program
  PROVE  CInv'
<1> DEFINE t == Worker(e)
<1> DEFINE m == th[t].msg
<1> DEFINE r == [th[t] EXCEPT !.pc = "attach_child", !.nid = made[e] + 1]
<1> DEFINE s == Note("sub", m.cnid, Root, 0)
<1>1. /\ th[t].pc = "make_child" /\ th' = [th EXCEPT ![t] = r]
      /\ made' = [made EXCEPT ![e] = @ + 1]
      /\ DoTrack(e, m.cnid, Object(m.node, made[e] + 1))
      /\ wire' = [wire EXCEPT ![Peer(e)] = Append(@, s)]
      /\ UNCHANGED <<tree, watched, current_nid, package_queue, in, ready, io, ops, holder>>
  BY DEF MakeChild, At, Become, Write, LockUnlock, serverVars
<1>2. m.node \in Nodes /\ m.cnid \in Nat
  BY WorkerIs
<1>3. made[e] + 1 \in 0 .. made'[e] /\ made[e] + 1 \in Nat
  BY <1>1, WorkerIs
<1>4. /\ r \in Local /\ r.pc = "attach_child" /\ r.msg = th[t].msg
      /\ r.nid = made[e] + 1
  BY <1>3, WorkerIs DEF Local, WorkPc
<1>5. s \in Message /\ s.from = NoThread /\ Sent(s, Peer(e)) /\ Peer(e) \in End
  BY <1>2, Subscribes
<1> HIDE DEF r, s
<1>6. MapStep
  BY <1>1, <1>2, <1>3, WorkerIs, Tracking
<1>7. /\ ThreadStep(t) /\ ServesOn(t, r) /\ LockStep(t, r)
      /\ r.pc \notin Waiting /\ th[t].pc \notin Waiting
  BY <1>1, <1>3, <1>4, ChildGoesOn
<1> QED BY <1>1, <1>4, <1>5, <1>6, <1>7, WorkerIs, NoteStep

(* cmd_child_added attaches its proxy, unless the tree has the node by     *)
(* now.                                                                    *)
LEMMA AttachChildKeeps ==
  ASSUME CInv, NEW e \in End, AttachChild(e), program' = program
  PROVE  CInv'
<1> DEFINE t == Worker(e)
<1> DEFINE m == th[t].msg
<1>1. /\ th[t].pc = "attach_child" /\ th' = [th EXCEPT ![t] = Idle]
      /\ AttachToTree(e, m.node, th[t].nid, m.cnid)
      /\ UNCHANGED <<tracked, made, watched, current_nid, wire, package_queue, in,
                     ready, io, ops, holder>>
  BY DEF AttachChild, At, Become, streamVars, serverVars
<1>2. m.node \in DOMAIN Parent /\ th[t].nid \in 0 .. made[e] /\ m.cnid \in Nat
  BY <1>1, WorkerIs DEF WorkOK, Queued, Sent
<1>3. MapStep
  BY <1>1, <1>2, WorkerIs, Attaching
<1>4. /\ Idle \in Local /\ Idle.pc \notin Waiting /\ Idle.pc \notin Owning
      /\ ThreadStep(t) /\ ServesOn(t, Idle)
  BY <1>1, WorkerIs, GoesIdle
<1>5. LockStep(t, Idle) /\ th[t].pc \notin Waiting
  BY <1>1, <1>4 DEF LockStep, Waiting
<1> QED BY <1>1, <1>3, <1>4, <1>5, WorkerIs, QuietStep

-----------------------------------------------------------------------------
(* The worker takes a package; a call that was queued is served.           *)
LEMMA PopKeeps ==
  ASSUME CInv, NEW e \in End, Pop(e), program' = program
  PROVE  CInv'
<1> DEFINE t == Worker(e)
<1> DEFINE q == package_queue[e]
<1> DEFINE h == Head(q)
<1> DEFINE r == [Idle EXCEPT !.pc = Handler(h), !.msg = h]
<1>1. /\ th[t].pc = "idle" /\ q # <<>> /\ th' = [th EXCEPT ![t] = r]
      /\ package_queue' = [package_queue EXCEPT ![e] = Tail(@)]
      /\ UNCHANGED <<tracked, tree, made, watched, current_nid, wire, in, ready, io,
                     ops, holder>>
  BY DEF Pop, At, Become, nodeVars, streamVars, serverVars
<1>2. /\ package_queue \in [End -> Seq(Message)] /\ wire \in [End -> Seq(Message)]
      /\ in \in [End -> Message] /\ io \in [End -> Nat] /\ ready \subseteq Thread
      /\ Packages /\ Reading /\ Calls /\ Woken
  BY WorkerIs DEF Types, TInv, CInv
<1> DEFINE M == Message
<1>3. q \in Seq(M) /\ package_queue \in [End -> Seq(M)]
  BY <1>2
<1> HIDE DEF M
<1>4. /\ Tail(q) \in Seq(M) /\ h \in M /\ \E i \in DOMAIN q : q[i] = h
      /\ \A i \in DOMAIN Tail(q) : \E j \in DOMAIN q : Tail(q)[i] = q[j]
      /\ \A u : /\ Has(Tail(q), u) => Has(q, u)
                /\ NotTwice(q, u) => NotTwice(Tail(q), u)
                /\ h.from = u => Has(q, u)
                /\ NotTwice(q, u) /\ h.from = u => ~Has(Tail(q), u)
  BY <1>1, <1>3, Taken
<1>5. /\ package_queue'[e] = Tail(q) /\ package_queue[e] = q
      /\ \A x \in End : x # e => package_queue'[x] = package_queue[x]
      /\ package_queue' \in [End -> Seq(M)]
  BY <1>1, <1>3, <1>4
<1>6. h \in Message /\ Queued(h, e)
  BY <1>2, <1>4 DEF Packages, M
<1>7. /\ h.kind \in {"at", "ls", "get", "attach", "child", "sub"}
  BY <1>6 DEF Message, Kind, Queued, Sent, IsAnswer
<1> HIDE DEF h, q
<1>8. /\ Handler(h) \in {"cmd_at", "cmd_ls", "cmd_get_prop", "cmd_attach",
                         "cmd_child_added", "cmd_subscribe_add_remove"}
      /\ Handler(h) \in {"cmd_at", "cmd_ls", "cmd_get_prop"} <=> h.kind \in Request
      /\ Handler(h) = "cmd_at" => h.kind = "at"
      /\ Handler(h) \in {"cmd_attach", "cmd_child_added"} => h.kind \in {"attach", "child"}
  BY <1>7 DEF Handler, Request
<1>9. r \in Local /\ r.pc = Handler(h) /\ r.msg = h
  BY <1>6, <1>8, IdleIs DEF Local, WorkPc, Idle
<1> HIDE DEF r
<1>10. th'[t] = r /\ \A u \in Thread \ {t} : th'[u] = th[u]
  BY <1>1, <1>9, WorkerIs, Moved
<1>11. MapStep
  BY <1>1, WorkerIs, MapsAsTheyWere
<1>12. ThreadStep(t)
  <2>1. WorkOK(e, th[t])'
    BY <1>6, <1>8, <1>9, <1>10 DEF WorkOK, WorkPc, NidPc, Serves, Queued, Sent, Parent, Ops
  <2> QED BY <2>1, WorkerIs
<1>13. LockStep(t, r) /\ r.pc \notin Waiting /\ th[t].pc \notin Waiting
  BY <1>1, <1>8, <1>9 DEF LockStep, Owning, Waiting
<1>14. Packages' /\ Reading'
  <2>1. \A x \in End : \A i \in DOMAIN package_queue'[x] : Queued(package_queue'[x][i], x)
    <3>1. \A x \in End : \A j \in DOMAIN package_queue[x] : Queued(package_queue[x][j], x)
      BY <1>2 DEF Packages
    <3>2. \A j \in DOMAIN q : Queued(q[j], e)
      BY <1>5, <3>1
    <3>3. \A i \in DOMAIN Tail(q) : Queued(Tail(q)[i], e)
      BY <1>4, <3>2
    <3> QED BY <1>5, <3>1, <3>3
  <2> QED BY <1>1, <1>2, <2>1 DEF Packages, Reading, Queued, Sent, Parent, Ops
<1>15. Calls'
  <2>1. ASSUME NEW u \in Thread
        PROVE  /\ Asked(u)' => Asked(u)
               /\ InQueue(u)' => InQueue(u) /\ (IsServed(u)' => IsServed(u))
               /\ IsServed(u)' => IsServed(u) \/ InQueue(u)
               /\ Replied(u)' => Replied(u)
               /\ NotTwice(wire[Peer(EndOf(u))], u)'
               /\ NotTwice(wire[EndOf(u)], u)'
               /\ NotTwice(package_queue[Peer(EndOf(u))], u)'
               /\ th'[u].pc \in Waiting <=> th[u].pc \in Waiting
    <3> DEFINE p == Peer(EndOf(u))
    <3>1. p \in End /\ Worker(p) \in Thread /\ (p # e => Worker(p) # t)
      BY Ends, TheThreads
    <3>2. /\ NotTwice(wire[p], u) /\ NotTwice(wire[EndOf(u)], u)
          /\ NotTwice(package_queue[p], u)
      BY <1>2 DEF Calls
    <3>3. /\ Has(package_queue'[p], u) => Has(package_queue[p], u)
          /\ NotTwice(package_queue'[p], u)
          /\ p = e /\ h.from = u => Has(package_queue[p], u) /\ ~Has(package_queue'[p], u)
      BY <1>4, <1>5, <3>1, <3>2
    <3>4. p # e => (IsServed(u)' <=> IsServed(u))
      BY <1>10, <3>1 DEF IsServed
    <3>5. p = e => (IsServed(u)' => h.from = u)
      BY <1>9, <1>10 DEF IsServed
    <3>6. th'[u].pc \in Waiting <=> th[u].pc \in Waiting
      BY <1>10, <1>13
    <3> QED BY <1>1, <3>2, <3>3, <3>4, <3>5, <3>6 DEF Asked, InQueue, Replied
  <2> QED BY <1>1, <1>2, <2>1 DEF Calls
<1>16. Woken'
  BY <1>1, <1>2, <1>10, <1>13, WokenStays
<1>17. package_queue' \in [End -> Seq(Message)]
  BY <1>5 DEF M
<1> QED BY <1>1, <1>2, <1>9, <1>11, <1>12, <1>13, <1>14, <1>15, <1>16, <1>17, WorkerIs,
           Assemble

(* The worker replies to the call it served.                               *)
LEMMA ReplyKeeps ==
  ASSUME CInv, NEW e \in End, Reply(e), program' = program
  PROVE  CInv'
<1> DEFINE t == Worker(e)
<1> DEFINE f == th[t].msg.from
<1> DEFINE k == IF At(t, "reply") THEN "ok" ELSE "error"
<1> DEFINE m == Answer(k, f, th[t].nid)
<1> DEFINE p == Peer(e)
<1>1. /\ th[t].pc \in {"reply", "reply_error"} /\ th' = [th EXCEPT ![t] = Idle]
      /\ wire' = [wire EXCEPT ![p] = Append(@, m)]
      /\ UNCHANGED <<tracked, tree, made, watched, current_nid, package_queue, in, ready,
                     io, ops, holder>>
  BY DEF Reply, At, Become, Write, nodeVars, serverVars
<1>2. /\ package_queue \in [End -> Seq(Message)] /\ wire \in [End -> Seq(Message)]
      /\ in \in [End -> Message] /\ io \in [End -> Nat] /\ ready \subseteq Thread
      /\ Calls /\ Woken
  BY WorkerIs DEF Types, TInv, CInv
<1>3. f \in Thread /\ EndOf(f) = p /\ p \in End /\ p # e /\ Peer(p) = e
  <2>1. th[t].pc \in Serves /\ th[t].pc # "idle"
    BY <1>1 DEF Serves
  <2>2. th[t].msg.kind \in Request /\ Queued(th[t].msg, e)
    BY <2>1, WorkerIs DEF WorkOK
  <2> QED BY <2>2, Ends DEF Queued, Sent
<1>4. m \in Message /\ m.from = f /\ m.kind \in {"ok", "error"}
  <2>1. k \in {"ok", "error"} /\ k \in Kind
    BY DEF Kind
  <2>2. th[t].nid \in Nat /\ Root \in Nodes /\ 0 \in Nat
    BY WorkerIs DEF Local, Nodes
  <2> HIDE DEF k, f
  <2> QED BY <1>3, <2>1, <2>2, Messages DEF Answer
<1>5. IsServed(f)
  BY <1>1, <1>3 DEF IsServed, Serves
<1> HIDE DEF m, f
<1>6. Sent(m, p)
  BY <1>3, <1>4 DEF Sent, IsAnswer, Request
<1>7. wire' \in [End -> Seq(Message)] /\ Packages' /\ Reading'
  BY <1>1, <1>3, <1>4, <1>6, WorkerIs, PackagesWrite
<1>8. /\ \A u : Has(wire'[p], u) <=> Has(wire[p], u) \/ u = f
      /\ \A u : NotTwice(wire[p], u) /\ (u = f => ~Has(wire[p], u)) => NotTwice(wire'[p], u)
      /\ wire'[e] = wire[e]
  <2>1. wire'[p] = Append(wire[p], m) /\ wire[p] \in Seq(Message) /\ wire'[e] = wire[e]
    BY <1>1, <1>2, <1>3
  <2>2. \A u : /\ Has(Append(wire[p], m), u) <=> Has(wire[p], u) \/ m.from = u
               /\ NotTwice(wire[p], u) /\ (m.from = u => ~Has(wire[p], u)) =>
                    NotTwice(Append(wire[p], m), u)
    BY <1>4, <2>1, Added
  <2> QED BY <1>4, <2>1, <2>2
<1>9. /\ Idle \in Local /\ Idle.pc \notin Waiting /\ Idle.pc \notin Owning
      /\ Idle.pc \notin Serves /\ ThreadStep(t)
  BY <1>1, WorkerIs, GoesIdle, IdleIs
<1>10. th'[t] = Idle /\ \A u \in Thread \ {t} : th'[u] = th[u]
  BY <1>1, <1>9, WorkerIs, Moved
<1>11. LockStep(t, Idle) /\ th[t].pc \notin Waiting
  BY <1>1, <1>9 DEF LockStep, Waiting
<1>12. MapStep
  BY <1>1, WorkerIs, MapsAsTheyWere
<1>13. Calls'
  <2>1. ASSUME NEW u \in Thread
        PROVE  /\ Asked(u)' => Asked(u)
               /\ InQueue(u)' => InQueue(u)
               /\ IsServed(u)' => IsServed(u) /\ u # f
               /\ Replied(u)' => Replied(u) \/ u = f
               /\ NotTwice(wire[Peer(EndOf(u))], u)'
               /\ NotTwice(wire[EndOf(u)], u)'
               /\ NotTwice(package_queue[Peer(EndOf(u))], u)'
               /\ th'[u].pc \in Waiting <=> th[u].pc \in Waiting
    <3>1. /\ EndOf(u) \in End /\ Peer(EndOf(u)) \in End /\ Peer(EndOf(u)) # EndOf(u)
          /\ Worker(Peer(EndOf(u))) \in Thread
          /\ Peer(EndOf(u)) # e => Worker(Peer(EndOf(u))) # t
          /\ EndOf(u) = p \/ EndOf(u) = e
      BY Ends, TheThreads
    <3>2. /\ NotTwice(wire[Peer(EndOf(u))], u) /\ NotTwice(wire[EndOf(u)], u)
          /\ NotTwice(package_queue[Peer(EndOf(u))], u)
      BY <1>2 DEF Calls
    <3>3. u = f => ~Has(wire[p], u)
      BY <1>2, <1>3, <1>5 DEF Calls, Replied
    <3>4. NotTwice(wire'[p], u) /\ NotTwice(wire'[e], u)
      <4>1. NotTwice(wire[p], u) /\ NotTwice(wire[e], u)
        BY <1>3, <3>1, <3>2
      <4> QED BY <1>8, <3>3, <4>1
    <3>5. IsServed(u)' => IsServed(u) /\ u # f
      BY <1>3, <1>9, <1>10, <3>1 DEF IsServed
    <3>6. (Asked(u)' => Asked(u)) /\ (Replied(u)' => Replied(u) \/ u = f)
      <4>1. u = f => EndOf(u) = p
        BY <1>3
      <4> QED BY <1>3, <1>8, <3>1, <4>1 DEF Asked, Replied
    <3>7. th'[u].pc \in Waiting <=> th[u].pc \in Waiting
      BY <1>9, <1>10, <1>11
    <3>8. NotTwice(wire[Peer(EndOf(u))], u)' /\ NotTwice(wire[EndOf(u)], u)'
      BY <1>3, <3>1, <3>4
    <3> QED BY <1>1, <3>2, <3>5, <3>6, <3>7, <3>8 DEF InQueue
  <2> QED BY <1>1, <1>2, <1>5, <2>1 DEF Calls
<1>14. Woken'
  BY <1>1, <1>2, <1>9, <1>10, WokenStays
<1> QED BY <1>1, <1>2, <1>7, <1>9, <1>11, <1>12, <1>13, <1>14, WorkerIs, Assemble

-----------------------------------------------------------------------------
(* The reading thread moves packages and touches nothing else.             *)
LEMMA Reads ==
  ASSUME CInv, program' = program,
         UNCHANGED <<tracked, tree, made, watched, holder, th, ops>>,
         current_nid' \in Nat \ {0}, io' \in [End -> Nat],
         wire' \in [End -> Seq(Message)], package_queue' \in [End -> Seq(Message)],
         in' \in [End -> Message], ready' \subseteq Thread,
         Packages', Reading', Calls', Woken'
  PROVE  CInv'
<1>1. Types /\ Maps /\ Threads /\ Locks
  BY DEF CInv, TInv
<1>2. Types'
  BY <1>1 DEF Types
<1>3. Maps' /\ Locks'
  BY <1>1 DEF Maps, Locks, Parent
<1>4. Threads'
  BY <1>1 DEF Threads, AppOK, WorkOK, Queued, Sent, Parent, Ops
<1> QED BY <1>2, <1>3, <1>4 DEF CInv, TInv

(* The packages before it, without the first of them.                      *)
LEMMA WireTaken ==
  ASSUME CInv, NEW e \in End, wire[e] # <<>>
  PROVE  /\ Head(wire[e]) \in Message /\ Sent(Head(wire[e]), e)
         /\ Tail(wire[e]) \in Seq(Message)
         /\ \A i \in DOMAIN Tail(wire[e]) : Sent(Tail(wire[e])[i], e)
         /\ \A u : /\ Has(Tail(wire[e]), u) => Has(wire[e], u)
                   /\ NotTwice(wire[e], u) => NotTwice(Tail(wire[e]), u)
                   /\ Head(wire[e]).from = u => Has(wire[e], u)
                   /\ NotTwice(wire[e], u) /\ Head(wire[e]).from = u =>
                        ~Has(Tail(wire[e]), u)
<1> DEFINE M == Message
<1> DEFINE s == wire[e]
<1>1. s \in Seq(M) /\ s # <<>> /\ \A i \in DOMAIN s : Sent(s[i], e)
  BY DEF CInv, TInv, Types, Packages
<1> HIDE DEF M, s
<1>2. /\ Tail(s) \in Seq(M) /\ Head(s) \in M /\ \E i \in DOMAIN s : s[i] = Head(s)
      /\ \A i \in DOMAIN Tail(s) : \E j \in DOMAIN s : Tail(s)[i] = s[j]
      /\ \A u : /\ Has(Tail(s), u) => Has(s, u)
                /\ NotTwice(s, u) => NotTwice(Tail(s), u)
                /\ Head(s).from = u => Has(s, u)
                /\ NotTwice(s, u) /\ Head(s).from = u => ~Has(Tail(s), u)
  BY <1>1, Taken
<1>3. Sent(Head(s), e) /\ \A i \in DOMAIN Tail(s) : Sent(Tail(s)[i], e)
  BY <1>1, <1>2
<1> QED BY <1>2, <1>3 DEF M, s

(* What of the state the reading thread needs.                             *)
LEMMA ReaderIs ==
  ASSUME CInv
  PROVE  /\ TInv /\ Types /\ Packages /\ Reading /\ Calls /\ Woken
         /\ wire \in [End -> Seq(Message)] /\ package_queue \in [End -> Seq(Message)]
         /\ in \in [End -> Message] /\ io \in [End -> Nat] /\ ready \subseteq Thread
         /\ current_nid \in Nat \ {0}
  BY DEF CInv, TInv, Types

(* A request or a note goes from the socket to the worker's queue.         *)
LEMMA EnqueueKeeps ==
  ASSUME CInv, NEW e \in End, Enqueue(e), program' = program
  PROVE  CInv'
<1> DEFINE h == Head(wire[e])
<1> DEFINE w == Tail(wire[e])
<1> DEFINE M == Message
<1>1. /\ io[e] = 0 /\ wire[e] # <<>> /\ ~IsAnswer(h) /\ h.kind # "gen"
      /\ package_queue' = [package_queue EXCEPT ![e] = Append(@, h)]
      /\ wire' = [wire EXCEPT ![e] = w]
      /\ UNCHANGED <<tracked, tree, made, watched, current_nid, holder, th, in, ready, io,
                     ops>>
  BY DEF Enqueue, Take, nodeVars, serverVars
<1>2. /\ h \in M /\ Sent(h, e) /\ w \in Seq(M)
      /\ \A i \in DOMAIN w : Sent(w[i], e)
      /\ \A u : /\ Has(w, u) => Has(wire[e], u)
                /\ NotTwice(wire[e], u) => NotTwice(w, u)
                /\ h.from = u => Has(wire[e], u)
                /\ NotTwice(wire[e], u) /\ h.from = u => ~Has(w, u)
  BY <1>1, WireTaken
<1>3. /\ wire \in [End -> Seq(M)] /\ package_queue \in [End -> Seq(M)] /\ Packages
      /\ Reading /\ Calls /\ Woken
  BY ReaderIs
<1> HIDE DEF h, w, M
<1> DEFINE q == package_queue[e]
<1> DEFINE a == Append(q, h)
<1>4. q \in Seq(M)
  BY <1>3
<1>5. /\ a \in Seq(M)
      /\ \A i \in DOMAIN a : a[i] = h \/ (i \in DOMAIN q /\ a[i] = q[i])
      /\ \A u : /\ Has(a, u) <=> Has(q, u) \/ h.from = u
                /\ NotTwice(q, u) /\ (h.from = u => ~Has(q, u)) => NotTwice(a, u)
  BY <1>2, <1>4, Added
<1>6. /\ wire'[e] = w /\ package_queue'[e] = a
      /\ \A x \in End : x # e => /\ wire'[x] = wire[x]
                                 /\ package_queue'[x] = package_queue[x]
      /\ wire' \in [End -> Seq(M)] /\ package_queue' \in [End -> Seq(M)]
  BY <1>1, <1>2, <1>3, <1>5
<1>7. Packages'
  <2>1. /\ \A x \in End : \A i \in DOMAIN wire[x] : Sent(wire[x][i], x)
        /\ \A x \in End : \A i \in DOMAIN package_queue[x] : Queued(package_queue[x][i], x)
    BY <1>3 DEF Packages
  <2>2. \A i \in DOMAIN a : Queued(a[i], e)
    <3>1. Queued(h, e)
      BY <1>1, <1>2 DEF Queued
    <3> QED BY <1>5, <2>1, <3>1
  <2> HIDE DEF a
  <2>3. /\ \A x \in End : \A i \in DOMAIN wire'[x] : Sent(wire'[x][i], x)
        /\ \A x \in End : \A i \in DOMAIN package_queue'[x] :
             Queued(package_queue'[x][i], x)
    BY <1>2, <1>6, <2>1, <2>2
  <2> QED BY <2>3 DEF Packages, Queued, Sent, Parent, Ops
<1>8. Reading'
  <2>1. io["server"] # 0 => e # "server"
    BY <1>1
  <2> QED BY <1>1, <1>3, <1>6, <2>1, Ends DEF Reading
<1> HIDE DEF a
<1>9. Calls'
  <2>1. ASSUME NEW u \in Thread
        PROVE  /\ Asked(u)' => Asked(u)
               /\ InQueue(u)' => InQueue(u) \/ (Asked(u) /\ ~Asked(u)')
               /\ IsServed(u)' => IsServed(u)
               /\ Replied(u)' => Replied(u)
               /\ NotTwice(wire[Peer(EndOf(u))], u)'
               /\ NotTwice(wire[EndOf(u)], u)'
               /\ NotTwice(package_queue[Peer(EndOf(u))], u)'
    <3> DEFINE p == Peer(EndOf(u))
    <3>1. p \in End /\ EndOf(u) \in End
      BY Ends, TheThreads
    <3> HIDE DEF p
    <3>2. /\ NotTwice(wire[p], u) /\ NotTwice(wire[EndOf(u)], u)
          /\ NotTwice(package_queue[p], u)
          /\ ~(Has(wire[p], u) /\ Has(package_queue[p], u))
      BY <1>3 DEF Calls, Asked, InQueue, p
    <3>3. /\ Has(wire'[p], u) => Has(wire[p], u)
          /\ Has(wire'[EndOf(u)], u) => Has(wire[EndOf(u)], u)
          /\ NotTwice(wire'[p], u) /\ NotTwice(wire'[EndOf(u)], u)
      BY <1>2, <1>6, <3>1, <3>2
    <3>4. /\ Has(package_queue'[p], u) =>
               Has(package_queue[p], u) \/ (Has(wire[p], u) /\ ~Has(wire'[p], u))
          /\ NotTwice(package_queue'[p], u)
      <4>1. CASE p = e
        BY <1>2, <1>5, <1>6, <3>2, <4>1
      <4>2. CASE p # e
        BY <1>6, <3>1, <3>2, <4>2
      <4> QED BY <4>1, <4>2
    <3>5. IsServed(u)' => IsServed(u)
      BY <1>1 DEF IsServed
    <3> QED BY <3>3, <3>4, <3>5 DEF Asked, InQueue, Replied, p
  <2> QED BY <1>1, <1>3, <2>1 DEF Calls
<1>10. Woken'
  BY <1>1, <1>3, WokenStays
<1>11. /\ wire' \in [End -> Seq(Message)] /\ package_queue' \in [End -> Seq(Message)]
       /\ in' \in [End -> Message] /\ io' \in [End -> Nat] /\ ready' \subseteq Thread
       /\ current_nid' \in Nat \ {0}
  BY <1>1, <1>6, ReaderIs DEF M
<1> QED BY <1>1, <1>7, <1>8, <1>9, <1>10, <1>11, Reads

(* The reading thread of the server loads the counter; the request stays   *)
(* first.                                                                  *)
LEMMA LoadForPeerKeeps ==
  ASSUME CInv, NEW e \in End, LoadForPeer(e), program' = program
  PROVE  CInv'
<1>1. /\ io[e] = 0 /\ wire[e] # <<>> /\ Head(wire[e]).kind = "gen"
      /\ io' = [io EXCEPT ![e] = current_nid]
      /\ UNCHANGED <<tracked, tree, made, watched, current_nid, wire, package_queue,
                     holder, th, in, ready, ops>>
  BY DEF LoadForPeer, nodeVars, streamVars
<1>2. e = "server"
  BY <1>1, WireTaken DEF Sent
<1>3. Packages' /\ Reading'
  BY <1>1, <1>2, ReaderIs, Ends DEF Packages, Reading, Queued, Sent, Parent, Ops
<1>4. Calls' /\ Woken'
  <2>1. Calls'
    BY <1>1, ReaderIs DEF Calls, Asked, InQueue, IsServed, Replied
  <2> QED BY <1>1, <2>1, ReaderIs, WokenStays
<1>5. /\ wire' \in [End -> Seq(Message)] /\ package_queue' \in [End -> Seq(Message)]
      /\ in' \in [End -> Message] /\ io' \in [End -> Nat] /\ ready' \subseteq Thread
      /\ current_nid' \in Nat \ {0}
  BY <1>1, ReaderIs
<1> QED BY <1>1, <1>3, <1>4, <1>5, Reads

(* The client's request for a nid becomes the reply to it.                 *)
LEMMA StoreForPeerKeeps ==
  ASSUME CInv, NEW e \in End, StoreForPeer(e), program' = program
  PROVE  CInv'
<1> DEFINE p == Peer(e)
<1> DEFINE f == Head(wire[e]).from
<1> DEFINE w == Tail(wire[e])
<1> DEFINE m == Answer("ok", f, io[e])
<1> DEFINE M == Message
<1>1. /\ io[e] # 0 /\ current_nid' = io[e] + 1 /\ io' = [io EXCEPT ![e] = 0]
      /\ wire' = [wire EXCEPT ![e] = w, ![p] = Append(@, m)]
      /\ UNCHANGED <<tracked, tree, made, watched, package_queue, holder, th, in, ready,
                     ops>>
  BY DEF StoreForPeer, nodeVars
<1>2. /\ e = "server" /\ wire[e] # <<>> /\ Head(wire[e]).kind = "gen"
      /\ p = "client" /\ p \in End /\ p # e /\ Peer(p) = e
  BY <1>1, ReaderIs, Ends DEF Reading
<1>3. /\ Sent(Head(wire[e]), e) /\ w \in Seq(M)
      /\ \A i \in DOMAIN w : Sent(w[i], e)
      /\ \A u : /\ Has(w, u) => Has(wire[e], u)
                /\ NotTwice(wire[e], u) => NotTwice(w, u)
                /\ f = u => Has(wire[e], u)
                /\ NotTwice(wire[e], u) /\ f = u => ~Has(w, u)
  BY <1>2, WireTaken
<1>4. f \in Thread /\ EndOf(f) = p
  BY <1>2, <1>3 DEF Sent, Request
<1> HIDE DEF w, f
<1>5. m \in M /\ m.from = f /\ m.kind = "ok"
  <2>1. f \in Thread \cup {NoThread} /\ "ok" \in Kind /\ 0 \in Nat /\ Root \in Nodes
        /\ io[e] \in Nat
    BY <1>4, ReaderIs DEF Kind, Nodes
  <2> QED BY <2>1, Messages DEF Answer
<1> HIDE DEF m
<1>6. Sent(m, p)
  BY <1>4, <1>5 DEF Sent, IsAnswer, Request
<1>7. /\ wire \in [End -> Seq(M)] /\ Packages /\ Reading /\ Calls /\ Woken
  BY ReaderIs
<1> HIDE DEF M
<1> DEFINE a == Append(wire[p], m)
<1>8. /\ a \in Seq(M)
      /\ \A i \in DOMAIN a : a[i] = m \/ (i \in DOMAIN wire[p] /\ a[i] = wire[p][i])
      /\ \A u : /\ Has(a, u) <=> Has(wire[p], u) \/ m.from = u
                /\ NotTwice(wire[p], u) /\ (m.from = u => ~Has(wire[p], u)) =>
                     NotTwice(a, u)
  <2>1. wire[p] \in Seq(M)
    BY <1>2, <1>7
  <2> QED BY <1>5, <2>1, Added
<1>9. /\ wire'[e] = w /\ wire'[p] = a /\ wire' \in [End -> Seq(M)]
      /\ \A x \in End : x = e \/ x = p
  BY <1>1, <1>2, <1>3, <1>7, <1>8, Ends
<1> HIDE DEF a
<1>10. Packages'
  <2>1. \A x \in End : \A i \in DOMAIN wire[x] : Sent(wire[x][i], x)
    BY <1>7 DEF Packages
  <2>2. \A i \in DOMAIN a : Sent(a[i], p)
    BY <1>2, <1>6, <1>8, <2>1
  <2>3. \A x \in End : \A i \in DOMAIN wire'[x] : Sent(wire'[x][i], x)
    BY <1>3, <1>9, <2>2
  <2> QED BY <1>1, <1>7, <2>3 DEF Packages, Queued, Sent, Parent, Ops
<1>11. Reading' /\ io' \in [End -> Nat] /\ current_nid' \in Nat \ {0}
  BY <1>1, <1>2, ReaderIs, Ends DEF Reading
<1>12. Calls'
  <2>1. ASSUME NEW u \in Thread
        PROVE  /\ Asked(u)' => Asked(u)
               /\ InQueue(u)' => InQueue(u)
               /\ IsServed(u)' => IsServed(u)
               /\ Replied(u)' => Replied(u) \/ (Asked(u) /\ ~Asked(u)')
               /\ NotTwice(wire[Peer(EndOf(u))], u)'
               /\ NotTwice(wire[EndOf(u)], u)'
               /\ NotTwice(package_queue[Peer(EndOf(u))], u)'
    <3>1. /\ NotTwice(wire[Peer(EndOf(u))], u) /\ NotTwice(wire[EndOf(u)], u)
          /\ NotTwice(package_queue[Peer(EndOf(u))], u)
          /\ ~(Has(wire[Peer(EndOf(u))], u) /\ Has(wire[EndOf(u)], u))
      BY <1>7 DEF Calls, Asked, Replied
    <3>2. /\ (EndOf(u) = p /\ Peer(EndOf(u)) = e) \/ (EndOf(u) = e /\ Peer(EndOf(u)) = p)
      BY <1>2, <1>9, TheThreads
    <3>3. CASE EndOf(u) = p /\ Peer(EndOf(u)) = e
      <4>1. /\ Has(wire'[e], u) => Has(wire[e], u)
            /\ Has(wire'[p], u) => Has(wire[p], u) \/ (Has(wire[e], u) /\ ~Has(wire'[e], u))
            /\ NotTwice(wire'[e], u) /\ NotTwice(wire'[p], u)
        BY <1>3, <1>5, <1>8, <1>9, <3>1, <3>3
      <4> QED BY <1>1, <3>1, <3>3, <4>1 DEF Asked, InQueue, IsServed, Replied
    <3>4. CASE EndOf(u) = e /\ Peer(EndOf(u)) = p
      <4>1. u # f
        BY <1>2, <1>4, <3>4
      <4>2. /\ Has(wire'[e], u) => Has(wire[e], u)
            /\ Has(wire'[p], u) => Has(wire[p], u)
            /\ NotTwice(wire'[e], u) /\ NotTwice(wire'[p], u)
        BY <1>3, <1>5, <1>8, <1>9, <3>1, <3>4, <4>1
      <4> QED BY <1>1, <3>1, <3>4, <4>2 DEF Asked, InQueue, IsServed, Replied
    <3> QED BY <3>2, <3>3, <3>4
  <2> QED BY <1>1, <1>7, <2>1 DEF Calls
<1>13. Woken'
  BY <1>1, <1>7, WokenStays
<1>14. /\ wire' \in [End -> Seq(Message)] /\ package_queue' \in [End -> Seq(Message)]
       /\ in' \in [End -> Message] /\ ready' \subseteq Thread
  BY <1>1, <1>9, ReaderIs DEF M
<1> QED BY <1>1, <1>10, <1>11, <1>12, <1>13, <1>14, Reads

(* Two threads of an end wait at once only if one is the application in ls *)
(* and the other the client's worker asking for a nid: all others have the *)
(* lock, and the worker asks only for a node the server fetches.           *)
LEMMA OneWaits ==
  ASSUME CInv, LsIsAlone, NEW t \in Thread, NEW u \in Thread, EndOf(t) = EndOf(u),
         th[t].pc \in Waiting, th[u].pc \in Waiting
  PROVE  t = u
<1>1. SUFFICES ASSUME NEW e \in End, th[App(e)].pc \in Waiting, th[Worker(e)].pc \in Waiting
               PROVE  FALSE
  BY TheThreads
<1>2. /\ AppOK(e, th[App(e)]) /\ WorkOK(e, th[Worker(e)]) /\ Locks
      /\ App(e) \in Thread /\ Worker(e) \in Thread /\ App(e) # Worker(e)
      /\ EndOf(App(e)) = e /\ EndOf(Worker(e)) = e
  BY TheThreads DEF CInv, TInv, Threads
<1>3. /\ th[Worker(e)].pc = "gen" /\ e = "client" /\ th[Worker(e)].msg.kind = "at"
      /\ Queued(th[Worker(e)].msg, e)
  BY <1>1, <1>2 DEF WorkOK, WorkPc, NidPc, Waiting
<1>4. "fetch" \in Ops["server"]
  BY <1>3, Ends DEF Queued, Sent
<1>5. holder[e] = Worker(e)
  BY <1>2, <1>3 DEF Locks, Owning
<1>6. th[App(e)].pc \notin Owning
  BY <1>2, <1>5 DEF Locks
<1>7. th[App(e)].pc = "ls"
  BY <1>1, <1>6 DEF Waiting, Owning
<1> QED BY <1>2, <1>3, <1>4, <1>7 DEF AppOK, LsIsAlone

(* A reply is copied to "in": the thread it is for is the only one of its  *)
(* end that waits, so nobody else's reply is overwritten.                  *)
LEMMA ReceiveReplyKeeps ==
  ASSUME CInv, NEW e \in End, ReceiveReply(e), program' = program
  PROVE  CInv'
<1> DEFINE h == Head(wire[e])
<1> DEFINE w == Tail(wire[e])
<1> DEFINE M == Message
<1>1. /\ io[e] = 0 /\ wire[e] # <<>> /\ IsAnswer(h)
      /\ in' = [in EXCEPT ![e] = h] /\ ready' = ready \cup {h.from}
      /\ wire' = [wire EXCEPT ![e] = w]
      /\ UNCHANGED <<tracked, tree, made, watched, current_nid, holder, th, package_queue,
                     io, ops>>
  BY DEF ReceiveReply, Take, nodeVars, serverVars
<1>2. /\ h \in M /\ Sent(h, e) /\ w \in Seq(M)
      /\ \A i \in DOMAIN w : Sent(w[i], e)
      /\ \A u : /\ Has(w, u) => Has(wire[e], u)
                /\ NotTwice(wire[e], u) => NotTwice(w, u)
                /\ h.from = u => Has(wire[e], u)
                /\ NotTwice(wire[e], u) /\ h.from = u => ~Has(w, u)
  BY <1>1, WireTaken
<1>3. /\ wire \in [End -> Seq(M)] /\ in \in [End -> M] /\ Packages /\ Reading /\ Calls
      /\ Woken
  BY ReaderIs
<1>4. h.from \in Thread /\ EndOf(h.from) = e
  BY <1>1, <1>2 DEF Sent
<1> HIDE DEF h, w, M
<1>5. /\ wire'[e] = w /\ \A x \in End : x # e => wire'[x] = wire[x]
      /\ wire' \in [End -> Seq(M)] /\ in' \in [End -> M]
      /\ in'[e] = h /\ \A x \in End : x # e => in'[x] = in[x]
  BY <1>1, <1>2, <1>3
<1>6. Packages'
  <2>1. \A x \in End : \A i \in DOMAIN wire[x] : Sent(wire[x][i], x)
    BY <1>3 DEF Packages
  <2>2. \A x \in End : \A i \in DOMAIN wire'[x] : Sent(wire'[x][i], x)
    BY <1>2, <1>5, <2>1
  <2> QED BY <1>1, <1>3, <2>2 DEF Packages, Queued, Sent, Parent, Ops
<1>7. Reading'
  <2>1. io["server"] # 0 => e # "server"
    BY <1>1
  <2> QED BY <1>1, <1>3, <1>5, <2>1, Ends DEF Reading
<1>8. Replied(h.from)
  BY <1>2, <1>4 DEF Replied
<1>9. Calls'
  <2>1. ASSUME NEW u \in Thread
        PROVE  /\ Asked(u)' => Asked(u)
               /\ InQueue(u)' => InQueue(u)
               /\ IsServed(u)' => IsServed(u)
               /\ Replied(u)' => Replied(u) /\ u # h.from
               /\ NotTwice(wire[Peer(EndOf(u))], u)'
               /\ NotTwice(wire[EndOf(u)], u)'
               /\ NotTwice(package_queue[Peer(EndOf(u))], u)'
    <3>1. Peer(EndOf(u)) \in End /\ EndOf(u) \in End
      BY Ends, TheThreads
    <3>2. /\ NotTwice(wire[Peer(EndOf(u))], u) /\ NotTwice(wire[EndOf(u)], u)
          /\ NotTwice(package_queue[Peer(EndOf(u))], u)
      BY <1>3 DEF Calls
    <3>3. /\ Has(wire'[Peer(EndOf(u))], u) => Has(wire[Peer(EndOf(u))], u)
          /\ Has(wire'[EndOf(u)], u) => Has(wire[EndOf(u)], u) /\ u # h.from
          /\ NotTwice(wire'[Peer(EndOf(u))], u) /\ NotTwice(wire'[EndOf(u)], u)
      BY <1>2, <1>4, <1>5, <3>1, <3>2
    <3> QED BY <1>1, <3>2, <3>3 DEF Asked, InQueue, IsServed, Replied
  <2> QED BY <1>1, <1>3, <1>4, <1>8, <2>1 DEF Calls
<1>10. Woken'
  <2>1. th[h.from].pc \in Waiting
    BY <1>3, <1>4, <1>8 DEF Calls
  <2>2. ASSUME LsIsAlone, NEW t \in Thread, t \in ready', th'[t].pc \in Waiting
        PROVE  in'[EndOf(t)].from = t
    <3>1. EndOf(t) \in End /\ th[t].pc \in Waiting
      BY <1>1, <2>2, TheThreads
    <3>2. CASE EndOf(t) = e
      <4>1. t = h.from
        BY <1>4, <2>1, <2>2, <3>1, <3>2, OneWaits
      <4> QED BY <1>5, <3>2, <4>1
    <3>3. CASE EndOf(t) # e
      <4>1. t \in ready
        BY <1>1, <1>4, <2>2, <3>3
      <4> QED BY <1>3, <1>5, <2>2, <3>1, <3>3, <4>1 DEF Woken, WokenByOwnReply
    <3> QED BY <3>2, <3>3
  <2>3. LsIsAlone' <=> LsIsAlone
    BY DEF LsIsAlone, Ops
  <2> QED BY <2>2, <2>3 DEF Woken, WokenByOwnReply
<1>11. /\ wire' \in [End -> Seq(Message)] /\ package_queue' \in [End -> Seq(Message)]
       /\ in' \in [End -> Message] /\ io' \in [End -> Nat] /\ ready' \subseteq Thread
       /\ current_nid' \in Nat \ {0}
  BY <1>1, <1>4, <1>5, ReaderIs DEF M
<1> QED BY <1>1, <1>6, <1>7, <1>9, <1>10, <1>11, Reads
-----------------------------------------------------------------------------
(* The connection comes up with one package on its way.                    *)
LEMMA InitKeeps == Init => CInv
<1> SUFFICES ASSUME Init PROVE CInv
  OBVIOUS
<1> DEFINE s == Note("sub", 0, Root, 0)
<1>1. s \in Message /\ s.from = NoThread /\ s.kind = "sub"
  BY Messages DEF Note, Kind, Nodes
<1>2. \A e \in End : wire[e] = IF e = "server" THEN <<s>> ELSE <<>>
  BY DEF Init
<1> HIDE DEF s
<1>3. /\ DOMAIN <<s>> = {1} /\ <<s>>[1] = s
      /\ DOMAIN << >> = {}
  BY Ends
<1>4. \A e \in End : \A i \in DOMAIN wire[e] : wire[e][i] = s
  BY <1>2, <1>3
<1>5. /\ \A e \in End : package_queue[e] = <<>>
      /\ \A t \in Thread : th[t] = Idle /\ th[t].pc = "idle"
      /\ ready = {} /\ holder = [e \in End |-> NoThread] /\ io = [e \in End |-> 0]
  BY IdleIs DEF Init
<1>6. Types
  <2>1. wire \in [End -> Seq(Message)] /\ package_queue \in [End -> Seq(Message)]
    <3> DEFINE M == Message
    <3>1. s \in M
      BY <1>1
    <3> HIDE DEF M
    <3>2. <<s>> \in Seq(M) /\ << >> \in Seq(M)
      BY <3>1
    <3>3. wire \in [End -> Seq(M)] /\ package_queue \in [End -> Seq(M)]
      BY <3>2 DEF Init, s
    <3> QED BY <3>3 DEF M
  <2>2. th \in [Thread -> Local] /\ in \in [End -> Message]
    BY IdleIs DEF Init
  <2>3. ops \in [End -> 0 .. MaxOps] /\ watched \in [End -> SUBSET Nodes]
    BY DEF Init, Nodes
  <2>4. /\ program \in Programs /\ DOMAIN tracked = End /\ DOMAIN tree = End
        /\ made \in [End -> Nat] /\ holder \in [End -> Thread \cup {NoThread}]
        /\ current_nid \in Nat \ {0} /\ io \in [End -> Nat] /\ ready \subseteq Thread
    BY DEF Init
  <2> QED BY <2>1, <2>2, <2>3, <2>4 DEF Types
<1>7. Maps
  <2>1. ASSUME NEW e \in End
        PROVE  /\ DOMAIN tracked[e] = {0} /\ tracked[e][0] = Object(Root, 0)
               /\ tree[e] = << >> /\ made[e] = 0
    BY DEF Init
  <2>2. Object(Root, 0).node \in Nodes /\ Object(Root, 0).obj \in 0 .. 0
    BY DEF Object, Nodes
  <2> QED BY <1>3, <2>1, <2>2 DEF Maps
<1>8. Packages /\ Reading
  <2>1. \A e \in End : Sent(s, e)
    BY <1>1 DEF Sent, IsAnswer, Request
  <2> QED BY <1>3, <1>4, <1>5, <2>1, Ends DEF Packages, Reading
<1>9. Threads /\ Locks
  BY <1>5, TheThreads
  DEF Threads, Locks, AppOK, AppPc, WorkOK, WorkPc, NidPc, Serves, Owning
<1>10. Calls
  <2>1. ASSUME NEW u \in Thread
        PROVE  /\ ~Asked(u) /\ ~InQueue(u) /\ ~IsServed(u) /\ ~Replied(u)
               /\ NotTwice(wire[Peer(EndOf(u))], u) /\ NotTwice(wire[EndOf(u)], u)
               /\ NotTwice(package_queue[Peer(EndOf(u))], u)
    <3>1. /\ Peer(EndOf(u)) \in End /\ EndOf(u) \in End
          /\ Worker(Peer(EndOf(u))) \in Thread /\ u # NoThread
      BY Ends, TheThreads
    <3>2. \A e \in End : ~Has(wire[e], u) /\ ~Has(package_queue[e], u)
      BY <1>1, <1>3, <1>4, <1>5, <3>1 DEF Has
    <3>3. \A e \in End : NotTwice(wire[e], u) /\ NotTwice(package_queue[e], u)
      BY <3>2 DEF Has, NotTwice
    <3>4. ~IsServed(u)
      BY <1>5, <3>1 DEF IsServed, Serves, NidPc
    <3> QED BY <3>1, <3>2, <3>3, <3>4 DEF Asked, InQueue, Replied
  <2> QED BY <2>1 DEF Calls
<1>11. Woken
  BY <1>5 DEF Woken, WokenByOwnReply
<1> QED BY <1>6, <1>7, <1>8, <1>9, <1>10, <1>11 DEF CInv, TInv

(* get_nid, on behalf of whichever thread.                                 *)
LEMMA NidStepKeeps ==
  ASSUME CInv, NEW t \in Thread, NidStep(t), program' = program
  PROVE  CInv'
  BY GetNidFoundKeeps, LoadNidKeeps, StoreNidKeeps, RequestNidKeeps, ReceiveNidKeeps
  DEF NidStep

(* Every step keeps the invariant.                                         *)
LEMMA StepKeeps == CInv /\ [Next]_vars => CInv'
<1> SUFFICES ASSUME CInv, [Next]_vars PROVE CInv'
  OBVIOUS
<1>1. CASE UNCHANGED vars
  <2>1. /\ UNCHANGED <<program, tracked, tree, made, watched, holder, current_nid, wire,
                       package_queue, th, in, ready, io, ops>>
    BY <1>1 DEF vars, nodeVars, streamVars, serverVars
  <2>2. Packages' /\ Reading' /\ Woken'
    BY <2>1, ReaderIs, PackagesStay, WokenStays
  <2>3. Calls'
    BY <2>1, ReaderIs DEF Calls, Asked, InQueue, IsServed, Replied
  <2> QED BY <2>1, <2>2, <2>3, ReaderIs, Reads
<1>2. CASE Next
  <2> PICK e \in End : AppBegins(e) \/ AppContinues(e) \/ WorkerStep(e) \/ IoStep(e)
    BY <1>2 DEF Next
  <2>1. program' = program
    BY <1>2 DEF Next
  <2>2. App(e) \in Thread /\ Worker(e) \in Thread
    BY TheThreads
  <2>3. CASE AppBegins(e)
    <3>1. PICK n \in DOMAIN Parent : \/ CreateLocal(e, n) \/ CreateRemote(e, n)
                                     \/ FetchBegin(e, n) \/ UpdateBegin(e, n)
                                     \/ LsBegin(e, n)
      BY <2>3 DEF AppBegins
    <3> QED BY <2>1, <3>1, CreateLocalKeeps, CreateRemoteKeeps, FetchBeginKeeps,
               UpdateBeginKeeps, LsBeginKeeps
  <2>4. CASE AppContinues(e)
    BY <2>1, <2>2, <2>4, NidStepKeeps, ChildAddedKeeps, WriteChildAddedKeeps,
       WriteAttachKeeps, FetchFailsKeeps, FetchEndsKeeps, InsertKeeps, UpdateEndsKeeps,
       LsEndsKeeps
    DEF AppContinues
  <2>5. CASE WorkerStep(e)
    BY <2>1, <2>2, <2>5, NidStepKeeps, PopKeeps, CmdAtKeeps, CmdLsOrGetKeeps, ReplyKeeps,
       CmdAttachKeeps, CmdSubscribeAddRemoveKeeps, FindParentKeeps, FindChildKeeps,
       MakeChildKeeps, AttachChildKeeps
    DEF WorkerStep
  <2>6. CASE IoStep(e)
    BY <2>1, <2>6, ReceiveReplyKeeps, EnqueueKeeps, LoadForPeerKeeps, StoreForPeerKeeps
    DEF IoStep
  <2> QED BY <2>3, <2>4, <2>5, <2>6
<1> QED BY <1>1, <1>2

(* The invariant holds of node_sync on a connection, whatever the two      *)
(* applications do.                                                        *)
THEOREM Invariance == Spec => []CInv
<1>1. Init => CInv
  BY InitKeeps
<1>2. CInv /\ [Next]_vars => CInv'
  BY StepKeeps
<1> QED BY <1>1, <1>2, PTL DEF Spec

(* What the maps, the locks and the counters of node_sync hold is what     *)
(* node_sync.h declares; only the server draws nids from its counter.      *)
THEOREM TypeCorrect == Spec => []TypeOK
<1>1. CInv => TypeOK
  <2> SUFFICES ASSUME CInv PROVE TypeOK
    OBVIOUS
  <2>1. Types /\ Maps /\ Reading /\ Threads /\ Locks
    BY DEF CInv, TInv
  <2>2. ASSUME NEW e \in End
        PROVE  /\ DOMAIN tracked[e] \subseteq Nat
               /\ \A i \in DOMAIN tracked[e] : /\ tracked[e][i].node \in Node \cup {Root}
                                               /\ tracked[e][i].obj \in 0..made[e]
               /\ DOMAIN tree[e] \subseteq Node
               /\ \A n \in DOMAIN tree[e] : tree[e][n].obj \in 0..made[e]
               /\ watched[e] \subseteq Node \cup {Root}
               /\ holder[e] \in {NoThread, App(e), Worker(e)}
               /\ io[e] \in Nat /\ ops[e] \in 0..MaxOps
    BY <2>1, Nodewise DEF Types, Maps, Locks, Nodes
  <2>3. ASSUME NEW t \in Thread
        PROVE  /\ At(t, "store_nid") => EndOf(t) = "server"
               /\ At(t, "gen") => EndOf(t) = "client"
    BY <2>1, TheThreads DEF Threads, AppOK, WorkOK, At
  <2> QED BY <2>1, <2>2, <2>3 DEF TypeOK, Types, Reading
<1> QED BY <1>1, Invariance, PTL

(* A thread of node_sync that is woken finds the reply to its own request  *)
(* in the package all threads of its end share, unless the client lists    *)
(* children while the server fetches.                                      *)
THEOREM WokenByOwn == Spec => [](LsIsAlone => WokenByOwnReply)
<1>1. CInv => (LsIsAlone => WokenByOwnReply)
  BY DEF CInv, Woken
<1> QED BY <1>1, Invariance, PTL

-----------------------------------------------------------------------------
(* The nid counter is in the hands of one thread of the server at a time:  *)
(* the one that reads the socket, or the one that has tracked_mutex.       *)
OneAtATime ==
  ~(io["server"] # 0 /\ \E t \in Thread : EndOf(t) = "server" /\ At(t, "store_nid"))

(* The end e has its own node n under the nid i.  Such an entry is never   *)
(* replaced, so that the other end may rely on it.                         *)
Owns(e, i, n) ==
  /\ n \in DOMAIN Parent /\ Home[n] = e
  /\ i \in DOMAIN tracked[e] /\ tracked[e][i] = Object(n, 0)

(* A nid that was drawn and is not in use yet; a node without a nid.       *)
Fresh(i) == /\ i \in Nat \ {0} /\ i < current_nid
            /\ \A e \in End : i \notin DOMAIN tracked[e]

Unknown(e, n) == \A i \in DOMAIN tracked[e] : tracked[e][i].node # n

(* An end has its own nodes themselves, and the peer's as proxies.         *)
Trees ==
  \A e \in End : \A n \in DOMAIN tree[e] :
    /\ tree[e][n].obj = 0 <=> Home[n] = e
    /\ Home[n] = e => "create" \in Ops[e]
    /\ Home[n] # e => n \in DOMAIN tree[Peer(e)]

(* A nid is the root's, or one of a node of this end, or one of a proxy    *)
(* for a node the peer has under it.                                       *)
Tracks(e, i) ==
  LET n == tracked[e][i].node IN
    \/ i = 0 /\ tracked[e][i] = Object(Root, 0)
    \/ i # 0 /\ Owns(e, i, n) /\ n \in DOMAIN tree[e]
    \/ i # 0 /\ Owns(Peer(e), i, n) /\ tracked[e][i].obj # 0

(* It is one end's, it is its node's only one, and it was drawn before.    *)
Nids ==
  /\ \A e \in End : /\ 0 \in DOMAIN tracked[e]
                    /\ \A i \in DOMAIN tracked[e] : Tracks(e, i) /\ i < current_nid
                    /\ \A i, j \in DOMAIN tracked[e] :
                         tracked[e][i].node = tracked[e][j].node => i = j
  /\ \A i \in DOMAIN tracked["client"] \cap DOMAIN tracked["server"] :
       i = 0 \/ tracked["client"][i].obj # 0 \/ tracked["server"][i].obj # 0
  /\ io["server"] # 0 => io["server"] = current_nid

(* What a package promises: a request is of a thread that waits for it, an *)
(* announced node is its sender's, a nid given out is fresh, and the node  *)
(* fetched is the one asked for.                                           *)
ReplyOK(m) ==
  /\ th[m.from].pc = "gen" => Fresh(m.nid)
  /\ th[m.from].pc = "fetch" /\ m.kind # "error" =>
       Owns(Peer(EndOf(m.from)), m.nid, th[m.from].node)

PackageOK(e, m) ==
  /\ m.kind = "at" => th[m.from].pc = "fetch" /\ th[m.from].node = m.node
  /\ m.kind = "gen" => th[m.from].pc = "gen"
  /\ m.kind = "ls" => th[m.from].pc = "ls"
  /\ m.kind = "get" => th[m.from].pc = "update"
  /\ m.kind \in {"child", "attach"} => Owns(Peer(e), m.cnid, m.node)
  /\ IsAnswer(m) => ReplyOK(m)

Flow ==
  \A e \in End :
    /\ \A m \in Range(wire[e]) : PackageOK(e, m)
    /\ \A m \in Range(package_queue[e]) : PackageOK(e, m)
    /\ in[e].from \in ready /\ EndOf(in[e].from) = e => ReplyOK(in[e])

(* A thread in get_nid is about a node of its end, which has no nid when   *)
(* one is drawn for it.                                                    *)
NidOK(e, r) ==
  /\ r.pc \in NidPc => r.node = Root \/ Home[r.node] = e
  /\ r.pc \in {"store_nid", "gen"} => r.node # Root /\ Unknown(e, r.node)
  /\ r.pc = "store_nid" => r.nid = current_nid

AppNid(e, r) ==
  /\ NidOK(e, r)
  /\ r.pc = "child_nid" \/ (r.pc \in NidPc /\ r.then = "child_nid") =>
       Home[r.msg.node] = e
  /\ r.pc \in {"write_child", "write_attach"} => Owns(e, r.nid, r.node)
  /\ r.pc = "fetch" => (Home[r.node] = e => r.node \notin DOMAIN tree[e])
  /\ r.pc = "insert" => Owns(Peer(e), r.nid, r.node) /\ r.pnid # 0

WorkNid(e, r) ==
  /\ NidOK(e, r)
  /\ r.pc # "idle" => PackageOK(e, r.msg)
  /\ r.pc \in NidPc => r.node = r.msg.node
  /\ r.pc \in {"cmd_ls", "cmd_get_prop"} => r.msg.kind # "at"
  /\ r.pc = "reply" /\ r.msg.kind = "at" => Owns(e, r.nid, r.msg.node)
  /\ r.pc = "attach_child" => r.nid # 0

ThreadNids == \A e \in End : AppNid(e, th[App(e)]) /\ WorkNid(e, th[Worker(e)])

NInv == Trees /\ Nids /\ Flow /\ ThreadNids

-----------------------------------------------------------------------------
(* What a step of the thread t leaves to the others: the nids of owners,   *)
(* and what a thread in the middle of get_nid or of fetch_node has found.  *)
Kept ==
  \A e \in End : \A i \in DOMAIN tracked[e] :
    i \in DOMAIN tracked'[e] /\ tracked'[e][i].node = tracked[e][i].node

NidsSteady(t) ==
  /\ Kept
  /\ \A e \in End : \A i, n : Owns(e, i, n) => Owns(e, i, n)'
  /\ \A u \in Thread : u # t =>
       /\ At(u, "store_nid") => current_nid' = current_nid
       /\ At(u, "store_nid") \/ At(u, "gen") =>
            \A n : Home[n] = EndOf(u) /\ Unknown(EndOf(u), n) => Unknown(EndOf(u), n)'
       /\ At(u, "gen") => \A i : Fresh(i) => Fresh(i)'

TreesSteady(t) ==
  \A u \in Thread : u # t /\ At(u, "fetch") =>
    \A n : Home[n] = EndOf(u) /\ n \in DOMAIN tree'[EndOf(u)] => n \in DOMAIN tree[EndOf(u)]

Steady(t) ==
  /\ program' = program
  /\ \A u \in Thread : u # t => th'[u] = th[u]
  /\ NidsSteady(t) /\ TreesSteady(t)

(* It is not waiting for a reply that is still to come.                    *)
Free(t) == t \in Thread => th[t].pc \notin Waiting \/ t \in ready

(* What an end owns, it owns under a nid that is nobody else's.            *)
LEMMA Owned ==
  ASSUME CInv, NInv, NEW e \in End, NEW i, NEW n, Owns(e, i, n)
  PROVE  /\ i \in Nat /\ i # 0 /\ i < current_nid /\ n \in DOMAIN tree[e] /\ n # Root
         /\ i \in DOMAIN tracked[Peer(e)] =>
              /\ tracked[Peer(e)][i].node = n /\ tracked[Peer(e)][i].obj # 0
              /\ ~Owns(Peer(e), i, tracked[Peer(e)][i].node)
<1>1. /\ Maps /\ Types /\ Nids /\ Peer(e) \in End /\ Peer(e) # e /\ Peer(Peer(e)) = e
      /\ {e, Peer(e)} = {"client", "server"}
  BY Ends DEF CInv, TInv, NInv
<1>2. /\ n \in DOMAIN Parent /\ Home[n] = e /\ i \in DOMAIN tracked[e]
      /\ tracked[e][i].node = n /\ tracked[e][i].obj = 0 /\ n # Root
  BY <1>1, Nodewise DEF Owns, Object
<1>3. Tracks(e, i) /\ i < current_nid /\ i \in Nat
  BY <1>1, <1>2 DEF Nids, Maps
<1>4. Object(Root, 0).node = Root
  BY DEF Object
<1>5. i # 0 /\ n \in DOMAIN tree[e]
  BY <1>1, <1>2, <1>3, <1>4 DEF Tracks, Owns
<1>6. ASSUME i \in DOMAIN tracked[Peer(e)]
      PROVE  /\ tracked[Peer(e)][i].node = n /\ tracked[Peer(e)][i].obj # 0
             /\ ~Owns(Peer(e), i, tracked[Peer(e)][i].node)
  <2>1. Tracks(Peer(e), i)
    BY <1>1, <1>6 DEF Nids
  <2>2. tracked[Peer(e)][i].obj # 0
    BY <1>1, <1>2, <1>5, <1>6 DEF Nids
  <2>3. ~Owns(Peer(e), i, tracked[Peer(e)][i].node)
    BY <2>2 DEF Owns, Object
  <2>4. Owns(e, i, tracked[Peer(e)][i].node)
    BY <1>1, <1>5, <2>1, <2>3 DEF Tracks
  <2>5. tracked[e][i].node = tracked[Peer(e)][i].node
    BY <2>4 DEF Owns, Object
  <2> QED BY <1>2, <2>2, <2>3, <2>5
<1> QED BY <1>2, <1>3, <1>5, <1>6

(* The two ends mean the same node by a nid, and have it under one.        *)
LEMMA Agree ==
  ASSUME CInv, NInv
  PROVE  NidsAgree
<1>1. Nids
  BY DEF NInv
<1>2. ASSUME NEW i \in DOMAIN tracked["client"] \cap DOMAIN tracked["server"]
      PROVE  tracked["client"][i].node = tracked["server"][i].node
  <2>1. Tracks("client", i) /\ Tracks("server", i)
    BY <1>1, Ends DEF Nids
  <2>2. CASE i = 0
    BY <2>1, <2>2 DEF Tracks
  <2>3. CASE Owns("server", i, tracked["client"][i].node)
    BY <2>3 DEF Owns, Object
  <2>4. CASE Owns("client", i, tracked["server"][i].node)
    BY <2>4 DEF Owns, Object
  <2>5. CASE Owns("client", i, tracked["client"][i].node)
    BY <2>5, Ends, Owned
  <2> QED BY <2>1, <2>2, <2>3, <2>4, <2>5, Ends DEF Tracks
<1> QED BY <1>1, <1>2 DEF Nids, NidsAgree

(* A package promises what it did, unless the moving thread sent it.       *)
LEMMA PackageStays ==
  ASSUME NEW t, Steady(t), NEW e \in End, NEW m, PackageOK(e, m),
         m.kind \in Request \/ IsAnswer(m) => m.from \in Thread /\ m.from # t
  PROVE  PackageOK(e, m)'
<1>1. \A x \in End : \A i, n : Owns(x, i, n) => Owns(x, i, n)'
  BY DEF Steady, NidsSteady, TreesSteady
<1>2. CASE m.kind \in Request \/ IsAnswer(m)
  <2>1. /\ m.from \in Thread /\ th'[m.from] = th[m.from]
        /\ th[m.from].pc = "gen" => \A i : Fresh(i) => Fresh(i)'
    BY <1>2 DEF Steady, NidsSteady, TreesSteady, At
  <2>2. Peer(EndOf(m.from)) \in End
    BY <1>2, TheThreads, Ends
  <2>3. ReplyOK(m) => ReplyOK(m)'
    BY <1>1, <2>1, <2>2 DEF ReplyOK
  <2> QED BY <1>1, <1>2, <2>1, <2>3, Ends DEF PackageOK, IsAnswer
<1>3. CASE ~(m.kind \in Request \/ IsAnswer(m))
  BY <1>1, <1>3, Ends DEF PackageOK, Request, IsAnswer
<1> QED BY <1>2, <1>3

(* What is under way was not sent by a thread that is free to move.        *)
LEMMA NotMine ==
  ASSUME CInv, NEW t, Free(t), NEW e \in End
  PROVE  /\ \A m \in Range(wire[e]) \cup Range(package_queue[e]) :
              m.kind \in Request \/ IsAnswer(m) => m.from \in Thread /\ m.from # t
         /\ th[Worker(e)].pc # "idle" =>
              LET m == th[Worker(e)].msg IN
              m.kind \in Request \/ IsAnswer(m) => m.from \in Thread /\ m.from # t
<1>1. Packages /\ Calls /\ Threads
  BY DEF CInv, TInv
<1>2. Peer(e) \in End /\ Peer(Peer(e)) = e
  BY Ends
<1>3. ASSUME NEW m \in Range(wire[e]), m.kind \in Request \/ IsAnswer(m)
      PROVE  m.from \in Thread /\ m.from # t
  <2>1. PICK i \in DOMAIN wire[e] : wire[e][i] = m
    BY DEF Range
  <2>2. m.from \in Thread /\ (EndOf(m.from) = e \/ EndOf(m.from) = Peer(e))
    BY <1>1, <1>3, <2>1 DEF Packages, Sent
  <2>3. Has(wire[e], m.from)
    BY <2>1 DEF Has
  <2>4. Asked(m.from) \/ Replied(m.from)
    BY <1>2, <2>2, <2>3 DEF Asked, Replied
  <2> QED BY <1>1, <2>2, <2>4 DEF Calls, Free
<1>4. ASSUME NEW m \in Range(package_queue[e]), m.kind \in Request \/ IsAnswer(m)
      PROVE  m.from \in Thread /\ m.from # t
  <2>1. PICK i \in DOMAIN package_queue[e] : package_queue[e][i] = m
    BY DEF Range
  <2>2. m.from \in Thread /\ EndOf(m.from) = Peer(e)
    BY <1>1, <1>4, <2>1 DEF Packages, Queued, Sent
  <2>3. Has(package_queue[e], m.from)
    BY <2>1 DEF Has
  <2>4. InQueue(m.from)
    BY <1>2, <2>2, <2>3 DEF InQueue
  <2> QED BY <1>1, <2>2, <2>4 DEF Calls, Free
<1>5. ASSUME th[Worker(e)].pc # "idle",
             th[Worker(e)].msg.kind \in Request \/ IsAnswer(th[Worker(e)].msg)
      PROVE  th[Worker(e)].msg.from \in Thread /\ th[Worker(e)].msg.from # t
  <2> DEFINE m == th[Worker(e)].msg
  <2>1. WorkOK(e, th[Worker(e)])
    BY <1>1 DEF Threads
  <2>2. Queued(m, e) /\ m.kind \in Request /\ th[Worker(e)].pc \in Serves
    BY <1>5, <2>1 DEF WorkOK, Queued
  <2>3. m.from \in Thread /\ EndOf(m.from) = Peer(e)
    BY <2>2 DEF Queued, Sent
  <2>4. IsServed(m.from)
    BY <1>2, <2>2, <2>3 DEF IsServed
  <2> QED BY <1>1, <2>3, <2>4 DEF Calls, Free
<1> QED BY <1>3, <1>4, <1>5

(* So the worker's package keeps its promise as well.                      *)
LEMMA ServedStays ==
  ASSUME CInv, NInv, NEW t, Steady(t), Free(t), NEW e \in End,
         th[Worker(e)].pc # "idle", th'[Worker(e)].msg = th[Worker(e)].msg
  PROVE  PackageOK(e, th[Worker(e)].msg)'
<1>1. PICK m : m = th[Worker(e)].msg
  OBVIOUS
<1>2. PackageOK(e, m)
  BY <1>1 DEF NInv, ThreadNids, WorkNid
<1>3. m.kind \in Request \/ IsAnswer(m) => m.from \in Thread /\ m.from # t
  BY <1>1, NotMine
<1>4. PackageOK(e, m)'
  BY <1>2, <1>3, PackageStays
<1> QED BY <1>1, <1>4 DEF PackageOK, ReplyOK, IsAnswer

(* The other threads find what they relied on.                             *)
LEMMA OthersStay ==
  ASSUME CInv, NInv, NEW t, Steady(t), Free(t), NEW e \in End
  PROVE  /\ t # App(e) => AppNid(e, th[App(e)])'
         /\ t # Worker(e) => WorkNid(e, th[Worker(e)])'
<1>1. /\ App(e) \in Thread /\ Worker(e) \in Thread /\ EndOf(App(e)) = e
      /\ EndOf(Worker(e)) = e /\ Peer(e) \in End /\ Home' = Home
  BY TheThreads, Ends DEF Steady, NidsSteady, TreesSteady, Home
<1>2. /\ AppNid(e, th[App(e)]) /\ WorkNid(e, th[Worker(e)])
      /\ AppOK(e, th[App(e)]) /\ WorkOK(e, th[Worker(e)])
  BY DEF NInv, ThreadNids, CInv, TInv, Threads
<1>3. \A x \in End : \A i, n : Owns(x, i, n) => Owns(x, i, n)'
  BY DEF Steady, NidsSteady, TreesSteady
<1>4. ASSUME NEW u \in Thread, u # t, EndOf(u) = e, NidOK(e, th[u])
      PROVE  NidOK(e, th[u])'
  <2>1. /\ th'[u] = th[u]
        /\ At(u, "store_nid") => current_nid' = current_nid
        /\ At(u, "store_nid") \/ At(u, "gen") =>
             \A n : Home[n] = e /\ Unknown(e, n) => Unknown(e, n)'
    BY <1>4 DEF Steady, NidsSteady, TreesSteady
  <2>2. PICK n : n = th[u].node
    OBVIOUS
  <2>3. th[u].pc \in {"store_nid", "gen"} => n # Root /\ Home[n] = e /\ Unknown(e, n)
    BY <1>4, <2>2 DEF NidOK, NidPc
  <2>4. th[u].pc \in {"store_nid", "gen"} => Unknown(e, n)'
    BY <2>1, <2>3 DEF At
  <2>5. th[u].pc \in {"store_nid", "gen"} => Unknown(e, th[u].node)'
    BY <2>1, <2>2, <2>4 DEF Unknown
  <2>6. th'[u].pc = "store_nid" => th'[u].nid = current_nid'
    BY <1>4, <2>1 DEF NidOK, At
  <2> QED BY <1>1, <1>4, <2>1, <2>2, <2>3, <2>5, <2>6 DEF NidOK
<1>5. ASSUME t # App(e) PROVE AppNid(e, th[App(e)])'
  <2> DEFINE u == App(e)
  <2>1. /\ th'[u] = th[u]
        /\ At(u, "fetch") => \A n : Home[n] = e /\ n \in DOMAIN tree'[e] => n \in DOMAIN tree[e]
    BY <1>1, <1>5 DEF Steady, NidsSteady, TreesSteady
  <2>2. NidOK(e, th[u])'
    BY <1>1, <1>2, <1>4, <1>5 DEF AppNid
  <2>3. PICK r : r = th[u]
    OBVIOUS
  <2>4. /\ r.pc \in {"write_child", "write_attach"} => Owns(e, r.nid, r.node)'
        /\ r.pc = "insert" => Owns(Peer(e), r.nid, r.node)' /\ r.pnid # 0
    BY <1>1, <1>2, <1>3, <2>3 DEF AppNid
  <2> QED BY <1>1, <1>2, <2>1, <2>2, <2>3, <2>4 DEF AppNid, At, Owns
<1>6. ASSUME t # Worker(e) PROVE WorkNid(e, th[Worker(e)])'
  <2> DEFINE u == Worker(e)
  <2>1. th'[u] = th[u]
    BY <1>1, <1>6 DEF Steady, NidsSteady, TreesSteady
  <2>2. NidOK(e, th[u])'
    BY <1>1, <1>2, <1>4, <1>6 DEF WorkNid
  <2>3. PICK r : r = th[u]
    OBVIOUS
  <2>4. r.pc = "reply" /\ r.msg.kind = "at" => Owns(e, r.nid, r.msg.node)'
    BY <1>2, <1>3, <2>3 DEF WorkNid
  <2>5. r.pc # "idle" => PackageOK(e, th[u].msg)'
    BY <2>1, <2>3, ServedStays
  <2> QED BY <1>1, <1>2, <2>1, <2>2, <2>3, <2>4, <2>5 DEF WorkNid, Owns
<1> QED BY <1>5, <1>6

(* Packages keep their promises where new ones are written, and the reply  *)
(* that was copied for the moving thread is not needed any more.           *)
LEMMA FlowStays ==
  ASSUME CInv, NInv, NEW t, Steady(t), Free(t), in' = in,
         \A e \in End :
           /\ \A m \in Range(wire'[e]) : m \in Range(wire[e]) \/ PackageOK(e, m)'
           /\ \A m \in Range(package_queue'[e]) :
                m \in Range(package_queue[e]) \/ PackageOK(e, m)',
         ready' \subseteq ready,
         t \in Thread /\ t \in ready' => th'[t].pc \notin {"gen", "fetch"}
  PROVE  Flow'
<1>1. Flow
  BY DEF NInv
<1>2. ASSUME NEW e \in End, NEW m \in Range(wire'[e]) PROVE PackageOK(e, m)'
  <2>1. CASE m \in Range(wire[e])
    <3>1. PackageOK(e, m)
      BY <1>1, <2>1 DEF Flow
    <3>2. m.kind \in Request \/ IsAnswer(m) => m.from \in Thread /\ m.from # t
      BY <2>1, NotMine
    <3> QED BY <3>1, <3>2, PackageStays
  <2> QED BY <1>2, <2>1
<1>3. ASSUME NEW e \in End, NEW m \in Range(package_queue'[e]) PROVE PackageOK(e, m)'
  <2>1. CASE m \in Range(package_queue[e])
    <3>1. PackageOK(e, m)
      BY <1>1, <2>1 DEF Flow
    <3>2. m.kind \in Request \/ IsAnswer(m) => m.from \in Thread /\ m.from # t
      BY <2>1, NotMine
    <3> QED BY <3>1, <3>2, PackageStays
  <2> QED BY <1>3, <2>1
<1>4. ASSUME NEW e \in End, in'[e].from \in ready', EndOf(in'[e].from) = e
      PROVE  ReplyOK(in[e])'
  <2>1. PICK m : m = in[e]
    OBVIOUS
  <2>2. m.from \in ready /\ m.from \in Thread /\ ReplyOK(m)
    BY <1>1, <1>4, <2>1 DEF Flow, CInv, TInv, Types
  <2>3. CASE m.from = t
    BY <1>4, <2>1, <2>2, <2>3 DEF ReplyOK
  <2>4. CASE m.from # t
    <3>1. /\ th'[m.from] = th[m.from] /\ Peer(EndOf(m.from)) \in End
          /\ th[m.from].pc = "gen" => \A i : Fresh(i) => Fresh(i)'
          /\ \A x \in End : \A i, n : Owns(x, i, n) => Owns(x, i, n)'
      BY <2>2, <2>4, TheThreads, Ends DEF Steady, NidsSteady, TreesSteady, At
    <3>2. ReplyOK(m)'
      BY <2>2, <3>1 DEF ReplyOK
    <3> QED BY <2>1, <3>2 DEF ReplyOK
  <2> QED BY <2>3, <2>4
<1> QED BY <1>2, <1>3, <1>4 DEF Flow

-----------------------------------------------------------------------------
(* A step that leaves the maps and the counter alone.                      *)
LEMMA MapsLeft ==
  ASSUME CInv, NInv, NEW t, program' = program,
         \A u \in Thread : u # t => th'[u] = th[u],
         UNCHANGED <<tracked, tree, current_nid>>
  PROVE  /\ Steady(t) /\ Trees'
         /\ (io'["server"] # 0 => io'["server"] = current_nid) => Nids'
<1>1. Trees /\ Nids
  BY DEF NInv
<1>2. Home' = Home /\ Parent' = Parent /\ Ops' = Ops
  BY DEF Home, Parent, Ops
<1>3. Trees'
  BY <1>1, <1>2 DEF Trees
<1>4. NidsSteady(t)
  BY <1>2 DEF NidsSteady, Kept, Owns, Unknown, Fresh
<1>5. TreesSteady(t)
  BY DEF TreesSteady
<1>6. ASSUME NEW e \in End, NEW i \in DOMAIN tracked[e] PROVE Tracks(e, i)'
  <2>1. Tracks(e, i)
    BY <1>1 DEF Nids
  <2> QED BY <1>2, <2>1 DEF Tracks, Owns
<1>7. (io'["server"] # 0 => io'["server"] = current_nid) => Nids'
  BY <1>1, <1>6 DEF Nids
<1> QED BY <1>3, <1>4, <1>5, <1>7 DEF Steady

(* A node is attached: one of its own by the application, or a proxy for a *)
(* node of the peer.                                                       *)
LEMMA TreeGrows ==
  ASSUME CInv, NInv, NEW t, program' = program, NEW e \in End, NEW n, NEW k, NEW i,
         AttachToTree(e, n, k, i),
         \/ Home[n] = e /\ k = 0 /\ "create" \in Ops[e] /\ t = App(e)
         \/ Home[n] = Peer(e) /\ k # 0 /\ n \in DOMAIN tree[Peer(e)]
  PROVE  /\ Trees' /\ TreesSteady(t)
         /\ \A x \in End : DOMAIN tree[x] \subseteq DOMAIN tree'[x]
<1>1. Trees /\ Threads /\ TInv /\ Peer(e) \in End /\ Peer(e) # e
  BY Ends DEF NInv, CInv, TInv
<1>2. /\ DOMAIN tree' = End /\ n \in DOMAIN tree'[e]
      /\ \A x \in End : /\ DOMAIN tree[x] \subseteq DOMAIN tree'[x]
                        /\ DOMAIN tree'[x] \subseteq DOMAIN tree[x] \cup {n}
      /\ \A x \in End : \A y \in DOMAIN tree'[x] :
           \/ y \in DOMAIN tree[x] /\ tree'[x][y] = tree[x][y]
           \/ x = e /\ y = n /\ tree'[x][y].obj = k /\ tree'[x][y].nid = i
  BY <1>1, AttachesOne
<1>3. Home' = Home /\ Ops' = Ops
  BY DEF Home, Ops
<1>4. Trees'
  BY <1>1, <1>2, <1>3, Ends DEF Trees
<1>5. TreesSteady(t)
  <2>1. SUFFICES ASSUME NEW u \in Thread, u # t, th[u].pc = "fetch", NEW y,
                        Home[y] = EndOf(u), y \in DOMAIN tree'[EndOf(u)],
                        y \notin DOMAIN tree[EndOf(u)]
                 PROVE  FALSE
    BY DEF TreesSteady, At
  <2>2. EndOf(u) \in End
    BY <2>1, TheThreads
  <2>3. y = n /\ EndOf(u) = e
    BY <1>2, <2>1, <2>2
  <2>4. u = App(e)
    <3>1. u = App(e) \/ u = Worker(e)
      BY <2>1, <2>3, TheThreads
    <3>2. WorkOK(e, th[Worker(e)])
      BY <1>1 DEF Threads
    <3> QED BY <2>1, <3>1, <3>2 DEF WorkOK, WorkPc, NidPc
  <2> QED BY <1>1, <2>1, <2>3, <2>4
<1> QED BY <1>2, <1>4, <1>5

(* The maps of nids when only the trees grow.                              *)
LEMMA NidsLeft ==
  ASSUME CInv, NInv, NEW t, program' = program, UNCHANGED <<tracked, current_nid, io>>,
         \A x \in End : DOMAIN tree[x] \subseteq DOMAIN tree'[x]
  PROVE  Nids' /\ NidsSteady(t)
<1>1. Nids
  BY DEF NInv
<1>2. Home' = Home /\ Parent' = Parent
  BY DEF Home, Parent
<1>3. NidsSteady(t)
  BY <1>2 DEF NidsSteady, Kept, Owns, Unknown, Fresh
<1>4. ASSUME NEW e \in End, NEW i \in DOMAIN tracked[e] PROVE Tracks(e, i)'
  <2>1. Tracks(e, i)
    BY <1>1 DEF Nids
  <2> QED BY <1>2, <2>1 DEF Tracks, Owns
<1> QED BY <1>1, <1>3, <1>4 DEF Nids

(* A proxy for a node of the peer is tracked, under the peer's nid.        *)
LEMMA ProxyTracked ==
  ASSUME CInv, NInv, NEW t, program' = program, NEW e \in End, NEW i, NEW n, NEW k,
         DoTrack(e, i, Object(n, k)), Owns(Peer(e), i, n), k # 0,
         UNCHANGED <<current_nid, io>>,
         \A x \in End : DOMAIN tree[x] \subseteq DOMAIN tree'[x]
  PROVE  Nids' /\ NidsSteady(t)
<1> DEFINE p == Peer(e)
<1>1. /\ Nids /\ TInv /\ Types /\ Maps /\ p \in End /\ p # e /\ Peer(p) = e
      /\ \A x \in End : x = e \/ x = p
  BY Ends DEF NInv, CInv, TInv
<1>2. /\ DOMAIN tracked'[e] = DOMAIN tracked[e] \cup {i}
      /\ \A j \in DOMAIN tracked'[e] : tracked'[e][j] = IF j = i THEN Object(n, k)
                                                        ELSE tracked[e][j]
      /\ tracked'[p] = tracked[p]
  BY <1>1 DEF Types, DoTrack, Put
<1>3. Home' = Home /\ Parent' = Parent
  BY DEF Home, Parent
<1>4. /\ i \in Nat /\ i # 0 /\ i < current_nid /\ n \in DOMAIN tree[p] /\ n # Root
      /\ i \in DOMAIN tracked[e] => tracked[e][i].node = n /\ tracked[e][i].obj # 0
  BY <1>1, Owned
<1>5. Object(n, k).node = n /\ Object(n, k).obj = k /\ Home[n] = p
  BY DEF Object, Owns
<1>6. \A x \in End : \A j, y : Owns(x, j, y) => Owns(x, j, y)'
  <2>1. ASSUME NEW j, NEW y, Owns(e, j, y) PROVE Owns(e, j, y)'
    <3>1. j # i
      BY <1>4, <2>1 DEF Owns, Object
    <3> QED BY <1>2, <1>3, <2>1, <3>1 DEF Owns
  <2>2. ASSUME NEW j, NEW y, Owns(p, j, y) PROVE Owns(p, j, y)'
    BY <1>2, <1>3, <2>2 DEF Owns
  <2> QED BY <1>1, <2>1, <2>2
<1>7. NidsSteady(t)
  <2>1. \A x \in End : \A y : Home[y] = x /\ Unknown(x, y) => Unknown(x, y)'
    BY <1>1, <1>2, <1>5 DEF Unknown
  <2>2. \A j : Fresh(j) => Fresh(j)'
    <3>1. i \in DOMAIN tracked[p]
      BY DEF Owns
    <3> QED BY <1>1, <1>2, <3>1 DEF Fresh
  <2>3. Kept
    BY <1>1, <1>2, <1>4, <1>5 DEF Kept
  <2> QED BY <1>6, <2>1, <2>2, <2>3, TheThreads DEF NidsSteady
<1>8. ASSUME NEW x \in End, NEW j \in DOMAIN tracked'[x] PROVE Tracks(x, j)' /\ j < current_nid
  <2>1. CASE x = e /\ j = i
    <3>1. Owns(p, i, n)'
      BY <1>1, <1>6
    <3>2. tracked'[e][i].node = n /\ tracked'[e][i].obj # 0
      BY <1>2, <1>5
    <3> QED BY <1>4, <2>1, <3>1, <3>2 DEF Tracks, Owns
  <2>2. CASE ~(x = e /\ j = i)
    <3>1. j \in DOMAIN tracked[x] /\ tracked'[x][j] = tracked[x][j]
      BY <1>1, <1>2, <2>2
    <3>2. Tracks(x, j) /\ j < current_nid
      BY <1>1, <3>1 DEF Nids
    <3>3. PICK y : y = tracked[x][j].node
      OBVIOUS
    <3>4. /\ Owns(x, j, y) => Owns(x, j, y)'
          /\ Owns(Peer(x), j, y) => Owns(Peer(x), j, y)'
      BY <1>6, Ends
    <3> QED BY <3>1, <3>2, <3>3, <3>4 DEF Tracks, Owns
  <2> QED BY <2>1, <2>2
<1>9. ASSUME NEW x \in End, NEW j \in DOMAIN tracked'[x], NEW l \in DOMAIN tracked'[x],
             tracked'[x][j].node = tracked'[x][l].node
      PROVE  j = l
  <2>1. ASSUME NEW y \in DOMAIN tracked[e], tracked[e][y].node = n PROVE y = i
    <3>1. Tracks(e, y)
      BY <1>1 DEF Nids
    <3>2. Owns(p, y, n)
      BY <1>1, <1>4, <1>5, <2>1, <3>1 DEF Tracks, Owns, Object
    <3>3. /\ y \in DOMAIN tracked[p] /\ i \in DOMAIN tracked[p]
          /\ tracked[p][y].node = tracked[p][i].node
      BY <3>2 DEF Owns
    <3> QED BY <1>1, <3>3 DEF Nids
  <2> QED BY <1>1, <1>2, <1>5, <1>9, <2>1 DEF Nids
<1>10. \A j \in DOMAIN tracked'["client"] \cap DOMAIN tracked'["server"] :
         j = 0 \/ tracked'["client"][j].obj # 0 \/ tracked'["server"][j].obj # 0
  <2>1. (e = "client" /\ p = "server") \/ (e = "server" /\ p = "client")
    BY Ends
  <2> QED BY <1>1, <1>2, <1>5, <2>1 DEF Nids
<1>11. Nids'
  BY <1>1, <1>2, <1>8, <1>9, <1>10 DEF Nids
<1> QED BY <1>7, <1>11

(* Only one thread of an end is between drawing a nid and tracking it.     *)
LEMMA OneDraws ==
  ASSUME CInv, NEW t \in Thread, NEW u \in Thread, EndOf(t) = EndOf(u),
         th[t].pc \in {"store_nid", "gen"}, th[u].pc \in {"store_nid", "gen"}
  PROVE  t = u
  BY DEF CInv, TInv, Locks, Owning

(* The node get_nid is called for is the end's own; if it has no nid, it   *)
(* is not the root.                                                        *)
LEMMA Sought ==
  ASSUME CInv, NInv, NEW t \in Thread, th[t].pc \in NidPc
  PROVE  LET e == EndOf(t)  n == th[t].node IN
         /\ e \in End /\ n \in Nodes
         /\ NidOK(e, th[t])
         /\ n = Root => ObjectOf(e, n) = Object(Root, 0)
         /\ n # Root => /\ n \in DOMAIN tree[e] /\ n \in DOMAIN Parent /\ Home[n] = e
                        /\ ObjectOf(e, n) = Object(n, 0) /\ "create" \in Ops[e]
<1> DEFINE e == EndOf(t)
<1> DEFINE n == th[t].node
<1>1. /\ e \in End /\ (t = App(e) \/ t = Worker(e)) /\ Maps /\ Trees /\ n \in Nodes
  BY TheThreads DEF CInv, TInv, Types, Local, NInv
<1>2. n = Root \/ n \in DOMAIN tree[e]
  BY <1>1 DEF CInv, TInv, Threads, AppOK, WorkOK
<1>3. NidOK(e, th[t])
  BY <1>1 DEF NInv, ThreadNids, AppNid, WorkNid
<1>4. n # Root => n \in DOMAIN tree[e] /\ Home[n] = e /\ n \in DOMAIN Parent
  BY <1>1, <1>2, <1>3 DEF NidOK, Maps
<1>5. n # Root => tree[e][n].obj = 0 /\ "create" \in Ops[e]
  BY <1>1, <1>4 DEF Trees
<1> QED BY <1>1, <1>3, <1>4, <1>5 DEF ObjectOf

(* An end tracks a node of its own, under a nid nobody uses.               *)
LEMMA OwnTracked ==
  ASSUME CInv, NInv, program' = program, NEW t \in Thread,
         th[t].pc \in {"store_nid", "gen"}, NEW i \in Nat,
         DoTrack(EndOf(t), i, ObjectOf(EndOf(t), th[t].node)), tree' = tree,
         i # 0, \A x \in End : i \notin DOMAIN tracked[x],
         current_nid' \in Nat, i < current_nid', current_nid <= current_nid',
         io'["server"] # 0 => io'["server"] = current_nid',
         current_nid' # current_nid => EndOf(t) = "server",
         \A u \in Thread : u # t /\ At(u, "gen") => ~(i < current_nid)
  PROVE  /\ Nids' /\ Trees' /\ NidsSteady(t) /\ TreesSteady(t)
         /\ \A n : n = th[t].node => Owns(EndOf(t), i, n)'
<1>1. PICK e \in End, p \in End : /\ e = EndOf(t) /\ p = Peer(e) /\ p # e /\ Peer(p) = e
                                  /\ \A x \in End : x = e \/ x = p
  BY TheThreads, Ends
<1>2. PICK n : n = th[t].node
  OBVIOUS
<1>3. /\ n \in DOMAIN tree[e] /\ n \in DOMAIN Parent /\ Home[n] = e /\ n # Root
      /\ ObjectOf(e, n) = Object(n, 0) /\ Unknown(e, n) /\ n \in Nodes
  BY <1>1, <1>2, Sought DEF NidOK, NidPc
<1>4. /\ Nids /\ Trees /\ Types /\ Maps /\ current_nid \in Nat
  BY DEF NInv, CInv, TInv, Types
<1>5. /\ DOMAIN tracked'[e] = DOMAIN tracked[e] \cup {i}
      /\ \A j \in DOMAIN tracked'[e] : tracked'[e][j] = IF j = i THEN Object(n, 0)
                                                        ELSE tracked[e][j]
      /\ tracked'[p] = tracked[p]
  BY <1>1, <1>2, <1>3, <1>4 DEF Types, DoTrack, Put
<1>6. Home' = Home /\ Parent' = Parent /\ Ops' = Ops
  BY DEF Home, Parent, Ops
<1>7. Object(n, 0).node = n /\ Object(n, 0).obj = 0
  BY DEF Object
<1>8. \A x \in End : \A j, y : Owns(x, j, y) => Owns(x, j, y)'
  <2>1. ASSUME NEW x \in End, NEW j, NEW y, Owns(x, j, y) PROVE Owns(x, j, y)'
    BY <1>1, <1>5, <1>6, <2>1 DEF Owns
  <2> QED BY <2>1
<1>9. Owns(e, i, n)'
  BY <1>3, <1>5, <1>6 DEF Owns
<1>10. NidsSteady(t)
  <2>1. ASSUME NEW u \in Thread, u # t
        PROVE  /\ At(u, "store_nid") => current_nid' = current_nid
               /\ At(u, "store_nid") \/ At(u, "gen") =>
                    \A y : Home[y] = EndOf(u) /\ Unknown(EndOf(u), y) => Unknown(EndOf(u), y)'
               /\ At(u, "gen") => \A j : Fresh(j) => Fresh(j)'
    <3>1. At(u, "store_nid") \/ At(u, "gen") => EndOf(u) = p
      BY <1>1, <2>1, OneDraws, TheThreads DEF At
    <3>2. At(u, "store_nid") => EndOf(u) = "server"
      BY TheThreads DEF CInv, TInv, Threads, AppOK, WorkOK, At
    <3>3. At(u, "store_nid") => current_nid' = current_nid
      BY <1>1, <3>1, <3>2
    <3>4. At(u, "store_nid") \/ At(u, "gen") =>
            \A y : Home[y] = EndOf(u) /\ Unknown(EndOf(u), y) => Unknown(EndOf(u), y)'
      BY <1>5, <3>1 DEF Unknown
    <3>5. ASSUME At(u, "gen"), NEW j, Fresh(j) PROVE Fresh(j)'
      <4>1. j # i
        BY <2>1, <3>5 DEF Fresh
      <4>2. \A x \in End : j \notin DOMAIN tracked'[x]
        BY <1>1, <1>5, <3>5, <4>1 DEF Fresh
      <4>3. j \in Nat \ {0} /\ j < current_nid
        BY <3>5 DEF Fresh
      <4>4. j < current_nid'
        BY <1>4, <4>3
      <4> QED BY <4>2, <4>3, <4>4 DEF Fresh
    <3> QED BY <3>3, <3>4, <3>5
  <2>2. Kept
    BY <1>1, <1>5 DEF Kept
  <2> QED BY <1>8, <2>1, <2>2 DEF NidsSteady
<1>11. Trees' /\ TreesSteady(t)
  BY <1>4, <1>6 DEF Trees, TreesSteady
<1>12. ASSUME NEW x \in End, NEW j \in DOMAIN tracked'[x]
       PROVE  Tracks(x, j)' /\ j < current_nid'
  <2>1. CASE x = e /\ j = i
    <3>1. tracked'[e][i].node = n
      BY <1>5, <1>7
    <3> QED BY <1>3, <1>9, <2>1, <3>1 DEF Tracks, Owns
  <2>2. CASE ~(x = e /\ j = i)
    <3>1. j \in DOMAIN tracked[x] /\ tracked'[x][j] = tracked[x][j] /\ j \in Nat
      BY <1>1, <1>4, <1>5, <2>2 DEF Maps
    <3>2. Tracks(x, j) /\ j < current_nid
      BY <1>4, <3>1 DEF Nids
    <3>3. PICK y : y = tracked[x][j].node
      OBVIOUS
    <3>4. /\ Owns(x, j, y) => Owns(x, j, y)'
          /\ Owns(Peer(x), j, y) => Owns(Peer(x), j, y)'
      BY <1>8, Ends
    <3>5. j < current_nid'
      BY <1>4, <3>1, <3>2
    <3> QED BY <3>1, <3>2, <3>3, <3>4, <3>5 DEF Tracks, Owns
  <2> QED BY <2>1, <2>2
<1>13. ASSUME NEW x \in End, NEW j \in DOMAIN tracked'[x], NEW l \in DOMAIN tracked'[x],
              tracked'[x][j].node = tracked'[x][l].node
       PROVE  j = l
  BY <1>1, <1>3, <1>4, <1>5, <1>7, <1>13 DEF Nids, Unknown
<1>14. \A j \in DOMAIN tracked'["client"] \cap DOMAIN tracked'["server"] :
         j = 0 \/ tracked'["client"][j].obj # 0 \/ tracked'["server"][j].obj # 0
  <2>1. (e = "client" /\ p = "server") \/ (e = "server" /\ p = "client")
    BY <1>1, Ends
  <2> QED BY <1>1, <1>4, <1>5, <2>1 DEF Nids
<1>15. Nids'
  BY <1>1, <1>4, <1>5, <1>12, <1>13, <1>14 DEF Nids
<1> QED BY <1>1, <1>2, <1>9, <1>10, <1>11, <1>15

-----------------------------------------------------------------------------
(* The moving thread has what it needs where it goes.                      *)
Finds(t) ==
  \A e \in End : /\ t = App(e) => AppNid(e, th[App(e)])'
                 /\ t = Worker(e) => WorkNid(e, th[Worker(e)])'

(* A step keeps the invariant if its parts do, when it sends nothing ...   *)
LEMMA QuietNids ==
  ASSUME CInv, NInv, NEW t, Steady(t), Free(t), Trees', Nids', Finds(t),
         UNCHANGED <<wire, package_queue, in, ready>>,
         t \in Thread => th'[t].pc \notin {"gen", "fetch"}
  PROVE  NInv' /\ Kept
<1>1. Flow'
  BY FlowStays
<1>2. ThreadNids'
  BY OthersStay DEF Finds, ThreadNids
<1> QED BY <1>1, <1>2 DEF NInv, Steady, NidsSteady

(* ... and when it sends a package that is in order.                       *)
LEMMA WriteNids ==
  ASSUME CInv, NInv, NEW t, Steady(t), Free(t), Trees', Nids', Finds(t),
         NEW x \in End, NEW m \in Message, PackageOK(x, m)',
         wire' = [wire EXCEPT ![x] = Append(@, m)],
         UNCHANGED <<package_queue, in>>, ready' \subseteq ready,
         t \in Thread /\ t \in ready' => th'[t].pc \notin {"gen", "fetch"}
  PROVE  NInv' /\ Kept
<1> DEFINE M == Message
<1>1. wire \in [End -> Seq(M)] /\ m \in M
  BY DEF CInv, TInv, Types
<1> HIDE DEF M
<1>2. /\ wire'[x] = Append(wire[x], m) /\ wire[x] \in Seq(M)
      /\ \A y \in End : y # x => wire'[y] = wire[y]
  BY <1>1
<1>3. \A i \in DOMAIN wire'[x] : wire'[x][i] = m \/
        (i \in DOMAIN wire[x] /\ wire'[x][i] = wire[x][i])
  BY <1>1, <1>2, Added
<1>4. \A y \in End : \A k \in Range(wire'[y]) : k \in Range(wire[y]) \/ (y = x /\ k = m)
  BY <1>2, <1>3 DEF Range
<1>5. \A y \in End : \A k \in Range(wire'[y]) : k \in Range(wire[y]) \/ PackageOK(y, k)'
  BY <1>4
<1>6. Flow'
  BY <1>5, FlowStays
<1>7. ThreadNids'
  BY OthersStay DEF Finds, ThreadNids
<1> QED BY <1>6, <1>7 DEF NInv, Steady, NidsSteady

(* A thread that has nothing to do needs nothing.                          *)
LEMMA IdleFinds ==
  ASSUME Types, NEW t \in Thread, th' = [th EXCEPT ![t] = Idle]
  PROVE  /\ Finds(t) /\ th'[t].pc \notin {"gen", "fetch"}
         /\ \A u \in Thread : u # t => th'[u] = th[u]
<1>1. th'[t].pc = "idle" /\ \A u \in Thread : u # t => th'[u] = th[u]
  BY IdleIs, Moved
<1>2. \A e \in End : t = App(e) => AppNid(e, th[App(e)])'
  BY <1>1 DEF AppNid, NidOK, NidPc
<1>3. \A e \in End : t = Worker(e) => WorkNid(e, th[Worker(e)])'
  BY <1>1 DEF WorkNid, NidOK, NidPc
<1> QED BY <1>1, <1>2, <1>3 DEF Finds

(* get_nid returns the nid its end has the node under.                     *)
LEMMA ContinueFinds ==
  ASSUME CInv, NInv, NEW t \in Thread, th[t].pc \in NidPc, NEW nid \in Nat,
         Continue(t, nid), Steady(t), Free(t),
         \A n : n = th[t].node /\ n # Root => Owns(EndOf(t), nid, n)'
  PROVE  Finds(t) /\ th'[t].pc \notin {"gen", "fetch"}
<1>1. PICK r : r = th[t]
  OBVIOUS
<1>2. PICK s : s = [r EXCEPT !.pc = r.then, !.nid = nid]
  OBVIOUS
<1>3. /\ r \in Local /\ s.pc = r.then /\ s.nid = nid /\ s.node = r.node /\ s.msg = r.msg
      /\ s.then = r.then /\ th \in [Thread -> Local]
  BY <1>1, <1>2 DEF CInv, TInv, Types, Local
<1>4. th'[t] = s
  BY <1>1, <1>2, <1>3 DEF Continue, Become
<1>5. Home' = Home
  BY DEF Steady, Home
<1>6. ASSUME NEW e \in End, t = App(e)
      PROVE  AppNid(e, th[App(e)])' /\ s.pc \notin {"gen", "fetch"}
  <2>1. AppOK(e, r) /\ AppNid(e, r) /\ EndOf(t) = e
    BY <1>1, <1>6, TheThreads DEF CInv, TInv, Threads, NInv, ThreadNids
  <2>2. /\ s.pc \in Announces /\ (s.pc = "child_nid" => Home[s.msg.node] = e)
        /\ s.pc # "child_nid" => s.node # Root
    BY <1>1, <1>3, <2>1, Nodewise DEF AppOK, AppNid, CInv, TInv
  <2>3. s.pc # "child_nid" => Owns(e, s.nid, s.node)'
    BY <1>1, <1>3, <2>1, <2>2
  <2> QED BY <1>4, <1>5, <1>6, <2>2, <2>3 DEF AppNid, NidOK, NidPc, Announces, Owns
<1>7. ASSUME NEW e \in End, t = Worker(e)
      PROVE  WorkNid(e, th[Worker(e)])' /\ s.pc \notin {"gen", "fetch"}
  <2>1. WorkOK(e, r) /\ WorkNid(e, r) /\ EndOf(t) = e /\ r.pc # "idle"
    BY <1>1, <1>7, TheThreads DEF CInv, TInv, Threads, NInv, ThreadNids, NidPc
  <2>2. s.pc = "reply" /\ s.node = s.msg.node /\ s.node # Root
    BY <1>1, <1>3, <2>1, Nodewise DEF WorkOK, WorkNid, CInv, TInv, Maps
  <2>3. Owns(e, s.nid, s.msg.node)'
    BY <1>1, <1>3, <2>1, <2>2
  <2>4. PackageOK(e, th[Worker(e)].msg)'
    BY <1>1, <1>3, <1>4, <1>7, <2>1, ServedStays
  <2> QED BY <1>4, <1>7, <2>2, <2>3, <2>4 DEF WorkNid, NidOK, NidPc, Owns
<1>8. EndOf(t) \in End /\ (t = App(EndOf(t)) \/ t = Worker(EndOf(t)))
  BY TheThreads
<1> QED BY <1>4, <1>6, <1>7, <1>8 DEF Finds

(* get_nid finds the node: it has it under the nid returned.               *)
LEMMA GetNidFoundNids ==
  ASSUME CInv, NInv, NEW t \in Thread, GetNidFound(t), program' = program
  PROVE  NInv' /\ Kept
<1>1. /\ th[t].pc = "get_nid"
      /\ UNCHANGED <<tracked, tree, current_nid, wire, package_queue, in, ready, io>>
  BY DEF GetNidFound, At, nodeVars, streamVars, serverVars
<1>2. PICK e : e = EndOf(t)
  OBVIOUS
<1>3. PICK nid \in DOMAIN tracked[e] : /\ Continue(t, nid)
                                       /\ tracked[e][nid] = ObjectOf(e, th[t].node)
  BY <1>2 DEF GetNidFound, NidsOf
<1>4. /\ e \in End /\ nid \in Nat /\ th \in [Thread -> Local] /\ th[t].pc \in NidPc
  BY <1>1, <1>2, TheThreads DEF CInv, TInv, Types, Maps, NidPc
<1>5. \A u \in Thread : u # t => th'[u] = th[u]
  BY <1>3, <1>4 DEF Continue, Become
<1>6. Steady(t) /\ Trees' /\ Nids'
  <2>1. io'["server"] # 0 => io'["server"] = current_nid
    BY <1>1 DEF NInv, Nids
  <2> QED BY <1>1, <1>5, <2>1, MapsLeft
<1>7. Free(t)
  BY <1>1 DEF Free, Waiting
<1>8. \A n : n = th[t].node /\ n # Root => Owns(e, nid, n)'
  <2>1. \A n : n = th[t].node /\ n # Root => Owns(e, nid, n)
    BY <1>2, <1>3, <1>4, Sought DEF Owns
  <2> QED BY <1>4, <1>6, <2>1 DEF Steady, NidsSteady
<1>9. Finds(t) /\ th'[t].pc \notin {"gen", "fetch"}
  BY <1>2, <1>3, <1>4, <1>6, <1>7, <1>8, ContinueFinds
<1> QED BY <1>1, <1>6, <1>7, <1>9, QuietNids

(* A nid is stored and tracked by the server: the one loaded is still the  *)
(* counter's value, because nobody drew one in between.                    *)
LEMMA StoreNidNids ==
  ASSUME CInv, NInv, OneAtATime, NEW t \in Thread, StoreNid(t), program' = program
  PROVE  NInv' /\ Kept
<1>1. /\ th[t].pc = "store_nid" /\ current_nid' = th[t].nid + 1
      /\ DoTrack(EndOf(t), th[t].nid, ObjectOf(EndOf(t), th[t].node))
      /\ Continue(t, th[t].nid)
      /\ UNCHANGED <<tree, wire, package_queue, in, ready, io>>
  BY DEF StoreNid, At, streamVars
<1>2. /\ th \in [Thread -> Local] /\ th[t].pc \in NidPc /\ current_nid \in Nat \ {0}
      /\ EndOf(t) \in End /\ Nids /\ Maps
  BY <1>1, TheThreads DEF CInv, TInv, Types, NidPc, NInv
<1>3. EndOf(t) = "server"
  BY <1>1, TheThreads DEF CInv, TInv, Threads, AppOK, WorkOK
<1>4. th[t].nid = current_nid
  BY <1>1, <1>2, Sought DEF NidOK
<1>5. io["server"] = 0
  BY <1>1, <1>3 DEF OneAtATime, At
<1>6. \A x \in End : current_nid \notin DOMAIN tracked[x]
  <2>1. ~(current_nid < current_nid)
    BY <1>2
  <2> QED BY <1>2, <2>1 DEF Nids
<1>7. PICK i \in Nat : i = current_nid
  BY <1>2
<1>8. /\ current_nid' \in Nat /\ i < current_nid' /\ current_nid <= current_nid' /\ i # 0
      /\ ~(i < current_nid)
  BY <1>1, <1>2, <1>4, <1>7
<1>9. /\ Nids' /\ Trees' /\ NidsSteady(t) /\ TreesSteady(t)
      /\ \A n : n = th[t].node => Owns(EndOf(t), i, n)'
  BY <1>1, <1>3, <1>4, <1>5, <1>6, <1>7, <1>8, OwnTracked
<1>10. \A u \in Thread : u # t => th'[u] = th[u]
  BY <1>1, <1>2 DEF Continue, Become
<1>11. Steady(t) /\ Free(t)
  BY <1>1, <1>9, <1>10 DEF Steady, Free, Waiting
<1>12. Finds(t) /\ th'[t].pc \notin {"gen", "fetch"}
  BY <1>1, <1>2, <1>4, <1>7, <1>9, <1>11, ContinueFinds
<1> QED BY <1>1, <1>9, <1>11, <1>12, QuietNids

(* The client tracks its node under the nid it was given.                  *)
LEMMA ReceiveNidNids ==
  ASSUME CInv, NInv, LsIsAlone, NEW t \in Thread, ReceiveNid(t), program' = program
  PROVE  NInv' /\ Kept
<1>1. /\ th[t].pc = "gen" /\ t \in ready
      /\ DoTrack(EndOf(t), in[EndOf(t)].nid, ObjectOf(EndOf(t), th[t].node))
      /\ Continue(t, in[EndOf(t)].nid)
      /\ UNCHANGED <<tree, current_nid, wire, package_queue, in, ready, io>>
  BY DEF ReceiveNid, At, streamVars, serverVars
<1>2. /\ th \in [Thread -> Local] /\ th[t].pc \in NidPc /\ current_nid \in Nat \ {0}
      /\ EndOf(t) \in End /\ Nids /\ Flow
  BY <1>1, TheThreads DEF CInv, TInv, Types, NidPc, NInv
<1>3. \A u \in Thread : th[u].pc = "gen" => EndOf(u) = "client"
  BY TheThreads DEF CInv, TInv, Threads, AppOK, WorkOK
<1>4. in[EndOf(t)].from = t
  BY <1>1 DEF CInv, Woken, WokenByOwnReply, Waiting
<1>5. Fresh(in[EndOf(t)].nid)
  BY <1>1, <1>2, <1>4 DEF Flow, ReplyOK
<1>6. PICK i \in Nat : i = in[EndOf(t)].nid
  BY <1>5 DEF Fresh
<1>7. i # 0 /\ i < current_nid /\ \A x \in End : i \notin DOMAIN tracked[x]
  BY <1>5, <1>6 DEF Fresh
<1>8. \A u \in Thread : u # t => ~At(u, "gen")
  BY <1>1, <1>3, OneDraws DEF At
<1>9. /\ current_nid' \in Nat /\ i < current_nid' /\ current_nid <= current_nid'
      /\ io'["server"] # 0 => io'["server"] = current_nid'
  BY <1>1, <1>2, <1>7 DEF Nids
<1>10. /\ Nids' /\ Trees' /\ NidsSteady(t) /\ TreesSteady(t)
       /\ \A n : n = th[t].node => Owns(EndOf(t), i, n)'
  BY <1>1, <1>6, <1>7, <1>8, <1>9, OwnTracked
<1>11. \A u \in Thread : u # t => th'[u] = th[u]
  BY <1>1, <1>2 DEF Continue, Become
<1>12. Steady(t) /\ Free(t)
  BY <1>1, <1>10, <1>11 DEF Steady, Free
<1>13. Finds(t) /\ th'[t].pc \notin {"gen", "fetch"}
  BY <1>1, <1>2, <1>6, <1>10, <1>12, ContinueFinds
<1> QED BY <1>1, <1>10, <1>12, <1>13, QuietNids

(* The search found nothing: the node has no nid.                          *)
LEMMA NotFound ==
  ASSUME CInv, NInv, NEW t \in Thread, th[t].pc = "get_nid",
         NidsOf(EndOf(t), ObjectOf(EndOf(t), th[t].node)) = {}
  PROVE  th[t].node # Root /\ Unknown(EndOf(t), th[t].node)
<1>1. PICK e \in End : e = EndOf(t)
  BY TheThreads
<1>2. PICK n : n = th[t].node
  OBVIOUS
<1>3. /\ n = Root => ObjectOf(e, n) = Object(Root, 0)
      /\ n # Root => Home[n] = e /\ ObjectOf(e, n) = Object(n, 0)
  BY <1>1, <1>2, Sought DEF NidPc
<1>4. 0 \in DOMAIN tracked[e] /\ \A i \in DOMAIN tracked[e] : Tracks(e, i)
  BY DEF NInv, Nids
<1>5. Peer(e) # e /\ Peer(e) \in End
  BY Ends
<1>6. tracked[e][0] = Object(Root, 0)
  BY <1>4 DEF Tracks
<1>7. \A i \in DOMAIN tracked[e] : tracked[e][i] # ObjectOf(e, n)
  BY <1>1, <1>2 DEF NidsOf
<1>8. n # Root
  BY <1>3, <1>4, <1>6, <1>7
<1>9. ASSUME NEW i \in DOMAIN tracked[e], tracked[e][i].node = n PROVE FALSE
  <2>1. Tracks(e, i)
    BY <1>4
  <2>2. Object(Root, 0).node = Root
    BY DEF Object
  <2>3. Owns(e, i, n) \/ Owns(Peer(e), i, n)
    BY <1>8, <1>9, <2>1, <2>2 DEF Tracks
  <2> QED BY <1>3, <1>5, <1>7, <1>8, <2>3 DEF Owns
<1> QED BY <1>1, <1>2, <1>8, <1>9 DEF Unknown

(* So a nid may be drawn for it.                                           *)
LEMMA DrawFinds ==
  ASSUME CInv, NInv, NEW t \in Thread, th[t].pc = "get_nid",
         NidsOf(EndOf(t), ObjectOf(EndOf(t), th[t].node)) = {},
         Steady(t), UNCHANGED <<tracked, tree, current_nid>>,
         th'[t].pc \in {"store_nid", "gen"}, th'[t].node = th[t].node,
         th'[t].msg = th[t].msg, th'[t].then = th[t].then,
         th'[t].pc = "store_nid" => th'[t].nid = current_nid
  PROVE  Finds(t) /\ Free(t)
<1>1. th[t].node # Root /\ Unknown(EndOf(t), th[t].node)
  BY NotFound
<1>2. Home' = Home
  BY DEF Steady, Home
<1>3. Free(t)
  BY DEF Free, Waiting
<1>4. ASSUME NEW e \in End, NidOK(e, th[t]), e = EndOf(t) PROVE NidOK(e, th[t])'
  BY <1>1, <1>2, <1>4 DEF NidOK, NidPc, Unknown
<1>5. ASSUME NEW e \in End, t = App(e) PROVE AppNid(e, th[App(e)])'
  <2>1. AppNid(e, th[t]) /\ e = EndOf(t)
    BY <1>5, TheThreads DEF NInv, ThreadNids
  <2>2. NidOK(e, th[t])'
    BY <1>4, <2>1 DEF AppNid
  <2> QED BY <1>2, <1>5, <2>1, <2>2 DEF AppNid, NidPc
<1>6. ASSUME NEW e \in End, t = Worker(e) PROVE WorkNid(e, th[Worker(e)])'
  <2>1. WorkNid(e, th[t]) /\ e = EndOf(t)
    BY <1>6, TheThreads DEF NInv, ThreadNids
  <2>2. NidOK(e, th[t])'
    BY <1>4, <2>1 DEF WorkNid
  <2>3. PackageOK(e, th[Worker(e)].msg)'
    BY <1>3, <1>6, ServedStays
  <2> QED BY <1>6, <2>1, <2>2, <2>3 DEF WorkNid, NidPc
<1> QED BY <1>3, <1>5, <1>6 DEF Finds

(* The server loads its counter for a node.                                *)
LEMMA LoadNidNids ==
  ASSUME CInv, NInv, NEW t \in Thread, LoadNid(t), program' = program
  PROVE  NInv' /\ Kept
<1> DEFINE r == [th[t] EXCEPT !.pc = "store_nid", !.nid = current_nid]
<1>1. /\ th[t].pc = "get_nid" /\ th' = [th EXCEPT ![t] = r]
      /\ NidsOf(EndOf(t), ObjectOf(EndOf(t), th[t].node)) = {}
      /\ UNCHANGED <<tracked, tree, current_nid, wire, package_queue, in, ready, io>>
  BY DEF LoadNid, At, Become, nodeVars, streamVars, serverVars
<1>2. th \in [Thread -> Local] /\ th[t] \in Local
  BY DEF CInv, TInv, Types
<1>3. /\ r.pc = "store_nid" /\ r.nid = current_nid /\ r.node = th[t].node
      /\ r.msg = th[t].msg /\ r.then = th[t].then
  BY <1>2 DEF Local
<1> HIDE DEF r
<1>4. th'[t] = r /\ \A u \in Thread : u # t => th'[u] = th[u]
  BY <1>1, <1>2
<1>5. Steady(t) /\ Trees' /\ Nids'
  <2>1. io'["server"] # 0 => io'["server"] = current_nid
    BY <1>1 DEF NInv, Nids
  <2> QED BY <1>1, <1>4, <2>1, MapsLeft
<1>6. Finds(t) /\ Free(t)
  BY <1>1, <1>3, <1>4, <1>5, DrawFinds
<1> QED BY <1>1, <1>3, <1>4, <1>5, <1>6, QuietNids

(* The client asks for a nid for it.                                       *)
LEMMA RequestNidNids ==
  ASSUME CInv, NInv, NEW t \in Thread, RequestNid(t), program' = program
  PROVE  NInv' /\ Kept
<1> DEFINE r == [th[t] EXCEPT !.pc = "gen"]
<1>1. PICK m : m = Msg("gen", t, 0, Root, 0)
  OBVIOUS
<1>2. /\ th[t].pc = "get_nid" /\ th' = [th EXCEPT ![t] = r]
      /\ NidsOf(EndOf(t), ObjectOf(EndOf(t), th[t].node)) = {}
      /\ wire' = [wire EXCEPT ![Peer(EndOf(t))] = Append(@, m)] /\ ready' = ready \ {t}
      /\ UNCHANGED <<tracked, tree, current_nid, package_queue, in, io>>
  BY <1>1 DEF RequestNid, At, Become, SendBegin, Write, nodeVars, serverVars
<1>3. th \in [Thread -> Local] /\ th[t] \in Local
  BY DEF CInv, TInv, Types
<1>4. /\ r.pc = "gen" /\ r.node = th[t].node /\ r.msg = th[t].msg /\ r.then = th[t].then
  BY <1>3 DEF Local
<1> HIDE DEF r
<1>5. th'[t] = r /\ \A u \in Thread : u # t => th'[u] = th[u]
  BY <1>2, <1>3
<1>6. m \in Message /\ m.kind = "gen" /\ m.from = t
  BY <1>1, Messages DEF Kind, Nodes
<1>7. PackageOK(Peer(EndOf(t)), m)' /\ Peer(EndOf(t)) \in End
  BY <1>4, <1>5, <1>6, TheThreads, Ends DEF PackageOK, IsAnswer
<1>8. Steady(t) /\ Trees' /\ Nids'
  <2>1. io'["server"] # 0 => io'["server"] = current_nid
    BY <1>2 DEF NInv, Nids
  <2> QED BY <1>2, <1>5, <2>1, MapsLeft
<1>9. Finds(t) /\ Free(t)
  BY <1>2, <1>4, <1>5, <1>8, DrawFinds
<1> QED BY <1>2, <1>6, <1>7, <1>8, <1>9, WriteNids

-----------------------------------------------------------------------------
(* The thread that moves is an application's or a worker's.                *)
LEMMA AppFinds ==
  ASSUME NEW e \in End
  PROVE  /\ AppNid(e, th[App(e)])' => Finds(App(e))
         /\ WorkNid(e, th[Worker(e)])' => Finds(Worker(e))
<1>1. \A x \in End : /\ App(e) # Worker(x) /\ Worker(e) # App(x)
                     /\ App(e) = App(x) \/ Worker(e) = Worker(x) => x = e
  BY TheThreads
<1>2. AppNid(e, th[App(e)])' => Finds(App(e))
  BY <1>1 DEF Finds
<1>3. WorkNid(e, th[Worker(e)])' => Finds(Worker(e))
  BY <1>1 DEF Finds
<1> QED BY <1>2, <1>3

(* The application attaches a node of its own to another of its own.       *)
LEMMA CreateLocalNids ==
  ASSUME CInv, NInv, NEW e \in End, NEW n \in DOMAIN Parent, CreateLocal(e, n),
         program' = program
  PROVE  NInv' /\ Kept
<1> DEFINE t == App(e)
<1> DEFINE r == [Idle EXCEPT !.pc = "get_nid", !.then = "child_nid", !.node = Parent[n],
                             !.msg = Note("child", 0, n, 0)]
<1>1. /\ th[t].pc = "idle" /\ Home[n] = e /\ "create" \in Ops[e]
      /\ InTree(e, Parent[n]) /\ ~IsProxy(e, Parent[n]) /\ AttachToTree(e, n, 0, 0)
      /\ th' = [th EXCEPT ![t] = r] \/ th' = th
      /\ UNCHANGED <<tracked, current_nid, wire, package_queue, in, ready, io>>
  BY DEF CreateLocal, MayBegin, At, Become, streamVars, serverVars
<1>2. /\ Parent[n] \in Nodes /\ n \in Nodes /\ th \in [Thread -> Local] /\ t \in Thread
  BY AppIs, Nodewise DEF Types
<1>3. r.pc = "get_nid" /\ r.then = "child_nid" /\ r.node = Parent[n] /\ r.msg.node = n
  <2>1. Note("child", 0, n, 0).node = n
    BY <1>2, Messages DEF Note, Kind
  <2> QED BY <2>1 DEF Idle
<1> HIDE DEF r
<1>4. th'[t].pc = "idle" \/ th'[t] = r
  BY <1>1, <1>2
<1>5. \A u \in Thread : u # t => th'[u] = th[u]
  BY <1>1, <1>2
<1>6. /\ Trees' /\ TreesSteady(t)
      /\ \A x \in End : DOMAIN tree[x] \subseteq DOMAIN tree'[x]
  BY <1>1, TreeGrows
<1>7. Nids' /\ NidsSteady(t)
  BY <1>1, <1>6, NidsLeft
<1>8. Steady(t) /\ Free(t) /\ Home' = Home
  BY <1>1, <1>5, <1>6, <1>7 DEF Steady, Free, Waiting, Home
<1>9. Parent[n] = Root \/ Home[Parent[n]] = e
  BY <1>1 DEF InTree, IsProxy, NInv, Trees
<1>10. AppNid(e, th[t])'
  BY <1>1, <1>3, <1>4, <1>8, <1>9 DEF AppNid, NidOK, NidPc
<1>11. Finds(t) /\ th'[t].pc \notin {"gen", "fetch"}
  BY <1>3, <1>4, <1>10, AppFinds
<1> QED BY <1>1, <1>6, <1>7, <1>8, <1>11, QuietNids

(* child_added goes on to the child's nid.                                 *)
LEMMA ChildAddedNids ==
  ASSUME CInv, NInv, NEW e \in End, ChildAdded(e), program' = program
  PROVE  NInv' /\ Kept
<1> DEFINE t == App(e)
<1> DEFINE r == [th[t] EXCEPT !.pc = "get_nid", !.then = "write_child",
                              !.pnid = th[t].nid, !.node = th[t].msg.node]
<1>1. /\ th[t].pc = "child_nid" /\ th' = [th EXCEPT ![t] = r]
      /\ UNCHANGED <<tracked, tree, current_nid, wire, package_queue, in, ready, io>>
  BY DEF ChildAdded, At, Become, nodeVars, streamVars, serverVars
<1>2. th[t] \in Local /\ th \in [Thread -> Local] /\ t \in Thread
  BY AppIs DEF Types
<1>3. r.pc = "get_nid" /\ r.then = "write_child" /\ r.node = th[t].msg.node
  BY <1>2 DEF Local
<1> HIDE DEF r
<1>4. th'[t] = r /\ \A u \in Thread : u # t => th'[u] = th[u]
  BY <1>1, <1>2
<1>5. Steady(t) /\ Trees' /\ Nids'
  <2>1. io'["server"] # 0 => io'["server"] = current_nid
    BY <1>1 DEF NInv, Nids
  <2> QED BY <1>1, <1>4, <2>1, MapsLeft
<1>6. Free(t) /\ Home' = Home
  BY <1>1 DEF Free, Waiting, Home
<1>7. Home[r.node] = e
  BY <1>1, <1>3 DEF NInv, ThreadNids, AppNid
<1>8. AppNid(e, th[t])'
  BY <1>3, <1>4, <1>6, <1>7 DEF AppNid, NidOK, NidPc
<1>9. Finds(t)
  BY <1>8, AppFinds
<1> QED BY <1>1, <1>3, <1>4, <1>5, <1>6, <1>9, QuietNids

(* A note about a node of the sender's, under its nid there.               *)
LEMMA Announced ==
  ASSUME CInv, NInv, NEW e \in End, NEW k \in {"child", "attach"}, NEW i \in Nat,
         Steady(App(e)), th[App(e)].pc \in {"write_child", "write_attach"}
  PROVE  LET m == Note(k, i, th[App(e)].node, th[App(e)].nid) IN
         /\ m \in Message
         /\ \A y : y = m => PackageOK(Peer(e), y)'
<1>1. PICK n, j : n = th[App(e)].node /\ j = th[App(e)].nid
  OBVIOUS
<1>2. n \in Nodes /\ j \in Nat
  BY <1>1, AppIs DEF Local
<1>3. PICK m : m = Note(k, i, n, j)
  OBVIOUS
<1>4. m \in Message /\ m.kind = k /\ m.cnid = j /\ m.node = n
  BY <1>2, <1>3, Messages DEF Note, Kind
<1>5. Owns(e, j, n)'
  <2>1. Owns(e, j, n)
    BY <1>1 DEF NInv, ThreadNids, AppNid
  <2> QED BY <2>1 DEF Steady, NidsSteady
<1>6. PackageOK(Peer(e), m)'
  BY <1>4, <1>5, Ends DEF PackageOK, IsAnswer
<1> QED BY <1>1, <1>3, <1>4, <1>6

(* child_added announces the child under the nid its end has it under.     *)
LEMMA WriteChildAddedNids ==
  ASSUME CInv, NInv, NEW e \in End, WriteChildAdded(e), program' = program
  PROVE  NInv' /\ Kept
<1> DEFINE t == App(e)
<1>1. PICK m : m = Note("child", th[t].pnid, th[t].node, th[t].nid)
  OBVIOUS
<1>2. /\ th[t].pc = "write_child" /\ th' = [th EXCEPT ![t] = Idle]
      /\ wire' = [wire EXCEPT ![Peer(e)] = Append(@, m)]
      /\ UNCHANGED <<tracked, tree, current_nid, package_queue, in, ready, io>>
  BY <1>1 DEF WriteChildAdded, At, Become, Write, nodeVars, serverVars
<1>3. /\ Finds(t) /\ th'[t].pc \notin {"gen", "fetch"} /\ t \in Thread
      /\ \A u \in Thread : u # t => th'[u] = th[u]
  BY <1>2, AppIs, IdleFinds
<1>4. Steady(t) /\ Trees' /\ Nids'
  <2>1. io'["server"] # 0 => io'["server"] = current_nid
    BY <1>2 DEF NInv, Nids
  <2> QED BY <1>2, <1>3, <2>1, MapsLeft
<1>5. Free(t) /\ Peer(e) \in End /\ th[t].pnid \in Nat
  BY <1>2, Ends, AppIs DEF Free, Waiting, Local
<1>6. m \in Message /\ PackageOK(Peer(e), m)'
  BY <1>1, <1>2, <1>4, <1>5, Announced
<1> QED BY <1>2, <1>3, <1>4, <1>5, <1>6, WriteNids

(* The application attaches a node of its own to a proxy.                  *)
LEMMA CreateRemoteNids ==
  ASSUME CInv, NInv, NEW e \in End, NEW n \in DOMAIN Parent, CreateRemote(e, n),
         program' = program
  PROVE  NInv' /\ Kept
<1> DEFINE t == App(e)
<1> DEFINE r == [Idle EXCEPT !.pc = "get_nid", !.then = "write_attach",
                             !.node = n, !.pnid = tree[e][Parent[n]].nid]
<1>1. /\ th[t].pc = "idle" /\ Home[n] = e /\ "create" \in Ops[e]
      /\ AttachToTree(e, n, 0, 0) /\ th' = [th EXCEPT ![t] = r]
      /\ UNCHANGED <<tracked, current_nid, wire, package_queue, in, ready, io>>
  BY DEF CreateRemote, MayBegin, At, Become, streamVars, serverVars
<1>2. th \in [Thread -> Local] /\ t \in Thread
  BY AppIs DEF Types
<1>3. r.pc = "get_nid" /\ r.then = "write_attach" /\ r.node = n
  BY DEF Idle
<1> HIDE DEF r
<1>4. th'[t] = r /\ \A u \in Thread : u # t => th'[u] = th[u]
  BY <1>1, <1>2
<1>5. /\ Trees' /\ TreesSteady(t)
      /\ \A x \in End : DOMAIN tree[x] \subseteq DOMAIN tree'[x]
  BY <1>1, TreeGrows
<1>6. Nids' /\ NidsSteady(t)
  BY <1>1, <1>5, NidsLeft
<1>7. Steady(t) /\ Free(t) /\ Home' = Home
  BY <1>1, <1>4, <1>5, <1>6 DEF Steady, Free, Waiting, Home
<1>8. AppNid(e, th[t])'
  BY <1>1, <1>3, <1>4, <1>7 DEF AppNid, NidOK, NidPc
<1>9. Finds(t)
  BY <1>8, AppFinds
<1> QED BY <1>1, <1>3, <1>4, <1>5, <1>6, <1>7, <1>9, QuietNids

(* attach announces it under the nid its end has it under.                 *)
LEMMA WriteAttachNids ==
  ASSUME CInv, NInv, NEW e \in End, WriteAttach(e), program' = program
  PROVE  NInv' /\ Kept
<1> DEFINE t == App(e)
<1>1. PICK m : m = Note("attach", th[t].pnid, th[t].node, th[t].nid)
  OBVIOUS
<1>2. /\ th[t].pc = "write_attach" /\ th' = [th EXCEPT ![t] = Idle]
      /\ wire' = [wire EXCEPT ![Peer(e)] = Append(@, m)]
      /\ UNCHANGED <<tracked, tree, current_nid, package_queue, in, ready, io>>
  BY <1>1 DEF WriteAttach, At, Become, Write, nodeVars, serverVars
<1>3. /\ Finds(t) /\ th'[t].pc \notin {"gen", "fetch"} /\ t \in Thread
      /\ \A u \in Thread : u # t => th'[u] = th[u]
  BY <1>2, AppIs, IdleFinds
<1>4. Steady(t) /\ Trees' /\ Nids'
  <2>1. io'["server"] # 0 => io'["server"] = current_nid
    BY <1>2 DEF NInv, Nids
  <2> QED BY <1>2, <1>3, <2>1, MapsLeft
<1>5. Free(t) /\ Peer(e) \in End /\ th[t].pnid \in Nat
  BY <1>2, Ends, AppIs DEF Free, Waiting, Local
<1>6. m \in Message /\ PackageOK(Peer(e), m)'
  BY <1>1, <1>2, <1>4, <1>5, Announced
<1> QED BY <1>2, <1>3, <1>4, <1>5, <1>6, WriteNids

(* fetch_node asks for a node the tree does not have.                      *)
LEMMA FetchBeginNids ==
  ASSUME CInv, NInv, NEW e \in End, NEW n \in DOMAIN Parent, FetchBegin(e, n),
         program' = program
  PROVE  NInv' /\ Kept
<1> DEFINE t == App(e)
<1> DEFINE r == [Idle EXCEPT !.pc = "fetch", !.node = n]
<1>1. PICK m : m = Msg("at", t, tree[e][Parent[n]].nid, n, 0)
  OBVIOUS
<1>2. /\ th[t].pc = "idle" /\ th' = [th EXCEPT ![t] = r] /\ IsProxy(e, Parent[n])
      /\ n \notin DOMAIN tree[e] /\ ready' = ready \ {t}
      /\ wire' = [wire EXCEPT ![Peer(e)] = Append(@, m)]
      /\ UNCHANGED <<tracked, tree, current_nid, package_queue, in, io>>
  BY <1>1, AppIs
  DEF FetchBegin, MayBegin, At, Become, SendBegin, Write, InTree, nodeVars, serverVars
<1>3. r.pc = "fetch" /\ r.node = n
  BY DEF Idle
<1>4. /\ th \in [Thread -> Local] /\ t \in Thread \cup {NoThread} /\ t \in Thread
      /\ n \in Nodes /\ tree[e][Parent[n]].nid \in Nat /\ "at" \in Kind /\ 0 \in Nat
  BY <1>2, AppIs, Nodewise DEF Types, Maps, IsProxy, Kind
<1> HIDE DEF r, t
<1>5. m \in Message /\ m.kind = "at" /\ m.from = t /\ m.node = n
  BY <1>1, <1>4, Messages
<1>6. th'[t] = r /\ \A u \in Thread : u # t => th'[u] = th[u]
  BY <1>2, <1>4
<1>7. Steady(t) /\ Trees' /\ Nids'
  <2>1. io'["server"] # 0 => io'["server"] = current_nid
    BY <1>2 DEF NInv, Nids
  <2> QED BY <1>2, <1>6, <2>1, MapsLeft
<1>8. Free(t) /\ Peer(e) \in End
  BY <1>2, Ends DEF Free, Waiting
<1>9. PackageOK(Peer(e), m)'
  BY <1>3, <1>5, <1>6 DEF PackageOK, IsAnswer
<1>10. Finds(t)
  <2>1. AppNid(e, th[t])'
    BY <1>2, <1>3, <1>6 DEF AppNid, NidOK, NidPc
  <2> QED BY <2>1, AppFinds DEF t
<1> QED BY <1>2, <1>5, <1>7, <1>8, <1>9, <1>10, WriteNids

(* A thread returns to where it has nothing to do.                         *)
LEMMA ReturnsNids ==
  ASSUME CInv, NInv, NEW t \in Thread, Free(t), th' = [th EXCEPT ![t] = Idle],
         program' = program,
         UNCHANGED <<tracked, tree, current_nid, wire, package_queue, in, ready, io>>
  PROVE  NInv' /\ Kept
<1>1. Types
  BY DEF CInv, TInv
<1>2. /\ Finds(t) /\ th'[t].pc \notin {"gen", "fetch"}
      /\ \A u \in Thread : u # t => th'[u] = th[u]
  BY <1>1, IdleFinds
<1>3. Steady(t) /\ Trees' /\ Nids'
  <2>1. io'["server"] # 0 => io'["server"] = current_nid
    BY DEF NInv, Nids
  <2> QED BY <1>2, <2>1, MapsLeft
<1> QED BY <1>2, <1>3, QuietNids

(* fetch_node, update_prop and ls have their replies and return.           *)
LEMMA CallEndsNids ==
  ASSUME CInv, NInv, NEW e \in End, FetchFails(e) \/ UpdateEnds(e) \/ LsEnds(e),
         program' = program
  PROVE  NInv' /\ Kept
<1> DEFINE t == App(e)
<1>1. /\ t \in ready /\ th' = [th EXCEPT ![t] = Idle]
      /\ UNCHANGED <<tracked, tree, current_nid, wire, package_queue, in, ready, io>>
  <2>1. CASE FetchFails(e)
    BY <2>1 DEF FetchFails, At, Become, nodeVars, streamVars, serverVars
  <2>2. CASE UpdateEnds(e)
    BY <2>2 DEF UpdateEnds, At, Become, nodeVars, streamVars, serverVars
  <2>3. CASE LsEnds(e)
    BY <2>3 DEF LsEnds, At, Become, nodeVars, streamVars, serverVars
  <2> QED BY <2>1, <2>2, <2>3
<1>2. t \in Thread /\ Free(t)
  BY <1>1, AppIs DEF Free
<1> QED BY <1>1, <1>2, ReturnsNids

(* fetch_node tracks its proxy under the nid the peer has the node under.  *)
LEMMA FetchEndsNids ==
  ASSUME CInv, NInv, LsIsAlone, NEW e \in End, FetchEnds(e), program' = program
  PROVE  NInv' /\ Kept
<1> DEFINE t == App(e)
<1> DEFINE r == [th[t] EXCEPT !.pc = "insert", !.nid = in[e].nid, !.pnid = made[e] + 1]
<1>1. /\ th[t].pc = "fetch" /\ t \in ready /\ in[e].kind # "error"
      /\ th' = [th EXCEPT ![t] = r]
      /\ DoTrack(e, in[e].nid, Object(th[t].node, made[e] + 1))
      /\ UNCHANGED <<tree, current_nid, wire, package_queue, in, ready, io>>
  BY DEF FetchEnds, At, Become, streamVars, serverVars
<1>2. /\ th \in [Thread -> Local] /\ t \in Thread /\ EndOf(t) = e /\ th[t] \in Local
      /\ made[e] \in Nat
  BY AppIs DEF Types
<1>3. /\ r.pc = "insert" /\ r.node = th[t].node /\ r.nid = in[e].nid
      /\ r.pnid = made[e] + 1
  BY <1>2 DEF Local
<1>4. made[e] + 1 # 0
  BY <1>2
<1> HIDE DEF r
<1>5. th'[t] = r /\ \A u \in Thread : u # t => th'[u] = th[u]
  BY <1>1, <1>2
<1>6. in[e].from = t
  BY <1>1, <1>2 DEF CInv, Woken, WokenByOwnReply, Waiting
<1>7. PICK i, n : i = in[e].nid /\ n = th[t].node
  OBVIOUS
<1>8. Owns(Peer(e), i, n)
  BY <1>1, <1>2, <1>6, <1>7 DEF NInv, Flow, ReplyOK
<1>9. Nids' /\ NidsSteady(t)
  BY <1>1, <1>4, <1>7, <1>8, ProxyTracked
<1>10. Trees' /\ TreesSteady(t)
  BY <1>1 DEF NInv, Trees, TreesSteady, Home, Ops
<1>11. Steady(t) /\ Free(t)
  BY <1>1, <1>5, <1>9, <1>10 DEF Steady, Free
<1>12. Owns(Peer(e), i, n)'
  BY <1>8, <1>9, Ends DEF NidsSteady
<1>13. AppNid(e, th[t])'
  BY <1>3, <1>4, <1>5, <1>7, <1>12 DEF AppNid, NidOK, NidPc, Owns
<1>14. Finds(t)
  BY <1>13, AppFinds
<1> QED BY <1>1, <1>3, <1>5, <1>9, <1>10, <1>11, <1>14, QuietNids

(* insert attaches a proxy for a node the peer's tree has.                 *)
LEMMA InsertNids ==
  ASSUME CInv, NInv, NEW e \in End, Insert(e), program' = program
  PROVE  NInv' /\ Kept
<1> DEFINE t == App(e)
<1>1. /\ th[t].pc = "insert" /\ th' = [th EXCEPT ![t] = Idle]
      /\ AttachToTree(e, th[t].node, th[t].pnid, th[t].nid)
      /\ UNCHANGED <<tracked, current_nid, wire, package_queue, in, ready, io>>
  BY DEF Insert, At, Become, streamVars, serverVars
<1>2. /\ Finds(t) /\ th'[t].pc \notin {"gen", "fetch"} /\ t \in Thread
      /\ \A u \in Thread : u # t => th'[u] = th[u]
  BY <1>1, AppIs, IdleFinds
<1>3. Owns(Peer(e), th[t].nid, th[t].node) /\ th[t].pnid # 0 /\ Peer(e) \in End
  BY <1>1, Ends DEF NInv, ThreadNids, AppNid
<1>4. Home[th[t].node] = Peer(e) /\ th[t].node \in DOMAIN tree[Peer(e)]
  BY <1>3, Owned DEF Owns
<1>5. /\ Trees' /\ TreesSteady(t)
      /\ \A x \in End : DOMAIN tree[x] \subseteq DOMAIN tree'[x]
  BY <1>1, <1>3, <1>4, TreeGrows
<1>6. Nids' /\ NidsSteady(t)
  BY <1>1, <1>5, NidsLeft
<1>7. Steady(t) /\ Free(t)
  BY <1>1, <1>2, <1>5, <1>6 DEF Steady, Free, Waiting
<1> QED BY <1>1, <1>2, <1>5, <1>6, <1>7, QuietNids

(* A request that needs no nid: update_prop's or ls's.                     *)
LEMMA AskNids ==
  ASSUME CInv, NInv, NEW e \in End, NEW n \in Nodes, NEW i \in Nat, NEW k, NEW pc,
         (k = "get" /\ pc = "update") \/ (k = "ls" /\ pc = "ls"),
         th[App(e)].pc = "idle",
         Become(App(e), [Idle EXCEPT !.pc = pc, !.node = n]),
         ready' = ready \ {App(e)}, Write(e, Msg(k, App(e), i, n, 0)),
         UNCHANGED <<tracked, tree, current_nid, package_queue, in, io>>,
         program' = program
  PROVE  NInv' /\ Kept
<1> DEFINE t == App(e)
<1> DEFINE r == [Idle EXCEPT !.pc = pc, !.node = n]
<1>1. PICK m : m = Msg(k, t, i, n, 0)
  OBVIOUS
<1>2. /\ th' = [th EXCEPT ![t] = r] /\ wire' = [wire EXCEPT ![Peer(e)] = Append(@, m)]
      /\ ready' = ready \ {t} /\ th[t].pc = "idle"
  BY <1>1 DEF Become, Write
<1>3. r.pc = pc
  BY DEF Idle
<1>4. /\ th \in [Thread -> Local] /\ t \in Thread \cup {NoThread} /\ t \in Thread
      /\ k \in Kind /\ 0 \in Nat
  BY AppIs DEF Types, Kind
<1> HIDE DEF r, t
<1>5. m \in Message /\ m.kind = k /\ m.from = t
  BY <1>1, <1>4, Messages
<1>6. th'[t] = r /\ \A u \in Thread : u # t => th'[u] = th[u]
  BY <1>2, <1>4
<1>7. Steady(t) /\ Trees' /\ Nids'
  <2>1. io'["server"] # 0 => io'["server"] = current_nid
    BY DEF NInv, Nids
  <2> QED BY <1>6, <2>1, MapsLeft
<1>8. Free(t) /\ Peer(e) \in End
  BY <1>2, Ends DEF Free, Waiting
<1>9. PackageOK(Peer(e), m)'
  BY <1>3, <1>5, <1>6 DEF PackageOK, IsAnswer
<1>10. Finds(t)
  <2>1. AppNid(e, th[t])'
    BY <1>3, <1>6 DEF AppNid, NidOK, NidPc
  <2> QED BY <2>1, AppFinds DEF t
<1> QED BY <1>2, <1>5, <1>7, <1>8, <1>9, <1>10, WriteNids

(* ls asks.                                                                *)
LEMMA LsBeginNids ==
  ASSUME CInv, NInv, NEW e \in End, NEW n \in DOMAIN Parent, LsBegin(e, n),
         program' = program
  PROVE  NInv' /\ Kept
<1>1. /\ th[App(e)].pc = "idle" /\ IsProxy(e, n)
      /\ Become(App(e), [Idle EXCEPT !.pc = "ls", !.node = n])
      /\ ready' = ready \ {App(e)} /\ Write(e, Msg("ls", App(e), tree[e][n].nid, n, 0))
      /\ UNCHANGED <<tracked, tree, current_nid, package_queue, in, io>>
  BY AppIs DEF LsBegin, MayBegin, At, SendBegin, nodeVars, serverVars
<1>2. n \in Nodes /\ tree[e][n].nid \in Nat
  BY <1>1, AppIs, Nodewise DEF IsProxy, Maps
<1> QED BY <1>1, <1>2, AskNids

(* update_prop asks, if the proxy is tracked.                              *)
LEMMA UpdateBeginNids ==
  ASSUME CInv, NInv, NEW e \in End, NEW n \in DOMAIN Parent, UpdateBegin(e, n),
         program' = program
  PROVE  NInv' /\ Kept
<1>1. /\ th[App(e)].pc = "idle" /\ IsProxy(e, n)
      /\ UNCHANGED <<tracked, tree, current_nid, package_queue, in, io>>
  BY DEF UpdateBegin, MayBegin, At, nodeVars, serverVars
<1>2. n \in Nodes /\ tree[e][n].nid \in Nat
  BY <1>1, AppIs, Nodewise DEF IsProxy, Maps
<1>3. CASE IsTracked(e, tree[e][n].nid)
  <2>1. /\ Become(App(e), [Idle EXCEPT !.pc = "update", !.node = n])
        /\ ready' = ready \ {App(e)}
        /\ Write(e, Msg("get", App(e), tree[e][n].nid, n, 0))
    BY <1>3, AppIs DEF UpdateBegin, SendBegin
  <2> QED BY <1>1, <1>2, <2>1, AskNids
<1>4. CASE ~IsTracked(e, tree[e][n].nid)
  <2>1. UNCHANGED <<wire, ready, th>>
    BY <1>4 DEF UpdateBegin
  <2>2. /\ \A u \in Thread : u # App(e) => th'[u] = th[u]
        /\ io'["server"] # 0 => io'["server"] = current_nid
    BY <1>1, <2>1 DEF NInv, Nids
  <2>3. Steady(App(e)) /\ Trees' /\ Nids'
    BY <1>1, <2>2, MapsLeft
  <2>4. Finds(App(e)) /\ Free(App(e)) /\ th'[App(e)].pc \notin {"gen", "fetch"}
    <3>1. AppNid(e, th[App(e)])'
      BY <1>1, <2>1 DEF AppNid, NidOK, NidPc
    <3> QED BY <1>1, <2>1, <3>1, AppFinds DEF Free, Waiting
  <2> QED BY <1>1, <2>1, <2>3, <2>4, QuietNids
<1> QED BY <1>3, <1>4

-----------------------------------------------------------------------------
(* The worker goes on with the package it has, and changes nothing else.   *)
LEMMA WorkerMoves ==
  ASSUME CInv, NInv, NEW e \in End, NEW r \in Local, program' = program,
         th[Worker(e)].pc \notin Waiting, th[Worker(e)].pc # "idle",
         th' = [th EXCEPT ![Worker(e)] = r], r.msg = th[Worker(e)].msg,
         r.pc \in {"get_nid", "reply", "reply_error", "find_child", "make_child"},
         r.pc = "get_nid" => r.node = r.msg.node /\ Home[r.node] = e,
         r.pc = "reply" => r.msg.kind # "at",
         UNCHANGED <<tracked, tree, current_nid, wire, package_queue, in, ready, io>>
  PROVE  NInv' /\ Kept
<1> DEFINE t == Worker(e)
<1>1. t \in Thread /\ th'[t] = r /\ \A u \in Thread : u # t => th'[u] = th[u]
  BY WorkerIs, Moved
<1>2. Steady(t) /\ Trees' /\ Nids'
  <2>1. io'["server"] # 0 => io'["server"] = current_nid
    BY DEF NInv, Nids
  <2> QED BY <1>1, <2>1, MapsLeft
<1>3. Free(t) /\ Home' = Home
  BY DEF Free, Home
<1>4. PackageOK(e, th[t].msg)'
  BY <1>1, <1>2, <1>3, ServedStays
<1>5. WorkNid(e, th[t])'
  BY <1>1, <1>3, <1>4 DEF WorkNid, NidOK, NidPc
<1>6. Finds(t)
  BY <1>5, AppFinds
<1> QED BY <1>1, <1>2, <1>3, <1>6, QuietNids

(* cmd_at finds a node of its own end: a node it has a proxy for is at the *)
(* end that asks, which asked because it does not have the node.           *)
LEMMA CmdAtNids ==
  ASSUME CInv, NInv, NEW e \in End, CmdAt(e), program' = program
  PROVE  NInv' /\ Kept
<1> DEFINE t == Worker(e)
<1> DEFINE m == th[t].msg
<1> DEFINE found == [th[t] EXCEPT !.pc = "get_nid", !.then = "reply", !.node = m.node]
<1> DEFINE error == [th[t] EXCEPT !.pc = "reply_error", !.nid = m.nid]
<1>1. /\ th[t].pc = "cmd_at"
      /\ \/ th' = [th EXCEPT ![t] = found] /\ m.node \in DOMAIN tree[e]
         \/ th' = [th EXCEPT ![t] = error]
      /\ UNCHANGED <<tracked, tree, current_nid, wire, package_queue, in, ready, io>>
  BY DEF CmdAt, At, Become, LockUnlock, nodeVars, streamVars, serverVars
<1>2. /\ found \in Local /\ found.pc = "get_nid" /\ found.node = m.node
      /\ found.msg = m
  BY WorkerIs DEF Local, AppPc, WorkPc, NidPc
<1>3. error \in Local /\ error.pc = "reply_error" /\ error.msg = m
  BY WorkerIs DEF Local, WorkPc
<1>4. PICK r \in Local : /\ th' = [th EXCEPT ![t] = r] /\ r.msg = m
                         /\ \/ r.pc = "get_nid" /\ r.node = m.node /\ m.node \in DOMAIN tree[e]
                            \/ r.pc = "reply_error"
  <2>1. CASE th' = [th EXCEPT ![t] = found] /\ m.node \in DOMAIN tree[e]
    BY <1>2, <2>1
  <2>2. CASE th' = [th EXCEPT ![t] = error]
    BY <1>3, <2>2
  <2> QED BY <1>1, <2>1, <2>2
<1> HIDE DEF found, error
<1>5. ASSUME m.node \in DOMAIN tree[e] PROVE Home[m.node] = e
  <2> DEFINE f == m.from
  <2>1. m.kind = "at" /\ f \in Thread /\ EndOf(f) = Peer(e) /\ m.node \in DOMAIN Parent
    BY <1>1, WorkerIs DEF WorkOK, Queued, Sent, Request
  <2>2. th[f].pc = "fetch" /\ th[f].node = m.node
    BY <1>1, <2>1 DEF NInv, ThreadNids, WorkNid, PackageOK
  <2>3. Peer(e) \in End /\ f = App(Peer(e))
    <3>1. Peer(e) \in End /\ (f = App(Peer(e)) \/ f = Worker(Peer(e)))
      BY <2>1, Ends, TheThreads
    <3>2. WorkOK(Peer(e), th[Worker(Peer(e))])
      BY <3>1, WorkerIs
    <3> QED BY <2>2, <3>1, <3>2 DEF WorkOK, WorkPc, NidPc
  <2>4. Home[m.node] = Peer(e) => m.node \notin DOMAIN tree[Peer(e)]
    BY <2>2, <2>3 DEF NInv, ThreadNids, AppNid
  <2>5. Home[m.node] \in End
    BY <2>1, WorkerIs DEF Types, IsProgram, Home, Parent
  <2> QED BY <1>5, <2>4, <2>5, Ends DEF NInv, Trees
<1>6. th[t].pc \notin Waiting /\ th[t].pc # "idle"
  BY <1>1 DEF Waiting
<1>7. /\ r.msg = th[Worker(e)].msg /\ th' = [th EXCEPT ![Worker(e)] = r]
      /\ r.pc = "get_nid" => r.node = r.msg.node /\ Home[r.node] = e
      /\ r.pc \in {"get_nid", "reply", "reply_error", "find_child", "make_child"}
      /\ r.pc = "reply" => r.msg.kind # "at"
  BY <1>4, <1>5
<1> QED BY <1>1, <1>6, <1>7, WorkerMoves

(* cmd_ls and cmd_get_prop answer without a nid of their own.              *)
LEMMA CmdLsOrGetNids ==
  ASSUME CInv, NInv, NEW e \in End, CmdLsOrGet(e), program' = program
  PROVE  NInv' /\ Kept
<1> DEFINE t == Worker(e)
<1> DEFINE m == th[t].msg
<1> DEFINE r == [th[t] EXCEPT !.pc = IF IsTracked(e, m.nid) THEN "reply" ELSE "reply_error",
                              !.nid = m.nid]
<1>1. /\ th[t].pc \in {"cmd_ls", "cmd_get_prop"} /\ th' = [th EXCEPT ![t] = r]
      /\ UNCHANGED <<tracked, tree, current_nid, wire, package_queue, in, ready, io>>
  BY DEF CmdLsOrGet, At, Become, LockUnlock, nodeVars, streamVars, serverVars
<1>2. r \in Local /\ r.pc \in {"reply", "reply_error"} /\ r.msg = m
  BY WorkerIs DEF Local, WorkPc
<1>3. th[t].pc \notin Waiting /\ th[t].pc # "idle" /\ m.kind # "at"
  BY <1>1 DEF Waiting, NInv, ThreadNids, WorkNid
<1> HIDE DEF r
<1> QED BY <1>1, <1>2, <1>3, WorkerMoves

(* A reply gives out the nid of the node that was asked for.               *)
LEMMA ReplyNids ==
  ASSUME CInv, NInv, NEW e \in End, Reply(e), program' = program
  PROVE  NInv' /\ Kept
<1> DEFINE t == Worker(e)
<1> DEFINE f == th[t].msg.from
<1> DEFINE k == IF At(t, "reply") THEN "ok" ELSE "error"
<1>1. PICK m : m = Answer(k, f, th[t].nid)
  OBVIOUS
<1>2. /\ th[t].pc \in {"reply", "reply_error"} /\ th' = [th EXCEPT ![t] = Idle]
      /\ wire' = [wire EXCEPT ![Peer(e)] = Append(@, m)]
      /\ UNCHANGED <<tracked, tree, current_nid, package_queue, in, ready, io>>
  BY <1>1 DEF Reply, At, Become, Write, nodeVars, serverVars
<1>3. /\ f \in Thread /\ EndOf(f) = Peer(e) /\ Peer(e) \in End /\ Peer(e) # e
      /\ Peer(Peer(e)) = e /\ th[t].msg.kind \in {"at", "ls", "get"} /\ f # t
  <2>1. th[t].pc \in Serves /\ th[t].pc # "idle"
    BY <1>2 DEF Serves
  <2>2. th[t].msg.kind \in Request /\ Queued(th[t].msg, e)
    BY <2>1, WorkerIs DEF WorkOK
  <2>3. EndOf(t) = e
    BY WorkerIs
  <2> QED BY <2>2, <2>3, Ends DEF Queued, Sent, Request
<1>4. /\ m \in Message /\ m.from = f /\ m.kind \in {"ok", "error"} /\ m.nid = th[t].nid
      /\ m.kind # "error" => th[t].pc = "reply"
  <2>1. k \in {"ok", "error"} /\ k \in Kind /\ (k # "error" => th[t].pc = "reply")
    BY DEF Kind, At
  <2>2. th[t].nid \in Nat /\ Root \in Nodes /\ 0 \in Nat /\ f \in Thread \cup {NoThread}
    BY <1>3, WorkerIs DEF Local, Nodes
  <2> HIDE DEF k, f
  <2> QED BY <1>1, <2>1, <2>2, Messages DEF Answer
<1>5. /\ Finds(t) /\ th'[t].pc \notin {"gen", "fetch"} /\ t \in Thread
      /\ \A u \in Thread : u # t => th'[u] = th[u]
  BY <1>2, WorkerIs, IdleFinds
<1>6. Steady(t) /\ Trees' /\ Nids'
  <2>1. io'["server"] # 0 => io'["server"] = current_nid
    BY <1>2 DEF NInv, Nids
  <2> QED BY <1>2, <1>5, <2>1, MapsLeft
<1>7. Free(t)
  BY <1>2 DEF Free, Waiting
<1>8. PackageOK(Peer(e), m)'
  <2>1. th'[f] = th[f] /\ PackageOK(e, th[t].msg) /\ WorkNid(e, th[t]) /\ th[t].pc # "idle"
    BY <1>2, <1>3, <1>5 DEF NInv, ThreadNids, WorkNid
  <2>2. /\ th[f].pc \in {"fetch", "ls", "update"}
        /\ th[f].pc = "fetch" => th[t].msg.kind = "at" /\ th[f].node = th[t].msg.node
    BY <1>3, <2>1 DEF PackageOK
  <2>3. PICK i, n : i = th[t].nid /\ n = th[f].node
    OBVIOUS
  <2>4. th[f].pc = "fetch" /\ m.kind # "error" => Owns(e, i, n)
    BY <1>4, <2>1, <2>2, <2>3 DEF WorkNid
  <2>5. th[f].pc = "fetch" /\ m.kind # "error" => Owns(e, i, n)'
    BY <1>6, <2>4 DEF Steady, NidsSteady
  <2>6. ReplyOK(m)'
    BY <1>3, <1>4, <2>1, <2>2, <2>3, <2>5 DEF ReplyOK, Owns
  <2> QED BY <1>4, <2>6 DEF PackageOK
<1> QED BY <1>2, <1>3, <1>4, <1>5, <1>6, <1>7, <1>8, WriteNids

(* The announced node is the peer's, which has it under the nid announced. *)
LEMMA IsAnnounced ==
  ASSUME CInv, NInv, NEW e \in End,
         th[Worker(e)].pc \in {"cmd_attach", "cmd_child_added", "find_child", "make_child",
                               "attach_child"}
  PROVE  LET m == th[Worker(e)].msg IN
         /\ Owns(Peer(e), m.cnid, m.node) /\ m.cnid \in Nat /\ Free(Worker(e))
         /\ Home[m.node] = Peer(e) /\ m.node \in DOMAIN tree[Peer(e)]
         /\ m.cnid \in DOMAIN tracked[e] => tracked[e][m.cnid].obj # 0
<1> DEFINE m == th[Worker(e)].msg
<1>1. m.kind \in {"attach", "child"} /\ m.cnid \in Nat /\ th[Worker(e)].pc # "idle"
  BY WorkerIs DEF WorkOK
<1>2. Owns(Peer(e), m.cnid, m.node) /\ Peer(e) \in End /\ Peer(Peer(e)) = e
  BY <1>1, Ends DEF NInv, ThreadNids, WorkNid, PackageOK
<1>3. Free(Worker(e))
  BY DEF Free, Waiting
<1>4. /\ m.node \in DOMAIN tree[Peer(e)]
      /\ m.cnid \in DOMAIN tracked[e] => tracked[e][m.cnid].obj # 0
  BY <1>2, Owned
<1> QED BY <1>1, <1>2, <1>3, <1>4 DEF Owns

(* A note that asks for news of a node promises nothing.                   *)
LEMMA SubscribesNids ==
  ASSUME NEW e \in End, NEW i \in Nat
  PROVE  \A m : m = Note("sub", i, Root, 0) => m \in Message /\ PackageOK(Peer(e), m)'
<1>1. PICK m : m = Note("sub", i, Root, 0)
  OBVIOUS
<1>2. m \in Message /\ m.kind = "sub"
  BY <1>1, Messages DEF Note, Kind, Nodes
<1>3. PackageOK(Peer(e), m)'
  BY <1>2 DEF PackageOK, IsAnswer
<1> QED BY <1>1, <1>2, <1>3

(* cmd_attach tracks and attaches a proxy for the announced node.          *)
LEMMA CmdAttachNids ==
  ASSUME CInv, NInv, NEW e \in End, CmdAttach(e), program' = program
  PROVE  NInv' /\ Kept
<1> DEFINE t == Worker(e)
<1> DEFINE m == th[t].msg
<1>1. /\ th[t].pc = "cmd_attach" /\ th' = [th EXCEPT ![t] = Idle]
      /\ UNCHANGED <<current_nid, package_queue, in, ready, io>>
  BY DEF CmdAttach, At, Become, serverVars
<1>2. /\ Finds(t) /\ th'[t].pc \notin {"gen", "fetch"} /\ t \in Thread
      /\ \A u \in Thread : u # t => th'[u] = th[u]
  BY <1>1, WorkerIs, IdleFinds
<1>3. /\ Owns(Peer(e), m.cnid, m.node) /\ m.cnid \in Nat /\ Free(t)
      /\ Home[m.node] = Peer(e) /\ m.node \in DOMAIN tree[Peer(e)] /\ Peer(e) \in End
  BY <1>1, IsAnnounced, Ends
<1>4. CASE IsTracked(e, m.nid)
  <2>1. PICK s : s = Note("sub", m.cnid, Root, 0)
    OBVIOUS
  <2>2. /\ DoTrack(e, m.cnid, Object(m.node, made[e] + 1))
        /\ AttachToTree(e, m.node, made[e] + 1, m.cnid)
        /\ wire' = [wire EXCEPT ![Peer(e)] = Append(@, s)]
    BY <1>4, <2>1 DEF CmdAttach, Write
  <2>3. made[e] + 1 # 0
    BY WorkerIs
  <2>4. /\ Trees' /\ TreesSteady(t)
        /\ \A x \in End : DOMAIN tree[x] \subseteq DOMAIN tree'[x]
    BY <1>3, <2>2, <2>3, TreeGrows
  <2>5. Nids' /\ NidsSteady(t)
    BY <1>1, <1>3, <2>2, <2>3, <2>4, ProxyTracked
  <2>6. Steady(t)
    BY <1>2, <2>4, <2>5 DEF Steady
  <2>7. s \in Message /\ PackageOK(Peer(e), s)'
    BY <1>3, <2>1, SubscribesNids
  <2> QED BY <1>1, <1>2, <1>3, <2>2, <2>4, <2>5, <2>6, <2>7, WriteNids
<1>5. CASE ~IsTracked(e, m.nid)
  <2>1. UNCHANGED <<tracked, tree, wire>>
    BY <1>5 DEF CmdAttach
  <2> QED BY <1>1, <1>2, <1>3, <2>1, ReturnsNids
<1> QED BY <1>4, <1>5

(* A subscription concerns no nid.                                         *)
LEMMA CmdSubscribeAddRemoveNids ==
  ASSUME CInv, NInv, NEW e \in End, CmdSubscribeAddRemove(e), program' = program
  PROVE  NInv' /\ Kept
<1> DEFINE t == Worker(e)
<1>1. /\ th[t].pc = "cmd_subscribe_add_remove" /\ th' = [th EXCEPT ![t] = Idle]
      /\ UNCHANGED <<tracked, tree, current_nid, wire, package_queue, in, ready, io>>
  BY DEF CmdSubscribeAddRemove, At, Become, streamVars, serverVars
<1>2. t \in Thread /\ Free(t)
  BY <1>1, WorkerIs DEF Free, Waiting
<1> QED BY <1>1, <1>2, ReturnsNids

(* cmd_child_added goes on if it has the parent, ...                       *)
LEMMA FindParentNids ==
  ASSUME CInv, NInv, NEW e \in End, FindParent(e), program' = program
  PROVE  NInv' /\ Kept
<1> DEFINE t == Worker(e)
<1> DEFINE r == [th[t] EXCEPT !.pc = "find_child"]
<1>1. /\ th[t].pc = "cmd_child_added"
      /\ th' = [th EXCEPT ![t] = r] \/ th' = [th EXCEPT ![t] = Idle]
      /\ UNCHANGED <<tracked, tree, current_nid, wire, package_queue, in, ready, io>>
  BY DEF FindParent, At, Become, nodeVars, streamVars, serverVars
<1>2. r \in Local /\ r.pc = "find_child" /\ r.msg = th[t].msg
  BY WorkerIs DEF Local, WorkPc
<1> HIDE DEF r
<1>3. /\ t \in Thread /\ Free(t) /\ th[t].pc \notin Waiting /\ th[t].pc # "idle"
  BY <1>1, WorkerIs DEF Free, Waiting
<1>4. CASE th' = [th EXCEPT ![t] = r]
  BY <1>1, <1>2, <1>3, <1>4, WorkerMoves
<1>5. CASE th' = [th EXCEPT ![t] = Idle]
  BY <1>1, <1>3, <1>5, ReturnsNids
<1> QED BY <1>1, <1>4, <1>5

(* ... attaches the child if it is tracked, ...                            *)
LEMMA FindChildNids ==
  ASSUME CInv, NInv, NEW e \in End, FindChild(e), program' = program
  PROVE  NInv' /\ Kept
<1> DEFINE t == Worker(e)
<1> DEFINE m == th[t].msg
<1>1. /\ th[t].pc = "find_child"
      /\ UNCHANGED <<tracked, current_nid, wire, package_queue, in, ready, io>>
  BY DEF FindChild, At, streamVars, serverVars
<1>2. /\ Home[m.node] = Peer(e) /\ m.node \in DOMAIN tree[Peer(e)] /\ Free(t)
      /\ m.cnid \in DOMAIN tracked[e] => tracked[e][m.cnid].obj # 0
  BY <1>1, IsAnnounced
<1>3. CASE IsTracked(e, m.cnid)
  <2>1. /\ AttachToTree(e, m.node, tracked[e][m.cnid].obj, m.cnid)
        /\ th' = [th EXCEPT ![t] = Idle]
    BY <1>3 DEF FindChild, Become
  <2>2. /\ Finds(t) /\ th'[t].pc \notin {"gen", "fetch"} /\ t \in Thread
        /\ \A u \in Thread : u # t => th'[u] = th[u]
    BY <2>1, WorkerIs, IdleFinds
  <2>3. /\ Trees' /\ TreesSteady(t)
        /\ \A x \in End : DOMAIN tree[x] \subseteq DOMAIN tree'[x]
    BY <1>2, <1>3, <2>1, TreeGrows DEF IsTracked
  <2>4. Nids' /\ NidsSteady(t)
    BY <1>1, <2>3, NidsLeft
  <2>5. Steady(t)
    BY <2>2, <2>3, <2>4 DEF Steady
  <2> QED BY <1>1, <1>2, <2>2, <2>3, <2>4, <2>5, QuietNids
<1>4. CASE ~IsTracked(e, m.cnid)
  <2> DEFINE r == [th[t] EXCEPT !.pc = "make_child"]
  <2>1. tree' = tree /\ th' = [th EXCEPT ![t] = r]
    BY <1>4 DEF FindChild, Become
  <2>2. r \in Local /\ r.pc = "make_child" /\ r.msg = th[t].msg
    BY WorkerIs DEF Local, WorkPc
  <2> HIDE DEF r
  <2>3. th[t].pc \notin Waiting /\ th[t].pc # "idle"
    BY <1>1 DEF Waiting
  <2> QED BY <1>1, <2>1, <2>2, <2>3, WorkerMoves
<1> QED BY <1>3, <1>4

(* ... tracks a proxy for it if it is not, ...                             *)
LEMMA MakeChildNids ==
  ASSUME CInv, NInv, NEW e \in End, MakeChild(e), program' = program
  PROVE  NInv' /\ Kept
<1> DEFINE t == Worker(e)
<1> DEFINE m == th[t].msg
<1> DEFINE r == [th[t] EXCEPT !.pc = "attach_child", !.nid = made[e] + 1]
<1>1. PICK s : s = Note("sub", m.cnid, Root, 0)
  OBVIOUS
<1>2. /\ th[t].pc = "make_child" /\ th' = [th EXCEPT ![t] = r]
      /\ DoTrack(e, m.cnid, Object(m.node, made[e] + 1))
      /\ wire' = [wire EXCEPT ![Peer(e)] = Append(@, s)]
      /\ UNCHANGED <<tree, current_nid, package_queue, in, ready, io>>
  BY <1>1 DEF MakeChild, At, Become, Write, serverVars
<1>3. made[e] + 1 \in Nat /\ made[e] + 1 # 0
  BY WorkerIs
<1>4. /\ r \in Local /\ r.pc = "attach_child" /\ r.msg = th[t].msg
      /\ r.nid = made[e] + 1
  BY <1>3, WorkerIs DEF Local, WorkPc
<1> HIDE DEF r
<1>5. t \in Thread /\ th'[t] = r /\ \A u \in Thread : u # t => th'[u] = th[u]
  BY <1>2, <1>4, WorkerIs, Moved
<1>6. /\ Owns(Peer(e), m.cnid, m.node) /\ m.cnid \in Nat /\ Free(t) /\ Peer(e) \in End
  BY <1>2, IsAnnounced, Ends
<1>7. Nids' /\ NidsSteady(t)
  BY <1>2, <1>3, <1>6, ProxyTracked
<1>8. Trees' /\ TreesSteady(t)
  BY <1>2 DEF NInv, Trees, TreesSteady, Home, Ops
<1>9. Steady(t)
  BY <1>5, <1>7, <1>8 DEF Steady
<1>10. PackageOK(e, th[t].msg)'
  BY <1>2, <1>4, <1>5, <1>6, <1>9, ServedStays
<1>11. WorkNid(e, th[t])'
  BY <1>3, <1>4, <1>5, <1>10 DEF WorkNid, NidOK, NidPc
<1>12. Finds(t)
  BY <1>11, AppFinds
<1>13. s \in Message /\ PackageOK(Peer(e), s)'
  BY <1>1, <1>6, SubscribesNids
<1> QED BY <1>2, <1>4, <1>5, <1>6, <1>7, <1>8, <1>9, <1>12, <1>13, WriteNids

(* ... and attaches that one.                                              *)
LEMMA AttachChildNids ==
  ASSUME CInv, NInv, NEW e \in End, AttachChild(e), program' = program
  PROVE  NInv' /\ Kept
<1> DEFINE t == Worker(e)
<1> DEFINE m == th[t].msg
<1>1. /\ th[t].pc = "attach_child" /\ th' = [th EXCEPT ![t] = Idle]
      /\ AttachToTree(e, m.node, th[t].nid, m.cnid)
      /\ UNCHANGED <<tracked, current_nid, wire, package_queue, in, ready, io>>
  BY DEF AttachChild, At, Become, streamVars, serverVars
<1>2. /\ Finds(t) /\ th'[t].pc \notin {"gen", "fetch"} /\ t \in Thread
      /\ \A u \in Thread : u # t => th'[u] = th[u]
  BY <1>1, WorkerIs, IdleFinds
<1>3. /\ Home[m.node] = Peer(e) /\ m.node \in DOMAIN tree[Peer(e)] /\ Free(t)
      /\ th[t].nid # 0
  BY <1>1, IsAnnounced DEF NInv, ThreadNids, WorkNid
<1>4. /\ Trees' /\ TreesSteady(t)
      /\ \A x \in End : DOMAIN tree[x] \subseteq DOMAIN tree'[x]
  BY <1>1, <1>3, TreeGrows
<1>5. Nids' /\ NidsSteady(t)
  BY <1>1, <1>4, NidsLeft
<1>6. Steady(t)
  BY <1>2, <1>4, <1>5 DEF Steady
<1> QED BY <1>1, <1>2, <1>3, <1>4, <1>5, <1>6, QuietNids

(* What is left of a queue when its first package is taken.                *)
LEMMA Behind ==
  ASSUME NEW S, NEW s \in Seq(S), s # <<>>
  PROVE  Head(s) \in Range(s) /\ Range(Tail(s)) \subseteq Range(s)
<1>1. /\ \E i \in DOMAIN s : s[i] = Head(s)
      /\ \A i \in DOMAIN Tail(s) : \E j \in DOMAIN s : Tail(s)[i] = s[j]
  BY Taken
<1> QED BY <1>1 DEF Range

(* The worker takes a package, which is as it was in the queue.            *)
LEMMA PopNids ==
  ASSUME CInv, NInv, NEW e \in End, Pop(e), program' = program
  PROVE  NInv' /\ Kept
<1> DEFINE t == Worker(e)
<1> DEFINE q == package_queue[e]
<1> DEFINE r == [Idle EXCEPT !.pc = Handler(Head(q)), !.msg = Head(q)]
<1> DEFINE M == Message
<1>1. /\ th[t].pc = "idle" /\ q # <<>> /\ th' = [th EXCEPT ![t] = r]
      /\ package_queue' = [package_queue EXCEPT ![e] = Tail(@)]
      /\ UNCHANGED <<tracked, tree, current_nid, wire, in, ready, io>>
  BY DEF Pop, At, Become, nodeVars, streamVars, serverVars
<1>2. q \in Seq(M) /\ package_queue \in [End -> Seq(M)] /\ Packages
  BY ReaderIs
<1> HIDE DEF M
<1>3. Head(q) \in Range(q) /\ Range(Tail(q)) \subseteq Range(q) /\ Head(q) \in M
  BY <1>1, <1>2, Behind, Taken
<1>4. PICK h : h = Head(q)
  OBVIOUS
<1>5. /\ package_queue'[e] = Tail(q) /\ package_queue[e] = q
      /\ \A x \in End : x # e => package_queue'[x] = package_queue[x]
  BY <1>1, <1>2
<1>6. h \in Message /\ Queued(h, e) /\ h \in Range(package_queue[e])
  <2>1. PICK i \in DOMAIN q : q[i] = h
    BY <1>3, <1>4 DEF Range
  <2> QED BY <1>2, <1>3, <1>4, <2>1 DEF Packages, M
<1>7. h.kind \in {"at", "ls", "get", "attach", "child", "sub"}
  BY <1>6 DEF Message, Kind, Queued, Sent, IsAnswer
<1>8. /\ Handler(h) \in {"cmd_at", "cmd_ls", "cmd_get_prop", "cmd_attach",
                         "cmd_child_added", "cmd_subscribe_add_remove"}
      /\ Handler(h) \in {"cmd_ls", "cmd_get_prop"} => h.kind # "at"
  BY <1>7 DEF Handler
<1>9. r \in Local /\ r.pc = Handler(h) /\ r.msg = h
  BY <1>4, <1>6, <1>8, IdleIs DEF Local, WorkPc, Idle
<1> HIDE DEF r, q
<1>10. t \in Thread /\ th'[t] = r /\ \A u \in Thread : u # t => th'[u] = th[u]
  BY <1>1, <1>9, WorkerIs, Moved
<1>11. Steady(t) /\ Trees' /\ Nids'
  <2>1. io'["server"] # 0 => io'["server"] = current_nid
    BY <1>1 DEF NInv, Nids
  <2> QED BY <1>1, <1>10, <2>1, MapsLeft
<1>12. Free(t)
  BY <1>1 DEF Free, Waiting
<1>13. PackageOK(e, h)'
  <2>1. PackageOK(e, h)
    BY <1>6 DEF NInv, Flow
  <2>2. h.kind \in Request \/ IsAnswer(h) => h.from \in Thread /\ h.from # t
    BY <1>6, <1>12, NotMine
  <2> QED BY <1>11, <2>1, <2>2, PackageStays
<1>14. Finds(t)
  <2>1. PackageOK(e, th[t].msg)'
    BY <1>9, <1>10, <1>13 DEF PackageOK, ReplyOK, IsAnswer
  <2>2. WorkNid(e, th[t])'
    BY <1>8, <1>9, <1>10, <2>1 DEF WorkNid, NidOK, NidPc
  <2> QED BY <2>2, AppFinds
<1>15. Flow'
  <2>1. \A x \in End :
          /\ \A m \in Range(wire'[x]) : m \in Range(wire[x]) \/ PackageOK(x, m)'
          /\ \A m \in Range(package_queue'[x]) :
               m \in Range(package_queue[x]) \/ PackageOK(x, m)'
    BY <1>1, <1>3, <1>5
  <2>2. in' = in /\ ready' \subseteq ready /\ th'[t].pc \notin {"gen", "fetch"}
    BY <1>1, <1>8, <1>9, <1>10
  <2> QED BY <1>11, <1>12, <2>1, <2>2, FlowStays
<1>16. ThreadNids'
  BY <1>11, <1>12, <1>14, OthersStay DEF Finds, ThreadNids
<1> QED BY <1>11, <1>15, <1>16 DEF NInv, Steady, NidsSteady

-----------------------------------------------------------------------------
(* The reading thread is none of the threads that wait or look for a nid.  *)
LEMMA Reader == Finds(NoThread) /\ Free(NoThread) /\ NoThread \notin Thread
  BY TheThreads DEF Finds, Free

(* What it leaves alone.                                                   *)
LEMMA ReaderSteady ==
  ASSUME CInv, NInv, program' = program, UNCHANGED <<th, tracked, tree, current_nid>>,
         io'["server"] # 0 => io'["server"] = current_nid
  PROVE  Steady(NoThread) /\ Trees' /\ Nids' /\ ThreadNids' /\ Kept
<1>1. Steady(NoThread) /\ Trees' /\ Nids'
  BY MapsLeft
<1>2. ThreadNids'
  BY <1>1, Reader, OthersStay DEF Finds, ThreadNids
<1> QED BY <1>1, <1>2 DEF Steady, NidsSteady

(* A package that is on its way keeps its promise when the thread reads.   *)
LEMMA UnderWay ==
  ASSUME CInv, NInv, Steady(NoThread), NEW e \in End,
         NEW m \in Range(wire[e]) \cup Range(package_queue[e])
  PROVE  PackageOK(e, m)'
<1>1. PackageOK(e, m)
  BY DEF NInv, Flow
<1>2. m.kind \in Request \/ IsAnswer(m) => m.from \in Thread /\ m.from # NoThread
  BY Reader, NotMine
<1> QED BY <1>1, <1>2, PackageStays

(* It takes the first package.                                             *)
LEMMA Takes ==
  ASSUME CInv, NEW e \in End, wire[e] # <<>>, Take(e)
  PROVE  /\ Head(wire[e]) \in Range(wire[e])
         /\ \A x \in End : Range(wire'[x]) \subseteq Range(wire[x])
<1> DEFINE M == Message
<1>1. wire \in [End -> Seq(M)]
  BY ReaderIs
<1> HIDE DEF M
<1>2. Head(wire[e]) \in Range(wire[e]) /\ Range(Tail(wire[e])) \subseteq Range(wire[e])
  BY <1>1, Behind
<1>3. wire'[e] = Tail(wire[e]) /\ \A x \in End : x # e => wire'[x] = wire[x]
  BY <1>1 DEF Take
<1> QED BY <1>2, <1>3

(* A reply is copied for the thread that waits for it.                     *)
LEMMA ReceiveReplyNids ==
  ASSUME CInv, NInv, NEW e \in End, ReceiveReply(e), program' = program
  PROVE  NInv' /\ Kept
<1>1. PICK h : h = Head(wire[e])
  OBVIOUS
<1>2. /\ wire[e] # <<>> /\ IsAnswer(h) /\ Take(e)
      /\ in' = [in EXCEPT ![e] = h] /\ ready' = ready \cup {h.from}
      /\ UNCHANGED <<th, tracked, tree, current_nid, io, package_queue>>
  BY <1>1 DEF ReceiveReply, nodeVars, serverVars
<1>3. Steady(NoThread) /\ Trees' /\ Nids' /\ ThreadNids' /\ Kept
  <2>1. io'["server"] # 0 => io'["server"] = current_nid
    BY <1>2 DEF NInv, Nids
  <2> QED BY <1>2, <2>1, ReaderSteady
<1>4. h \in Range(wire[e]) /\ \A x \in End : Range(wire'[x]) \subseteq Range(wire[x])
  BY <1>1, <1>2, Takes
<1>5. h.from \in Thread /\ EndOf(h.from) = e
  BY <1>1, <1>2, WireTaken DEF Sent
<1>6. \A x \in End : /\ \A m \in Range(wire'[x]) : PackageOK(x, m)'
                     /\ \A m \in Range(package_queue'[x]) : PackageOK(x, m)'
  BY <1>2, <1>3, <1>4, UnderWay
<1>7. ASSUME NEW x \in End, in'[x].from \in ready', EndOf(in'[x].from) = x
      PROVE  ReplyOK(in[x])'
  <2>1. in \in [End -> Message]
    BY ReaderIs
  <2>2. CASE x = e
    <3>1. in'[x] = h
      BY <1>2, <2>1, <2>2
    <3>2. PackageOK(e, h)'
      BY <1>3, <1>4, UnderWay
    <3>3. ReplyOK(h)'
      BY <1>2, <3>2 DEF PackageOK, IsAnswer
    <3> QED BY <3>1, <3>3 DEF ReplyOK
  <2>3. CASE x # e
    <3>1. in'[x] = in[x] /\ in[x].from \in ready /\ EndOf(in[x].from) = x
      BY <1>2, <1>5, <1>7, <2>1, <2>3
    <3>2. PICK m : m = in[x]
      OBVIOUS
    <3>3. ReplyOK(m)
      BY <3>1, <3>2 DEF NInv, Flow
    <3>4. Home' = Home /\ Parent' = Parent
      BY DEF Home, Parent
    <3>5. ReplyOK(m)'
      BY <1>2, <3>3, <3>4 DEF ReplyOK, Fresh, Owns
    <3> QED BY <3>1, <3>2, <3>5 DEF ReplyOK
  <2> QED BY <2>2, <2>3
<1>8. Flow'
  BY <1>6, <1>7 DEF Flow
<1> QED BY <1>3, <1>8 DEF NInv

(* A request or a note goes to the queue.                                  *)
LEMMA EnqueueNids ==
  ASSUME CInv, NInv, NEW e \in End, Enqueue(e), program' = program
  PROVE  NInv' /\ Kept
<1> DEFINE M == Message
<1>1. PICK h : h = Head(wire[e])
  OBVIOUS
<1>2. /\ wire[e] # <<>> /\ Take(e)
      /\ package_queue' = [package_queue EXCEPT ![e] = Append(@, h)]
      /\ UNCHANGED <<th, tracked, tree, current_nid, io, in, ready>>
  BY <1>1 DEF Enqueue, nodeVars, serverVars
<1>3. Steady(NoThread) /\ Trees' /\ Nids' /\ ThreadNids' /\ Kept
  <2>1. io'["server"] # 0 => io'["server"] = current_nid
    BY <1>2 DEF NInv, Nids
  <2> QED BY <1>2, <2>1, ReaderSteady
<1>4. h \in Range(wire[e]) /\ \A x \in End : Range(wire'[x]) \subseteq Range(wire[x])
  BY <1>1, <1>2, Takes
<1>5. package_queue \in [End -> Seq(M)] /\ h \in M
  BY <1>1, <1>2, ReaderIs, WireTaken
<1> HIDE DEF M
<1>6. \A x \in End : \A m \in Range(package_queue'[x]) :
        m \in Range(package_queue[x]) \/ (x = e /\ m = h)
  <2>1. /\ package_queue'[e] = Append(package_queue[e], h)
        /\ \A x \in End : x # e => package_queue'[x] = package_queue[x]
    BY <1>2, <1>5
  <2>2. \A i \in DOMAIN package_queue'[e] :
          \/ package_queue'[e][i] = h
          \/ i \in DOMAIN package_queue[e] /\ package_queue'[e][i] = package_queue[e][i]
    BY <1>5, <2>1, Added
  <2> QED BY <2>1, <2>2 DEF Range
<1>7. PackageOK(e, h)'
  BY <1>3, <1>4, UnderWay
<1>8. Flow'
  <2>1. \A x \in End :
          /\ \A m \in Range(wire'[x]) : m \in Range(wire[x]) \/ PackageOK(x, m)'
          /\ \A m \in Range(package_queue'[x]) :
               m \in Range(package_queue[x]) \/ PackageOK(x, m)'
    BY <1>4, <1>6, <1>7
  <2>2. in' = in /\ ready' \subseteq ready
    BY <1>2
  <2> QED BY <1>3, <2>1, <2>2, Reader, FlowStays
<1> QED BY <1>3, <1>8 DEF NInv

(* The reading thread has the counter's value between load and store.      *)
LEMMA LoadForPeerNids ==
  ASSUME CInv, NInv, NEW e \in End, LoadForPeer(e), program' = program
  PROVE  NInv' /\ Kept
<1>1. /\ wire[e] # <<>> /\ Head(wire[e]).kind = "gen"
      /\ io' = [io EXCEPT ![e] = current_nid]
      /\ UNCHANGED <<tracked, tree, current_nid, wire, package_queue, th, in, ready>>
  BY DEF LoadForPeer, nodeVars, streamVars
<1>2. e = "server" /\ io \in [End -> Nat]
  BY <1>1, WireTaken, ReaderIs DEF Sent
<1>3. Steady(NoThread) /\ Trees' /\ Nids'
  <2>1. io'["server"] # 0 => io'["server"] = current_nid
    BY <1>1, <1>2
  <2> QED BY <1>1, <2>1, ReaderSteady
<1> QED BY <1>1, <1>3, Reader, QuietNids

(* The client is given a nid that nobody has, unless another thread of the *)
(* server has drawn one meanwhile.                                         *)
LEMMA StoreForPeerNids ==
  ASSUME CInv, NInv, OneAtATime, NEW e \in End, StoreForPeer(e), program' = program
  PROVE  NInv' /\ Kept
<1> DEFINE p == Peer(e)
<1> DEFINE M == Message
<1>1. PICK h, i : h = Head(wire[e]) /\ i = io[e]
  OBVIOUS
<1>2. PICK m : m = Answer("ok", h.from, i)
  OBVIOUS
<1>3. /\ i # 0 /\ current_nid' = i + 1 /\ io' = [io EXCEPT ![e] = 0]
      /\ wire' = [wire EXCEPT ![e] = Tail(@), ![p] = Append(@, m)]
      /\ UNCHANGED <<tracked, tree, package_queue, th, in, ready>>
  BY <1>1, <1>2 DEF StoreForPeer, nodeVars
<1>4. /\ e = "server" /\ p = "client" /\ p \in End /\ p # e /\ wire[e] # <<>>
      /\ h.kind = "gen" /\ i = current_nid /\ i \in Nat \ {0} /\ Nids /\ Trees
      /\ Peer(p) = e /\ \A x \in End : x = e \/ x = p
  BY <1>1, <1>3, ReaderIs, Ends DEF Reading, NInv, Nids
<1>5. /\ h.from \in Thread /\ EndOf(h.from) = p /\ h \in M
  BY <1>1, <1>4, WireTaken DEF Sent, Request
<1>6. m \in M /\ m.from = h.from /\ m.kind = "ok" /\ m.nid = i
  <2>1. h.from \in Thread \cup {NoThread} /\ "ok" \in Kind /\ 0 \in Nat /\ Root \in Nodes
    BY <1>5 DEF Kind, Nodes
  <2> QED BY <1>2, <1>4, <2>1, Messages DEF Answer
<1>7. wire \in [End -> Seq(M)]
  BY ReaderIs
<1> HIDE DEF M
<1>8. wire'[e] = Tail(wire[e]) /\ wire'[p] = Append(wire[p], m)
  BY <1>3, <1>4, <1>7
<1>9. /\ h \in Range(wire[e]) /\ Range(wire'[e]) \subseteq Range(wire[e])
      /\ \A y \in Range(wire'[p]) : y \in Range(wire[p]) \/ y = m
  <2>1. h \in Range(wire[e]) /\ Range(wire'[e]) \subseteq Range(wire[e])
    BY <1>1, <1>4, <1>7, <1>8, Behind
  <2>2. PICK s \in Seq(M) : s = wire[p]
    BY <1>4, <1>7
  <2>3. \A j \in DOMAIN Append(s, m) : \/ Append(s, m)[j] = m
                                       \/ j \in DOMAIN s /\ Append(s, m)[j] = s[j]
    BY <1>6, Added
  <2> QED BY <1>8, <2>1, <2>2, <2>3 DEF Range
<1>10. Home' = Home /\ Parent' = Parent /\ Ops' = Ops
  BY DEF Home, Parent, Ops
<1>11. \A x \in End : \A j \in DOMAIN tracked[x] : j \in Nat /\ j < current_nid
  BY <1>4 DEF Nids, CInv, TInv, Maps
<1>12. NidsSteady(NoThread)
  <2>1. \A u \in Thread : ~At(u, "store_nid")
    <3>1. \A u \in Thread : At(u, "store_nid") => EndOf(u) = "server"
      BY TheThreads DEF CInv, TInv, Threads, AppOK, WorkOK, At
    <3> QED BY <1>1, <1>3, <1>4, <3>1 DEF OneAtATime
  <2>2. \A j : Fresh(j) => Fresh(j)'
    <3>1. ASSUME NEW j, Fresh(j) PROVE Fresh(j)'
      <4>1. j \in Nat \ {0} /\ j < current_nid /\ \A x \in End : j \notin DOMAIN tracked[x]
        BY <3>1 DEF Fresh
      <4>2. j < current_nid'
        BY <1>3, <1>4, <4>1
      <4> QED BY <1>3, <4>1, <4>2 DEF Fresh
    <3> QED BY <3>1
  <2>3. Kept
    BY <1>3 DEF Kept
  <2>4. \A x \in End : \A j, n : Owns(x, j, n) => Owns(x, j, n)'
    BY <1>3, <1>10 DEF Owns
  <2>5. \A x \in End : \A n : Unknown(x, n) => Unknown(x, n)'
    BY <1>3 DEF Unknown
  <2> QED BY <2>1, <2>2, <2>3, <2>4, <2>5, TheThreads DEF NidsSteady
<1>13. Steady(NoThread)
  BY <1>3, <1>12 DEF Steady, TreesSteady
<1>14. Trees'
  BY <1>3, <1>4, <1>10 DEF Trees
<1>15. Nids'
  <2>1. ASSUME NEW x \in End, NEW j \in DOMAIN tracked[x]
        PROVE  Tracks(x, j)' /\ j < current_nid'
    <3>1. Tracks(x, j) /\ j < current_nid
      BY <1>4 DEF Nids
    <3>2. j < current_nid'
      BY <1>3, <1>4, <1>11
    <3> QED BY <1>3, <1>10, <3>1, <3>2 DEF Tracks, Owns
  <2>2. io'["server"] = 0
    BY <1>3, <1>4, ReaderIs
  <2> QED BY <1>3, <1>4, <2>1, <2>2 DEF Nids
<1>16. PackageOK(p, m)'
  <2>1. th[h.from].pc = "gen"
    BY <1>4, <1>9 DEF NInv, Flow, PackageOK
  <2>2. Fresh(i)'
    <3>1. i < current_nid'
      BY <1>3, <1>4
    <3>2. \A x \in End : i \notin DOMAIN tracked'[x]
      BY <1>3, <1>4, <1>11
    <3> QED BY <1>4, <3>1, <3>2 DEF Fresh
  <2>3. ReplyOK(m)'
    BY <1>3, <1>6, <2>1, <2>2 DEF ReplyOK, Fresh
  <2> QED BY <1>6, <2>3 DEF PackageOK
<1>17. Flow'
  <2>1. \A x \in End :
          /\ \A y \in Range(wire'[x]) : y \in Range(wire[x]) \/ PackageOK(x, y)'
          /\ \A y \in Range(package_queue'[x]) :
               y \in Range(package_queue[x]) \/ PackageOK(x, y)'
    BY <1>3, <1>4, <1>9, <1>16
  <2>2. in' = in /\ ready' \subseteq ready
    BY <1>3
  <2> QED BY <1>13, <2>1, <2>2, Reader, FlowStays
<1>18. ThreadNids'
  BY <1>13, Reader, OthersStay DEF Finds, ThreadNids
<1> QED BY <1>12, <1>14, <1>15, <1>17, <1>18 DEF NInv, NidsSteady

-----------------------------------------------------------------------------
(* At first each end has its root, under 0, and nothing is asked for.      *)
LEMMA InitNids ==
  ASSUME Init
  PROVE  NInv
<1>1. PICK s : s = Note("sub", 0, Root, 0)
  OBVIOUS
<1>2. s.kind = "sub"
  BY <1>1, Messages DEF Note, Kind, Nodes
<1>3. \A e \in End : \A m \in Range(wire[e]) : m = s
  <2>1. \A e \in End : wire[e] = IF e = "server" THEN <<s>> ELSE <<>>
    BY <1>1 DEF Init
  <2>2. Range(<<s>>) = {s} /\ Range(<< >>) = {}
    BY DEF Range
  <2> QED BY <2>1, <2>2
<1>4. /\ \A e \in End : package_queue[e] = <<>> /\ tree[e] = <<>> /\ io[e] = 0
      /\ \A e \in End : DOMAIN tracked[e] = {0} /\ tracked[e][0] = Object(Root, 0)
      /\ \A t \in Thread : th[t].pc = "idle"
      /\ ready = {} /\ current_nid = 1
  BY IdleIs DEF Init
<1>5. DOMAIN << >> = {} /\ Range(<< >>) = {}
  BY DEF Range
<1>6. Trees
  BY <1>4, <1>5 DEF Trees
<1>7. Nids
  BY <1>4, Ends DEF Nids, Tracks
<1>8. Flow
  <2>1. \A e \in End : PackageOK(e, s)
    BY <1>2 DEF PackageOK, IsAnswer
  <2> QED BY <1>3, <1>4, <1>5, <2>1 DEF Flow
<1>9. ThreadNids
  BY <1>4, TheThreads DEF ThreadNids, AppNid, WorkNid, NidOK, NidPc
<1> QED BY <1>6, <1>7, <1>8, <1>9 DEF NInv

(* get_nid, on behalf of whichever thread.                                 *)
LEMMA NidStepNids ==
  ASSUME CInv, NInv, OneAtATime, LsIsAlone, NEW t \in Thread, NidStep(t),
         program' = program
  PROVE  NInv' /\ Kept
  BY GetNidFoundNids, LoadNidNids, StoreNidNids, RequestNidNids, ReceiveNidNids
  DEF NidStep

(* Every step keeps what the nids mean.                                    *)
LEMMA StepNids ==
  ASSUME CInv, NInv, OneAtATime, LsIsAlone, [Next]_vars
  PROVE  NInv' /\ Kept
<1>1. CASE UNCHANGED vars
  <2>1. UNCHANGED <<program, tracked, tree, current_nid, wire, package_queue, th, in,
                    ready, io>>
    BY <1>1 DEF vars, nodeVars, streamVars, serverVars
  <2>2. io'["server"] # 0 => io'["server"] = current_nid
    BY <2>1 DEF NInv, Nids
  <2>3. Steady(NoThread) /\ Trees' /\ Nids'
    BY <2>1, <2>2, ReaderSteady
  <2> QED BY <2>1, <2>3, Reader, QuietNids
<1>2. CASE Next
  <2> PICK e \in End : AppBegins(e) \/ AppContinues(e) \/ WorkerStep(e) \/ IoStep(e)
    BY <1>2 DEF Next
  <2>1. program' = program
    BY <1>2 DEF Next
  <2>2. App(e) \in Thread /\ Worker(e) \in Thread
    BY TheThreads
  <2>3. CASE AppBegins(e)
    <3>1. PICK n \in DOMAIN Parent : \/ CreateLocal(e, n) \/ CreateRemote(e, n)
                                     \/ FetchBegin(e, n) \/ UpdateBegin(e, n)
                                     \/ LsBegin(e, n)
      BY <2>3 DEF AppBegins
    <3> QED BY <2>1, <3>1, CreateLocalNids, CreateRemoteNids, FetchBeginNids,
               UpdateBeginNids, LsBeginNids
  <2>4. CASE AppContinues(e)
    BY <2>1, <2>2, <2>4, NidStepNids, ChildAddedNids, WriteChildAddedNids,
       WriteAttachNids, CallEndsNids, FetchEndsNids, InsertNids
    DEF AppContinues
  <2>5. CASE WorkerStep(e)
    BY <2>1, <2>2, <2>5, NidStepNids, PopNids, CmdAtNids, CmdLsOrGetNids, ReplyNids,
       CmdAttachNids, CmdSubscribeAddRemoveNids, FindParentNids, FindChildNids,
       MakeChildNids, AttachChildNids
    DEF WorkerStep
  <2>6. CASE IoStep(e)
    BY <2>1, <2>6, ReceiveReplyNids, EnqueueNids, LoadForPeerNids, StoreForPeerNids
    DEF IoStep
  <2> QED BY <2>3, <2>4, <2>5, <2>6
<1> QED BY <1>1, <1>2

(* If only one of the applications creates nodes, only its end draws nids: *)
(* the server for itself, or for the client that asks.                     *)
OneCreates == \E e \in End : "create" \notin Ops[e]

(* Then no two of the server's threads have the counter in their hands.    *)
LEMMA OneDrawer ==
  ASSUME CInv, NInv, OneCreates
  PROVE  OneAtATime
<1> SUFFICES ASSUME io["server"] # 0, NEW t \in Thread, EndOf(t) = "server",
                    th[t].pc = "store_nid"
             PROVE  FALSE
  BY DEF OneAtATime, At
<1>1. "create" \in Ops["server"]
  BY Sought DEF NidPc, NidOK
<1>2. PICK h : h = Head(wire["server"])
  OBVIOUS
<1>3. wire["server"] # <<>> /\ h.kind = "gen"
  BY <1>2, ReaderIs DEF Reading
<1>4. h \in Range(wire["server"])
  <2> DEFINE M == Message
  <2>1. wire \in [End -> Seq(M)]
    BY ReaderIs
  <2> HIDE DEF M
  <2> QED BY <1>2, <1>3, <2>1, Ends, Behind
<1>5. h.from \in Thread /\ EndOf(h.from) = "client"
  BY <1>2, <1>3, WireTaken, Ends DEF Sent, Request
<1>6. th[h.from].pc = "gen"
  BY <1>3, <1>4, Ends DEF NInv, Flow, PackageOK
<1>7. "create" \in Ops["client"]
  BY <1>5, <1>6, Sought DEF NidPc, NidOK
<1> QED BY <1>1, <1>7, Ends DEF OneCreates

(* As long as the load and the store of current_nid are not interleaved    *)
(* with those of another thread, and ls and fetch_node do not meet, the    *)
(* two ends mean the same node by a nid and have it under one: the race on *)
(* the counter is the only thing that can make them disagree.              *)
THEOREM NidsInvariance == Spec /\ [](OneAtATime /\ LsIsAlone) => []NInv
<1>1. Init => NInv
  BY InitNids
<1>2. CInv /\ NInv /\ (OneAtATime /\ LsIsAlone) /\ [Next]_vars => NInv'
  BY StepNids
<1> QED BY <1>1, <1>2, Invariance, PTL DEF Spec

(* Then a nid is the "unique id" it is said to be, ...                     *)
THEOREM NidsAreUnique == Spec /\ [](OneAtATime /\ LsIsAlone) => []NidsAgree
<1>1. CInv /\ NInv => NidsAgree
  BY Agree
<1> QED BY <1>1, Invariance, NidsInvariance, PTL

(* ... and do_track never gives a node's nid to another node.              *)
THEOREM NidsStay == Spec /\ [](OneAtATime /\ LsIsAlone) => NidsAreKept
<1> DEFINE A == \A e \in End : \A i \in DOMAIN tracked[e] :
                  i \in DOMAIN tracked'[e] /\ tracked'[e][i].node = tracked[e][i].node
<1>1. CInv /\ NInv /\ (OneAtATime /\ LsIsAlone) /\ [Next]_vars => A
  BY StepNids DEF Kept
<1>2. NidsAreKept <=> [][A]_vars
  BY DEF NidsAreKept
<1> HIDE DEF A
<1> QED BY <1>1, <1>2, Invariance, NidsInvariance, PTL DEF Spec

(* When one application only creates nodes, the other only looks, there is *)
(* no race to exclude: generate_nid needs no lock and the ends agree.      *)
THEOREM OneCreatorAgrees == Spec => [](OneCreates /\ LsIsAlone => NidsAgree)
<1> DEFINE J == OneCreates /\ LsIsAlone => NInv
<1>1. Init => J
  BY InitNids
<1>2. CInv /\ J /\ [Next]_vars => J'
  <2> SUFFICES ASSUME CInv, J, [Next]_vars, OneCreates', LsIsAlone' PROVE NInv'
    OBVIOUS
  <2>1. program' = program
    BY DEF Next, vars
  <2>2. OneCreates /\ LsIsAlone
    BY <2>1 DEF OneCreates, LsIsAlone, Ops
  <2> QED BY <2>2, OneDrawer, StepNids
<1>3. CInv /\ J => (OneCreates /\ LsIsAlone => NidsAgree)
  BY Agree
<1> HIDE DEF J
<1> QED BY <1>1, <1>2, <1>3, Invariance, PTL DEF Spec

-----------------------------------------------------------------------------
(* Where the news of n is on its way to e: a thread is about to announce   *)
(* it, or it is in a queue, or the worker has it.                          *)
IsNews(m, n) == m.kind \in {"child", "attach"} /\ m.node = n

Holds(s, n)  == \E i \in DOMAIN s : IsNews(s[i], n)
Single(s, n) == \A i, j \in DOMAIN s : IsNews(s[i], n) /\ IsNews(s[j], n) => i = j

Tells(r, n) ==
  \/ /\ r.pc = "child_nid" \/ (r.pc \in NidPc /\ r.then = "child_nid")
     /\ r.msg.node = n
  \/ /\ \/ r.pc \in {"write_child", "write_attach"}
        \/ r.pc \in NidPc /\ r.then # "child_nid"
     /\ r.node = n

Telling(e, n) == Tells(th[App(Peer(e))], n)
OnWire(e, n)  == Holds(wire[e], n)
InLine(e, n)  == Holds(package_queue[e], n)
AtWork(e, n)  == th[Worker(e)].pc # "idle" /\ IsNews(th[Worker(e)].msg, n)

(* It is in one place, once, and until then e does not have the node.      *)
Once ==
  \A e \in End : \A n \in DOMAIN Parent : Home[n] = Peer(e) =>
    /\ Single(wire[e], n) /\ Single(package_queue[e], n)
    /\ Telling(e, n) => ~OnWire(e, n) /\ ~InLine(e, n) /\ ~AtWork(e, n)
    /\ OnWire(e, n) => ~InLine(e, n) /\ ~AtWork(e, n)
    /\ InLine(e, n) => ~AtWork(e, n)
    /\ Telling(e, n) \/ OnWire(e, n) \/ InLine(e, n) \/ AtWork(e, n) =>
         n \notin DOMAIN tree[e]

(* A proxy of the tree is the one that is tracked, and so is the one that  *)
(* cmd_child_added is about to attach.                                     *)
Shown ==
  \A e \in End :
    /\ \A n \in DOMAIN tree[e] : Home[n] # e =>
         /\ tree[e][n].nid \in DOMAIN tracked[e]
         /\ tracked[e][tree[e][n].nid] = Object(n, tree[e][n].obj)
    /\ th[Worker(e)].pc = "make_child" => th[Worker(e)].msg.cnid \notin DOMAIN tracked[e]
    /\ th[Worker(e)].pc = "attach_child" =>
         /\ th[Worker(e)].msg.cnid \in DOMAIN tracked[e]
         /\ tracked[e][th[Worker(e)].msg.cnid] =
              Object(th[Worker(e)].msg.node, th[Worker(e)].nid)

NoFetch == \A e \in End : th[App(e)].pc \notin {"fetch", "insert"}

SInv == Once /\ Shown /\ NoFetch

(* News added to a queue, ...                                              *)
LEMMA NewsAdded ==
  ASSUME NEW S, NEW s \in Seq(S), NEW m \in S, NEW n
  PROVE  /\ Holds(Append(s, m), n) => Holds(s, n) \/ IsNews(m, n)
         /\ Single(s, n) /\ (IsNews(m, n) => ~Holds(s, n)) => Single(Append(s, m), n)
<1> DEFINE a == Append(s, m)
<1> DEFINE k == Len(s)
<1>1. k \in Nat /\ DOMAIN s = 1 .. k
  BY LenProperties
<1>2. a \in Seq(S) /\ Len(a) = k + 1 /\ a[k + 1] = m /\ \A i \in 1 .. k : a[i] = s[i]
  BY AppendProperties
<1>3. DOMAIN a = 1 .. k + 1
  BY <1>2, LenProperties
<1> HIDE DEF a, k
<1>4. \A i \in DOMAIN a : (i = k + 1 /\ a[i] = m) \/ (i \in DOMAIN s /\ a[i] = s[i])
  BY <1>1, <1>2, <1>3
<1>5. Holds(a, n) => Holds(s, n) \/ IsNews(m, n)
  BY <1>4 DEF Holds
<1>6. Single(s, n) /\ (IsNews(m, n) => ~Holds(s, n)) => Single(a, n)
  BY <1>4 DEF Holds, Single
<1> QED BY <1>5, <1>6 DEF a

(* ... and taken off it.                                                   *)
LEMMA NewsTaken ==
  ASSUME NEW S, NEW s \in Seq(S), s # <<>>, NEW n
  PROVE  /\ Holds(Tail(s), n) => Holds(s, n)
         /\ Single(s, n) => Single(Tail(s), n)
         /\ IsNews(Head(s), n) => Holds(s, n)
         /\ Single(s, n) /\ IsNews(Head(s), n) => ~Holds(Tail(s), n)
<1> DEFINE r == Tail(s)
<1> DEFINE k == Len(s)
<1>1. k \in Nat /\ k # 0 /\ DOMAIN s = 1 .. k
  BY LenProperties, EmptySeq
<1>2. r \in Seq(S) /\ Len(r) = k - 1 /\ \A i \in 1 .. k - 1 : r[i] = s[i + 1]
  BY HeadTailProperties
<1>3. DOMAIN r = 1 .. k - 1
  BY <1>2, LenProperties
<1>4. Head(s) = s[1] /\ 1 \in DOMAIN s
  BY <1>1, HeadTailProperties
<1> HIDE DEF r, k
<1>5. \A i \in DOMAIN r : i + 1 \in DOMAIN s /\ r[i] = s[i + 1] /\ i + 1 # 1
  BY <1>1, <1>2, <1>3
<1>6. \A i, j \in DOMAIN r : i + 1 = j + 1 => i = j
  BY <1>1, <1>3
<1>7. Holds(r, n) => Holds(s, n)
  BY <1>5 DEF Holds
<1>8. Single(s, n) => Single(r, n)
  BY <1>5, <1>6 DEF Single
<1>9. IsNews(Head(s), n) => Holds(s, n)
  BY <1>4 DEF Holds
<1>10. Single(s, n) /\ IsNews(Head(s), n) => ~Holds(r, n)
  BY <1>4, <1>5 DEF Holds, Single
<1> QED BY <1>7, <1>8, <1>9, <1>10 DEF r

(* A package is written.                                                   *)
LEMMA NewsWritten ==
  ASSUME CInv, NEW x \in End, NEW m \in Message, wire' = [wire EXCEPT ![x] = Append(@, m)]
  PROVE  \A e \in End : \A n :
           /\ OnWire(e, n)' => OnWire(e, n) \/ (e = x /\ IsNews(m, n))
           /\ Single(wire[e], n) /\ (e = x /\ IsNews(m, n) => ~OnWire(e, n)) =>
                Single(wire'[e], n)
<1> DEFINE M == Message
<1>1. wire \in [End -> Seq(M)] /\ m \in M
  BY ReaderIs
<1> HIDE DEF M
<1>2. PICK s \in Seq(M) : s = wire[x]
  BY <1>1
<1>3. wire'[x] = Append(s, m) /\ \A e \in End : e # x => wire'[e] = wire[e]
  BY <1>1, <1>2
<1>4. \A n : /\ Holds(Append(s, m), n) => Holds(s, n) \/ IsNews(m, n)
             /\ Single(s, n) /\ (IsNews(m, n) => ~Holds(s, n)) => Single(Append(s, m), n)
  BY <1>1, NewsAdded
<1> QED BY <1>2, <1>3, <1>4 DEF OnWire

(* A node that is announced is in its end's tree.                          *)
LEMMA NewsIsTrue ==
  ASSUME CInv, NInv, NEW e \in End, NEW n,
         Telling(e, n) \/ OnWire(e, n) \/ InLine(e, n) \/ AtWork(e, n)
  PROVE  n \in DOMAIN tree[Peer(e)]
<1> DEFINE p == Peer(e)
<1>1. p \in End /\ Peer(p) = e
  BY Ends
<1>2. ASSUME NEW m, m.kind \in {"child", "attach"}, m.node = n, PackageOK(e, m)
      PROVE  n \in DOMAIN tree[p]
  BY <1>1, <1>2, Owned DEF PackageOK
<1>3. CASE OnWire(e, n)
  <2>1. PICK m \in Range(wire[e]) : m.kind \in {"child", "attach"} /\ m.node = n
    BY <1>3 DEF OnWire, Holds, IsNews, Range
  <2> QED BY <1>2, <2>1 DEF NInv, Flow
<1>4. CASE InLine(e, n)
  <2>1. PICK m \in Range(package_queue[e]) : m.kind \in {"child", "attach"} /\ m.node = n
    BY <1>4 DEF InLine, Holds, IsNews, Range
  <2> QED BY <1>2, <2>1 DEF NInv, Flow
<1>5. CASE AtWork(e, n)
  BY <1>2, <1>5 DEF AtWork, IsNews, NInv, ThreadNids, WorkNid
<1>6. CASE Telling(e, n)
  <2> DEFINE r == th[App(p)]
  <2>1. AppOK(p, r) /\ AppNid(p, r) /\ Types
    BY <1>1, AppIs DEF NInv, ThreadNids
  <2>2. r.pc \in {"write_child", "write_attach"} => r.node \in DOMAIN tree[p]
    BY <1>1, <2>1, Owned DEF AppNid
  <2>3. Root \notin DOMAIN Parent
    BY <2>1, Nodewise
  <2> QED BY <1>6, <2>1, <2>2, <2>3 DEF Telling, Tells, AppOK
<1> QED BY <1>3, <1>4, <1>5, <1>6

(* Nobody has told e of n, which it does not have.                         *)
Unheard(e, n) ==
  ~OnWire(e, n) /\ ~InLine(e, n) /\ ~AtWork(e, n) /\ n \notin DOMAIN tree[e]

(* News goes from one place to the next.                                   *)
LEMMA OnceStays ==
  ASSUME Once, program' = program,
         \A e \in End : \A n \in DOMAIN Parent : Home[n] = Peer(e) =>
           /\ Single(wire'[e], n) /\ Single(package_queue'[e], n)
           /\ Telling(e, n)' => Telling(e, n) \/ Unheard(e, n)
           /\ OnWire(e, n)' => OnWire(e, n) \/ (Telling(e, n) /\ ~Telling(e, n)')
           /\ InLine(e, n)' => InLine(e, n) \/ (OnWire(e, n) /\ ~OnWire(e, n)')
           /\ AtWork(e, n)' => AtWork(e, n) \/ (InLine(e, n) /\ ~InLine(e, n)')
           /\ n \in DOMAIN tree'[e] =>
                \/ n \in DOMAIN tree[e]
                \/ ~(Telling(e, n) \/ OnWire(e, n) \/ InLine(e, n) \/ AtWork(e, n))'
  PROVE  Once'
<1>1. Home' = Home /\ Parent' = Parent
  BY DEF Home, Parent
<1>2. ASSUME NEW e \in End, NEW n \in DOMAIN Parent, Home[n] = Peer(e)
      PROVE  /\ (Single(wire[e], n) /\ Single(package_queue[e], n))'
             /\ (Telling(e, n) => ~OnWire(e, n) /\ ~InLine(e, n) /\ ~AtWork(e, n))'
             /\ (OnWire(e, n) => ~InLine(e, n) /\ ~AtWork(e, n))'
             /\ (InLine(e, n) => ~AtWork(e, n))'
             /\ (Telling(e, n) \/ OnWire(e, n) \/ InLine(e, n) \/ AtWork(e, n) =>
                   n \notin DOMAIN tree[e])'
  <2>1. /\ Telling(e, n) => ~OnWire(e, n) /\ ~InLine(e, n) /\ ~AtWork(e, n)
        /\ OnWire(e, n) => ~InLine(e, n) /\ ~AtWork(e, n)
        /\ InLine(e, n) => ~AtWork(e, n)
        /\ Telling(e, n) \/ OnWire(e, n) \/ InLine(e, n) \/ AtWork(e, n) =>
             n \notin DOMAIN tree[e]
    BY <1>2 DEF Once
  <2>2. /\ Single(wire'[e], n) /\ Single(package_queue'[e], n)
        /\ Telling(e, n)' => Telling(e, n) \/ Unheard(e, n)
        /\ OnWire(e, n)' => OnWire(e, n) \/ (Telling(e, n) /\ ~Telling(e, n)')
        /\ InLine(e, n)' => InLine(e, n) \/ (OnWire(e, n) /\ ~OnWire(e, n)')
        /\ AtWork(e, n)' => AtWork(e, n) \/ (InLine(e, n) /\ ~InLine(e, n)')
        /\ n \in DOMAIN tree'[e] =>
             \/ n \in DOMAIN tree[e]
             \/ ~(Telling(e, n) \/ OnWire(e, n) \/ InLine(e, n) \/ AtWork(e, n))'
    BY <1>2
  <2> QED BY <2>1, <2>2 DEF Unheard
<1> QED BY <1>1, <1>2 DEF Once

(* The application's thread, or the worker, moves; it has not more to tell *)
(* than before.                                                            *)
LEMMA NewsKept ==
  ASSUME NEW x \in End, NEW t \in {App(x), Worker(x)},
         \A u \in Thread : u # t => th'[u] = th[u],
         \A n : t = App(x) /\ Tells(th'[t], n) => Tells(th[t], n),
         \A n : /\ t = Worker(x) /\ th'[t].pc # "idle" /\ IsNews(th'[t].msg, n)
                => AtWork(x, n)
  PROVE  /\ \A e \in End : \A n : /\ Telling(e, n)' => Telling(e, n)
                                  /\ AtWork(e, n)' => AtWork(e, n)
         /\ \A e \in End : t # Worker(e) => th'[Worker(e)] = th[Worker(e)]
         /\ \A e \in End : t # App(e) => th'[App(e)] = th[App(e)]
<1>1. \A e \in End : /\ App(e) \in Thread /\ Worker(e) \in Thread /\ Peer(e) \in End
                     /\ App(Peer(e)) \in Thread
                     /\ App(e) # Worker(x) /\ Worker(e) # App(x)
                     /\ App(e) = App(x) \/ Worker(e) = Worker(x) => e = x
  BY TheThreads, Ends
<1>2. /\ \A e \in End : t # Worker(e) => th'[Worker(e)] = th[Worker(e)]
      /\ \A e \in End : t # App(e) => th'[App(e)] = th[App(e)]
  BY <1>1
<1>3. ASSUME NEW e \in End, NEW n, Telling(e, n)' PROVE Telling(e, n)
  BY <1>1, <1>2, <1>3 DEF Telling
<1>4. ASSUME NEW e \in End, NEW n, AtWork(e, n)' PROVE AtWork(e, n)
  BY <1>1, <1>2, <1>4 DEF AtWork
<1> QED BY <1>2, <1>3, <1>4

(* The maps keep what they have, and a new entry is nobody else's.         *)
LEMMA ShownStays ==
  ASSUME CInv, NInv, Shown, program' = program,
         \A e \in End :
           /\ \A i \in DOMAIN tracked[e] : /\ i \in DOMAIN tracked'[e]
                                           /\ tracked'[e][i] = tracked[e][i]
           /\ \A i \in DOMAIN tracked'[e] : i \in DOMAIN tracked[e] \/
                                            i \notin DOMAIN tracked[Peer(e)]
           /\ \A n \in DOMAIN tree'[e] :
                Home[n] = e \/ (n \in DOMAIN tree[e] /\ tree'[e][n] = tree[e][n])
           /\ \/ th'[Worker(e)] = th[Worker(e)]
              \/ th'[Worker(e)].pc \notin {"make_child", "attach_child"}
  PROVE  Shown'
<1>1. Home' = Home
  BY DEF Home
<1>2. ASSUME NEW e \in End, NEW n \in DOMAIN tree'[e], Home'[n] # e
      PROVE  /\ tree'[e][n].nid \in DOMAIN tracked'[e]
             /\ tracked'[e][tree'[e][n].nid] = Object(n, tree'[e][n].obj)
  BY <1>1, <1>2 DEF Shown
<1>3. ASSUME NEW e \in End, th'[Worker(e)].pc = "make_child"
      PROVE  th'[Worker(e)].msg.cnid \notin DOMAIN tracked'[e]
  <2>1. th'[Worker(e)] = th[Worker(e)] /\ th[Worker(e)].pc = "make_child"
    BY <1>3
  <2>2. Owns(Peer(e), th[Worker(e)].msg.cnid, th[Worker(e)].msg.node)
    BY <2>1, IsAnnounced
  <2> QED BY <2>1, <2>2 DEF Owns, Shown
<1>4. ASSUME NEW e \in End, th'[Worker(e)].pc = "attach_child"
      PROVE  /\ th'[Worker(e)].msg.cnid \in DOMAIN tracked'[e]
             /\ tracked'[e][th'[Worker(e)].msg.cnid] =
                  Object(th'[Worker(e)].msg.node, th'[Worker(e)].nid)
  BY <1>4 DEF Shown
<1> QED BY <1>2, <1>3, <1>4 DEF Shown

-----------------------------------------------------------------------------
(* No news is written, ...                                                 *)
NoNews ==
  \A e \in End : \A n : /\ OnWire(e, n)' => OnWire(e, n)
                        /\ Single(wire[e], n) => Single(wire'[e], n)

(* ... because the package that is written is none.                        *)
LEMMA NoNewsWritten ==
  ASSUME CInv, NEW x \in End, NEW m \in Message, m.kind \notin {"child", "attach"},
         wire' = [wire EXCEPT ![x] = Append(@, m)]
  PROVE  NoNews
<1>1. \A n : ~IsNews(m, n)
  BY DEF IsNews
<1> QED BY <1>1, NewsWritten DEF NoNews

(* A step of a thread that has nothing new to tell, and attaches nothing.  *)
LEMMA QuietShows ==
  ASSUME CInv, NInv, SInv, program' = program, NEW x \in End,
         NEW t \in {App(x), Worker(x)}, \A u \in Thread : u # t => th'[u] = th[u],
         \A n : t = App(x) /\ Tells(th'[t], n) => Tells(th[t], n),
         \A n : /\ t = Worker(x) /\ th'[t].pc # "idle" /\ IsNews(th'[t].msg, n)
                => AtWork(x, n),
         t = App(x) => th'[t].pc \notin {"fetch", "insert"},
         t = Worker(x) => th'[t].pc \notin {"make_child", "attach_child"},
         \A e \in End :
           /\ \A i \in DOMAIN tracked[e] : /\ i \in DOMAIN tracked'[e]
                                           /\ tracked'[e][i] = tracked[e][i]
           /\ \A i \in DOMAIN tracked'[e] : i \in DOMAIN tracked[e] \/
                                            i \notin DOMAIN tracked[Peer(e)],
         UNCHANGED <<tree, package_queue>>, NoNews
  PROVE  SInv'
<1>1. /\ \A e \in End : \A n : /\ Telling(e, n)' => Telling(e, n)
                               /\ AtWork(e, n)' => AtWork(e, n)
      /\ \A e \in End : t # Worker(e) => th'[Worker(e)] = th[Worker(e)]
      /\ \A e \in End : t # App(e) => th'[App(e)] = th[App(e)]
  BY NewsKept
<1>2. \A e \in End : \A n : InLine(e, n)' => InLine(e, n)
  BY DEF InLine
<1>3. Once'
  <2>1. Once
    BY DEF SInv
  <2>2. ASSUME NEW e \in End, NEW n \in DOMAIN Parent, Home[n] = Peer(e)
        PROVE  Single(wire'[e], n) /\ Single(package_queue'[e], n)
    BY <2>1, <2>2 DEF Once, NoNews
  <2> QED BY <1>1, <1>2, <2>1, <2>2, OnceStays DEF NoNews
<1>4. Shown'
  <2>1. \A e \in End : \/ th'[Worker(e)] = th[Worker(e)]
                       \/ th'[Worker(e)].pc \notin {"make_child", "attach_child"}
    <3>1. \A e \in End : t = Worker(e) => t = Worker(x)
      BY TheThreads
    <3> QED BY <1>1, <3>1
  <2>2. Shown
    BY DEF SInv
  <2> QED BY <2>1, <2>2, ShownStays
<1>5. NoFetch'
  <2>1. \A e \in End : t = App(e) => t = App(x)
    BY TheThreads
  <2> QED BY <1>1, <2>1 DEF NoFetch, SInv
<1> QED BY <1>3, <1>4, <1>5 DEF SInv

(* The thread goes where it has nothing to tell or to do.                  *)
LEMMA IdleTells ==
  ASSUME Types, NEW t \in Thread, th' = [th EXCEPT ![t] = Idle]
  PROVE  /\ th'[t].pc = "idle" /\ \A n : ~Tells(th'[t], n)
         /\ \A u \in Thread : u # t => th'[u] = th[u]
<1>1. th'[t].pc = "idle" /\ \A u \in Thread : u # t => th'[u] = th[u]
  BY IdleIs, Moved
<1> QED BY <1>1 DEF Tells, NidPc

(* A thread returns, having written nothing but perhaps a reply or a       *)
(* subscription.                                                           *)
LEMMA ReturnsShows ==
  ASSUME CInv, NInv, SInv, program' = program, NEW x \in End,
         NEW t \in {App(x), Worker(x)}, th' = [th EXCEPT ![t] = Idle],
         UNCHANGED <<tracked, tree, package_queue>>, NoNews
  PROVE  SInv'
<1>1. Types /\ t \in Thread
  BY TheThreads DEF CInv, TInv
<1>2. /\ th'[t].pc = "idle" /\ \A n : ~Tells(th'[t], n)
      /\ \A u \in Thread : u # t => th'[u] = th[u]
  BY <1>1, IdleTells
<1> QED BY <1>2, QuietShows

(* The application asks with update_prop or ls.                            *)
LEMMA AskShows ==
  ASSUME CInv, NInv, SInv, program' = program, NEW e \in End, NEW n \in DOMAIN Parent,
         UpdateBegin(e, n) \/ LsBegin(e, n)
  PROVE  SInv'
<1> DEFINE t == App(e)
<1> DEFINE R(pc) == [Idle EXCEPT !.pc = pc, !.node = n]
<1> DEFINE S(k) == Msg(k, t, tree[e][n].nid, n, 0)
<1>1. /\ UNCHANGED <<tracked, tree, package_queue>> /\ IsProxy(e, n)
      /\ th[t].pc = "idle"
      /\ \/ UNCHANGED <<th, wire>>
         \/ \E pc \in {"update", "ls"}, k \in {"get", "ls"} :
              /\ th' = [th EXCEPT ![t] = R(pc)]
              /\ wire' = [wire EXCEPT ![Peer(e)] = Append(@, S(k))]
  <2>1. CASE UpdateBegin(e, n)
    BY <2>1, AppIs
    DEF UpdateBegin, MayBegin, At, SendBegin, Write, Become, nodeVars
  <2>2. CASE LsBegin(e, n)
    BY <2>2, AppIs DEF LsBegin, MayBegin, At, SendBegin, Write, Become, nodeVars
  <2> QED BY <2>1, <2>2
<1>2. CASE UNCHANGED <<th, wire>>
  <2>1. NoNews
    BY <1>2 DEF NoNews, OnWire
  <2>2. th'[t] = th[t] /\ t # Worker(e)
    BY <1>2, TheThreads
  <2> QED BY <1>1, <1>2, <2>1, <2>2, QuietShows
<1>3. ASSUME NEW pc \in {"update", "ls"}, NEW k \in {"get", "ls"},
             th' = [th EXCEPT ![t] = R(pc)],
             wire' = [wire EXCEPT ![Peer(e)] = Append(@, S(k))]
      PROVE  SInv'
  <2>1. PICK r, m : r = R(pc) /\ m = S(k)
    OBVIOUS
  <2>2. r.pc = pc /\ th' = [th EXCEPT ![t] = r]
    BY <1>3, <2>1 DEF Idle
  <2>3. m \in Message /\ m.kind = k
    <3>1. /\ t \in Thread \cup {NoThread} /\ n \in Nodes /\ tree[e][n].nid \in Nat
          /\ k \in Kind /\ 0 \in Nat
      BY <1>1, AppIs, Nodewise DEF Maps, IsProxy, Kind
    <3> HIDE DEF t
    <3> QED BY <2>1, <3>1, Messages
  <2>4. NoNews
    <3>1. /\ wire' = [wire EXCEPT ![Peer(e)] = Append(@, m)] /\ Peer(e) \in End
          /\ m.kind \notin {"child", "attach"}
      BY <1>3, <2>1, <2>3, Ends
    <3> HIDE DEF S
    <3> QED BY <2>3, <3>1, NoNewsWritten
  <2>5. /\ th'[t] = r /\ \A u \in Thread : u # t => th'[u] = th[u]
        /\ t # Worker(e)
    BY <2>2, AppIs, TheThreads DEF Types
  <2>6. \A y : ~Tells(th'[t], y)
    BY <2>2, <2>5 DEF Tells, NidPc
  <2>7. th'[t].pc \notin {"fetch", "insert"}
    BY <2>2, <2>5
  <2> QED BY <1>1, <2>4, <2>5, <2>6, <2>7, QuietShows
<1> QED BY <1>1, <1>2, <1>3

(* It gets its reply.                                                      *)
LEMMA CallEndsShows ==
  ASSUME CInv, NInv, SInv, program' = program, NEW e \in End,
         UpdateEnds(e) \/ LsEnds(e)
  PROVE  SInv'
<1>1. /\ th' = [th EXCEPT ![App(e)] = Idle]
      /\ UNCHANGED <<tracked, tree, wire, package_queue>>
  <2>1. CASE UpdateEnds(e)
    BY <2>1 DEF UpdateEnds, Become, nodeVars, streamVars
  <2>2. CASE LsEnds(e)
    BY <2>2 DEF LsEnds, Become, nodeVars, streamVars
  <2> QED BY <2>1, <2>2
<1>2. NoNews
  BY <1>1 DEF NoNews, OnWire
<1> QED BY <1>1, <1>2, ReturnsShows

(* child_added goes on to the nid of the child it is about.                *)
LEMMA ChildAddedShows ==
  ASSUME CInv, NInv, SInv, program' = program, NEW e \in End, ChildAdded(e)
  PROVE  SInv'
<1> DEFINE t == App(e)
<1> DEFINE r == [th[t] EXCEPT !.pc = "get_nid", !.then = "write_child",
                              !.pnid = th[t].nid, !.node = th[t].msg.node]
<1>1. /\ th[t].pc = "child_nid" /\ th' = [th EXCEPT ![t] = r]
      /\ UNCHANGED <<tracked, tree, wire, package_queue>>
  BY DEF ChildAdded, At, Become, nodeVars, streamVars
<1>2. th[t] \in Local /\ th \in [Thread -> Local] /\ t \in Thread /\ t # Worker(e)
  BY AppIs, TheThreads DEF Types
<1>3. r.pc = "get_nid" /\ r.then = "write_child" /\ r.node = th[t].msg.node
  BY <1>2 DEF Local
<1> HIDE DEF r
<1>4. th'[t] = r /\ \A u \in Thread : u # t => th'[u] = th[u]
  BY <1>1, <1>2
<1>5. \A n : Tells(th'[t], n) => Tells(th[t], n)
  BY <1>1, <1>3, <1>4 DEF Tells, NidPc
<1>6. NoNews
  BY <1>1 DEF NoNews, OnWire
<1>7. th'[t].pc \notin {"fetch", "insert"}
  BY <1>3, <1>4
<1> QED BY <1>1, <1>2, <1>4, <1>5, <1>6, <1>7, QuietShows

(* get_nid returns to the announcement it was called for.                  *)
LEMMA ContinueTells ==
  ASSUME CInv, NEW e \in End, th[App(e)].pc \in NidPc, NEW nid, Continue(App(e), nid)
  PROVE  /\ \A n : Tells(th'[App(e)], n) => Tells(th[App(e)], n)
         /\ th'[App(e)].pc \notin {"fetch", "insert"}
         /\ \A u \in Thread : u # App(e) => th'[u] = th[u]
<1> DEFINE t == App(e)
<1>1. PICK r : r = th[t]
  OBVIOUS
<1>2. PICK s : s = [r EXCEPT !.pc = r.then, !.nid = nid]
  OBVIOUS
<1>3. r \in Local /\ th \in [Thread -> Local] /\ t \in Thread /\ AppOK(e, r)
  BY <1>1, AppIs DEF Types
<1>4. s.pc = r.then /\ s.then = r.then /\ s.node = r.node /\ s.msg = r.msg
  BY <1>2, <1>3 DEF Local
<1>5. th'[t] = s /\ \A u \in Thread : u # t => th'[u] = th[u]
  BY <1>1, <1>2, <1>3 DEF Continue, Become
<1>6. r.then \in Announces
  BY <1>1, <1>3 DEF AppOK
<1>7. \A n : Tells(s, n) => Tells(r, n)
  BY <1>1, <1>4, <1>6 DEF Tells, Announces, NidPc
<1> QED BY <1>1, <1>4, <1>5, <1>6, <1>7 DEF Announces

(* An entry is added under a nid that nobody uses.                         *)
LEMMA FreshTracked ==
  ASSUME CInv, NEW x \in End, NEW i, NEW o, DoTrack(x, i, o),
         \A y \in End : i \notin DOMAIN tracked[y]
  PROVE  \A e \in End :
           /\ \A j \in DOMAIN tracked[e] : /\ j \in DOMAIN tracked'[e]
                                           /\ tracked'[e][j] = tracked[e][j]
           /\ \A j \in DOMAIN tracked'[e] : j \in DOMAIN tracked[e] \/
                                            j \notin DOMAIN tracked[Peer(e)]
<1>1. DOMAIN tracked = End
  BY DEF CInv, TInv, Types
<1>2. /\ tracked'[x] = Put(tracked[x], i, o)
      /\ \A e \in End : e # x => tracked'[e] = tracked[e]
  BY <1>1 DEF DoTrack
<1>3. /\ DOMAIN tracked'[x] = DOMAIN tracked[x] \cup {i}
      /\ \A j \in DOMAIN tracked[x] : tracked'[x][j] = tracked[x][j]
  BY <1>2 DEF Put
<1> QED BY <1>2, <1>3, Ends

(* get_nid, for a node the application is about to announce.               *)
LEMMA NidStepShows ==
  ASSUME CInv, NInv, SInv, LsIsAlone, program' = program, NEW e \in End,
         NidStep(App(e))
  PROVE  SInv'
<1> DEFINE t == App(e)
<1>1. /\ t \in Thread /\ EndOf(t) = e /\ t # Worker(e) /\ th \in [Thread -> Local]
      /\ th[t] \in Local /\ current_nid \in Nat \ {0} /\ Nids /\ Flow
  BY AppIs, TheThreads DEF Types, NInv
<1>2. CASE GetNidFound(t)
  <2>1. /\ th[t].pc \in NidPc /\ UNCHANGED <<tracked, tree, wire, package_queue>>
    BY <1>2 DEF GetNidFound, At, NidPc, nodeVars, streamVars
  <2>2. PICK nid : Continue(t, nid)
    BY <1>2 DEF GetNidFound
  <2>3. NoNews
    BY <2>1 DEF NoNews, OnWire
  <2> QED BY <1>1, <2>1, <2>2, <2>3, ContinueTells, QuietShows
<1>3. CASE StoreNid(t)
  <2>1. /\ th[t].pc = "store_nid" /\ Continue(t, th[t].nid)
        /\ DoTrack(e, th[t].nid, ObjectOf(e, th[t].node))
        /\ UNCHANGED <<tree, wire, package_queue>>
    BY <1>1, <1>3 DEF StoreNid, At, streamVars
  <2>2. th[t].pc \in NidPc
    BY <2>1 DEF NidPc
  <2>3. th[t].nid = current_nid
    BY <1>1, <2>1, <2>2, Sought DEF NidOK
  <2>4. \A x \in End : th[t].nid \notin DOMAIN tracked[x]
    <3>1. ~(current_nid < current_nid)
      BY <1>1
    <3> QED BY <1>1, <2>3, <3>1 DEF Nids
  <2>5. \A x \in End :
          /\ \A j \in DOMAIN tracked[x] : /\ j \in DOMAIN tracked'[x]
                                          /\ tracked'[x][j] = tracked[x][j]
          /\ \A j \in DOMAIN tracked'[x] : j \in DOMAIN tracked[x] \/
                                           j \notin DOMAIN tracked[Peer(x)]
    BY <2>1, <2>4, FreshTracked
  <2>6. NoNews
    BY <2>1 DEF NoNews, OnWire
  <2> QED BY <1>1, <2>1, <2>2, <2>5, <2>6, ContinueTells, QuietShows
<1>4. CASE ReceiveNid(t)
  <2>1. /\ th[t].pc = "gen" /\ t \in ready /\ Continue(t, in[e].nid)
        /\ DoTrack(e, in[e].nid, ObjectOf(e, th[t].node))
        /\ UNCHANGED <<tree, wire, package_queue>>
    BY <1>1, <1>4 DEF ReceiveNid, At, streamVars
  <2>2. th[t].pc \in NidPc
    BY <2>1 DEF NidPc
  <2>3. in[e].from = t
    BY <1>1, <2>1 DEF CInv, Woken, WokenByOwnReply, Waiting
  <2>4. \A x \in End : in[e].nid \notin DOMAIN tracked[x]
    BY <1>1, <2>1, <2>3 DEF Flow, ReplyOK, Fresh
  <2>5. \A x \in End :
          /\ \A j \in DOMAIN tracked[x] : /\ j \in DOMAIN tracked'[x]
                                          /\ tracked'[x][j] = tracked[x][j]
          /\ \A j \in DOMAIN tracked'[x] : j \in DOMAIN tracked[x] \/
                                           j \notin DOMAIN tracked[Peer(x)]
    BY <2>1, <2>4, FreshTracked
  <2>6. NoNews
    BY <2>1 DEF NoNews, OnWire
  <2> QED BY <1>1, <2>1, <2>2, <2>5, <2>6, ContinueTells, QuietShows
<1>5. CASE LoadNid(t) \/ RequestNid(t)
  <2>1. PICK r : /\ th' = [th EXCEPT ![t] = r] /\ r.then = th[t].then
                 /\ r.node = th[t].node /\ r.msg = th[t].msg
                 /\ r.pc \in {"store_nid", "gen"}
    <3>1. CASE LoadNid(t)
      <4> DEFINE r == [th[t] EXCEPT !.pc = "store_nid", !.nid = current_nid]
      <4>1. th' = [th EXCEPT ![t] = r]
        BY <3>1 DEF LoadNid, Become
      <4>2. /\ r.then = th[t].then /\ r.node = th[t].node /\ r.msg = th[t].msg
            /\ r.pc = "store_nid"
        BY <1>1 DEF Local
      <4> QED BY <4>1, <4>2
    <3>2. CASE RequestNid(t)
      <4> DEFINE r == [th[t] EXCEPT !.pc = "gen"]
      <4>1. th' = [th EXCEPT ![t] = r]
        BY <3>2 DEF RequestNid, Become
      <4>2. /\ r.then = th[t].then /\ r.node = th[t].node /\ r.msg = th[t].msg
            /\ r.pc = "gen"
        BY <1>1 DEF Local
      <4> QED BY <4>1, <4>2
    <3> QED BY <1>5, <3>1, <3>2
  <2>2. th[t].pc = "get_nid" /\ UNCHANGED <<tracked, tree, package_queue>>
    BY <1>5 DEF LoadNid, RequestNid, At, nodeVars
  <2>3. th'[t] = r /\ \A u \in Thread : u # t => th'[u] = th[u]
    BY <1>1, <2>1
  <2>4. /\ \A n : Tells(th'[t], n) => Tells(th[t], n)
        /\ th'[t].pc \notin {"fetch", "insert"}
    BY <2>1, <2>2, <2>3 DEF Tells, NidPc
  <2>5. NoNews
    <3>1. CASE LoadNid(t)
      <4>1. wire' = wire
        BY <3>1 DEF LoadNid, streamVars
      <4> QED BY <4>1 DEF NoNews, OnWire
    <3>2. CASE RequestNid(t)
      <4>1. PICK m : m = Msg("gen", t, 0, Root, 0)
        OBVIOUS
      <4>2. wire' = [wire EXCEPT ![Peer(e)] = Append(@, m)] /\ Peer(e) \in End
        BY <1>1, <3>2, <4>1, Ends DEF RequestNid, SendBegin, Write
      <4>3. t \in Thread \cup {NoThread} /\ Root \in Nodes /\ 0 \in Nat /\ "gen" \in Kind
        BY <1>1 DEF Nodes, Kind
      <4> HIDE DEF t
      <4>4. m \in Message /\ m.kind = "gen"
        BY <4>1, <4>3, Messages
      <4> QED BY <4>2, <4>4, NoNewsWritten
    <3> QED BY <1>5, <3>1, <3>2
  <2> QED BY <1>1, <2>2, <2>3, <2>4, <2>5, QuietShows
<1> QED BY <1>2, <1>3, <1>4, <1>5 DEF NidStep

(* An announcement is written by the thread that was about to write it.    *)
LEMMA WriteShows ==
  ASSUME CInv, NInv, SInv, program' = program, NEW x \in End,
         WriteChildAdded(x) \/ WriteAttach(x)
  PROVE  SInv'
<1> DEFINE t == App(x)
<1>1. PICK k, m :
        /\ k \in {"child", "attach"} /\ m = Note(k, th[t].pnid, th[t].node, th[t].nid)
        /\ wire' = [wire EXCEPT ![Peer(x)] = Append(@, m)]
        /\ th[t].pc \in {"write_child", "write_attach"} /\ th' = [th EXCEPT ![t] = Idle]
        /\ UNCHANGED <<tracked, tree, package_queue>>
  <2>1. CASE WriteChildAdded(x)
    BY <2>1 DEF WriteChildAdded, At, Become, Write, nodeVars
  <2>2. CASE WriteAttach(x)
    BY <2>2 DEF WriteAttach, At, Become, Write, nodeVars
  <2> QED BY <2>1, <2>2
<1>2. /\ t \in Thread /\ t # Worker(x) /\ th[t] \in Local /\ Types
      /\ Peer(x) \in End /\ Peer(Peer(x)) = x
  BY AppIs, TheThreads, Ends
<1>3. m \in Message /\ m.node = th[t].node
  <2>1. th[t].pnid \in Nat /\ th[t].node \in Nodes /\ th[t].nid \in Nat /\ k \in Kind
    BY <1>1, <1>2 DEF Local, Kind
  <2> QED BY <1>1, <2>1, Messages DEF Note
<1>4. /\ th'[t].pc = "idle" /\ \A n : ~Tells(th'[t], n)
      /\ \A u \in Thread : u # t => th'[u] = th[u]
  BY <1>1, <1>2, IdleTells
<1>5. /\ \A e \in End : \A n : /\ Telling(e, n)' => Telling(e, n)
                               /\ AtWork(e, n)' => AtWork(e, n)
      /\ \A e \in End : t # Worker(e) => th'[Worker(e)] = th[Worker(e)]
      /\ \A e \in End : t # App(e) => th'[App(e)] = th[App(e)]
  BY <1>2, <1>4, NewsKept
<1>6. \A n : IsNews(m, n) => Telling(Peer(x), n) /\ ~Telling(Peer(x), n)'
  BY <1>1, <1>2, <1>3, <1>4 DEF IsNews, Telling, Tells
<1>7. \A e \in End : \A n :
        /\ OnWire(e, n)' => OnWire(e, n) \/ (e = Peer(x) /\ IsNews(m, n))
        /\ Single(wire[e], n) /\ (e = Peer(x) /\ IsNews(m, n) => ~OnWire(e, n)) =>
             Single(wire'[e], n)
  BY <1>1, <1>2, <1>3, NewsWritten
<1>8. \A e \in End : \A n : InLine(e, n)' => InLine(e, n)
  BY <1>1 DEF InLine
<1>9. Once'
  <2>1. Once
    BY DEF SInv
  <2>2. ASSUME NEW e \in End, NEW n \in DOMAIN Parent, Home[n] = Peer(e)
        PROVE  /\ Single(wire'[e], n) /\ Single(package_queue'[e], n)
               /\ OnWire(e, n)' => OnWire(e, n) \/ (Telling(e, n) /\ ~Telling(e, n)')
    <3>1. /\ Single(wire[e], n) /\ Single(package_queue[e], n)
          /\ Telling(e, n) => ~OnWire(e, n)
      BY <2>1, <2>2 DEF Once
    <3> QED BY <1>1, <1>6, <1>7, <3>1
  <2> QED BY <1>1, <1>5, <1>8, <2>1, <2>2, OnceStays
<1>10. Shown'
  <2>1. Shown /\ \A e \in End : t # Worker(e)
    BY TheThreads DEF SInv
  <2> QED BY <1>1, <1>5, <2>1, ShownStays
<1>11. NoFetch'
  BY <1>4, <1>5, TheThreads DEF NoFetch, SInv
<1> QED BY <1>9, <1>10, <1>11 DEF SInv

(* The application attaches a node of its own, of which the other end has  *)
(* not heard.                                                              *)
LEMMA CreateShows ==
  ASSUME CInv, NInv, SInv, program' = program, NEW x \in End, NEW y \in DOMAIN Parent,
         CreateLocal(x, y) \/ CreateRemote(x, y)
  PROVE  SInv'
<1> DEFINE t == App(x)
<1>1. /\ Home[y] = x /\ y \notin DOMAIN tree[x] /\ AttachToTree(x, y, 0, 0)
      /\ UNCHANGED <<tracked, wire, package_queue>>
  <2>1. CASE CreateLocal(x, y)
    BY <2>1 DEF CreateLocal, InTree, streamVars
  <2>2. CASE CreateRemote(x, y)
    BY <2>2 DEF CreateRemote, InTree, streamVars
  <2> QED BY <2>1, <2>2
<1>2. /\ t \in Thread /\ th \in [Thread -> Local] /\ y \in Nodes
      /\ TInv /\ \A e \in End : t # Worker(e)
  BY AppIs, Nodewise, TheThreads DEF Types
<1>3. \/ th' = th
      \/ \E r : /\ th' = [th EXCEPT ![t] = r] /\ r.pc = "get_nid"
                /\ \A n : Tells(r, n) => n = y
  <2>1. CASE CreateLocal(x, y)
    <3> DEFINE r == [Idle EXCEPT !.pc = "get_nid", !.then = "child_nid",
                                 !.node = Parent[y], !.msg = Note("child", 0, y, 0)]
    <3>1. th' = th \/ th' = [th EXCEPT ![t] = r]
      BY <2>1 DEF CreateLocal, Become
    <3>2. r.pc = "get_nid" /\ r.then = "child_nid" /\ r.msg.node = y
      <4>1. Note("child", 0, y, 0).node = y
        BY <1>2, Messages DEF Note, Kind
      <4> QED BY <4>1 DEF Idle
    <3> HIDE DEF r
    <3>3. \A n : Tells(r, n) => n = y
      BY <3>2 DEF Tells
    <3> QED BY <3>1, <3>2, <3>3
  <2>2. CASE CreateRemote(x, y)
    <3> DEFINE r == [Idle EXCEPT !.pc = "get_nid", !.then = "write_attach", !.node = y,
                                 !.pnid = tree[x][Parent[y]].nid]
    <3>1. th' = [th EXCEPT ![t] = r]
      BY <2>2 DEF CreateRemote, Become
    <3>2. r.pc = "get_nid" /\ r.then = "write_attach" /\ r.node = y
      BY DEF Idle
    <3> HIDE DEF r
    <3>3. \A n : Tells(r, n) => n = y
      BY <3>2 DEF Tells
    <3> QED BY <3>1, <3>2, <3>3
  <2> QED BY <2>1, <2>2
<1>4. /\ \A u \in Thread : u # t => th'[u] = th[u]
      /\ \A n : Tells(th'[t], n) => Tells(th[t], n) \/ n = y
      /\ th'[t] = th[t] \/ th'[t].pc = "get_nid"
  BY <1>2, <1>3
<1>5. /\ DOMAIN tree[x] \subseteq DOMAIN tree'[x]
      /\ \A e \in End : \A n \in DOMAIN tree'[e] :
           \/ n \in DOMAIN tree[e] /\ tree'[e][n] = tree[e][n]
           \/ e = x /\ n = y
  BY <1>1, <1>2, AttachesOne
<1>6. \A e \in End : Peer(e) = x => Unheard(e, y)
  <2> SUFFICES ASSUME NEW e \in End, Peer(e) = x PROVE Unheard(e, y)
    OBVIOUS
  <2>1. ~OnWire(e, y) /\ ~InLine(e, y) /\ ~AtWork(e, y)
    BY <1>1, NewsIsTrue
  <2>2. y \notin DOMAIN tree[e]
    BY <1>1, Ends DEF NInv, Trees
  <2> QED BY <2>1, <2>2 DEF Unheard
<1>7. \A e \in End : th'[Worker(e)] = th[Worker(e)]
  BY <1>2, <1>4, TheThreads
<1>8. Once'
  <2>1. Once
    BY DEF SInv
  <2>2. \A e \in End : \A n : /\ OnWire(e, n)' => OnWire(e, n)
                              /\ InLine(e, n)' => InLine(e, n)
                              /\ AtWork(e, n)' => AtWork(e, n)
    BY <1>1, <1>7 DEF OnWire, InLine, AtWork
  <2>3. ASSUME NEW e \in End, NEW n, Telling(e, n)'
        PROVE  Telling(e, n) \/ Unheard(e, n)
    <3>1. Peer(e) \in End /\ App(Peer(e)) \in Thread
      BY Ends, TheThreads
    <3>2. CASE Peer(e) = x
      BY <1>4, <1>6, <2>3, <3>2 DEF Telling
    <3>3. CASE Peer(e) # x
      <4>1. App(Peer(e)) # t
        BY <3>1, <3>3, TheThreads
      <4> QED BY <1>4, <2>3, <3>1, <4>1 DEF Telling
    <3> QED BY <3>2, <3>3
  <2>4. ASSUME NEW e \in End, NEW n \in DOMAIN Parent, Home[n] = Peer(e)
        PROVE  /\ Single(wire'[e], n) /\ Single(package_queue'[e], n)
               /\ n \in DOMAIN tree'[e] => n \in DOMAIN tree[e]
    BY <1>1, <1>5, <2>1, <2>4, Ends DEF Once
  <2> QED BY <2>1, <2>2, <2>3, <2>4, OnceStays
<1>9. Shown'
  <2>1. Shown
    BY DEF SInv
  <2> QED BY <1>1, <1>5, <1>7, <2>1, ShownStays
<1>10. NoFetch'
  <2>1. \A e \in End : App(e) \in Thread
    BY TheThreads
  <2> QED BY <1>4, <2>1 DEF NoFetch, SInv
<1> QED BY <1>8, <1>9, <1>10 DEF SInv

(* The worker attaches the node it was told of, and is done.               *)
LEMMA AttachedShows ==
  ASSUME CInv, NInv, SInv, program' = program, NEW e \in End, NEW k, NEW m,
         m = th[Worker(e)].msg,
         th[Worker(e)].pc \in {"cmd_attach", "find_child", "attach_child"},
         th' = [th EXCEPT ![Worker(e)] = Idle],
         AttachToTree(e, m.node, k, m.cnid), package_queue' = package_queue, NoNews,
         \A x \in End : \A i \in DOMAIN tracked[x] :
           /\ i \in DOMAIN tracked'[x]
           /\ tracked'[x][i] = tracked[x][i] \/ (x = e /\ i = m.cnid),
         \A x \in End : x # e => tracked'[x] = tracked[x],
         m.cnid \in DOMAIN tracked'[e], tracked'[e][m.cnid] = Object(m.node, k)
  PROVE  SInv'
<1> DEFINE t == Worker(e)
<1>1. /\ Types /\ TInv /\ t \in Thread /\ Once /\ Shown /\ NoFetch
  BY WorkerIs DEF SInv
<1>2. /\ Owns(Peer(e), m.cnid, m.node) /\ Home[m.node] = Peer(e) /\ Peer(e) \in End
      /\ Peer(e) # e /\ Peer(Peer(e)) = e
  BY IsAnnounced, Ends
<1>3. m.node \in DOMAIN Parent /\ AtWork(e, m.node)
  BY <1>2, WorkerIs DEF Owns, AtWork, IsNews, WorkOK
<1>4. /\ ~Telling(e, m.node) /\ ~OnWire(e, m.node) /\ ~InLine(e, m.node)
      /\ m.node \notin DOMAIN tree[e]
  BY <1>1, <1>2, <1>3 DEF Once
<1>5. /\ th'[t].pc = "idle" /\ \A n : ~Tells(th'[t], n)
      /\ \A u \in Thread : u # t => th'[u] = th[u]
  BY <1>1, IdleTells
<1>6. /\ \A x \in End : \A n : /\ Telling(x, n)' => Telling(x, n)
                               /\ AtWork(x, n)' => AtWork(x, n)
      /\ \A x \in End : t # Worker(x) => th'[Worker(x)] = th[Worker(x)]
      /\ \A x \in End : t # App(x) => th'[App(x)] = th[App(x)]
  <2>1. t # App(e)
    BY TheThreads
  <2> QED BY <1>5, <2>1, NewsKept
<1>7. /\ \A x \in End : \A n \in DOMAIN tree'[x] :
           \/ n \in DOMAIN tree[x] /\ tree'[x][n] = tree[x][n]
           \/ x = e /\ n = m.node /\ tree'[x][n].obj = k /\ tree'[x][n].nid = m.cnid
  BY <1>1, AttachesOne
<1>8. \A x \in End : \A n : InLine(x, n)' => InLine(x, n)
  BY DEF InLine
<1>9. Once'
  <2>1. ASSUME NEW x \in End, NEW n \in DOMAIN Parent, Home[n] = Peer(x)
        PROVE  Single(wire'[x], n) /\ Single(package_queue'[x], n)
    BY <1>1, <2>1 DEF Once, NoNews
  <2>2. ~AtWork(e, m.node)'
    BY <1>5 DEF AtWork
  <2>3. \A x \in End : \A n : OnWire(x, n)' => OnWire(x, n)
    BY DEF NoNews
  <2>4. ~(Telling(e, m.node) \/ OnWire(e, m.node) \/ InLine(e, m.node)
            \/ AtWork(e, m.node))'
    BY <1>4, <1>6, <1>8, <2>2, <2>3
  <2>5. \A x \in End : \A n : n \in DOMAIN tree'[x] =>
          \/ n \in DOMAIN tree[x]
          \/ ~(Telling(x, n) \/ OnWire(x, n) \/ InLine(x, n) \/ AtWork(x, n))'
    BY <1>7, <2>4
  <2> QED BY <1>1, <1>6, <1>8, <2>1, <2>3, <2>5, OnceStays
<1>10. Shown'
  <2>1. Home' = Home
    BY DEF Home
  <2>2. ASSUME NEW x \in End, NEW n \in DOMAIN tree'[x], Home[n] # x
        PROVE  /\ tree'[x][n].nid \in DOMAIN tracked'[x]
               /\ tracked'[x][tree'[x][n].nid] = Object(n, tree'[x][n].obj)
    <3>1. CASE x = e /\ n = m.node /\ tree'[x][n].obj = k /\ tree'[x][n].nid = m.cnid
      BY <3>1
    <3>2. CASE n \in DOMAIN tree[x] /\ tree'[x][n] = tree[x][n]
      <4>1. PICK i : i = tree[x][n].nid
        OBVIOUS
      <4>2. i \in DOMAIN tracked[x] /\ tracked[x][i] = Object(n, tree[x][n].obj)
        BY <1>1, <2>2, <3>2, <4>1 DEF Shown
      <4>3. ~(x = e /\ i = m.cnid)
        <5>1. m.cnid \in DOMAIN tracked[e] => tracked[e][m.cnid].node = m.node
          BY <1>2, Owned
        <5> QED BY <1>4, <3>2, <4>2, <5>1 DEF Object
      <4> QED BY <3>2, <4>1, <4>2, <4>3
    <3> QED BY <1>7, <2>2, <3>1, <3>2
  <2>3. ASSUME NEW x \in End
        PROVE  /\ th'[Worker(x)].pc = "make_child" =>
                    th'[Worker(x)].msg.cnid \notin DOMAIN tracked'[x]
               /\ th'[Worker(x)].pc = "attach_child" =>
                    /\ th'[Worker(x)].msg.cnid \in DOMAIN tracked'[x]
                    /\ tracked'[x][th'[Worker(x)].msg.cnid] =
                         Object(th'[Worker(x)].msg.node, th'[Worker(x)].nid)
    <3>1. CASE x = e
      BY <1>5, <3>1
    <3>2. CASE x # e
      <4>1. th'[Worker(x)] = th[Worker(x)] /\ tracked'[x] = tracked[x]
        BY <1>6, <3>2, TheThreads
      <4> QED BY <1>1, <4>1 DEF Shown
    <3> QED BY <3>1, <3>2
  <2> QED BY <2>1, <2>2, <2>3 DEF Shown
<1>11. NoFetch'
  BY <1>1, <1>6, TheThreads DEF NoFetch
<1> QED BY <1>9, <1>10, <1>11 DEF SInv

(* An entry of tracked is an object, and nothing else.                     *)
Entries ==
  \A e \in End : \A i \in DOMAIN tracked[e] :
    tracked[e][i] = Object(tracked[e][i].node, tracked[e][i].obj)

(* do_track is the only way into tracked.                                  *)
Entered == \/ tracked' = tracked
           \/ \E e \in End : \E i, n, k : DoTrack(e, i, Object(n, k))

(* get_nid enters the object it was called for, ...                        *)
LEMMA NidStepEnters ==
  ASSUME NEW t \in Thread, NidStep(t)
  PROVE  Entered
<1>1. EndOf(t) \in End
  BY TheThreads
<1>2. \A e, n : \E y, k : ObjectOf(e, n) = Object(y, k)
  BY DEF ObjectOf
<1>3. CASE GetNidFound(t) \/ LoadNid(t) \/ RequestNid(t)
  BY <1>3 DEF GetNidFound, LoadNid, RequestNid, nodeVars, Entered
<1>4. CASE StoreNid(t)
  <2>1. PICK i, o : DoTrack(EndOf(t), i, o) /\ o = ObjectOf(EndOf(t), th[t].node)
    BY <1>4 DEF StoreNid
  <2>2. PICK y, k : o = Object(y, k)
    BY <1>2, <2>1
  <2> QED BY <1>1, <2>1, <2>2 DEF Entered
<1>5. CASE ReceiveNid(t)
  <2>1. PICK i, o : DoTrack(EndOf(t), i, o) /\ o = ObjectOf(EndOf(t), th[t].node)
    BY <1>5 DEF ReceiveNid
  <2>2. PICK y, k : o = Object(y, k)
    BY <1>2, <2>1
  <2> QED BY <1>1, <2>1, <2>2 DEF Entered
<1> QED BY <1>3, <1>4, <1>5 DEF NidStep

(* ... and the others the proxy they have made.                            *)
LEMMA StepEnters ==
  ASSUME [Next]_vars
  PROVE  Entered
<1>1. CASE UNCHANGED vars
  BY <1>1 DEF vars, nodeVars, Entered
<1>2. CASE Next
  <2> PICK e \in End : AppBegins(e) \/ AppContinues(e) \/ WorkerStep(e) \/ IoStep(e)
    BY <1>2 DEF Next
  <2>1. App(e) \in Thread /\ Worker(e) \in Thread
    BY TheThreads
  <2>2. CASE AppBegins(e)
    BY <2>2 DEF AppBegins, CreateLocal, CreateRemote, FetchBegin, UpdateBegin, LsBegin,
                nodeVars, Entered
  <2>3. CASE FetchEnds(e)
    BY <2>3 DEF FetchEnds, Entered
  <2>4. CASE AppContinues(e) /\ ~FetchEnds(e)
    BY <2>1, <2>4, NidStepEnters
    DEF AppContinues, ChildAdded, WriteChildAdded, WriteAttach, FetchFails, Insert,
        UpdateEnds, LsEnds, nodeVars, Entered
  <2>5. CASE CmdAttach(e) \/ MakeChild(e)
    BY <2>5 DEF CmdAttach, MakeChild, Entered
  <2>6. CASE WorkerStep(e) /\ ~CmdAttach(e) /\ ~MakeChild(e)
    BY <2>1, <2>6, NidStepEnters
    DEF WorkerStep, Pop, CmdAt, CmdLsOrGet, Reply, CmdSubscribeAddRemove, FindParent,
        FindChild, AttachChild, nodeVars, Entered
  <2>7. CASE IoStep(e)
    BY <2>7 DEF IoStep, ReceiveReply, Enqueue, LoadForPeer, StoreForPeer, nodeVars,
                Entered
  <2> QED BY <2>2, <2>3, <2>4, <2>5, <2>6, <2>7
<1> QED BY <1>1, <1>2

(* So an entry is what was entered.                                        *)
LEMMA EntriesStay ==
  ASSUME CInv, Entries, [Next]_vars
  PROVE  Entries'
<1>1. CASE tracked' = tracked
  BY <1>1 DEF Entries
<1>2. ASSUME NEW e \in End, NEW i, NEW n, NEW k, DoTrack(e, i, Object(n, k))
      PROVE  Entries'
  <2>1. DOMAIN tracked = End
    BY DEF CInv, TInv, Types
  <2>2. PICK o : o = Object(n, k)
    OBVIOUS
  <2>3. /\ tracked'[e] = Put(tracked[e], i, o)
        /\ \A x \in End : x # e => tracked'[x] = tracked[x]
    BY <1>2, <2>1, <2>2 DEF DoTrack
  <2>4. o = Object(o.node, o.obj)
    BY <2>2 DEF Object
  <2>5. \A x \in End : \A j \in DOMAIN tracked'[x] :
          \/ j \in DOMAIN tracked[x] /\ tracked'[x][j] = tracked[x][j]
          \/ tracked'[x][j] = o
    BY <2>3 DEF Put
  <2>6. ASSUME NEW x \in End, NEW j \in DOMAIN tracked'[x]
        PROVE  tracked'[x][j] = Object(tracked'[x][j].node, tracked'[x][j].obj)
    <3>1. CASE tracked'[x][j] = o
      BY <2>4, <3>1
    <3>2. CASE j \in DOMAIN tracked[x] /\ tracked'[x][j] = tracked[x][j]
      BY <3>2 DEF Entries
    <3> QED BY <2>5, <2>6, <3>1, <3>2
  <2> QED BY <2>6 DEF Entries
<1> QED BY <1>1, <1>2, StepEnters DEF Entered

(* The note that asks for news of a proxy's children is no news.           *)
LEMMA SubscriptionShows ==
  ASSUME CInv, NEW e \in End, NEW i \in Nat, NEW s, s = Note("sub", i, Root, 0),
         wire' = [wire EXCEPT ![Peer(e)] = Append(@, s)]
  PROVE  NoNews
<1>1. s \in Message /\ s.kind = "sub"
  BY Messages DEF Note, Kind, Nodes
<1>2. Peer(e) \in End
  BY Ends
<1> QED BY <1>1, <1>2, NoNewsWritten

(* cmd_attach tracks the proxy it attaches: the node is not in the tree    *)
(* yet, so that the entry is not another's.                                *)
LEMMA CmdAttachShows ==
  ASSUME CInv, NInv, SInv, program' = program, NEW e \in End, CmdAttach(e)
  PROVE  SInv'
<1> DEFINE t == Worker(e)
<1>1. PICK m : m = th[t].msg
  OBVIOUS
<1>2. /\ th[t].pc = "cmd_attach" /\ th' = [th EXCEPT ![t] = Idle]
      /\ package_queue' = package_queue
  BY DEF CmdAttach, At, Become
<1>3. CASE IsTracked(e, m.nid)
  <2>1. PICK s, k : s = Note("sub", m.cnid, Root, 0) /\ k = made[e] + 1
    OBVIOUS
  <2>2. /\ DoTrack(e, m.cnid, Object(m.node, k)) /\ AttachToTree(e, m.node, k, m.cnid)
        /\ wire' = [wire EXCEPT ![Peer(e)] = Append(@, s)]
    BY <1>1, <1>3, <2>1 DEF CmdAttach, Write
  <2>3. NoNews
    BY <1>1, <2>1, <2>2, WorkerIs, SubscriptionShows
  <2>4. /\ tracked'[e] = Put(tracked[e], m.cnid, Object(m.node, k))
        /\ \A x \in End : x # e => tracked'[x] = tracked[x]
    BY <2>2, WorkerIs DEF DoTrack, Types
  <2>5. /\ \A x \in End : \A i \in DOMAIN tracked[x] :
             /\ i \in DOMAIN tracked'[x]
             /\ tracked'[x][i] = tracked[x][i] \/ (x = e /\ i = m.cnid)
        /\ m.cnid \in DOMAIN tracked'[e] /\ tracked'[e][m.cnid] = Object(m.node, k)
    BY <2>4 DEF Put
  <2> QED BY <1>1, <1>2, <2>2, <2>3, <2>4, <2>5, AttachedShows
<1>4. CASE ~IsTracked(e, m.nid)
  <2>1. UNCHANGED <<tracked, tree, wire>>
    BY <1>1, <1>4 DEF CmdAttach
  <2>2. NoNews
    BY <2>1 DEF NoNews, OnWire
  <2> QED BY <1>2, <2>1, <2>2, ReturnsShows
<1> QED BY <1>3, <1>4

(* cmd_child_added attaches the proxy it made, which is still tracked.     *)
LEMMA AttachChildShows ==
  ASSUME CInv, NInv, SInv, program' = program, NEW e \in End, AttachChild(e)
  PROVE  SInv'
<1> DEFINE t == Worker(e)
<1>1. PICK m, k : m = th[t].msg /\ k = th[t].nid
  OBVIOUS
<1>2. /\ th[t].pc = "attach_child" /\ th' = [th EXCEPT ![t] = Idle]
      /\ AttachToTree(e, m.node, k, m.cnid)
      /\ UNCHANGED <<tracked, wire, package_queue>>
  BY <1>1 DEF AttachChild, At, Become, streamVars
<1>3. m.cnid \in DOMAIN tracked[e] /\ tracked[e][m.cnid] = Object(m.node, k)
  BY <1>1, <1>2 DEF SInv, Shown
<1>4. NoNews
  BY <1>2 DEF NoNews, OnWire
<1> QED BY <1>1, <1>2, <1>3, <1>4, AttachedShows

(* A worker that goes on with the news it has, the tree left as it is.     *)
LEMMA OnceGoesOn ==
  ASSUME CInv, NInv, SInv, program' = program, NEW e \in End, NEW r,
         th' = [th EXCEPT ![Worker(e)] = r], th[Worker(e)].pc # "idle",
         r.msg = th[Worker(e)].msg, UNCHANGED <<tree, package_queue>>, NoNews
  PROVE  /\ Once' /\ NoFetch' /\ th'[Worker(e)] = r
         /\ \A x \in End : x # e => th'[Worker(x)] = th[Worker(x)]
<1> DEFINE t == Worker(e)
<1>1. /\ Types /\ t \in Thread /\ Once /\ NoFetch /\ t # App(e)
  BY WorkerIs, TheThreads DEF SInv
<1>2. th'[t] = r /\ \A u \in Thread : u # t => th'[u] = th[u]
  BY <1>1 DEF Types
<1>3. \A n : IsNews(r.msg, n) => AtWork(e, n)
  BY DEF AtWork
<1>4. /\ \A x \in End : \A n : /\ Telling(x, n)' => Telling(x, n)
                               /\ AtWork(x, n)' => AtWork(x, n)
      /\ \A x \in End : t # Worker(x) => th'[Worker(x)] = th[Worker(x)]
      /\ \A x \in End : t # App(x) => th'[App(x)] = th[App(x)]
  BY <1>1, <1>2, <1>3, NewsKept
<1>5. Once'
  <2>1. \A x \in End : \A n : /\ InLine(x, n)' => InLine(x, n)
                              /\ OnWire(x, n)' => OnWire(x, n)
    BY DEF InLine, NoNews
  <2>2. ASSUME NEW x \in End, NEW n \in DOMAIN Parent, Home[n] = Peer(x)
        PROVE  Single(wire'[x], n) /\ Single(package_queue'[x], n)
    BY <1>1, <2>2 DEF Once, NoNews
  <2> QED BY <1>1, <1>4, <2>1, <2>2, OnceStays
<1>6. NoFetch'
  BY <1>1, <1>4, TheThreads DEF NoFetch
<1> QED BY <1>2, <1>4, <1>5, <1>6, TheThreads

(* It attaches the child that is tracked, or finds that it is not.         *)
LEMMA FindChildShows ==
  ASSUME CInv, NInv, SInv, Entries, program' = program, NEW e \in End, FindChild(e)
  PROVE  SInv'
<1> DEFINE t == Worker(e)
<1>1. PICK m : m = th[t].msg
  OBVIOUS
<1>2. th[t].pc = "find_child" /\ UNCHANGED <<tracked, wire, package_queue>>
  BY DEF FindChild, At, streamVars
<1>3. NoNews
  BY <1>2 DEF NoNews, OnWire
<1>4. CASE IsTracked(e, m.cnid)
  <2>1. PICK k : k = tracked[e][m.cnid].obj
    OBVIOUS
  <2>2. AttachToTree(e, m.node, k, m.cnid) /\ th' = [th EXCEPT ![t] = Idle]
    BY <1>1, <1>4, <2>1 DEF FindChild, Become
  <2>3. tracked[e][m.cnid] = Object(m.node, k) /\ m.cnid \in DOMAIN tracked[e]
    <3>1. Owns(Peer(e), m.cnid, m.node) /\ Peer(e) \in End /\ Peer(Peer(e)) = e
      BY <1>1, <1>2, IsAnnounced, Ends
    <3>2. m.cnid \in DOMAIN tracked[e] /\ tracked[e][m.cnid].node = m.node
      BY <1>4, <3>1, Owned DEF IsTracked
    <3> QED BY <2>1, <3>2 DEF Entries
  <2> QED BY <1>1, <1>2, <1>3, <2>2, <2>3, AttachedShows
<1>5. CASE ~IsTracked(e, m.cnid)
  <2>1. PICK r : r = [th[t] EXCEPT !.pc = "make_child"]
    OBVIOUS
  <2>2. tree' = tree /\ th' = [th EXCEPT ![t] = r]
    BY <1>1, <1>5, <2>1 DEF FindChild, Become
  <2>3. r.pc = "make_child" /\ r.msg = m
    BY <1>1, <2>1, WorkerIs DEF Local
  <2>4. /\ Once' /\ NoFetch' /\ th'[t] = r
        /\ \A x \in End : x # e => th'[Worker(x)] = th[Worker(x)]
    BY <1>1, <1>2, <1>3, <2>2, <2>3, OnceGoesOn
  <2>5. Shown'
    <3>1. Home' = Home /\ Shown
      BY DEF Home, SInv
    <3>2. ASSUME NEW x \in End
          PROVE  /\ th'[Worker(x)].pc = "make_child" =>
                      th'[Worker(x)].msg.cnid \notin DOMAIN tracked'[x]
                 /\ th'[Worker(x)].pc = "attach_child" =>
                      /\ th'[Worker(x)].msg.cnid \in DOMAIN tracked'[x]
                      /\ tracked'[x][th'[Worker(x)].msg.cnid] =
                           Object(th'[Worker(x)].msg.node, th'[Worker(x)].nid)
      BY <1>1, <1>2, <1>5, <2>3, <2>4, <3>1 DEF Shown, IsTracked
    <3> QED BY <1>2, <2>2, <3>1, <3>2 DEF Shown
  <2> QED BY <2>4, <2>5 DEF SInv
<1> QED BY <1>4, <1>5

(* It makes a proxy, which is the one tracked until it is attached.        *)
LEMMA MakeChildShows ==
  ASSUME CInv, NInv, SInv, program' = program, NEW e \in End, MakeChild(e)
  PROVE  SInv'
<1> DEFINE t == Worker(e)
<1>1. PICK m, k : m = th[t].msg /\ k = made[e] + 1
  OBVIOUS
<1>2. PICK s, r : /\ s = Note("sub", m.cnid, Root, 0)
                  /\ r = [th[t] EXCEPT !.pc = "attach_child", !.nid = k]
  OBVIOUS
<1>3. /\ th[t].pc = "make_child" /\ th' = [th EXCEPT ![t] = r]
      /\ DoTrack(e, m.cnid, Object(m.node, k))
      /\ wire' = [wire EXCEPT ![Peer(e)] = Append(@, s)]
      /\ UNCHANGED <<tree, package_queue>>
  BY <1>1, <1>2 DEF MakeChild, At, Become, Write
<1>4. r.pc = "attach_child" /\ r.msg = m /\ r.nid = k
  BY <1>1, <1>2, WorkerIs DEF Local
<1>5. NoNews
  BY <1>1, <1>2, <1>3, WorkerIs, SubscriptionShows
<1>6. /\ Once' /\ NoFetch' /\ th'[t] = r
      /\ \A x \in End : x # e => th'[Worker(x)] = th[Worker(x)]
  BY <1>1, <1>3, <1>4, <1>5, OnceGoesOn
<1>7. /\ tracked'[e] = Put(tracked[e], m.cnid, Object(m.node, k))
      /\ \A x \in End : x # e => tracked'[x] = tracked[x]
  BY <1>3, WorkerIs DEF DoTrack, Types
<1>8. Shown /\ m.cnid \notin DOMAIN tracked[e]
  BY <1>1, <1>3 DEF SInv, Shown
<1>9. /\ m.cnid \in DOMAIN tracked'[e] /\ tracked'[e][m.cnid] = Object(m.node, k)
      /\ \A x \in End : \A i \in DOMAIN tracked[x] :
           i \in DOMAIN tracked'[x] /\ tracked'[x][i] = tracked[x][i]
  BY <1>7, <1>8 DEF Put
<1>10. Shown'
  <2>1. Home' = Home
    BY DEF Home
  <2>2. ASSUME NEW x \in End, NEW n \in DOMAIN tree'[x], Home[n] # x
        PROVE  /\ tree'[x][n].nid \in DOMAIN tracked'[x]
               /\ tracked'[x][tree'[x][n].nid] = Object(n, tree'[x][n].obj)
    BY <1>3, <1>8, <1>9, <2>2 DEF Shown
  <2>3. ASSUME NEW x \in End
        PROVE  /\ th'[Worker(x)].pc = "make_child" =>
                    th'[Worker(x)].msg.cnid \notin DOMAIN tracked'[x]
               /\ th'[Worker(x)].pc = "attach_child" =>
                    /\ th'[Worker(x)].msg.cnid \in DOMAIN tracked'[x]
                    /\ tracked'[x][th'[Worker(x)].msg.cnid] =
                         Object(th'[Worker(x)].msg.node, th'[Worker(x)].nid)
    <3>1. CASE x = e
      BY <1>4, <1>6, <1>9, <3>1
    <3>2. CASE x # e
      BY <1>6, <1>7, <1>8, <3>2 DEF Shown
    <3> QED BY <3>1, <3>2
  <2> QED BY <2>1, <2>2, <2>3 DEF Shown
<1> QED BY <1>6, <1>10 DEF SInv

(* The worker goes on with the package it has.                             *)
LEMMA GoesOnShows ==
  ASSUME CInv, NInv, SInv, program' = program, NEW e \in End, NEW r,
         th' = [th EXCEPT ![Worker(e)] = r], th[Worker(e)].pc # "idle",
         r.msg = th[Worker(e)].msg, r.pc \notin {"make_child", "attach_child"},
         UNCHANGED <<tracked, tree, wire, package_queue>>
  PROVE  SInv'
<1>1. NoNews
  BY DEF NoNews, OnWire
<1>2. /\ Once' /\ NoFetch' /\ th'[Worker(e)] = r
      /\ \A x \in End : x # e => th'[Worker(x)] = th[Worker(x)]
  BY <1>1, OnceGoesOn
<1>3. \A x \in End : \/ th'[Worker(x)] = th[Worker(x)]
                     \/ th'[Worker(x)].pc \notin {"make_child", "attach_child"}
  BY <1>2
<1>4. Shown'
  BY <1>3, ShownStays DEF SInv
<1> QED BY <1>2, <1>4 DEF SInv

(* cmd_child_added finds the parent, and cmd_ls and cmd_get_prop what they *)
(* are asked for.                                                          *)
LEMMA FindsShows ==
  ASSUME CInv, NInv, SInv, program' = program, NEW e \in End,
         FindParent(e) \/ CmdLsOrGet(e)
  PROVE  SInv'
<1> DEFINE t == Worker(e)
<1>1. CASE FindParent(e)
  <2>1. PICK r : r = [th[t] EXCEPT !.pc = "find_child"]
    OBVIOUS
  <2>2. /\ th[t].pc = "cmd_child_added"
        /\ th' = [th EXCEPT ![t] = r] \/ th' = [th EXCEPT ![t] = Idle]
        /\ UNCHANGED <<tracked, tree, wire, package_queue>>
    BY <1>1, <2>1 DEF FindParent, At, Become, nodeVars, streamVars
  <2>3. r.pc = "find_child" /\ r.msg = th[t].msg
    BY <2>1, WorkerIs DEF Local
  <2>4. NoNews
    BY <2>2 DEF NoNews, OnWire
  <2> QED BY <2>2, <2>3, <2>4, GoesOnShows, ReturnsShows
<1>2. CASE CmdLsOrGet(e)
  <2>1. PICK pc \in {"reply", "reply_error"} :
          th' = [th EXCEPT ![t] = [th[t] EXCEPT !.pc = pc, !.nid = th[t].msg.nid]]
    BY <1>2 DEF CmdLsOrGet, Become
  <2>2. PICK r : r = [th[t] EXCEPT !.pc = pc, !.nid = th[t].msg.nid]
    OBVIOUS
  <2>3. /\ th' = [th EXCEPT ![t] = r] /\ th[t].pc # "idle"
        /\ UNCHANGED <<tracked, tree, wire, package_queue>>
    BY <1>2, <2>1, <2>2 DEF CmdLsOrGet, At, nodeVars, streamVars
  <2>4. r.pc = pc /\ r.msg = th[t].msg
    BY <2>2, WorkerIs DEF Local
  <2> QED BY <2>3, <2>4, GoesOnShows
<1> QED BY <1>1, <1>2

(* The worker replies, or notes a subscription.                            *)
LEMMA RepliesShows ==
  ASSUME CInv, NInv, SInv, program' = program, NEW e \in End,
         Reply(e) \/ CmdSubscribeAddRemove(e)
  PROVE  SInv'
<1> DEFINE t == Worker(e)
<1>1. CASE Reply(e)
  <2>1. PICK k, m :
          /\ k \in {"ok", "error"} /\ m = Answer(k, th[t].msg.from, th[t].nid)
          /\ wire' = [wire EXCEPT ![Peer(e)] = Append(@, m)]
          /\ th' = [th EXCEPT ![t] = Idle]
          /\ UNCHANGED <<tracked, tree, package_queue>>
    BY <1>1 DEF Reply, Become, Write, nodeVars
  <2>2. m \in Message /\ m.kind = k
    <3>1. /\ th[t].msg.from \in Thread \cup {NoThread} /\ th[t].nid \in Nat
          /\ k \in Kind /\ Root \in Nodes /\ 0 \in Nat
      BY <2>1, WorkerIs DEF Local, Message, Kind, Nodes
    <3> QED BY <2>1, <3>1, Messages DEF Answer
  <2>3. NoNews
    BY <2>1, <2>2, Ends, NoNewsWritten
  <2> QED BY <2>1, <2>3, ReturnsShows
<1>2. CASE CmdSubscribeAddRemove(e)
  <2>1. /\ th' = [th EXCEPT ![t] = Idle]
        /\ UNCHANGED <<tracked, tree, wire, package_queue>>
    BY <1>2 DEF CmdSubscribeAddRemove, Become, streamVars
  <2>2. NoNews
    BY <2>1 DEF NoNews, OnWire
  <2> QED BY <2>1, <2>2, ReturnsShows
<1> QED BY <1>1, <1>2

(* The worker takes a package: news that was in the queue it now has.      *)
LEMMA PopShows ==
  ASSUME CInv, NInv, SInv, program' = program, NEW e \in End, Pop(e)
  PROVE  SInv'
<1> DEFINE t == Worker(e)
<1> DEFINE M == Message
<1>1. PICK q : q = package_queue[e]
  OBVIOUS
<1>2. PICK h, r : h = Head(q) /\ r = [Idle EXCEPT !.pc = Handler(h), !.msg = h]
  OBVIOUS
<1>3. /\ th[t].pc = "idle" /\ q # <<>> /\ th' = [th EXCEPT ![t] = r]
      /\ package_queue' = [package_queue EXCEPT ![e] = Tail(@)]
      /\ UNCHANGED <<tracked, tree, wire>>
  BY <1>1, <1>2 DEF Pop, At, Become, nodeVars, streamVars
<1>4. package_queue \in [End -> Seq(M)] /\ q \in Seq(M) /\ Packages
  BY <1>1, ReaderIs
<1> HIDE DEF M
<1>5. h \in Message /\ Queued(h, e)
  <2>1. h \in M /\ \E i \in DOMAIN q : q[i] = h
    BY <1>2, <1>3, <1>4, Taken
  <2> QED BY <1>1, <1>4, <2>1 DEF Packages, M
<1>6. Handler(h) \notin {"make_child", "attach_child"}
  <2>1. h.kind \in {"at", "ls", "get", "attach", "child", "sub"}
    BY <1>5 DEF Message, Kind, Queued, Sent, IsAnswer
  <2> QED BY <2>1 DEF Handler
<1>7. r.pc = Handler(h) /\ r.msg = h
  BY <1>2 DEF Idle
<1>8. /\ th'[t] = r /\ \A u \in Thread : u # t => th'[u] = th[u]
  BY <1>3, WorkerIs DEF Types
<1>9. /\ package_queue'[e] = Tail(q)
      /\ \A x \in End : x # e => package_queue'[x] = package_queue[x]
  BY <1>1, <1>3, <1>4
<1>10. \A n : /\ Holds(Tail(q), n) => Holds(q, n)
              /\ Single(q, n) => Single(Tail(q), n)
              /\ IsNews(h, n) => Holds(q, n)
              /\ Single(q, n) /\ IsNews(h, n) => ~Holds(Tail(q), n)
  BY <1>2, <1>3, <1>4, NewsTaken
<1>11. /\ \A x \in End : App(x) \in Thread /\ App(x) # t /\ th'[App(x)] = th[App(x)]
       /\ \A x \in End : x # e => th'[Worker(x)] = th[Worker(x)]
  BY <1>8, TheThreads
<1>12. \A x \in End : \A n :
         /\ Telling(x, n)' => Telling(x, n)
         /\ OnWire(x, n)' => OnWire(x, n)
         /\ InLine(x, n)' => InLine(x, n)
  <2>1. ASSUME NEW x \in End, NEW n, InLine(x, n)' PROVE InLine(x, n)
    BY <1>1, <1>9, <1>10, <2>1 DEF InLine
  <2>2. \A x \in End : \A n : Telling(x, n)' => Telling(x, n)
    BY <1>11, Ends DEF Telling
  <2> QED BY <1>3, <2>1, <2>2 DEF OnWire
<1>13. Once'
  <2>1. Once
    BY DEF SInv
  <2>2. ASSUME NEW x \in End, NEW n \in DOMAIN Parent, Home[n] = Peer(x)
        PROVE  /\ Single(wire'[x], n) /\ Single(package_queue'[x], n)
               /\ AtWork(x, n)' => AtWork(x, n) \/ (InLine(x, n) /\ ~InLine(x, n)')
    <3>1. Single(wire[x], n) /\ Single(package_queue[x], n)
      BY <2>1, <2>2 DEF Once
    <3>2. CASE x = e
      BY <1>1, <1>3, <1>7, <1>8, <1>9, <1>10, <3>1, <3>2 DEF AtWork, InLine
    <3>3. CASE x # e
      BY <1>3, <1>9, <1>11, <3>1, <3>3 DEF AtWork
    <3> QED BY <3>2, <3>3
  <2> QED BY <1>3, <1>12, <2>1, <2>2, OnceStays
<1>14. Shown'
  <2>1. \A x \in End : \/ th'[Worker(x)] = th[Worker(x)]
                       \/ th'[Worker(x)].pc \notin {"make_child", "attach_child"}
    BY <1>6, <1>7, <1>8, <1>11
  <2> QED BY <1>3, <2>1, ShownStays DEF SInv
<1>15. NoFetch'
  BY <1>11 DEF NoFetch, SInv
<1> QED BY <1>13, <1>14, <1>15 DEF SInv

-----------------------------------------------------------------------------
(* A step of the thread that reads.                                        *)
LEMMA ReadsShows ==
  ASSUME CInv, NInv, SInv, program' = program, UNCHANGED <<th, tracked, tree>>,
         \A x \in End : \A n : Single(wire[x], n) /\ Single(package_queue[x], n) =>
           /\ Single(wire'[x], n)
           /\ (OnWire(x, n) => ~InLine(x, n)) => Single(package_queue'[x], n)
           /\ OnWire(x, n)' => OnWire(x, n)
           /\ InLine(x, n)' => InLine(x, n) \/ (OnWire(x, n) /\ ~OnWire(x, n)')
  PROVE  SInv'
<1>1. \A x \in End : \A n : /\ Telling(x, n)' => Telling(x, n)
                            /\ AtWork(x, n)' => AtWork(x, n)
  BY DEF Telling, AtWork
<1>2. Once'
  <2>1. Once
    BY DEF SInv
  <2>2. ASSUME NEW x \in End, NEW n \in DOMAIN Parent, Home[n] = Peer(x)
        PROVE  /\ Single(wire'[x], n) /\ Single(package_queue'[x], n)
               /\ OnWire(x, n)' => OnWire(x, n)
               /\ InLine(x, n)' => InLine(x, n) \/ (OnWire(x, n) /\ ~OnWire(x, n)')
    <3>1. /\ Single(wire[x], n) /\ Single(package_queue[x], n)
          /\ OnWire(x, n) => ~InLine(x, n)
      BY <2>1, <2>2 DEF Once
    <3> QED BY <3>1
  <2> QED BY <1>1, <2>1, <2>2, OnceStays
<1>3. Shown'
  BY ShownStays DEF SInv
<1>4. NoFetch'
  BY DEF NoFetch, SInv
<1> QED BY <1>2, <1>3, <1>4 DEF SInv

(* It takes the first package.                                             *)
LEMMA NewsRead ==
  ASSUME CInv, NEW e \in End, wire[e] # <<>>, Take(e)
  PROVE  \A x \in End : \A n :
           /\ Single(wire[x], n) => Single(wire'[x], n)
           /\ OnWire(x, n)' => OnWire(x, n)
           /\ x = e /\ IsNews(Head(wire[e]), n) => OnWire(x, n)
           /\ Single(wire[x], n) /\ x = e /\ IsNews(Head(wire[e]), n) => ~OnWire(x, n)'
<1> DEFINE M == Message
<1>1. wire \in [End -> Seq(M)]
  BY ReaderIs
<1> HIDE DEF M
<1>2. PICK s \in Seq(M) : s = wire[e]
  BY <1>1
<1>3. wire'[e] = Tail(s) /\ \A x \in End : x # e => wire'[x] = wire[x]
  BY <1>1, <1>2 DEF Take
<1>4. \A n : /\ Holds(Tail(s), n) => Holds(s, n)
             /\ Single(s, n) => Single(Tail(s), n)
             /\ IsNews(Head(s), n) => Holds(s, n)
             /\ Single(s, n) /\ IsNews(Head(s), n) => ~Holds(Tail(s), n)
  BY <1>2, NewsTaken
<1> QED BY <1>2, <1>3, <1>4 DEF OnWire

(* A reply is copied and its sender woken.                                 *)
LEMMA ReceiveReplyShows ==
  ASSUME CInv, NInv, SInv, program' = program, NEW e \in End, ReceiveReply(e)
  PROVE  SInv'
<1>1. /\ wire[e] # <<>> /\ Take(e) /\ UNCHANGED <<th, tracked, tree, package_queue>>
  BY DEF ReceiveReply, nodeVars
<1>2. \A x \in End : \A n : InLine(x, n)' => InLine(x, n)
  BY <1>1 DEF InLine
<1> QED BY <1>1, <1>2, NewsRead, ReadsShows

(* News goes from the socket to the worker's queue.                        *)
LEMMA EnqueueShows ==
  ASSUME CInv, NInv, SInv, program' = program, NEW e \in End, Enqueue(e)
  PROVE  SInv'
<1> DEFINE M == Message
<1>1. PICK h : h = Head(wire[e])
  OBVIOUS
<1>2. /\ wire[e] # <<>> /\ Take(e) /\ UNCHANGED <<th, tracked, tree>>
      /\ package_queue' = [package_queue EXCEPT ![e] = Append(@, h)]
  BY <1>1 DEF Enqueue, nodeVars
<1>3. package_queue \in [End -> Seq(M)] /\ h \in M
  BY <1>1, <1>2, ReaderIs, WireTaken
<1> HIDE DEF M
<1>4. PICK q \in Seq(M) : q = package_queue[e]
  BY <1>3
<1>5. /\ package_queue'[e] = Append(q, h)
      /\ \A x \in End : x # e => package_queue'[x] = package_queue[x]
  BY <1>2, <1>3, <1>4
<1>6. \A n : /\ Holds(Append(q, h), n) => Holds(q, n) \/ IsNews(h, n)
             /\ Single(q, n) /\ (IsNews(h, n) => ~Holds(q, n)) => Single(Append(q, h), n)
  BY <1>3, NewsAdded
<1>7. \A x \in End : \A n :
        /\ Single(wire[x], n) => Single(wire'[x], n)
        /\ OnWire(x, n)' => OnWire(x, n)
        /\ x = e /\ IsNews(h, n) => OnWire(x, n)
        /\ Single(wire[x], n) /\ x = e /\ IsNews(h, n) => ~OnWire(x, n)'
  BY <1>1, <1>2, NewsRead
<1>8. ASSUME NEW x \in End, NEW n, Single(wire[x], n), Single(package_queue[x], n)
      PROVE  /\ (OnWire(x, n) => ~InLine(x, n)) => Single(package_queue'[x], n)
             /\ InLine(x, n)' => InLine(x, n) \/ (OnWire(x, n) /\ ~OnWire(x, n)')
  <2>1. CASE x = e
    BY <1>4, <1>5, <1>6, <1>7, <1>8, <2>1 DEF InLine
  <2>2. CASE x # e
    BY <1>5, <1>8, <2>2 DEF InLine
  <2> QED BY <2>1, <2>2
<1> QED BY <1>2, <1>7, <1>8, ReadsShows

(* A request for a nid is answered on the spot.                            *)
LEMMA DrawsShows ==
  ASSUME CInv, NInv, SInv, program' = program, NEW e \in End,
         LoadForPeer(e) \/ StoreForPeer(e)
  PROVE  SInv'
<1> DEFINE M == Message
<1> DEFINE p == Peer(e)
<1>1. CASE LoadForPeer(e)
  <2>1. UNCHANGED <<th, tracked, tree, wire, package_queue>>
    BY <1>1 DEF LoadForPeer, nodeVars, streamVars
  <2>2. \A x \in End : \A n : /\ InLine(x, n)' => InLine(x, n)
                              /\ OnWire(x, n)' => OnWire(x, n)
    BY <2>1 DEF InLine, OnWire
  <2> QED BY <2>1, <2>2, ReadsShows
<1>2. CASE StoreForPeer(e)
  <2>1. PICK h, m : h = Head(wire[e]) /\ m = Answer("ok", h.from, io[e])
    OBVIOUS
  <2>2. /\ wire' = [wire EXCEPT ![e] = Tail(@), ![p] = Append(@, m)] /\ io[e] # 0
        /\ UNCHANGED <<th, tracked, tree, package_queue>>
    BY <1>2, <2>1 DEF StoreForPeer, nodeVars
  <2>3. wire[e] # <<>> /\ p \in End /\ p # e /\ io[e] \in Nat
        /\ \A x \in End : x = e \/ x = p
    BY <2>2, ReaderIs, Ends DEF Reading
  <2>4. m \in M /\ m.kind = "ok" /\ wire \in [End -> Seq(M)]
    <3>1. h \in Message
      BY <2>1, <2>3, WireTaken
    <3>2. /\ h.from \in Thread \cup {NoThread} /\ "ok" \in Kind /\ 0 \in Nat
          /\ Root \in Nodes
      BY <3>1 DEF Kind, Nodes, Message
    <3> QED BY <2>1, <2>3, <3>2, ReaderIs, Messages DEF Answer
  <2> HIDE DEF M
  <2>5. wire'[e] = Tail(wire[e]) /\ wire'[p] = Append(wire[p], m)
    BY <2>2, <2>3, <2>4
  <2>6. \A n : /\ Single(wire[e], n) => Single(wire'[e], n)
               /\ OnWire(e, n)' => OnWire(e, n)
    BY <2>3, <2>4, <2>5, NewsTaken DEF OnWire
  <2>7. \A n : /\ Single(wire[p], n) => Single(wire'[p], n)
               /\ OnWire(p, n)' => OnWire(p, n)
    <3>1. PICK s \in Seq(M) : s = wire[p]
      BY <2>3, <2>4
    <3>2. \A n : ~IsNews(m, n)
      BY <2>4 DEF IsNews
    <3>3. \A n : /\ Holds(Append(s, m), n) => Holds(s, n) \/ IsNews(m, n)
                 /\ Single(s, n) /\ (IsNews(m, n) => ~Holds(s, n)) =>
                      Single(Append(s, m), n)
      BY <2>4, NewsAdded
    <3> QED BY <2>5, <3>1, <3>2, <3>3 DEF OnWire
  <2>8. \A x \in End : \A n : /\ Single(wire[x], n) => Single(wire'[x], n)
                              /\ OnWire(x, n)' => OnWire(x, n)
    BY <2>3, <2>6, <2>7
  <2>9. \A x \in End : \A n : InLine(x, n)' => InLine(x, n)
    BY <2>2 DEF InLine
  <2> QED BY <2>2, <2>8, <2>9, ReadsShows
<1> QED BY <1>1, <1>2

-----------------------------------------------------------------------------
(* At first nothing is announced, and neither tree has a proxy.            *)
LEMMA InitShows ==
  ASSUME Init
  PROVE  SInv /\ Entries
<1>1. PICK s : s = Note("sub", 0, Root, 0)
  OBVIOUS
<1>2. s.kind = "sub"
  BY <1>1, Messages DEF Note, Kind, Nodes
<1>3. \A e \in End : \A i \in DOMAIN wire[e] : wire[e][i] = s
  <2>1. \A e \in End : wire[e] = IF e = "server" THEN <<s>> ELSE <<>>
    BY <1>1 DEF Init
  <2>2. DOMAIN <<s>> = {1} /\ <<s>>[1] = s /\ DOMAIN << >> = {}
    OBVIOUS
  <2> QED BY <2>1, <2>2
<1>4. /\ \A e \in End : package_queue[e] = <<>> /\ tree[e] = <<>>
      /\ \A e \in End : DOMAIN tracked[e] = {0} /\ tracked[e][0] = Object(Root, 0)
      /\ \A t \in Thread : th[t].pc = "idle"
  BY IdleIs DEF Init
<1>5. DOMAIN << >> = {}
  OBVIOUS
<1>6. \A e \in End : \A n : /\ ~OnWire(e, n) /\ Single(wire[e], n)
                            /\ ~InLine(e, n) /\ Single(package_queue[e], n)
  BY <1>2, <1>3, <1>4, <1>5 DEF OnWire, InLine, Holds, Single, IsNews
<1>7. \A e \in End : \A n : ~Telling(e, n) /\ ~AtWork(e, n)
  BY <1>4, Ends, TheThreads DEF Telling, Tells, AtWork, NidPc
<1>8. Once
  BY <1>6, <1>7 DEF Once
<1>9. Shown
  BY <1>4, <1>5, TheThreads DEF Shown
<1>10. NoFetch
  BY <1>4, TheThreads DEF NoFetch
<1>11. Entries
  BY <1>4 DEF Entries, Object
<1> QED BY <1>8, <1>9, <1>10, <1>11 DEF SInv

(* If nobody fetches, neither fetch_node nor cmd_at is ever called.        *)
LEMMA NobodyFetches ==
  ASSUME CInv, SInv, ~Uses("fetch"), NEW e \in End
  PROVE  /\ \A n : ~FetchBegin(e, n)
         /\ ~FetchFails(e) /\ ~FetchEnds(e) /\ ~Insert(e)
         /\ ~CmdAt(e) /\ ~NidStep(Worker(e))
<1>1. /\ "fetch" \notin Ops[e] /\ Peer(e) \in End /\ "fetch" \notin Ops[Peer(e)]
  BY Ends DEF Uses
<1>2. th[App(e)].pc \notin {"fetch", "insert"}
  BY DEF SInv, NoFetch
<1>3. th[Worker(e)].pc \notin NidPc \cup {"cmd_at"}
  <2>1. WorkOK(e, th[Worker(e)])
    BY WorkerIs
  <2> QED BY <1>1, <2>1 DEF WorkOK, Queued, Sent, NidPc
<1>4. \A n : ~FetchBegin(e, n)
  BY <1>1 DEF FetchBegin, MayBegin
<1>5. ~FetchFails(e) /\ ~FetchEnds(e) /\ ~Insert(e)
  BY <1>2 DEF FetchFails, FetchEnds, Insert, At
<1>6. ~CmdAt(e) /\ ~NidStep(Worker(e))
  BY <1>3 DEF CmdAt, NidStep, GetNidFound, LoadNid, StoreNid, RequestNid, ReceiveNid,
              At, NidPc
<1> QED BY <1>4, <1>5, <1>6

(* Every step keeps what the trees show.                                   *)
LEMMA StepShows ==
  ASSUME CInv, NInv, SInv, Entries, ~Uses("fetch"), [Next]_vars
  PROVE  SInv'
<1>1. LsIsAlone
  BY Ends DEF LsIsAlone, Uses
<1>2. CASE UNCHANGED vars
  <2>1. UNCHANGED <<program, th, tracked, tree, wire, package_queue>>
    BY <1>2 DEF vars, nodeVars, streamVars
  <2>2. \A x \in End : \A n : /\ InLine(x, n)' => InLine(x, n)
                              /\ OnWire(x, n)' => OnWire(x, n)
    BY <2>1 DEF InLine, OnWire
  <2> QED BY <2>1, <2>2, ReadsShows
<1>3. CASE Next
  <2> PICK e \in End : AppBegins(e) \/ AppContinues(e) \/ WorkerStep(e) \/ IoStep(e)
    BY <1>3 DEF Next
  <2>1. program' = program
    BY <1>3 DEF Next
  <2>2. /\ \A n : ~FetchBegin(e, n)
        /\ ~FetchFails(e) /\ ~FetchEnds(e) /\ ~Insert(e)
        /\ ~CmdAt(e) /\ ~NidStep(Worker(e))
    BY NobodyFetches
  <2>3. CASE AppBegins(e)
    <3>1. PICK n \in DOMAIN Parent : \/ CreateLocal(e, n) \/ CreateRemote(e, n)
                                     \/ UpdateBegin(e, n) \/ LsBegin(e, n)
      BY <2>2, <2>3 DEF AppBegins
    <3> QED BY <2>1, <3>1, CreateShows, AskShows
  <2>4. CASE AppContinues(e)
    BY <1>1, <2>1, <2>2, <2>4, NidStepShows, ChildAddedShows, WriteShows, CallEndsShows
    DEF AppContinues
  <2>5. CASE WorkerStep(e)
    BY <2>1, <2>2, <2>5, PopShows, FindsShows, RepliesShows, CmdAttachShows,
       FindChildShows, MakeChildShows, AttachChildShows
    DEF WorkerStep
  <2>6. CASE IoStep(e)
    BY <2>1, <2>6, ReceiveReplyShows, EnqueueShows, DrawsShows DEF IoStep
  <2> QED BY <2>3, <2>4, <2>5, <2>6
<1> QED BY <1>2, <1>3

(* What the trees show then is what is tracked.                            *)
LEMMA ShowsTracked ==
  ASSUME NInv, SInv
  PROVE  TreeShowsTracked
<1> SUFFICES ASSUME NEW e \in End, NEW n \in DOMAIN tree[e], IsProxy(e, n)
             PROVE  tracked[e][tree[e][n].nid] = Object(n, tree[e][n].obj)
  BY DEF TreeShowsTracked
<1>1. Home[n] # e
  BY DEF IsProxy, NInv, Trees
<1> QED BY <1>1 DEF SInv, Shown

(* If neither application fetches, and draws of nids do not interleave,    *)
(* the proxy an application finds in its tree is the one node_sync updates *)
(* when the peer's value changes: cmd_child_added, whose three critical    *)
(* sections are three steps here, and cmd_attach lose no proxy.            *)
THEOREM TreeShows == Spec /\ []OneAtATime => []TreeShowsTracked
<1> DEFINE J == ~Uses("fetch") => NInv /\ SInv /\ Entries
<1>1. Init => J
  BY InitNids, InitShows
<1>2. CInv /\ J /\ OneAtATime /\ [Next]_vars => J'
  <2> SUFFICES ASSUME CInv, J, OneAtATime, [Next]_vars, ~Uses("fetch")'
               PROVE  NInv' /\ SInv' /\ Entries'
    OBVIOUS
  <2>1. program' = program
    BY DEF Next, vars
  <2>2. ~Uses("fetch") /\ LsIsAlone
    BY <2>1, Ends DEF Uses, Ops, LsIsAlone
  <2> QED BY <2>2, StepNids, StepShows, EntriesStay
<1>3. J => TreeShowsTracked
  BY ShowsTracked DEF TreeShowsTracked
<1> HIDE DEF J
<1> QED BY <1>1, <1>2, <1>3, Invariance, PTL DEF Spec

(* When one application only creates nodes, this needs no condition.       *)
THEOREM OneCreatorShows == Spec => [](OneCreates => TreeShowsTracked)
<1> DEFINE J == OneCreates /\ ~Uses("fetch") => NInv /\ SInv /\ Entries
<1>1. Init => J
  BY InitNids, InitShows
<1>2. CInv /\ J /\ [Next]_vars => J'
  <2> SUFFICES ASSUME CInv, J, [Next]_vars, OneCreates', ~Uses("fetch")'
               PROVE  NInv' /\ SInv' /\ Entries'
    OBVIOUS
  <2>1. program' = program
    BY DEF Next, vars
  <2>2. OneCreates /\ ~Uses("fetch") /\ LsIsAlone
    BY <2>1, Ends DEF OneCreates, Uses, Ops, LsIsAlone
  <2> QED BY <2>2, OneDrawer, StepNids, StepShows, EntriesStay
<1>3. J => (OneCreates => TreeShowsTracked)
  BY ShowsTracked DEF TreeShowsTracked
<1> HIDE DEF J
<1> QED BY <1>1, <1>2, <1>3, Invariance, PTL DEF Spec
=============================================================================
