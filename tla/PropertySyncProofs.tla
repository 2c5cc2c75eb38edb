------------------------- MODULE PropertySyncProofs -------------------------
(***************************************************************************)
(* For any number of operations: a proxy agrees with its property when     *)
(* everything has been delivered, except after one of the three races, and *)
(* without a subscription get_value returns nothing out of date.           *)
(***************************************************************************)
EXTENDS PropertySync, SequenceTheorems, TLAPS

(* A queue has a package of this kind, not more than one, and the newest   *)
(* update of a queue, if there is one, carries this value.                 *)
Has(q, k)     == \E i \in DOMAIN q : q[i].kind = k
OnlyOne(q, k) == \A i, j \in DOMAIN q : q[i].kind = k /\ q[j].kind = k => i = j
Newest(q, v)  ==
  \A i \in DOMAIN q :
    /\ q[i].kind = "update"
    /\ \A j \in DOMAIN q : j > i => q[j].kind # "update"
    => q[i].val = v

(* Where each thread can be, and which mutex it has there.                 *)
Updating == {"deserialize", "update_ends"}
Applying == {"deserialize", "notify", "apply_ends"}
Places ==
  /\ th["owner_app"].pc \in {"idle", "notify", "updated"}
  /\ th["owner_worker"].pc \in {"idle", "notify", "updated", "reply"}
  /\ th["app"].pc \in {"idle", "request_set", "get", "wait", "read"} \cup Updating
  /\ th["worker"].pc \in {"idle", "found", "lock"} \cup Applying
  /\ th["app"].pc = "deserialize" => reply # <<>>

Mutexes ==
  /\ holder["owner_tracked"] = "owner_worker" <=>
       th["owner_worker"].pc \in {"notify", "updated"}
  /\ holder["tracked"] = "app" <=> th["app"].pc \in {"wait"} \cup Updating
  /\ holder["update"] = "app" <=> th["app"].pc \in Updating
  /\ holder["update"] = "worker" <=> th["worker"].pc \in Applying
  /\ holder["owner_tracked"] \in {Nobody, "owner_worker"}
  /\ holder["tracked"] \in {Nobody, "app"}
  /\ holder["update"] \in {Nobody, "app", "worker"}
  /\ flag <=> th["app"].pc \in Updating \/ th["worker"].pc \in Applying

(* Which packages and values are where.                                    *)
Contents ==
  /\ \A i \in DOMAIN to_owner :
       /\ to_owner[i].kind \in {"set", "get", "subscribe", "unsubscribe"}
       /\ to_owner[i].kind = "set" => to_owner[i].val \in Value
  /\ \A i \in DOMAIN wire : wire[i].kind \in {"update", "reply"}
                            /\ wire[i].val \in Value
  /\ \A i \in DOMAIN package_queue : package_queue[i].kind = "update"
                                     /\ package_queue[i].val \in Value
  /\ th["app"].pc = "request_set" => th["app"].val \in Value
  /\ th["worker"].pc \in {"found", "lock", "deserialize"} => th["worker"].val \in Value
  /\ \A t \in {"owner_app", "owner_worker"} :
       th[t].pc \in {"updated", "reply"} => th[t].val \in Value

(* unsent has one entry for every thread that is about to write.           *)
Unsent ==
  /\ \A i \in DOMAIN unsent : LET t == unsent[i].by IN
       th[t].pc = "updated" /\ th[t].val = unsent[i].val
  /\ \A i, j \in DOMAIN unsent : unsent[i].by = unsent[j].by => i = j
  /\ \A t \in {"owner_app", "owner_worker"} :
       th[t].pc = "updated" => \E i \in DOMAIN unsent : unsent[i].by = t

(* A request to get is in one place, and the application waits for it.     *)
OneReply ==
  /\ Has(to_owner, "get") => /\ th["app"].pc = "wait" /\ reply = <<>>
                             /\ th["owner_worker"].pc # "reply"
                             /\ ~Has(wire, "reply")
  /\ th["owner_worker"].pc = "reply" => /\ th["app"].pc = "wait" /\ reply = <<>>
                                        /\ ~Has(wire, "reply")
  /\ Has(wire, "reply") => th["app"].pc = "wait" /\ reply = <<>>
  /\ OnlyOne(to_owner, "get") /\ OnlyOne(wire, "reply")

(* The newest update under way carries the value of the property.          *)
Clean == told /\ races = {}
Flowing == unsent # <<>> \/ Has(wire, "update") \/ package_queue # <<>>
Setting == th["app"].pc = "request_set" \/ Has(to_owner, "set")

Updates ==
  Clean =>
    /\ unsent # <<>> => unsent[Len(unsent)].val = real
    /\ unsent = <<>> => Newest(wire, real)
    /\ unsent = <<>> /\ ~Has(wire, "update") => Newest(package_queue, real)
    /\ ~Flowing /\ th["worker"].pc \in {"found", "lock", "deserialize"} =>
         th["worker"].val = real

(* A reply is as new as the property, or a newer update will follow.       *)
Answers ==
  Clean /\ ~Flowing =>
    /\ th["owner_worker"].pc = "reply" => th["owner_worker"].val = real
    /\ \A i \in DOMAIN wire : wire[i].kind = "reply" => wire[i].val = real
    /\ reply # <<>> => reply[1] = real

Shown ==
  Clean /\ ~Flowing /\ ~Setting
    /\ th["worker"].pc \notin {"found", "lock", "deserialize"} =>
    /\ cache = real
    /\ listening /\ th["worker"].pc # "notify" => heard \in {NoValue, real}

(* Every value is set once.                                                *)
Distinct ==
  /\ real \notin past /\ stale \subseteq past \cup {real}
  /\ \A v \in past \cup {real} : v < Fresh
  /\ \A i \in DOMAIN to_owner : to_owner[i].kind = "set" =>
       to_owner[i].val \notin past \cup {real} /\ to_owner[i].val < Fresh
  /\ \A i, j \in DOMAIN to_owner :
       /\ to_owner[i].kind = "set" /\ to_owner[j].kind = "set"
       /\ to_owner[i].val = to_owner[j].val
       => i = j
  /\ th["app"].pc = "request_set" =>
       /\ th["app"].val \notin past \cup {real} /\ th["app"].val < Fresh
       /\ \A i \in DOMAIN to_owner : to_owner[i].kind = "set" =>
            to_owner[i].val # th["app"].val

(* Without a subscription there are no updates.                            *)
Unsubscribed ==
  "listen" \notin uses =>
    /\ ~listening /\ ~registered /\ ~Has(to_owner, "subscribe")
    /\ unsent = <<>> /\ ~Has(wire, "update") /\ package_queue = <<>>
    /\ th["worker"].pc = "idle"

(* A request to set that the application has sent is ahead of its get.     *)
SetAhead ==
  real \in stale =>
    \E i \in DOMAIN to_owner : /\ to_owner[i].kind = "set"
                               /\ \A j \in DOMAIN to_owner :
                                    to_owner[j].kind = "get" => i < j

NotStale ==
  "listen" \notin uses =>
    /\ th["owner_worker"].pc = "reply" => th["owner_worker"].val \notin stale
    /\ \A i \in DOMAIN wire : wire[i].kind = "reply" => wire[i].val \notin stale
    /\ reply # <<>> => reply[1] \notin stale
    /\ th["app"].pc \in {"update_ends", "read"} => cache \notin stale

IInv == /\ TypeOK /\ Places /\ Mutexes /\ Contents /\ Unsent /\ OneReply
        /\ Updates /\ Answers /\ Shown /\ Distinct /\ Unsubscribed /\ SetAhead
        /\ NotStale

-----------------------------------------------------------------------------
USE PropertyAssumption DEF Thread, Application, Mutex, Race, NoValue

(* The elements of a sequence to which one was appended.                   *)
LEMMA Appended ==
  ASSUME NEW S, NEW q \in Seq(S), NEW e \in S
  PROVE  /\ Append(q, e) \in Seq(S) /\ Append(q, e) # <<>>
         /\ Len(q) \in Nat /\ Len(Append(q, e)) = Len(q) + 1
         /\ DOMAIN Append(q, e) = DOMAIN q \cup {Len(q) + 1}
         /\ Append(q, e)[Len(q) + 1] = e
         /\ \A i \in DOMAIN q :
              Append(q, e)[i] = q[i] /\ i \in Int /\ i < Len(q) + 1
<1> DEFINE r == Append(q, e)
<1>1. Len(q) \in Nat /\ DOMAIN q = 1 .. Len(q)
  BY LenProperties
<1>2. /\ r \in Seq(S) /\ Len(r) = Len(q) + 1
      /\ \A i \in 1 .. Len(q) : r[i] = q[i]
      /\ r[Len(q) + 1] = e
  BY AppendProperties
<1>3. DOMAIN r = 1 .. Len(q) + 1
  BY <1>1, <1>2, LenProperties
<1>4. r # <<>>
  BY <1>1, <1>2
<1> QED BY <1>1, <1>2, <1>3, <1>4

(* What a queue holds after an element is appended, and what is left of it *)
(* when its head is taken.                                                 *)
LEMMA HasAppend ==
  ASSUME NEW q \in Seq(Package), NEW e \in Package, NEW k
  PROVE  Has(Append(q, e), k) <=> Has(q, k) \/ e.kind = k
<1> DEFINE r == Append(q, e)
<1>1. /\ DOMAIN r = DOMAIN q \cup {Len(q) + 1} /\ r[Len(q) + 1] = e
      /\ \A i \in DOMAIN q : r[i] = q[i]
  BY Appended
<1> HIDE DEF r
<1>2. Has(r, k) <=> Has(q, k) \/ e.kind = k
  BY <1>1 DEF Has
<1> QED BY <1>2 DEF r

(* A package of a queue is its head or in what is left.                    *)
LEMMA HasTail ==
  ASSUME NEW q \in Seq(Package), q # <<>>, NEW k
  PROVE  Has(q, k) <=> Has(Tail(q), k) \/ Head(q).kind = k
<1>1. ASSUME Has(q, k) PROVE Has(Tail(q), k) \/ Head(q).kind = k
  <2>1. PICK i \in DOMAIN q : q[i].kind = k
    BY <1>1 DEF Has
  <2>2. CASE i = 1
    BY <2>1, <2>2
  <2>3. CASE i # 1
    <3>1. i - 1 \in DOMAIN Tail(q) /\ Tail(q)[i - 1] = q[i]
      BY <2>3
    <3> QED BY <2>1, <3>1 DEF Has
  <2> QED BY <2>2, <2>3
<1>2. ASSUME Has(Tail(q), k) \/ Head(q).kind = k PROVE Has(q, k)
  BY <1>2 DEF Has
<1> QED BY <1>1, <1>2

(* An empty queue has no package of any kind.                              *)
LEMMA HasNothing ==
  ASSUME NEW k
  PROVE  ~Has(<<>>, k)
  BY DEF Has

(* A package whose kind the queue does not have may be added.              *)
LEMMA OnlyOneAppend ==
  ASSUME NEW q \in Seq(Package), NEW e \in Package, NEW k, OnlyOne(q, k),
         e.kind = k => ~Has(q, k)
  PROVE  OnlyOne(Append(q, e), k)
  BY DEF Has, OnlyOne

(* Once the only package of a kind is taken there is none left.            *)
LEMMA OnlyOneTail ==
  ASSUME NEW q \in Seq(Package), q # <<>>, NEW k, OnlyOne(q, k)
  PROVE  /\ OnlyOne(Tail(q), k)
         /\ Head(q).kind = k => ~Has(Tail(q), k)
  BY DEF Has, OnlyOne

(* An update that is appended is the newest; another package changes       *)
(* nothing.                                                                *)
LEMMA NewestAppend ==
  ASSUME NEW q \in Seq(Package), NEW e \in Package, NEW v
  PROVE  /\ e.kind = "update" /\ e.val = v => Newest(Append(q, e), v)
         /\ e.kind # "update" /\ Newest(q, v) => Newest(Append(q, e), v)
<1> DEFINE r == Append(q, e)
<1> DEFINE n == Len(q) + 1
<1>1. /\ DOMAIN r = DOMAIN q \cup {n} /\ r[n] = e
      /\ \A i \in DOMAIN q : r[i] = q[i] /\ n > i
  BY Appended
<1> HIDE DEF r, n
<1>2. e.kind = "update" /\ e.val = v => Newest(r, v)
  BY <1>1 DEF Newest
<1>3. e.kind # "update" /\ Newest(q, v) => Newest(r, v)
  BY <1>1 DEF Newest
<1> QED BY <1>2, <1>3 DEF r

(* Taking the head keeps the newest update, unless the head was the last   *)
(* one, which then carried the value.                                      *)
LEMMA NewestTail ==
  ASSUME NEW q \in Seq(Package), q # <<>>, NEW v, Newest(q, v)
  PROVE  /\ Newest(Tail(q), v)
         /\ Head(q).kind = "update" /\ ~Has(Tail(q), "update") => Head(q).val = v
<1>1. Newest(Tail(q), v)
  <2> SUFFICES ASSUME NEW i \in DOMAIN Tail(q), Tail(q)[i].kind = "update",
                      \A j \in DOMAIN Tail(q) : j > i => Tail(q)[j].kind # "update"
               PROVE  Tail(q)[i].val = v
    BY DEF Newest
  <2>1. i + 1 \in DOMAIN q /\ Tail(q)[i] = q[i + 1]
    OBVIOUS
  <2>2. ASSUME NEW j \in DOMAIN q, j > i + 1 PROVE q[j].kind # "update"
    <3>1. j - 1 \in DOMAIN Tail(q) /\ j - 1 > i /\ Tail(q)[j - 1] = q[j]
      BY <2>2
    <3> QED BY <3>1
  <2> QED BY <2>1, <2>2 DEF Newest
<1>2. ASSUME Head(q).kind = "update", ~Has(Tail(q), "update")
      PROVE  Head(q).val = v
  <2>1. 1 \in DOMAIN q /\ q[1] = Head(q)
    OBVIOUS
  <2>2. ASSUME NEW j \in DOMAIN q, j > 1 PROVE q[j].kind # "update"
    <3>1. j - 1 \in DOMAIN Tail(q) /\ Tail(q)[j - 1] = q[j]
      BY <2>2
    <3> QED BY <1>2, <3>1 DEF Has
  <2> QED BY <1>2, <2>1, <2>2 DEF Newest
<1> QED BY <1>1, <1>2

(* An empty queue has no newest update.                                    *)
LEMMA NewestNone ==
  ASSUME NEW v
  PROVE  Newest(<<>>, v)
  BY DEF Newest

(* Values are numbers, and the threads that are to write are the owner's.  *)
LEMMA Numbers ==
  ASSUME IInv
  PROVE  /\ real \in Int /\ past \subseteq Int /\ Fresh \in Int
         /\ \A i \in DOMAIN to_owner :
              to_owner[i].kind = "set" => to_owner[i].val \in Int
         /\ th["app"].pc = "request_set" => th["app"].val \in Int
<1>1. \A v \in Value : v \in Int
  BY DEF Value
<1>2. Fresh \in Int
  BY DEF IInv, TypeOK, Fresh
<1> QED BY <1>1, <1>2 DEF IInv, TypeOK, Contents

(* Values that were serialized and not yet written are the owner's         *)
(* threads'.                                                               *)
LEMMA UnsentBy ==
  ASSUME IInv
  PROVE  \A i \in DOMAIN unsent :
           unsent[i].by \in {"owner_app", "owner_worker"} /\ i \in Int
<1> DEFINE S == [by : {"owner_app", "owner_worker"}, val : Value]
<1>1. unsent \in Seq(S)
  BY DEF IInv, TypeOK
<1>2. \A s \in S : s.by \in {"owner_app", "owner_worker"}
  OBVIOUS
<1> HIDE DEF S
<1> QED BY <1>1, <1>2

(* The owner's application sets a value that was never used; no update     *)
(* carries it yet, so told is cleared.                                     *)
LEMMA ChangeKeeps ==
  ASSUME IInv, Change, uses' = uses
  PROVE  IInv'
<1>1. TypeOK'
  <2>1. th' \in [Thread -> ThreadState]
    BY DEF IInv, TypeOK, ThreadState, PC, Change, Goto
  <2>2. /\ ops' \in [Application -> Nat] /\ ops'["owner_app"] <= OwnerOps
        /\ ops'["app"] <= ProxyOps
    BY DEF IInv, TypeOK, Begins, Change
  <2>3. Fresh \in Value
    BY DEF IInv, TypeOK, Begins, Fresh, Value, Change
  <2>4. th'["app"]= th["app"]
    BY DEF IInv, Change, Goto
  <2> QED BY <2>1, <2>2, <2>3, <2>4 DEF IInv, TypeOK, Change, SetReal,
     ownerVars, proxyVars, netVars
<1>2. Places'
  BY DEF IInv, Places, Change, Goto, netVars
<1>3. Mutexes'
  BY DEF IInv, Mutexes, Change, Goto, proxyVars
<1>4. Contents'
  BY DEF IInv, Contents, Change, Goto, netVars
<1>5. Unsent'
  BY DEF IInv, Unsent, Change, Begins, At, Goto
<1>6. OneReply'
  BY DEF IInv, OneReply, Change, Goto, netVars
<1>7. Updates'
  BY DEF IInv, Updates, Clean, Change, SetReal
<1>8. Answers'
  BY DEF IInv, Answers, Clean, Change, SetReal
<1>9. Shown'
  BY DEF IInv, Shown, Clean, Change, SetReal
<1>10. Distinct'
  <2>1. Fresh' = Fresh + 1
    BY DEF IInv, TypeOK, Fresh, Begins, Change
  <2>2. /\ th'["app"] = th["app"] /\ real' = Fresh /\ past' \subseteq past \cup {real}
        /\ Fresh \notin past'
        /\ to_owner' = to_owner /\ stale' = stale
        /\ past \cup {real} \subseteq past' \cup {Fresh}
      
  BY DEF IInv, Goto, Change, SetReal, proxyVars, netVars
  <2> QED BY <2>1, <2>2, Numbers DEF IInv, Distinct
<1>11. Unsubscribed'
  BY DEF IInv, Unsubscribed, Change, Goto, proxyVars, netVars
<1>12. SetAhead'
  <2>1. real' = Fresh /\ stale' = stale
    BY DEF Change, SetReal, proxyVars
  <2>2. Fresh \notin stale
    BY Numbers DEF IInv, Distinct
  <2> QED BY <2>1, <2>2 DEF SetAhead
<1>13. NotStale'
  BY DEF IInv, NotStale, Change, Goto, proxyVars, netVars
<1> QED BY <1>1, <1>2, <1>3, <1>4, <1>5, <1>6, <1>7, <1>8, <1>9, <1>10, <1>11,
   <1>12, <1>13 DEF IInv

(* updated serializes the value the property has now, which makes this     *)
(* update the newest.                                                      *)
LEMMA UpdatedSerializeKeeps ==
  ASSUME IInv, NEW t \in {"owner_app", "owner_worker"}, UpdatedSerialize(t), uses' = uses
  PROVE  IInv'
<1>a. /\ th[t].pc = "notify" /\ registered /\ told' = TRUE
      /\ unsent' = Append(unsent, [by |-> t, val |-> real])
      /\ th' = [th EXCEPT ![t] = [pc |-> "updated", val |-> real]]
      /\ UNCHANGED <<real, past, registered, cache, flag, update_in_process,
                    listening, heard, stale, to_owner, wire, package_queue,
                    reply, holder, ops, races, uses>>
  BY DEF UpdatedSerialize, At, Goto, proxyVars, netVars
<1>b. [by |-> t, val |-> real] \in [by : {"owner_app", "owner_worker"}, val : Value]
  BY DEF IInv, TypeOK
<1>c. /\ DOMAIN unsent' = DOMAIN unsent \cup {Len(unsent) + 1} /\ unsent' # <<>>
      /\ unsent'[Len(unsent) + 1] = [by |-> t, val |-> real]
      /\ \A i \in DOMAIN unsent :
             unsent'[i] = unsent[i] /\ i \in Int /\ i < Len(unsent) + 1
      /\ Len(unsent') = Len(unsent) + 1
      /\ unsent' \in Seq([by : {"owner_app", "owner_worker"}, val : Value])
  <2>1. unsent \in Seq([by : {"owner_app", "owner_worker"}, val : Value])
    BY DEF IInv, TypeOK
  <2> QED BY <1>a, <1>b, <2>1
<1>d. /\ th'[t].pc = "updated" /\ th'[t].val = real
      /\ \A u \in Thread : u # t => th'[u] = th[u]
  BY <1>a DEF IInv, TypeOK
<1>1. TypeOK'
  <2>1. [pc |-> "updated", val |-> real] \in ThreadState
    BY DEF IInv, TypeOK, ThreadState, PC
  <2>2. th' \in [Thread -> ThreadState]
    BY <1>a, <2>1 DEF IInv, TypeOK
  <2> QED BY <1>a, <1>c, <1>d, <2>2 DEF IInv, TypeOK
<1>2. Places'
  BY <1>a, <1>c, <1>d DEF IInv, Places
<1>3. Mutexes'
  BY <1>a, <1>c, <1>d DEF IInv, Mutexes
<1>4. Contents'
  BY <1>a, <1>c, <1>d DEF IInv, Contents
<1>5. Unsent'
  <2>1. \A i \in DOMAIN unsent : unsent[i].by # t /\ unsent[i].by \in Thread
    BY <1>a, UnsentBy DEF IInv, Unsent
  <2>2. unsent'[Len(unsent) + 1].by = t /\ unsent'[Len(unsent) + 1].val = real
    BY <1>c
  <2> QED BY <1>c, <1>d, <2>1, <2>2 DEF IInv, Unsent
<1>6. OneReply'
  BY <1>a, <1>c, <1>d DEF IInv, OneReply
<1>7. Updates'
  BY <1>a, <1>c, <1>d DEF IInv, Updates, Flowing
<1>8. Answers'
  BY <1>a, <1>c, <1>d DEF IInv, Answers, Flowing
<1>9. Shown'
  BY <1>a, <1>c, <1>d DEF IInv, Shown, Flowing
<1>10. Distinct'
  BY <1>a, <1>c, <1>d DEF IInv, Distinct, Fresh
<1>11. Unsubscribed'
  BY <1>a, <1>c, <1>d DEF IInv, Unsubscribed
<1>12. SetAhead'
  BY <1>a, <1>c, <1>d DEF IInv, SetAhead
<1>13. NotStale'
  BY <1>a, <1>c, <1>d DEF IInv, NotStale
<1> QED BY <1>1, <1>2, <1>3, <1>4, <1>5, <1>6, <1>7, <1>8, <1>9, <1>10, <1>11,
   <1>12, <1>13 DEF IInv

(* updated writes what it serialized. What another thread serialized after *)
(* it and has not written stays newer; what was serialized before it and   *)
(* not yet written is the third race.                                      *)
LEMMA UpdatedWriteKeeps ==
  ASSUME IInv, NEW t \in {"owner_app", "owner_worker"}, UpdatedWrite(t), uses' = uses
  PROVE  IInv'
<1> DEFINE e == Msg("update", th[t].val)
<1>a. /\ wire \in Seq(Package) /\ wire' = Append(wire, e) /\ e \in Package
      /\ e.kind = "update" /\ e.val = th[t].val /\ e.val \in Value
      /\ th[t].pc = "updated"
  BY DEF UpdatedWrite, At, IInv, TypeOK, Contents, Msg, Package
<1>b. \A k \in {"update", "reply"} : Has(wire', k) <=> Has(wire, k) \/ e.kind = k
  BY <1>a, HasAppend
<1>c. /\ DOMAIN wire' = DOMAIN wire \cup {Len(wire) + 1} /\ wire'[Len(wire) + 1] = e
      /\ \A i \in DOMAIN wire : wire'[i] = wire[i] /\ i \in Int /\ i < Len(wire) + 1
      /\ Len(wire) \in Nat
  BY <1>a
<1>d. wire' \in Seq(Package)
  BY <1>a
<1>e. OnlyOne(wire', "reply") /\ \A v : v = e.val => Newest(wire', v)
  BY <1>a, OnlyOneAppend, NewestAppend DEF IInv, OneReply
<1>f. /\ th' = [th EXCEPT ![t] = [pc |-> "idle", val |-> NoValue]]
      /\ UNCHANGED <<real, past, registered, told, cache, flag,
                    update_in_process, listening, heard, stale, to_owner,
                    package_queue, reply, ops, uses>>
  BY DEF UpdatedWrite, Goto, proxyVars
<1>g. /\ th'[t].pc = "idle"
      /\ \A u \in Thread : u # t => th'[u] = th[u]
  BY <1>f DEF IInv, TypeOK
<1>h. PICK n \in DOMAIN unsent : unsent[n].by = t
  BY <1>a DEF IInv, Unsent
<1> DEFINE S == [by : {"owner_app", "owner_worker"}, val : Value]
<1>i. unsent \in Seq(S) /\ unsent # <<>>
  BY <1>h DEF IInv, TypeOK
<1> HIDE DEF S
<1>j. /\ Head(unsent) = unsent[1] /\ 1 \in DOMAIN unsent /\ unsent[1] \in S
      /\ Len(unsent) \in Nat /\ DOMAIN unsent = 1 .. Len(unsent)
      /\ Tail(unsent) \in Seq(S) /\ <<unsent[1]>> \in Seq(S)
  BY <1>i
<1>k. \/ /\ unsent[1].by = t /\ unsent' = Tail(unsent) /\ unsent[1].val = th[t].val
         /\ races' = races
      \/ unsent[1].by # t /\ unsent' = <<unsent[1]>> /\ races' # {}
  <2>1. th[unsent[1].by].val = unsent[1].val
    BY <1>j DEF IInv, Unsent
  <2>2. CASE unsent[1].by = t
    BY <1>j, <2>1, <2>2 DEF UpdatedWrite, Without
  <2>3. CASE unsent[1].by # t
    BY <1>j, <2>3 DEF UpdatedWrite, Without
  <2> QED BY <2>2, <2>3
<1>l. unsent' \in Seq([by : {"owner_app", "owner_worker"}, val : Value])
  BY <1>j, <1>k DEF S
<1>m. unsent' = Tail(unsent) =>
        /\ Len(unsent') = Len(unsent) - 1
        /\ \A i \in DOMAIN unsent' :
               i \in Int /\ i + 1 \in DOMAIN unsent /\ unsent'[i] = unsent[i + 1]
        /\ \A i \in DOMAIN unsent :
               i \in Int /\ (i # 1 => i - 1 \in DOMAIN unsent' /\ unsent'[i - 1] = unsent[i])
  BY <1>i
<1>1. TypeOK'
  <2>1. th' \in [Thread -> ThreadState]
    BY <1>f DEF IInv, TypeOK, ThreadState, PC
  <2>2. holder' \in [Mutex -> Thread \cup {Nobody}]
    BY DEF UpdatedWrite, EndsChange, Unlock, IInv, TypeOK
  <2>3. races' \subseteq Race
    BY DEF UpdatedWrite, IInv, TypeOK
  <2>4. th'["app"] = th["app"]
    BY <1>g
  <2> QED BY <1>d, <1>f, <1>l, <2>1, <2>2, <2>3, <2>4 DEF IInv, TypeOK
<1>2. Places'
  BY <1>a, <1>b, <1>c, <1>d, <1>e, <1>f, <1>g, <1>k DEF IInv, Places
<1>3. Mutexes'
  BY <1>a, <1>f, <1>g DEF IInv, Mutexes, UpdatedWrite, EndsChange, Unlock
<1>4. Contents'
  BY <1>a, <1>b, <1>c, <1>d, <1>e, <1>f, <1>g, <1>k DEF IInv, Contents
<1>5. Unsent'
  <2>1. CASE unsent[1].by = t /\ unsent' = Tail(unsent)
    <3>1. \A i \in DOMAIN unsent' : unsent'[i].by # t /\ unsent'[i].by \in Thread
      <4> TAKE i \in DOMAIN unsent'
      <4>1. i \in Int /\ i + 1 \in DOMAIN unsent /\ unsent'[i] = unsent[i + 1] /\ i # 0
        BY <1>m, <1>j, <2>1, <1>l
      <4>2. unsent[i + 1].by # unsent[1].by
        BY <1>j, <4>1 DEF IInv, Unsent
      <4> QED BY <2>1, <4>1, <4>2, UnsentBy
    <3>2. (\A i \in DOMAIN unsent : LET u == unsent[i].by IN
             th[u].pc = "updated" /\ th[u].val = unsent[i].val)'
      BY <1>g, <1>m, <2>1, <3>1 DEF IInv, Unsent
    <3>3. (\A i, j \in DOMAIN unsent : unsent[i].by = unsent[j].by => i = j)'
      BY <1>m, <2>1 DEF IInv, Unsent
    <3>4. ASSUME NEW u \in {"owner_app", "owner_worker"}, th'[u].pc = "updated"
          PROVE  \E i \in DOMAIN unsent' : unsent'[i].by = u
      <4>1. u # t /\ th[u].pc = "updated"
        BY <1>g, <3>4
      <4>2. PICK i \in DOMAIN unsent : unsent[i].by = u
        BY <4>1 DEF IInv, Unsent
      <4>3. i - 1 \in DOMAIN unsent' /\ unsent'[i - 1].by = u
        BY <1>m, <2>1, <4>1, <4>2
      <4> QED BY <4>3
    <3> QED BY <3>2, <3>3, <3>4 DEF Unsent
  <2>2. CASE unsent[1].by # t /\ unsent' = <<unsent[1]>>
    <3>1. DOMAIN unsent' = {1} /\ unsent'[1] = unsent[1]
      BY <2>2
    <3>2. unsent[1].by \in {"owner_app", "owner_worker"}
      BY <1>j, UnsentBy
    <3> QED BY <1>g, <1>j, <2>2, <3>1, <3>2 DEF IInv, Unsent
  <2> QED BY <1>k, <2>1, <2>2
<1>6. OneReply'
  BY <1>a, <1>b, <1>c, <1>d, <1>e, <1>f, <1>g, <1>k DEF IInv, OneReply
<1>7. Updates'
  <2>1. CASE races' # {}
    BY <2>1 DEF Updates, Clean
  <2>2. CASE races' = {} /\ Len(unsent) = 1
    <3>1. unsent' = <<>> /\ races = {} /\ unsent[1].val = th[t].val
      BY <1>i, <1>k, <1>m, <2>2, <1>l
    <3>2. Has(wire', "update")
      BY <1>a, <1>b
    <3> QED BY <1>a, <1>e, <1>f, <1>i, <2>2, <3>1, <3>2 DEF IInv, Updates,
       Clean, Flowing
  <2>3. CASE races' = {} /\ Len(unsent) # 1
    <3>1. unsent' = Tail(unsent) /\ races = {}
      BY <1>k, <2>3
    <3>2. /\ Len(unsent) - 1 \in DOMAIN unsent'
          /\ unsent'[Len(unsent')] = unsent[Len(unsent)]
      BY <1>i, <1>j, <1>m, <2>3, <3>1
    <3>3. unsent' # <<>>
      BY <3>2
    <3> QED BY <1>f, <1>i, <2>3, <3>1, <3>2, <3>3 DEF IInv, Updates, Clean,
       Flowing
  <2> QED BY <2>1, <2>2, <2>3
<1>8. Answers'
  <2>1. Has(wire', "update")
    BY <1>a, <1>b
  <2> QED BY <2>1 DEF Answers, Flowing
<1>9. Shown'
  <2>1. Has(wire', "update")
    BY <1>a, <1>b
  <2> QED BY <2>1 DEF Shown, Flowing
<1>10. Distinct'
  BY <1>a, <1>b, <1>c, <1>d, <1>e, <1>f, <1>g, <1>k DEF IInv, Distinct, Fresh
<1>11. Unsubscribed'
  BY <1>h, <1>f DEF IInv, Unsubscribed
<1>12. SetAhead'
  BY <1>a, <1>b, <1>c, <1>d, <1>e, <1>f, <1>g, <1>k DEF IInv, SetAhead
<1>13. NotStale'
  BY <1>a, <1>b, <1>c, <1>d, <1>e, <1>f, <1>g, <1>k DEF IInv, NotStale
<1> QED BY <1>1, <1>2, <1>3, <1>4, <1>5, <1>6, <1>7, <1>8, <1>9, <1>10, <1>11,
   <1>12, <1>13 DEF IInv

(* A change nobody is subscribed to ends the notification.                 *)
LEMMA NotifyNobodyKeeps ==
  ASSUME IInv, NEW t \in {"owner_app", "owner_worker"}, NotifyNobody(t), uses' = uses
  PROVE  IInv'
<1>1. TypeOK'
  <2>1. th' \in [Thread -> ThreadState]
    BY DEF IInv, TypeOK, ThreadState, PC, NotifyNobody, Goto
  <2>2. holder' \in [Mutex -> Thread \cup {Nobody}]
    BY DEF IInv, TypeOK, NotifyNobody, EndsChange, Unlock
  <2>4. th'["app"]= th["app"]
    BY DEF IInv, NotifyNobody, Goto
  <2> QED BY <2>1, <2>2, <2>4 DEF IInv, TypeOK, NotifyNobody, ownerVars,
     proxyVars, netVars
<1>2. Places'
  BY DEF IInv, Places, NotifyNobody, Goto, netVars
<1>3. Mutexes'
  BY DEF IInv, TypeOK, Mutexes, NotifyNobody, Goto, EndsChange, Unlock,
     proxyVars
<1>4. Contents'
  BY DEF IInv, Contents, NotifyNobody, Goto, netVars
<1>5. Unsent'
  BY DEF IInv, Unsent, NotifyNobody, At, Goto, ownerVars
<1>6. OneReply'
  BY DEF IInv, OneReply, NotifyNobody, Goto, netVars
<1>7. Updates'
  BY DEF IInv, Updates, Clean, Flowing, NotifyNobody, Goto, ownerVars, netVars
<1>8. Answers'
  BY DEF IInv, Answers, Clean, Flowing, NotifyNobody, Goto, ownerVars, netVars
<1>9. Shown'
  BY DEF IInv, Shown, Clean, Flowing, Setting, NotifyNobody, Goto, ownerVars,
     proxyVars, netVars
<1>10. Distinct'
  BY DEF IInv, Distinct, Fresh, NotifyNobody, Goto, ownerVars, proxyVars,
     netVars
<1>11. Unsubscribed'
  BY DEF IInv, Unsubscribed, NotifyNobody, Goto, ownerVars, proxyVars, netVars
<1>12. SetAhead'
  BY DEF IInv, SetAhead, NotifyNobody, ownerVars, proxyVars, netVars
<1>13. NotStale'
  BY DEF IInv, NotStale, NotifyNobody, Goto, proxyVars, netVars
<1> QED BY <1>1, <1>2, <1>3, <1>4, <1>5, <1>6, <1>7, <1>8, <1>9, <1>10, <1>11,
   <1>12, <1>13 DEF IInv

(* The owner's worker sets the property to what the proxy asked for, a     *)
(* value set nowhere before.                                               *)
LEMMA CmdPropValueKeeps ==
  ASSUME IInv, CmdPropValue, uses' = uses
  PROVE  IInv'
<1>a. /\ to_owner \in Seq(Package) /\ to_owner # <<>> /\ to_owner' = Tail(to_owner)
      /\ Head(to_owner).kind = "set" /\ th["owner_worker"].pc = "idle"
      /\ th' = [th EXCEPT !["owner_worker"] = [pc |-> "notify", val |-> NoValue]]
      /\ real' = Head(to_owner).val /\ past' = (past \cup {real}) \ {Head(to_owner).val}
      /\ told' = FALSE
      /\ UNCHANGED <<registered, unsent, cache, flag, update_in_process,
                    listening, heard, stale, wire, package_queue, reply,
                    ops, races, uses>>
  BY DEF CmdPropValue, Pop, At, Goto, SetReal, IInv, TypeOK, proxyVars
<1>b. \A k \in {"set", "get", "subscribe", "unsubscribe"} :
          Has(to_owner, k) <=> Has(to_owner', k) \/ Head(to_owner).kind = k
  BY <1>a, HasTail
<1>c. \A i \in DOMAIN to_owner' :
          i \in Int /\ i + 1 \in DOMAIN to_owner /\ to_owner'[i] = to_owner[i + 1]
  BY <1>a
<1>d. /\ 1 \in DOMAIN to_owner /\ Head(to_owner) = to_owner[1]
      /\ to_owner' \in Seq(Package)
      /\ Head(to_owner) \in Package
      /\ \A i \in DOMAIN to_owner :
             i \in Int /\ (i # 1 => i - 1 \in DOMAIN to_owner' /\ to_owner'[i - 1] = to_owner[i])
  BY <1>a
<1>e. OnlyOne(to_owner', "get") /\ (Head(to_owner).kind = "get" => ~Has(to_owner', "get"))
  BY <1>a, OnlyOneTail DEF IInv, OneReply
<1>f. /\ th'["owner_worker"] = [pc |-> "notify", val |-> NoValue]
      /\ \A u \in Thread : u # "owner_worker" => th'[u] = th[u]
  BY <1>a DEF IInv, TypeOK
<1>1. TypeOK'
  <2>1. th' \in [Thread -> ThreadState]
    BY <1>a DEF IInv, TypeOK, ThreadState, PC
  <2>2. Head(to_owner).kind = "set" => Head(to_owner).val \in Value
    BY <1>d DEF IInv, Contents
  <2>3. holder' \in [Mutex -> Thread \cup {Nobody}]
    BY DEF CmdPropValue, Lock, IInv, TypeOK
  <2> QED BY <1>a, <1>d, <1>f, <2>1, <2>2, <2>3 DEF IInv, TypeOK
<1>2. Places'
  BY <1>a, <1>b, <1>c, <1>d, <1>e, <1>f DEF IInv, Places
<1>3. Mutexes'
  BY <1>a, <1>f DEF IInv, Mutexes, CmdPropValue, Lock
<1>4. Contents'
  BY <1>a, <1>b, <1>c, <1>d, <1>e, <1>f DEF IInv, Contents
<1>5. Unsent'
  BY <1>a, <1>b, <1>c, <1>d, <1>e, <1>f DEF IInv, Unsent
<1>6. OneReply'
  BY <1>a, <1>b, <1>c, <1>d, <1>e, <1>f DEF IInv, OneReply
<1>7. Updates'
  BY <1>a, <1>b, <1>c, <1>d, <1>e, <1>f DEF IInv, Updates, Clean
<1>8. Answers'
  BY <1>a, <1>b, <1>c, <1>d, <1>e, <1>f DEF IInv, Answers, Clean
<1>9. Shown'
  BY <1>a, <1>b, <1>c, <1>d, <1>e, <1>f DEF IInv, Shown, Clean
<1>10. Distinct'
  <2>1. Fresh' = Fresh
    BY <1>a DEF Fresh
  <2>2. /\ real' = to_owner[1].val /\ to_owner[1].kind = "set"
        /\ to_owner[1].val \notin past \cup {real}
    BY <1>a, <1>d DEF IInv, Distinct
  <2>3. past' = past \cup {real}
    BY <1>a, <1>d, <2>2
  <2>4. \A i \in DOMAIN to_owner' : /\ i + 1 \in DOMAIN to_owner /\ i + 1 # 1
                                    /\ to_owner'[i] = to_owner[i + 1] /\ i \in Int
    BY <1>c, <1>d
  <2>5. \A i \in DOMAIN to_owner' : to_owner'[i].kind = "set" =>
          to_owner'[i].val \notin past' \cup {real'} /\ to_owner'[i].val < Fresh
    BY <1>d, <2>2, <2>3, <2>4 DEF IInv, Distinct
  <2>6. (\A i, j \in DOMAIN to_owner :
          /\ to_owner[i].kind = "set" /\ to_owner[j].kind = "set"
          /\ to_owner[i].val = to_owner[j].val
          => i = j)'
    BY <2>4 DEF IInv, Distinct
  <2>7. \A v \in past' \cup {real'} : v < Fresh
    BY <1>d, <2>2, <2>3 DEF IInv, Distinct
  <2> QED BY <1>a, <1>d, <1>f, <2>1, <2>2, <2>3, <2>4, <2>5, <2>6, <2>7 DEF
     IInv, Distinct
<1>11. Unsubscribed'
  BY <1>a, <1>b, <1>c, <1>d, <1>e, <1>f DEF IInv, Unsubscribed
<1>12. SetAhead'
  BY <1>a, <1>b, <1>c, <1>d, <1>e, <1>f DEF IInv, Distinct, SetAhead
<1>13. NotStale'
  BY <1>a, <1>b, <1>c, <1>d, <1>e, <1>f DEF IInv, NotStale
<1> QED BY <1>1, <1>2, <1>3, <1>4, <1>5, <1>6, <1>7, <1>8, <1>9, <1>10, <1>11,
   <1>12, <1>13 DEF IInv

(* The owner's worker takes a get and serializes the value for its reply.  *)
LEMMA CmdGetPropKeeps ==
  ASSUME IInv, CmdGetProp, uses' = uses
  PROVE  IInv'
<1>a. /\ to_owner \in Seq(Package) /\ to_owner # <<>> /\ to_owner' = Tail(to_owner)
      /\ Head(to_owner).kind = "get" /\ th["owner_worker"].pc = "idle"
      /\ th' = [th EXCEPT !["owner_worker"] = [pc |-> "reply", val |-> real]]
      /\ UNCHANGED <<real, past, registered, unsent, told, cache, flag,
                    update_in_process, listening, heard, stale, wire,
                    package_queue, reply, holder, ops, races, uses>>
  BY DEF CmdGetProp, Pop, At, Goto, IInv, TypeOK, ownerVars, proxyVars
<1>b. \A k \in {"set", "get", "subscribe", "unsubscribe"} :
          Has(to_owner, k) <=> Has(to_owner', k) \/ Head(to_owner).kind = k
  BY <1>a, HasTail
<1>c. \A i \in DOMAIN to_owner' :
          i \in Int /\ i + 1 \in DOMAIN to_owner /\ to_owner'[i] = to_owner[i + 1]
  BY <1>a
<1>d. /\ 1 \in DOMAIN to_owner /\ Head(to_owner) = to_owner[1]
      /\ to_owner' \in Seq(Package)
      /\ Head(to_owner) \in Package
      /\ \A i \in DOMAIN to_owner :
             i \in Int /\ (i # 1 => i - 1 \in DOMAIN to_owner' /\ to_owner'[i - 1] = to_owner[i])
  BY <1>a
<1>e. OnlyOne(to_owner', "get") /\ (Head(to_owner).kind = "get" => ~Has(to_owner', "get"))
  BY <1>a, OnlyOneTail DEF IInv, OneReply
<1>f. /\ th'["owner_worker"] = [pc |-> "reply", val |-> real]
      /\ \A u \in Thread : u # "owner_worker" => th'[u] = th[u]
  BY <1>a DEF IInv, TypeOK
<1>1. TypeOK'
  <2>1. th' \in [Thread -> ThreadState]
    BY <1>a DEF IInv, TypeOK, ThreadState, PC
  <2>2. Head(to_owner).kind = "set" => Head(to_owner).val \in Value
    BY <1>d DEF IInv, Contents
  <2> QED BY <1>a, <1>d, <1>f, <2>1, <2>2 DEF IInv, TypeOK
<1>2. Places'
  BY <1>a, <1>b, <1>c, <1>d, <1>e, <1>f DEF IInv, Places
<1>3. Mutexes'
  BY <1>a, <1>b, <1>c, <1>d, <1>e, <1>f DEF IInv, Mutexes
<1>4. Contents'
  BY <1>a, <1>b, <1>c, <1>d, <1>e, <1>f DEF IInv, TypeOK, Contents
<1>5. Unsent'
  BY <1>a, <1>b, <1>c, <1>d, <1>e, <1>f DEF IInv, Unsent
<1>6. OneReply'
  BY <1>a, <1>b, <1>c, <1>d, <1>e, <1>f DEF IInv, OneReply
<1>7. Updates'
  BY <1>a, <1>b, <1>c, <1>d, <1>e, <1>f DEF IInv, Updates, Clean, Flowing
<1>8. Answers'
  BY <1>a, <1>b, <1>c, <1>d, <1>e, <1>f DEF IInv, Answers, Clean, Flowing
<1>9. Shown'
  BY <1>a, <1>b, <1>c, <1>d, <1>e, <1>f DEF IInv, Shown, Clean, Flowing,
     Setting
<1>10. Distinct'
  BY <1>a, <1>b, <1>c, <1>d, <1>e, <1>f DEF IInv, Distinct, Fresh
<1>11. Unsubscribed'
  BY <1>a, <1>b, <1>c, <1>d, <1>e, <1>f DEF IInv, Unsubscribed
<1>12. SetAhead'
  BY <1>a, <1>b, <1>c, <1>d, <1>e, <1>f DEF IInv, SetAhead
<1>13. NotStale'
  BY <1>a, <1>b, <1>c, <1>d, <1>e, <1>f DEF IInv, SetAhead, NotStale
<1> QED BY <1>1, <1>2, <1>3, <1>4, <1>5, <1>6, <1>7, <1>8, <1>9, <1>10, <1>11,
   <1>12, <1>13 DEF IInv

(* The reply is written; the property changed since only if an update      *)
(* follows.                                                                *)
LEMMA CmdGetPropRepliesKeeps ==
  ASSUME IInv, CmdGetPropReplies, uses' = uses
  PROVE  IInv'
<1> DEFINE e == Msg("reply", th["owner_worker"].val)
<1>a. /\ wire \in Seq(Package) /\ wire' = Append(wire, e) /\ e \in Package
      /\ e.kind = "reply" /\ e.val = th["owner_worker"].val /\ e.val \in Value
      /\ th["owner_worker"].pc = "reply"
      /\ th' = [th EXCEPT !["owner_worker"] = [pc |-> "idle", val |-> NoValue]]
      /\ UNCHANGED <<real, past, registered, unsent, told, cache, flag,
                    update_in_process, listening, heard, stale, to_owner,
                    package_queue, reply, holder, ops, races, uses>>
  BY DEF CmdGetPropReplies, At, Goto, IInv, TypeOK, Contents, Msg, Package,
     ownerVars, proxyVars
<1>b. \A k \in {"update", "reply"} : Has(wire', k) <=> Has(wire, k) \/ e.kind = k
  BY <1>a, HasAppend
<1>c. /\ DOMAIN wire' = DOMAIN wire \cup {Len(wire) + 1} /\ wire'[Len(wire) + 1] = e
      /\ \A i \in DOMAIN wire : wire'[i] = wire[i] /\ i \in Int /\ i < Len(wire) + 1
      /\ Len(wire) \in Nat
  BY <1>a
<1>d. wire' \in Seq(Package)
  BY <1>a
<1>e. ~Has(wire, "reply")
  BY <1>a DEF IInv, OneReply
<1>f. OnlyOne(wire', "reply") /\ (\A v : Newest(wire, v) => Newest(wire', v))
  BY <1>a, <1>e, OnlyOneAppend, NewestAppend DEF IInv, OneReply
<1>g. /\ th'["owner_worker"] = [pc |-> "idle", val |-> NoValue]
      /\ \A u \in Thread : u # "owner_worker" => th'[u] = th[u]
  BY <1>a DEF IInv, TypeOK
<1>1. TypeOK'
  <2>1. th' \in [Thread -> ThreadState]
    BY <1>a DEF IInv, TypeOK, ThreadState, PC
  <2> QED BY <1>a, <1>d, <1>g, <2>1 DEF IInv, TypeOK
<1>2. Places'
  BY <1>a, <1>b, <1>c, <1>d, <1>f, <1>g DEF IInv, Places
<1>3. Mutexes'
  BY <1>a, <1>b, <1>c, <1>d, <1>f, <1>g DEF IInv, Mutexes
<1>4. Contents'
  BY <1>a, <1>b, <1>c, <1>d, <1>f, <1>g DEF IInv, Contents
<1>5. Unsent'
  BY <1>a, <1>b, <1>c, <1>d, <1>f, <1>g DEF IInv, Unsent
<1>6. OneReply'
  BY <1>a, <1>b, <1>c, <1>d, <1>f, <1>g DEF IInv, OneReply
<1>7. Updates'
  BY <1>a, <1>b, <1>c, <1>d, <1>f, <1>g DEF IInv, Updates, Clean, Flowing
<1>8. Answers'
  BY <1>a, <1>b, <1>c, <1>d, <1>f, <1>g DEF IInv, Answers, Clean, Flowing
<1>9. Shown'
  BY <1>a, <1>b, <1>c, <1>d, <1>f, <1>g DEF IInv, Shown, Clean, Flowing,
     Setting
<1>10. Distinct'
  BY <1>a, <1>b, <1>c, <1>d, <1>f, <1>g DEF IInv, Distinct, Fresh
<1>11. Unsubscribed'
  BY <1>a, <1>b, <1>c, <1>d, <1>f, <1>g DEF IInv, Unsubscribed
<1>12. SetAhead'
  BY <1>a, <1>b, <1>c, <1>d, <1>f, <1>g DEF IInv, SetAhead
<1>13. NotStale'
  BY <1>a, <1>b, <1>c, <1>d, <1>f, <1>g DEF IInv, NotStale
<1> QED BY <1>1, <1>2, <1>3, <1>4, <1>5, <1>6, <1>7, <1>8, <1>9, <1>10, <1>11,
   <1>12, <1>13 DEF IInv

(* The owner's worker adds or removes its node_sync as a listener.         *)
LEMMA CmdSubscribeKeeps ==
  ASSUME IInv, NEW erase \in BOOLEAN, CmdSubscribe(erase), uses' = uses
  PROVE  IInv'
<1>a. /\ to_owner \in Seq(Package) /\ to_owner # <<>> /\ to_owner' = Tail(to_owner)
      /\ Head(to_owner).kind \in {"subscribe", "unsubscribe"} /\ th["owner_worker"].pc = "idle"
      /\ registered' \in BOOLEAN /\ (registered' => Head(to_owner).kind = "subscribe")
      /\ UNCHANGED <<real, past, unsent, told, cache, flag,
                    update_in_process, listening, heard, stale, wire,
                    package_queue, reply, holder, th, ops, races, uses>>
  BY DEF CmdSubscribe, Pop, At, IInv, TypeOK, ownerVars, proxyVars, netVars
<1>b. \A k \in {"set", "get", "subscribe", "unsubscribe"} :
          Has(to_owner, k) <=> Has(to_owner', k) \/ Head(to_owner).kind = k
  BY <1>a, HasTail
<1>c. \A i \in DOMAIN to_owner' :
          i \in Int /\ i + 1 \in DOMAIN to_owner /\ to_owner'[i] = to_owner[i + 1]
  BY <1>a
<1>d. /\ 1 \in DOMAIN to_owner /\ Head(to_owner) = to_owner[1]
      /\ to_owner' \in Seq(Package)
      /\ Head(to_owner) \in Package
      /\ \A i \in DOMAIN to_owner :
             i \in Int /\ (i # 1 => i - 1 \in DOMAIN to_owner' /\ to_owner'[i - 1] = to_owner[i])
  BY <1>a
<1>e. OnlyOne(to_owner', "get") /\ (Head(to_owner).kind = "get" => ~Has(to_owner', "get"))
  BY <1>a, OnlyOneTail DEF IInv, OneReply
<1>1. TypeOK'
  BY <1>a, <1>b, <1>c, <1>d, <1>e DEF IInv, TypeOK
<1>2. Places'
  BY <1>a, <1>b, <1>c, <1>d, <1>e DEF IInv, Places
<1>3. Mutexes'
  BY <1>a, <1>b, <1>c, <1>d, <1>e DEF IInv, Mutexes
<1>4. Contents'
  BY <1>a, <1>b, <1>c, <1>d, <1>e DEF IInv, Contents
<1>5. Unsent'
  BY <1>a, <1>b, <1>c, <1>d, <1>e DEF IInv, Unsent
<1>6. OneReply'
  BY <1>a, <1>b, <1>c, <1>d, <1>e DEF IInv, OneReply
<1>7. Updates'
  BY <1>a, <1>b, <1>c, <1>d, <1>e DEF IInv, Updates, Clean, Flowing
<1>8. Answers'
  BY <1>a, <1>b, <1>c, <1>d, <1>e DEF IInv, Answers, Clean, Flowing
<1>9. Shown'
  BY <1>a, <1>b, <1>c, <1>d, <1>e DEF IInv, Shown, Clean, Flowing, Setting
<1>10. Distinct'
  BY <1>a, <1>b, <1>c, <1>d, <1>e DEF IInv, Distinct, Fresh
<1>11. Unsubscribed'
  BY <1>a, <1>b, <1>c, <1>d, <1>e DEF IInv, Unsubscribed
<1>12. SetAhead'
  <2> SUFFICES ASSUME real \in stale
               PROVE  \E i \in DOMAIN to_owner' :
                        /\ to_owner'[i].kind = "set"
                        /\ \A j \in DOMAIN to_owner' : to_owner'[j].kind = "get" => i < j
    BY <1>a DEF SetAhead
  <2>1. PICK i \in DOMAIN to_owner :
          /\ to_owner[i].kind = "set"
          /\ \A j \in DOMAIN to_owner : to_owner[j].kind = "get" => i < j
    BY DEF IInv, SetAhead
  <2>2. i # 1 /\ i \in Int /\ i - 1 \in DOMAIN to_owner' /\ to_owner'[i - 1].kind = "set"
    BY <1>a, <1>d, <2>1
  <2>3. \A j \in DOMAIN to_owner' : to_owner'[j].kind = "get" => i - 1 < j
    BY <1>c, <2>1, <2>2
  <2> QED BY <2>2, <2>3
<1>13. NotStale'
  BY <1>a, <1>b, <1>c, <1>d, <1>e DEF IInv, NotStale
<1> QED BY <1>1, <1>2, <1>3, <1>4, <1>5, <1>6, <1>7, <1>8, <1>9, <1>10, <1>11,
   <1>12, <1>13 DEF IInv

(* The proxy's application adds a listener and sends the subscription.     *)
LEMMA ListenKeeps ==
  ASSUME IInv, Listen, uses' = uses
  PROVE  IInv'
<1> DEFINE e == Msg("subscribe", NoValue)
<1>a. /\ to_owner \in Seq(Package) /\ to_owner' = Append(to_owner, e) /\ e \in Package
      /\ e.kind = "subscribe" /\ th["app"].pc = "idle" /\ "listen" \in uses
      /\ listening' = TRUE /\ heard' = NoValue /\ ops["app"] < ProxyOps
      /\ ops' = [ops EXCEPT !["app"] = @ + 1]
      /\ UNCHANGED <<real, past, registered, unsent, told, cache, flag,
                    update_in_process, stale, wire, package_queue, reply,
                    holder, th, races, uses>>
  BY DEF Listen, Begins, At, IInv, TypeOK, Msg, Package, ownerVars
<1>b. \A k \in {"set", "get", "subscribe", "unsubscribe"} :
          Has(to_owner', k) <=> Has(to_owner, k) \/ e.kind = k
  BY <1>a, HasAppend
<1>c. /\ DOMAIN to_owner' = DOMAIN to_owner \cup {Len(to_owner) + 1}
      /\ to_owner'[Len(to_owner) + 1] = e
      /\ \A i \in DOMAIN to_owner :
             to_owner'[i] = to_owner[i] /\ i \in Int /\ i < Len(to_owner) + 1
      /\ Len(to_owner) \in Nat
  BY <1>a
<1>d. to_owner' \in Seq(Package)
  BY <1>a
<1>e. OnlyOne(to_owner', "get")
  BY <1>a, OnlyOneAppend DEF IInv, OneReply
<1>f. /\ ops' \in [Application -> Nat] /\ ops'["owner_app"] = ops["owner_app"]
      /\ ops'["app"] = ops["app"] + 1
  BY <1>a DEF IInv, TypeOK
<1>1. TypeOK'
  <2>1. ops'["owner_app"] <= OwnerOps /\ ops'["app"] <= ProxyOps
    BY <1>a, <1>f DEF IInv, TypeOK
  <2> QED BY <1>a, <1>d, <1>f, <2>1 DEF IInv, TypeOK
<1>2. Places'
  BY <1>a, <1>b, <1>c, <1>d, <1>e, <1>f DEF IInv, Places
<1>3. Mutexes'
  BY <1>a, <1>b, <1>c, <1>d, <1>e, <1>f DEF IInv, Mutexes
<1>4. Contents'
  BY <1>a, <1>b, <1>c, <1>d, <1>e, <1>f DEF IInv, Contents
<1>5. Unsent'
  BY <1>a, <1>b, <1>c, <1>d, <1>e, <1>f DEF IInv, Unsent
<1>6. OneReply'
  BY <1>a, <1>b, <1>c, <1>d, <1>e, <1>f DEF IInv, OneReply
<1>7. Updates'
  BY <1>a, <1>b, <1>c, <1>d, <1>e, <1>f DEF IInv, Updates, Clean, Flowing
<1>8. Answers'
  BY <1>a, <1>b, <1>c, <1>d, <1>e, <1>f DEF IInv, Answers, Clean, Flowing
<1>9. Shown'
  BY <1>a, <1>b, <1>c, <1>d, <1>e, <1>f DEF IInv, Shown, Clean, Flowing,
     Setting
<1>10. Distinct'
  <2>1. Fresh' = Fresh + 1
    BY <1>f DEF Fresh, IInv, TypeOK
  <2> QED BY <1>a, <1>c, <2>1, Numbers DEF IInv, Distinct
<1>11. Unsubscribed'
  BY <1>a, <1>b, <1>c, <1>d, <1>e, <1>f DEF IInv, Unsubscribed
<1>12. SetAhead'
  BY <1>a, <1>c DEF IInv, SetAhead
<1>13. NotStale'
  BY <1>a, <1>b, <1>c, <1>d, <1>e, <1>f DEF IInv, NotStale
<1> QED BY <1>1, <1>2, <1>3, <1>4, <1>5, <1>6, <1>7, <1>8, <1>9, <1>10, <1>11,
   <1>12, <1>13 DEF IInv

(* The proxy's application removes its listener.                           *)
LEMMA UnlistenKeeps ==
  ASSUME IInv, Unlisten, uses' = uses
  PROVE  IInv'
<1> DEFINE e == Msg("unsubscribe", NoValue)
<1>a. /\ to_owner \in Seq(Package) /\ to_owner' = Append(to_owner, e) /\ e \in Package
      /\ e.kind = "unsubscribe" /\ th["app"].pc = "idle" /\ "unlisten" \in uses
      /\ listening' = FALSE /\ ops["app"] < ProxyOps
      /\ ops' = [ops EXCEPT !["app"] = @ + 1]
      /\ UNCHANGED <<real, past, registered, unsent, told, cache, flag,
                    update_in_process, heard, stale, wire, package_queue,
                    reply, holder, th, races, uses>>
  BY DEF Unlisten, Begins, At, IInv, TypeOK, Msg, Package, ownerVars
<1>b. \A k \in {"set", "get", "subscribe", "unsubscribe"} :
          Has(to_owner', k) <=> Has(to_owner, k) \/ e.kind = k
  BY <1>a, HasAppend
<1>c. /\ DOMAIN to_owner' = DOMAIN to_owner \cup {Len(to_owner) + 1}
      /\ to_owner'[Len(to_owner) + 1] = e
      /\ \A i \in DOMAIN to_owner :
             to_owner'[i] = to_owner[i] /\ i \in Int /\ i < Len(to_owner) + 1
      /\ Len(to_owner) \in Nat
  BY <1>a
<1>d. to_owner' \in Seq(Package)
  BY <1>a
<1>e. OnlyOne(to_owner', "get")
  BY <1>a, OnlyOneAppend DEF IInv, OneReply
<1>f. /\ ops' \in [Application -> Nat] /\ ops'["owner_app"] = ops["owner_app"]
      /\ ops'["app"] = ops["app"] + 1
  BY <1>a DEF IInv, TypeOK
<1>1. TypeOK'
  <2>1. ops'["owner_app"] <= OwnerOps /\ ops'["app"] <= ProxyOps
    BY <1>a, <1>f DEF IInv, TypeOK
  <2> QED BY <1>a, <1>d, <1>f, <2>1 DEF IInv, TypeOK
<1>2. Places'
  BY <1>a, <1>b, <1>c, <1>d, <1>e, <1>f DEF IInv, Places
<1>3. Mutexes'
  BY <1>a, <1>b, <1>c, <1>d, <1>e, <1>f DEF IInv, Mutexes
<1>4. Contents'
  BY <1>a, <1>b, <1>c, <1>d, <1>e, <1>f DEF IInv, Contents
<1>5. Unsent'
  BY <1>a, <1>b, <1>c, <1>d, <1>e, <1>f DEF IInv, Unsent
<1>6. OneReply'
  BY <1>a, <1>b, <1>c, <1>d, <1>e, <1>f DEF IInv, OneReply
<1>7. Updates'
  BY <1>a, <1>b, <1>c, <1>d, <1>e, <1>f DEF IInv, Updates, Clean, Flowing
<1>8. Answers'
  BY <1>a, <1>b, <1>c, <1>d, <1>e, <1>f DEF IInv, Answers, Clean, Flowing
<1>9. Shown'
  BY <1>a, <1>b, <1>c, <1>d, <1>e, <1>f DEF IInv, Shown, Clean, Flowing,
     Setting
<1>10. Distinct'
  <2>1. Fresh' = Fresh + 1
    BY <1>f DEF Fresh, IInv, TypeOK
  <2> QED BY <1>a, <1>c, <2>1, Numbers DEF IInv, Distinct
<1>11. Unsubscribed'
  BY <1>a, <1>b, <1>c, <1>d, <1>e, <1>f DEF IInv, Unsubscribed
<1>12. SetAhead'
  BY <1>a, <1>c DEF IInv, SetAhead
<1>13. NotStale'
  BY <1>a, <1>b, <1>c, <1>d, <1>e, <1>f DEF IInv, NotStale
<1> QED BY <1>1, <1>2, <1>3, <1>4, <1>5, <1>6, <1>7, <1>8, <1>9, <1>10, <1>11,
   <1>12, <1>13 DEF IInv

(* set_value of the proxy writes a new value to the copy.                  *)
LEMMA SetValueKeeps ==
  ASSUME IInv, SetValue, uses' = uses
  PROVE  IInv'
<1>1. TypeOK'
  <2>2. /\ ops' \in [Application -> Nat] /\ ops'["owner_app"] <= OwnerOps
        /\ ops'["app"] <= ProxyOps
    BY DEF IInv, TypeOK, Begins, SetValue
  <2>3. Fresh \in Value
    BY DEF IInv, TypeOK, Begins, Fresh, Value, SetValue
  <2>1. th' \in [Thread -> ThreadState]
    BY <2>3 DEF IInv, TypeOK, ThreadState, PC, SetValue, Goto
  <2>4. th'["app"].pc # "wait"
    BY DEF IInv, TypeOK, SetValue, Goto
  <2> QED BY <2>1, <2>2, <2>3, <2>4 DEF IInv, TypeOK, At, Begins, SetValue,
     ownerVars, netVars
<1>2. Places'
  BY DEF IInv, Places, SetValue, Goto, netVars
<1>3. Mutexes'
  BY DEF IInv, Mutexes, Updating, SetValue, Begins, At, Goto
<1>4. Contents'
  <2>1. Fresh \in Value
    BY DEF IInv, TypeOK, Begins, Fresh, Value, SetValue
  <2> QED BY <2>1 DEF IInv, Contents, SetValue, Goto, netVars
<1>5. Unsent'
  BY DEF IInv, Unsent, SetValue, Begins, At, Goto, ownerVars
<1>6. OneReply'
  BY DEF IInv, OneReply, SetValue, Begins, At, Goto, netVars
<1>7. Updates'
  BY DEF IInv, Updates, Clean, Flowing, SetValue, Goto, ownerVars, netVars
<1>8. Answers'
  BY DEF IInv, Answers, Clean, Flowing, SetValue, Goto, ownerVars, netVars
<1>9. Shown'
  BY DEF IInv, TypeOK, Shown, Setting, SetValue, Goto
<1>10. Distinct'
  <2>1. Fresh' = Fresh + 1
    BY DEF IInv, TypeOK, Fresh, Begins, SetValue
  <2>2. th'["app"] = [pc |-> "request_set", val |-> Fresh] /\ real' = real /\ past' = past
        /\ to_owner' = to_owner /\ stale' = stale
      
  BY DEF IInv, TypeOK, Goto, SetValue, ownerVars, netVars
  <2> QED BY <2>1, <2>2, Numbers DEF IInv, Distinct
<1>11. Unsubscribed'
  BY DEF IInv, Unsubscribed, SetValue, Goto, ownerVars, netVars
<1>12. SetAhead'
  BY DEF IInv, SetAhead, SetValue, ownerVars, netVars
<1>13. NotStale'
  BY DEF IInv, NotStale, SetValue, Begins, At, Goto, netVars
<1> QED BY <1>1, <1>2, <1>3, <1>4, <1>5, <1>6, <1>7, <1>8, <1>9, <1>10, <1>11,
   <1>12, <1>13 DEF IInv

(* request_prop_set_value sends the value behind everything sent before,   *)
(* unless the flag is set: the first race.                                 *)
LEMMA RequestSetKeeps ==
  ASSUME IInv, RequestSet, uses' = uses
  PROVE  IInv'
<1> DEFINE e == Msg("set", th["app"].val)
<1>a. /\ th["app"].pc = "request_set" /\ th["app"].val \in Value
      /\ th' = [th EXCEPT !["app"] = [pc |-> "idle", val |-> NoValue]]
      /\ UNCHANGED <<real, past, registered, unsent, told, cache, flag,
                    update_in_process, listening, heard, wire,
                    package_queue, reply, holder, ops, uses>>
  BY DEF RequestSet, At, Goto, IInv, Contents, ownerVars
<1>b. /\ th'["app"] = [pc |-> "idle", val |-> NoValue]
      /\ \A u \in Thread : u # "app" => th'[u] = th[u]
      /\ th' \in [Thread -> ThreadState]
  BY <1>a DEF IInv, TypeOK, ThreadState, PC
<1>c. /\ to_owner \in Seq(Package) /\ e \in Package
      /\ e.kind = "set" /\ e.val = th["app"].val
  BY <1>a DEF IInv, TypeOK, Msg, Package
<1>d. CASE flag
  <2>a. races' # {} /\ races' \subseteq Race /\ to_owner' = to_owner /\ stale' = stale
    BY <1>d DEF RequestSet, IInv, TypeOK
  <2>1. TypeOK'
    BY <1>a, <1>b, <2>a DEF IInv, TypeOK
  <2>2. Places'
    BY <1>a, <1>b, <2>a DEF IInv, Places
  <2>3. Mutexes'
    BY <1>a, <1>b, <2>a DEF IInv, Mutexes, Updating
  <2>4. Contents'
    BY <1>a, <1>b, <2>a DEF IInv, Contents
  <2>5. Unsent'
    BY <1>a, <1>b, <2>a DEF IInv, Unsent
  <2>6. OneReply'
    BY <1>a, <1>b, <2>a DEF IInv, OneReply
  <2>7. Updates'
    BY <1>a, <1>b, <2>a DEF IInv, Updates, Clean
  <2>8. Answers'
    BY <1>a, <1>b, <2>a DEF IInv, Answers, Clean
  <2>9. Shown'
    BY <1>a, <1>b, <2>a DEF IInv, Shown, Clean
  <2>10. Distinct'
    BY <1>a, <1>b, <2>a DEF IInv, Distinct, Fresh
  <2>11. Unsubscribed'
    BY <1>a, <1>b, <2>a DEF IInv, Unsubscribed
  <2>12. SetAhead'
    BY <1>a, <1>b, <2>a DEF IInv, SetAhead
  <2>13. NotStale'
    BY <1>a, <1>b, <2>a DEF IInv, NotStale
  <2> QED BY <2>1, <2>2, <2>3, <2>4, <2>5, <2>6, <2>7, <2>8, <2>9, <2>10,
     <2>11, <2>12, <2>13 DEF IInv
<1>e. CASE ~flag
  <2>a. to_owner' = Append(to_owner, e) /\ stale' = past \cup {real} /\ races' = races
    BY <1>e DEF RequestSet
  <2>b. \A k \in {"set", "get", "subscribe", "unsubscribe"} :
            Has(to_owner', k) <=> Has(to_owner, k) \/ e.kind = k
    BY <1>c, <2>a, HasAppend
  <2>c. /\ DOMAIN to_owner' = DOMAIN to_owner \cup {Len(to_owner) + 1}
        /\ to_owner'[Len(to_owner) + 1] = e
        /\ \A i \in DOMAIN to_owner :
               to_owner'[i] = to_owner[i] /\ i \in Int /\ i < Len(to_owner) + 1
        /\ Len(to_owner) \in Nat /\ to_owner' \in Seq(Package)
    BY <1>c, <2>a
  <2>d. OnlyOne(to_owner', "get") /\ ~Has(to_owner, "get")
    BY <1>a, <1>c, <2>a, OnlyOneAppend DEF IInv, OneReply
  <2>1. TypeOK'
    BY <1>a, <1>b, <1>c, <2>a, <2>b, <2>c, <2>d DEF IInv, TypeOK
  <2>2. Places'
    BY <1>a, <1>b, <1>c, <2>a, <2>b, <2>c, <2>d DEF IInv, Places
  <2>3. Mutexes'
    BY <1>a, <1>b, <1>c, <2>a, <2>b, <2>c, <2>d DEF IInv, Mutexes, Updating
  <2>4. Contents'
    BY <1>a, <1>b, <1>c, <2>a, <2>b, <2>c, <2>d DEF IInv, Contents
  <2>5. Unsent'
    BY <1>a, <1>b, <1>c, <2>a, <2>b, <2>c, <2>d DEF IInv, Unsent
  <2>6. OneReply'
    BY <1>a, <1>b, <1>c, <2>a, <2>b, <2>c, <2>d DEF IInv, OneReply
  <2>7. Updates'
    BY <1>a, <1>b, <1>c, <2>a, <2>b, <2>c, <2>d DEF IInv, Updates, Clean,
       Flowing
  <2>8. Answers'
    BY <1>a, <1>b, <1>c, <2>a, <2>b, <2>c, <2>d DEF IInv, Answers, Clean,
       Flowing
  <2>9. Shown'
    BY <1>a, <1>b, <1>c, <2>a, <2>b, <2>c, <2>d DEF IInv, Shown, Setting
  <2>10. Distinct'
    <3>1. Fresh' = Fresh
      BY <1>a DEF Fresh
    <3> QED BY <1>a, <1>b, <1>c, <2>a, <2>c, <3>1 DEF IInv, Distinct
  <2>11. Unsubscribed'
    BY <1>a, <1>b, <1>c, <2>a, <2>b, <2>c, <2>d DEF IInv, Unsubscribed
  <2>12. SetAhead'
    <3>1. \A j \in DOMAIN to_owner : to_owner[j].kind # "get"
      BY <2>d DEF Has
    <3>2. \A j \in DOMAIN to_owner' : to_owner'[j].kind # "get"
      BY <1>c, <2>c, <3>1
    <3> QED BY <1>c, <2>c, <3>2 DEF SetAhead
  <2>13. NotStale'
    BY <1>a, <1>b DEF IInv, TypeOK, OneReply, NotStale, Has
  <2> QED BY <2>1, <2>2, <2>3, <2>4, <2>5, <2>6, <2>7, <2>8, <2>9, <2>10,
     <2>11, <2>12, <2>13 DEF IInv
<1> QED BY <1>d, <1>e

(* get_value begins; what the property had before this moment is stale.    *)
LEMMA GetValueKeeps ==
  ASSUME IInv, GetValue, uses' = uses
  PROVE  IInv'
<1>1. TypeOK'
  <2>1. th' \in [Thread -> ThreadState]
    BY DEF IInv, TypeOK, ThreadState, PC, GetValue, Goto
  <2>2. /\ ops' \in [Application -> Nat] /\ ops'["owner_app"] <= OwnerOps
        /\ ops'["app"] <= ProxyOps
    BY DEF IInv, TypeOK, Begins, GetValue
  <2>4. th'["app"].pc # "wait"
    BY DEF IInv, TypeOK, GetValue, Goto
  <2> QED BY <2>1, <2>2, <2>4 DEF IInv, TypeOK, At, Begins, GetValue,
     ownerVars, netVars
<1>2. Places'
  BY DEF IInv, Places, GetValue, Goto, netVars
<1>3. Mutexes'
  BY DEF IInv, Mutexes, Updating, GetValue, Begins, At, Goto
<1>4. Contents'
  BY DEF IInv, Contents, GetValue, Goto, netVars
<1>5. Unsent'
  BY DEF IInv, Unsent, GetValue, Begins, At, Goto, ownerVars
<1>6. OneReply'
  BY DEF IInv, OneReply, GetValue, Begins, At, Goto, netVars
<1>7. Updates'
  BY DEF IInv, Updates, Clean, Flowing, GetValue, Goto, ownerVars, netVars
<1>8. Answers'
  BY DEF IInv, Answers, Clean, Flowing, GetValue, Goto, ownerVars, netVars
<1>9. Shown'
  BY DEF IInv, Shown, Clean, Flowing, Setting, GetValue, Begins, At, Goto,
     ownerVars, netVars
<1>10. Distinct'
  <2>1. Fresh' = Fresh + 1
    BY DEF IInv, TypeOK, Fresh, Begins, GetValue
  <2>2. th'["app"].pc = "get" /\ real' = real /\ past' = past
        /\ to_owner' = to_owner /\ stale' = stale \cup past
      
  BY DEF IInv, TypeOK, Goto, GetValue, ownerVars, netVars
  <2> QED BY <2>1, <2>2, Numbers DEF IInv, Distinct
<1>11. Unsubscribed'
  BY DEF IInv, Unsubscribed, GetValue, Goto, ownerVars, netVars
<1>12. SetAhead'
  BY DEF IInv, Distinct, SetAhead, GetValue, ownerVars, netVars
<1>13. NotStale'
  BY DEF IInv, TypeOK, OneReply, NotStale, Has, GetValue, Begins, At, Goto,
     ownerVars, proxyVars, netVars
<1> QED BY <1>1, <1>2, <1>3, <1>4, <1>5, <1>6, <1>7, <1>8, <1>9, <1>10, <1>11,
   <1>12, <1>13 DEF IInv

(* update_prop takes tracked_mutex and sends its get, behind the set_value *)
(* calls made before it; with the flag set it returns at once.             *)
LEMMA UpdatePropKeeps ==
  ASSUME IInv, UpdateProp, uses' = uses
  PROVE  IInv'
<1> DEFINE e == Msg("get", NoValue)
<1>a. /\ th["app"].pc = "get" /\ holder["tracked"] \in {Nobody, "app"}
      /\ UNCHANGED <<real, past, registered, unsent, told, cache, flag,
                    update_in_process, listening, heard, stale, wire,
                    package_queue, reply, ops, races, uses>>
  BY DEF UpdateProp, At, Free, ownerVars, proxyVars
<1>b. /\ reply = <<>> /\ ~Has(to_owner, "get") /\ ~Has(wire, "reply")
      /\ th["owner_worker"].pc # "reply"
  BY <1>a DEF IInv, TypeOK, OneReply
<1>c. to_owner \in Seq(Package) /\ e \in Package /\ e.kind = "get"
  BY DEF IInv, TypeOK, Msg, Package
<1>d. CASE flag
  <2>a. /\ to_owner' = to_owner /\ holder' = holder
        /\ th' = [th EXCEPT !["app"] = [pc |-> "read", val |-> NoValue]]
    BY <1>d DEF UpdateProp, Goto
  <2>b. /\ th'["app"] = [pc |-> "read", val |-> NoValue]
        /\ \A u \in Thread : u # "app" => th'[u] = th[u]
        /\ th' \in [Thread -> ThreadState]
    BY <2>a DEF IInv, TypeOK, ThreadState, PC
  <2>1. TypeOK'
    BY <1>a, <1>b, <2>a, <2>b DEF IInv, TypeOK
  <2>2. Places'
    BY <1>a, <1>b, <2>a, <2>b DEF IInv, Places
  <2>3. Mutexes'
    BY <1>a, <1>b, <2>a, <2>b DEF IInv, Mutexes, Updating
  <2>4. Contents'
    BY <1>a, <1>b, <2>a, <2>b DEF IInv, Contents
  <2>5. Unsent'
    BY <1>a, <1>b, <2>a, <2>b DEF IInv, Unsent
  <2>6. OneReply'
    BY <1>a, <1>b, <2>a, <2>b DEF IInv, OneReply
  <2>7. Updates'
    BY <1>a, <1>b, <2>a, <2>b DEF IInv, Updates, Clean, Flowing
  <2>8. Answers'
    BY <1>a, <1>b, <2>a, <2>b DEF IInv, Answers, Clean, Flowing
  <2>9. Shown'
    BY <1>a, <1>b, <2>a, <2>b DEF IInv, Shown, Clean, Flowing, Setting
  <2>10. Distinct'
    BY <1>a, <1>b, <2>a, <2>b DEF IInv, Distinct, Fresh
  <2>11. Unsubscribed'
    BY <1>a, <1>b, <2>a, <2>b DEF IInv, Unsubscribed
  <2>12. SetAhead'
    BY <1>a, <1>b, <2>a, <2>b DEF IInv, SetAhead
  <2>13. NotStale'
    BY <1>a, <1>b, <1>d, <2>a, <2>b DEF IInv, Unsubscribed, NotStale, Mutexes,
       Updating, Applying
  <2> QED BY <2>1, <2>2, <2>3, <2>4, <2>5, <2>6, <2>7, <2>8, <2>9, <2>10,
     <2>11, <2>12, <2>13 DEF IInv
<1>e. CASE ~flag
  <2>a. /\ to_owner' = Append(to_owner, e)
        /\ th' = [th EXCEPT !["app"] = [pc |-> "wait", val |-> NoValue]]
        /\ holder' = [m \in Mutex |-> IF m \in {"tracked"} THEN "app" ELSE holder[m]]
    BY <1>e DEF UpdateProp, Goto, Lock
  <2>b. \A k \in {"set", "get", "subscribe", "unsubscribe"} :
            Has(to_owner', k) <=> Has(to_owner, k) \/ e.kind = k
    BY <1>c, <2>a, HasAppend
  <2>c. /\ DOMAIN to_owner' = DOMAIN to_owner \cup {Len(to_owner) + 1}
        /\ to_owner'[Len(to_owner) + 1] = e
        /\ \A i \in DOMAIN to_owner :
               to_owner'[i] = to_owner[i] /\ i \in Int /\ i < Len(to_owner) + 1
        /\ Len(to_owner) \in Nat /\ to_owner' \in Seq(Package)
    BY <1>c, <2>a
  <2>d. OnlyOne(to_owner', "get")
    BY <1>b, <1>c, <2>a, OnlyOneAppend DEF IInv, OneReply
  <2>e. /\ th'["app"] = [pc |-> "wait", val |-> NoValue]
        /\ \A u \in Thread : u # "app" => th'[u] = th[u]
        /\ th' \in [Thread -> ThreadState]
    BY <2>a DEF IInv, TypeOK, ThreadState, PC
  <2>1. TypeOK'
    BY <1>a, <1>b, <1>c, <2>a, <2>b, <2>c, <2>d, <2>e DEF IInv, TypeOK
  <2>2. Places'
    BY <1>a, <1>b, <1>c, <2>a, <2>b, <2>c, <2>d, <2>e DEF IInv, Places
  <2>3. Mutexes'
    BY <1>a, <1>b, <1>c, <2>a, <2>b, <2>c, <2>d, <2>e DEF IInv, Mutexes,
       Updating
  <2>4. Contents'
    BY <1>a, <1>b, <1>c, <2>a, <2>b, <2>c, <2>d, <2>e DEF IInv, Contents
  <2>5. Unsent'
    BY <1>a, <1>b, <1>c, <2>a, <2>b, <2>c, <2>d, <2>e DEF IInv, Unsent
  <2>6. OneReply'
    BY <1>a, <1>b, <1>c, <2>a, <2>b, <2>c, <2>d, <2>e DEF IInv, OneReply
  <2>7. Updates'
    BY <1>a, <1>b, <1>c, <2>a, <2>b, <2>c, <2>d, <2>e DEF IInv, Updates,
       Clean, Flowing
  <2>8. Answers'
    BY <1>a, <1>b, <1>c, <2>a, <2>b, <2>c, <2>d, <2>e DEF IInv, Answers,
       Clean, Flowing
  <2>9. Shown'
    BY <1>a, <1>b, <1>c, <2>a, <2>b, <2>c, <2>d, <2>e DEF IInv, Shown, Clean,
       Flowing, Setting
  <2>10. Distinct'
    <3>1. Fresh' = Fresh
      BY <1>a DEF Fresh
    <3> QED BY <1>a, <1>c, <2>c, <2>e, <3>1 DEF IInv, Distinct
  <2>11. Unsubscribed'
    BY <1>a, <1>b, <1>c, <2>a, <2>b, <2>c, <2>d, <2>e DEF IInv, Unsubscribed
  <2>12. SetAhead'
    <3>1. \A j \in DOMAIN to_owner : to_owner[j].kind # "get"
      BY <1>b DEF Has
    <3> QED BY <1>a, <1>c, <2>c, <3>1 DEF IInv, SetAhead
  <2>13. NotStale'
    BY <1>a, <1>b, <1>c, <2>a, <2>b, <2>c, <2>d, <2>e DEF IInv, NotStale
  <2> QED BY <2>1, <2>2, <2>3, <2>4, <2>5, <2>6, <2>7, <2>8, <2>9, <2>10,
     <2>11, <2>12, <2>13 DEF IInv
<1> QED BY <1>d, <1>e

(* update_prop has its reply and takes the second mutex.                   *)
LEMMA UpdateBeginsKeeps ==
  ASSUME IInv, UpdateBegins, uses' = uses
  PROVE  IInv'
<1>1. TypeOK'
  <2>1. th' \in [Thread -> ThreadState]
    BY DEF IInv, TypeOK, ThreadState, PC, UpdateBegins, Goto
  <2>2. holder' \in [Mutex -> Thread \cup {Nobody}]
    BY DEF IInv, TypeOK, UpdateBegins, Lock
  <2>4. th'["app"].pc = "deserialize" /\ th["app"].pc = "wait"
    BY DEF IInv, TypeOK, UpdateBegins, At, Goto
  <2> QED BY <2>1, <2>2, <2>4 DEF IInv, TypeOK, UpdateBegins, ownerVars,
     netVars
<1>2. Places'
  BY DEF IInv, Places, Updating, UpdateBegins, Goto, netVars
<1>3. Mutexes'
  BY DEF IInv, TypeOK, Mutexes, Updating, UpdateBegins, Goto, Lock, Free
<1>4. Contents'
  BY DEF IInv, Contents, UpdateBegins, Goto, netVars
<1>5. Unsent'
  BY DEF IInv, Unsent, UpdateBegins, At, Goto, ownerVars
<1>6. OneReply'
  BY DEF IInv, OneReply, UpdateBegins, Goto, netVars
<1>7. Updates'
  BY DEF IInv, Updates, Clean, Flowing, UpdateBegins, Goto, ownerVars, netVars
<1>8. Answers'
  BY DEF IInv, Answers, Clean, Flowing, UpdateBegins, Goto, ownerVars, netVars
<1>9. Shown'
  BY DEF IInv, Shown, Clean, Flowing, Setting, UpdateBegins, At, Goto,
     ownerVars, netVars
<1>10. Distinct'
  BY DEF IInv, Distinct, Fresh, UpdateBegins, Goto, ownerVars, netVars
<1>11. Unsubscribed'
  BY DEF IInv, Unsubscribed, UpdateBegins, Goto, ownerVars, netVars
<1>12. SetAhead'
  BY DEF IInv, SetAhead, UpdateBegins, ownerVars, netVars
<1>13. NotStale'
  BY DEF IInv, NotStale, UpdateBegins, Goto, netVars
<1> QED BY <1>1, <1>2, <1>3, <1>4, <1>5, <1>6, <1>7, <1>8, <1>9, <1>10, <1>11,
   <1>12, <1>13 DEF IInv

(* The reply is written to the copy; it is as new as the property, or an   *)
(* update follows.                                                         *)
LEMMA UpdateDeserializeKeeps ==
  ASSUME IInv, UpdateDeserialize, uses' = uses
  PROVE  IInv'
<1>1. TypeOK'
  <2>1. th' \in [Thread -> ThreadState]
    BY DEF IInv, TypeOK, ThreadState, PC, UpdateDeserialize, Goto
  <2>2. reply # <<>> /\ Head(reply) \in Value
    BY DEF UpdateDeserialize, At, IInv, TypeOK, Places
  <2>4. th'["app"].pc # "wait"
    BY DEF IInv, UpdateDeserialize, At, Goto
  <2> QED BY <2>1, <2>2, <2>4 DEF IInv, TypeOK, UpdateDeserialize, ownerVars
<1>2. Places'
  BY DEF IInv, TypeOK, Places, Updating, UpdateDeserialize, Goto
<1>3. Mutexes'
  BY DEF IInv, Mutexes, Updating, UpdateDeserialize, At, Goto
<1>4. Contents'
  BY DEF IInv, Contents, UpdateDeserialize, Goto
<1>5. Unsent'
  BY DEF IInv, Unsent, UpdateDeserialize, At, Goto, ownerVars
<1>6. OneReply'
  BY DEF IInv, OneReply, UpdateDeserialize, At, Goto
<1>7. Updates'
  BY DEF IInv, Updates, Clean, Flowing, UpdateDeserialize, Goto, ownerVars
<1>8. Answers'
  BY DEF IInv, Answers, Clean, Flowing, UpdateDeserialize, Goto, ownerVars
<1>9. Shown'
  BY DEF IInv, Places, Answers, Shown, Clean, Flowing, Setting,
     UpdateDeserialize, At, Goto, ownerVars
<1>10. Distinct'
  BY DEF IInv, Distinct, Fresh, UpdateDeserialize, Goto, ownerVars
<1>11. Unsubscribed'
  BY DEF IInv, Unsubscribed, UpdateDeserialize, Goto, ownerVars
<1>12. SetAhead'
  BY DEF IInv, SetAhead, UpdateDeserialize, ownerVars
<1>13. NotStale'
  BY DEF IInv, Places, NotStale, UpdateDeserialize, At, Goto
<1> QED BY <1>1, <1>2, <1>3, <1>4, <1>5, <1>6, <1>7, <1>8, <1>9, <1>10, <1>11,
   <1>12, <1>13 DEF IInv

(* update_prop releases both mutexes and clears the flag.                  *)
LEMMA UpdateEndsKeeps ==
  ASSUME IInv, UpdateEnds, uses' = uses
  PROVE  IInv'
<1>1. TypeOK'
  <2>1. th' \in [Thread -> ThreadState]
    BY DEF IInv, TypeOK, ThreadState, PC, UpdateEnds, Goto
  <2>2. holder' \in [Mutex -> Thread \cup {Nobody}]
    BY DEF IInv, TypeOK, UpdateEnds, Unlock
  <2>4. th'["app"].pc # "wait"
    BY DEF IInv, UpdateEnds, At, Goto
  <2> QED BY <2>1, <2>2, <2>4 DEF IInv, TypeOK, Places, At, UpdateEnds,
     ownerVars, proxyVars, netVars
<1>2. Places'
  BY DEF IInv, Places, UpdateEnds, Goto, netVars
<1>3. Mutexes'
  BY DEF IInv, TypeOK, Mutexes, Updating, UpdateEnds, At, Goto, Unlock
<1>4. Contents'
  BY DEF IInv, Contents, UpdateEnds, Goto, netVars
<1>5. Unsent'
  BY DEF IInv, Unsent, UpdateEnds, At, Goto, ownerVars
<1>6. OneReply'
  BY DEF IInv, OneReply, UpdateEnds, At, Goto, netVars
<1>7. Updates'
  BY DEF IInv, Updates, Clean, Flowing, UpdateEnds, Goto, ownerVars, netVars
<1>8. Answers'
  BY DEF IInv, Answers, Clean, Flowing, UpdateEnds, Goto, ownerVars, netVars
<1>9. Shown'
  BY DEF IInv, Shown, Clean, Flowing, Setting, UpdateEnds, At, Goto,
     ownerVars, netVars
<1>10. Distinct'
  BY DEF IInv, Distinct, Fresh, UpdateEnds, Goto, ownerVars, netVars
<1>11. Unsubscribed'
  BY DEF IInv, Unsubscribed, UpdateEnds, Goto, ownerVars, netVars
<1>12. SetAhead'
  BY DEF IInv, SetAhead, UpdateEnds, ownerVars, netVars
<1>13. NotStale'
  BY DEF IInv, NotStale, UpdateEnds, At, Goto, netVars
<1> QED BY <1>1, <1>2, <1>3, <1>4, <1>5, <1>6, <1>7, <1>8, <1>9, <1>10, <1>11,
   <1>12, <1>13 DEF IInv

(* get_value returns the copy.                                             *)
LEMMA GetReturnsKeeps ==
  ASSUME IInv, GetReturns, uses' = uses
  PROVE  IInv'
<1>1. TypeOK'
  <2>1. th' \in [Thread -> ThreadState]
    BY DEF IInv, TypeOK, ThreadState, PC, GetReturns, Goto
  <2>4. th'["app"].pc # "wait"
    BY DEF IInv, GetReturns, At, Goto
  <2> QED BY <2>1, <2>4 DEF IInv, TypeOK, At, GetReturns, ownerVars,
     proxyVars, netVars
<1>2. Places'
  BY DEF IInv, Places, GetReturns, Goto, netVars
<1>3. Mutexes'
  BY DEF IInv, Mutexes, Updating, GetReturns, At, Goto, proxyVars
<1>4. Contents'
  BY DEF IInv, Contents, GetReturns, Goto, netVars
<1>5. Unsent'
  BY DEF IInv, Unsent, GetReturns, At, Goto, ownerVars
<1>6. OneReply'
  BY DEF IInv, OneReply, GetReturns, At, Goto, netVars
<1>7. Updates'
  BY DEF IInv, Updates, Clean, Flowing, GetReturns, Goto, ownerVars, netVars
<1>8. Answers'
  BY DEF IInv, Answers, Clean, Flowing, GetReturns, Goto, ownerVars, netVars
<1>9. Shown'
  BY DEF IInv, Shown, Clean, Flowing, Setting, GetReturns, At, Goto,
     ownerVars, proxyVars, netVars
<1>10. Distinct'
  BY DEF IInv, Distinct, Fresh, GetReturns, Goto, ownerVars, proxyVars,
     netVars
<1>11. Unsubscribed'
  BY DEF IInv, Unsubscribed, GetReturns, Goto, ownerVars, proxyVars, netVars
<1>12. SetAhead'
  BY DEF IInv, SetAhead, GetReturns, ownerVars, proxyVars, netVars
<1>13. NotStale'
  BY DEF IInv, NotStale, GetReturns, Goto, proxyVars, netVars
<1> QED BY <1>1, <1>2, <1>3, <1>4, <1>5, <1>6, <1>7, <1>8, <1>9, <1>10, <1>11,
   <1>12, <1>13 DEF IInv

(* The io thread takes a package: a reply goes past the updates in the     *)
(* queue.                                                                  *)
LEMMA ReceiveKeeps ==
  ASSUME IInv, Receive, uses' = uses
  PROVE  IInv'
<1> DEFINE m == Head(wire)
<1>a. /\ wire \in Seq(Package) /\ wire # <<>> /\ wire' = Tail(wire)
      /\ UNCHANGED <<real, past, registered, unsent, told, cache, flag,
                    update_in_process, listening, heard, stale, to_owner,
                    holder, th, ops, races, uses>>
  BY DEF Receive, IInv, TypeOK, ownerVars, proxyVars
<1>b. \A k \in {"update", "reply"} : Has(wire, k) <=> Has(wire', k) \/ Head(wire).kind = k
  BY <1>a, HasTail
<1>c. \A i \in DOMAIN wire' : i \in Int /\ i + 1 \in DOMAIN wire /\ wire'[i] = wire[i + 1]
  BY <1>a
<1>d. /\ 1 \in DOMAIN wire /\ Head(wire) = wire[1] /\ wire' \in Seq(Package)
      /\ Head(wire) \in Package
      /\ \A i \in DOMAIN wire :
             i \in Int /\ (i # 1 => i - 1 \in DOMAIN wire' /\ wire'[i - 1] = wire[i])
  BY <1>a
<1>e. OnlyOne(wire', "reply") /\ (Head(wire).kind = "reply" => ~Has(wire', "reply"))
  BY <1>a, OnlyOneTail DEF IInv, OneReply
<1>f. /\ m.kind \in {"update", "reply"} /\ m.val \in Value
      /\ package_queue \in Seq(Package)
  BY <1>d DEF IInv, TypeOK, Contents
<1>g. \A v : Newest(wire, v) =>
        /\ Newest(wire', v)
        /\ m.kind = "update" /\ ~Has(wire', "update") => m.val = v
  BY <1>a, NewestTail
<1>h. CASE m.kind = "reply"
  <2>a. reply' = <<m.val>> /\ package_queue' = package_queue
    BY <1>h DEF Receive
  <2>b. reply' \in Seq(Value) /\ Len(reply') = 1 /\ reply'[1] = m.val /\ reply' # <<>>
    BY <1>f, <2>a
  <2>c. th["app"].pc = "wait" /\ reply = <<>> /\ Has(wire, "reply")
    BY <1>b, <1>h DEF IInv, OneReply
  <2>1. TypeOK'
    BY <1>a, <1>b, <1>c, <1>d, <1>e, <1>f, <1>g, <1>h, <2>a, <2>b, <2>c DEF
       IInv, TypeOK
  <2>2. Places'
    BY <1>a, <1>b, <1>c, <1>d, <1>e, <1>f, <1>g, <1>h, <2>a, <2>b, <2>c DEF
       IInv, Places
  <2>3. Mutexes'
    BY <1>a, <1>b, <1>c, <1>d, <1>e, <1>f, <1>g, <1>h, <2>a, <2>b, <2>c DEF
       IInv, Mutexes
  <2>4. Contents'
    BY <1>a, <1>b, <1>c, <1>d, <1>e, <1>f, <1>g, <1>h, <2>a, <2>b, <2>c DEF
       IInv, Contents
  <2>5. Unsent'
    BY <1>a, <1>b, <1>c, <1>d, <1>e, <1>f, <1>g, <1>h, <2>a, <2>b, <2>c DEF
       IInv, Unsent
  <2>6. OneReply'
    BY <1>a, <1>b, <1>c, <1>d, <1>e, <1>f, <1>g, <1>h, <2>a, <2>b, <2>c DEF
       IInv, OneReply
  <2>7. Updates'
    BY <1>a, <1>b, <1>c, <1>d, <1>e, <1>f, <1>g, <1>h, <2>a, <2>b, <2>c DEF
       IInv, Updates, Clean, Flowing
  <2>8. Answers'
    BY <1>a, <1>b, <1>c, <1>d, <1>e, <1>f, <1>g, <1>h, <2>a, <2>b, <2>c DEF
       IInv, Answers, Clean, Flowing
  <2>9. Shown'
    BY <1>a, <1>b, <1>c, <1>d, <1>e, <1>f, <1>g, <1>h, <2>a, <2>b, <2>c DEF
       IInv, Shown, Clean, Flowing, Setting
  <2>10. Distinct'
    BY <1>a, <1>b, <1>c, <1>d, <1>e, <1>f, <1>g, <1>h, <2>a, <2>b, <2>c DEF
       IInv, Distinct, Fresh
  <2>11. Unsubscribed'
    BY <1>a, <1>b, <1>c, <1>d, <1>e, <1>f, <1>g, <1>h, <2>a, <2>b, <2>c DEF
       IInv, Unsubscribed
  <2>12. SetAhead'
    BY <1>a, <1>b, <1>c, <1>d, <1>e, <1>f, <1>g, <1>h, <2>a, <2>b, <2>c DEF
       IInv, SetAhead
  <2>13. NotStale'
    BY <1>a, <1>b, <1>c, <1>d, <1>e, <1>f, <1>g, <1>h, <2>a, <2>b, <2>c DEF
       IInv, NotStale
  <2> QED BY <2>1, <2>2, <2>3, <2>4, <2>5, <2>6, <2>7, <2>8, <2>9, <2>10,
     <2>11, <2>12, <2>13 DEF IInv
<1>i. CASE m.kind = "update"
  <2>a. reply' = reply /\ package_queue' = Append(package_queue, m)
    BY <1>i DEF Receive
  <2>b. /\ DOMAIN package_queue' = DOMAIN package_queue \cup {Len(package_queue) + 1}
        /\ package_queue'[Len(package_queue) + 1] = m /\ package_queue' # <<>>
        /\ \A i \in DOMAIN package_queue : package_queue'[i] = package_queue[i]
        /\ package_queue' \in Seq(Package)
    BY <1>d, <1>f, <2>a
  <2>c. \A v : v = m.val => Newest(package_queue', v)
    BY <1>d, <1>f, <1>i, <2>a, NewestAppend
  <2>1. TypeOK'
    BY <1>a, <1>b, <1>c, <1>d, <1>e, <1>f, <1>g, <1>i, <2>a, <2>b, <2>c DEF
       IInv, TypeOK, Contents, OneReply, Places
  <2>2. Places'
    BY <1>a, <1>b, <1>c, <1>d, <1>e, <1>f, <1>g, <1>i, <2>a, <2>b, <2>c DEF
       IInv, Places
  <2>3. Mutexes'
    BY <1>a, <1>b, <1>c, <1>d, <1>e, <1>f, <1>g, <1>i, <2>a, <2>b, <2>c DEF
       IInv, Mutexes
  <2>4. Contents'
    BY <1>a, <1>b, <1>c, <1>d, <1>e, <1>f, <1>g, <1>i, <2>a, <2>b, <2>c DEF
       IInv, Contents
  <2>5. Unsent'
    BY <1>a, <1>b, <1>c, <1>d, <1>e, <1>f, <1>g, <1>i, <2>a, <2>b, <2>c DEF
       IInv, Unsent
  <2>6. OneReply'
    BY <1>a, <1>b, <1>c, <1>d, <1>e, <1>f, <1>g, <1>i, <2>a, <2>b, <2>c DEF
       IInv, OneReply
  <2>7. Updates'
    BY <1>a, <1>b, <1>c, <1>d, <1>e, <1>f, <1>g, <1>i, <2>a, <2>b, <2>c DEF
       IInv, Updates, Clean, Flowing
  <2>8. Answers'
    BY <1>a, <1>b, <1>c, <1>d, <1>e, <1>f, <1>g, <1>i, <2>a, <2>b, <2>c DEF
       IInv, Answers, Flowing
  <2>9. Shown'
    BY <1>a, <1>b, <1>c, <1>d, <1>e, <1>f, <1>g, <1>i, <2>a, <2>b, <2>c DEF
       IInv, Shown, Flowing
  <2>10. Distinct'
    BY <1>a, <1>b, <1>c, <1>d, <1>e, <1>f, <1>g, <1>i, <2>a, <2>b, <2>c DEF
       IInv, Distinct, Fresh
  <2>11. Unsubscribed'
    BY <1>a, <1>b, <1>c, <1>d, <1>e, <1>f, <1>g, <1>i, <2>a, <2>b, <2>c DEF
       IInv, Unsubscribed
  <2>12. SetAhead'
    BY <1>a, <1>b, <1>c, <1>d, <1>e, <1>f, <1>g, <1>i, <2>a, <2>b, <2>c DEF
       IInv, SetAhead
  <2>13. NotStale'
    BY <1>a, <1>b, <1>c, <1>d, <1>e, <1>f, <1>g, <1>i, <2>a, <2>b, <2>c DEF
       IInv, NotStale
  <2> QED BY <2>1, <2>2, <2>3, <2>4, <2>5, <2>6, <2>7, <2>8, <2>9, <2>10,
     <2>11, <2>12, <2>13 DEF IInv
<1> QED BY <1>f, <1>h, <1>i

(* The proxy's worker takes an update from the queue.                      *)
LEMMA FindPropKeeps ==
  ASSUME IInv, FindProp, uses' = uses
  PROVE  IInv'
<1>a. /\ package_queue \in Seq(Package) /\ package_queue # <<>>
      /\ package_queue' = Tail(package_queue) /\ th["worker"].pc = "idle"
      /\ holder["tracked"] \in {Nobody, "worker"}
      /\ th' = [th EXCEPT !["worker"] = [pc |-> "found", val |-> Head(package_queue).val]]
      /\ UNCHANGED <<real, past, registered, unsent, told, cache, flag,
                    update_in_process, listening, heard, stale, to_owner,
                    wire, reply, holder, ops, races, uses>>
  BY DEF FindProp, At, Goto, Free, IInv, TypeOK, ownerVars, proxyVars
<1>b. \A k \in {"update"} :
          Has(package_queue, k) <=> Has(package_queue', k) \/ Head(package_queue).kind = k
  BY <1>a, HasTail
<1>c. \A i \in DOMAIN package_queue' :
          i \in Int /\ i + 1 \in DOMAIN package_queue /\ package_queue'[i] = package_queue[i + 1]
  BY <1>a
<1>d. /\ 1 \in DOMAIN package_queue /\ Head(package_queue) = package_queue[1]
      /\ package_queue' \in Seq(Package)
      /\ Head(package_queue) \in Package
      /\ \A i \in DOMAIN package_queue :
             i \in Int /\ (i # 1 => i - 1 \in DOMAIN package_queue' /\ package_queue'[i - 1] = package_queue[i])
  BY <1>a
<1>e. Head(package_queue).kind = "update" /\ Head(package_queue).val \in Value
  BY <1>d DEF IInv, Contents
<1>f. \A v : Newest(package_queue, v) =>
        /\ Newest(package_queue', v)
        /\ package_queue' = <<>> => Head(package_queue).val = v
  BY <1>a, <1>e, NewestTail, HasNothing
<1>g. /\ th'["worker"] = [pc |-> "found", val |-> Head(package_queue).val]
      /\ \A u \in Thread : u # "worker" => th'[u] = th[u]
      /\ th' \in [Thread -> ThreadState]
  BY <1>a, <1>e DEF IInv, TypeOK, ThreadState, PC
<1>1. TypeOK'
  BY <1>a, <1>b, <1>c, <1>d, <1>e, <1>f, <1>g DEF IInv, TypeOK
<1>2. Places'
  BY <1>a, <1>b, <1>c, <1>d, <1>e, <1>f, <1>g DEF IInv, Places
<1>3. Mutexes'
  BY <1>a, <1>b, <1>c, <1>d, <1>e, <1>f, <1>g DEF IInv, Mutexes, Applying
<1>4. Contents'
  BY <1>a, <1>b, <1>c, <1>d, <1>e, <1>f, <1>g DEF IInv, Contents
<1>5. Unsent'
  BY <1>a, <1>b, <1>c, <1>d, <1>e, <1>f, <1>g DEF IInv, Unsent
<1>6. OneReply'
  BY <1>a, <1>b, <1>c, <1>d, <1>e, <1>f, <1>g DEF IInv, OneReply
<1>7. Updates'
  BY <1>a, <1>b, <1>c, <1>d, <1>e, <1>f, <1>g DEF IInv, Updates, Clean,
     Flowing
<1>8. Answers'
  <2>1. th["app"].pc # "wait"
    BY <1>a DEF IInv, Mutexes
  <2>2. /\ th["owner_worker"].pc # "reply" /\ ~Has(wire, "reply")
        /\ th["app"].pc = "deserialize" => FALSE
    BY <1>a, <2>1 DEF IInv, OneReply, Mutexes, Updating
  <2>3. reply = <<>>
    BY <2>1, <2>2 DEF IInv, TypeOK
  <2> QED BY <1>a, <1>g, <2>2, <2>3 DEF Answers, Has
<1>9. Shown'
  BY <1>a, <1>b, <1>c, <1>d, <1>e, <1>f, <1>g DEF IInv, Shown
<1>10. Distinct'
  BY <1>a, <1>b, <1>c, <1>d, <1>e, <1>f, <1>g DEF IInv, Distinct, Fresh
<1>11. Unsubscribed'
  BY <1>a, <1>b, <1>c, <1>d, <1>e, <1>f, <1>g DEF IInv, Unsubscribed
<1>12. SetAhead'
  BY <1>a, <1>b, <1>c, <1>d, <1>e, <1>f, <1>g DEF IInv, SetAhead
<1>13. NotStale'
  BY <1>a, <1>b, <1>c, <1>d, <1>e, <1>f, <1>g DEF IInv, NotStale
<1> QED BY <1>1, <1>2, <1>3, <1>4, <1>5, <1>6, <1>7, <1>8, <1>9, <1>10, <1>11,
   <1>12, <1>13 DEF IInv

(* process_prop_value drops an update that arrives while the reply of a    *)
(* get is deserialized: the second race.                                   *)
LEMMA DropUpdateKeeps ==
  ASSUME IInv, DropUpdate, uses' = uses
  PROVE  IInv'
<1>1. TypeOK'
  <2>1. th' \in [Thread -> ThreadState]
    BY DEF IInv, TypeOK, ThreadState, PC, DropUpdate, Goto
  <2>4. th'["app"]= th["app"]
    BY DEF IInv, DropUpdate, Goto
  <2> QED BY <2>1, <2>4 DEF IInv, TypeOK, DropUpdate, ownerVars, proxyVars,
     netVars
<1>2. Places'
  BY DEF IInv, Places, DropUpdate, Goto, netVars
<1>3. Mutexes'
  BY DEF IInv, Mutexes, Applying, DropUpdate, At, Goto, proxyVars
<1>4. Contents'
  BY DEF IInv, Contents, DropUpdate, Goto, netVars
<1>5. Unsent'
  BY DEF IInv, Unsent, DropUpdate, At, Goto, ownerVars
<1>6. OneReply'
  BY DEF IInv, OneReply, DropUpdate, Goto, netVars
<1>7. Updates'
  BY DEF IInv, Updates, Clean, DropUpdate
<1>8. Answers'
  BY DEF IInv, Answers, Clean, Unsent, DropUpdate
<1>9. Shown'
  BY DEF IInv, Shown, Clean, DropUpdate
<1>10. Distinct'
  BY DEF IInv, Distinct, Fresh, DropUpdate, Goto, ownerVars, proxyVars,
     netVars
<1>11. Unsubscribed'
  BY DEF IInv, Unsubscribed, DropUpdate, Goto, ownerVars, proxyVars, netVars
<1>12. SetAhead'
  BY DEF IInv, SetAhead, DropUpdate, ownerVars, proxyVars, netVars
<1>13. NotStale'
  BY DEF IInv, NotStale, DropUpdate, Goto, proxyVars, netVars
<1> QED BY <1>1, <1>2, <1>3, <1>4, <1>5, <1>6, <1>7, <1>8, <1>9, <1>10, <1>11,
   <1>12, <1>13 DEF IInv

(* process_prop_value finds the flag clear, and goes for the mutex.        *)
LEMMA AcceptUpdateKeeps ==
  ASSUME IInv, AcceptUpdate, uses' = uses
  PROVE  IInv'
<1>1. TypeOK'
  <2>1. th' \in [Thread -> ThreadState]
    BY DEF IInv, TypeOK, ThreadState, PC, AcceptUpdate, Goto
  <2>4. th'["app"]= th["app"]
    BY DEF IInv, AcceptUpdate, Goto
  <2> QED BY <2>1, <2>4 DEF IInv, TypeOK, AcceptUpdate, ownerVars, proxyVars,
     netVars
<1>2. Places'
  BY DEF IInv, Places, AcceptUpdate, Goto, netVars
<1>3. Mutexes'
  BY DEF IInv, Mutexes, Applying, AcceptUpdate, Goto, proxyVars
<1>4. Contents'
  BY DEF IInv, Contents, AcceptUpdate, At, Goto, netVars
<1>5. Unsent'
  BY DEF IInv, Unsent, AcceptUpdate, At, Goto, ownerVars
<1>6. OneReply'
  BY DEF IInv, OneReply, AcceptUpdate, Goto, netVars
<1>7. Updates'
  BY DEF IInv, Updates, Clean, Flowing, AcceptUpdate, At, Goto, ownerVars,
     netVars
<1>8. Answers'
  BY DEF IInv, Answers, Clean, Flowing, AcceptUpdate, Goto, ownerVars, netVars
<1>9. Shown'
  BY DEF IInv, Shown, AcceptUpdate, At, Goto
<1>10. Distinct'
  BY DEF IInv, Distinct, Fresh, AcceptUpdate, Goto, ownerVars, proxyVars,
     netVars
<1>11. Unsubscribed'
  BY DEF IInv, Unsubscribed, AcceptUpdate, At
<1>12. SetAhead'
  BY DEF IInv, SetAhead, AcceptUpdate, ownerVars, proxyVars, netVars
<1>13. NotStale'
  BY DEF IInv, NotStale, AcceptUpdate, Goto, proxyVars, netVars
<1> QED BY <1>1, <1>2, <1>3, <1>4, <1>5, <1>6, <1>7, <1>8, <1>9, <1>10, <1>11,
   <1>12, <1>13 DEF IInv

(* process_prop_value takes the mutex and sets the flag.                   *)
LEMMA ApplyBeginsKeeps ==
  ASSUME IInv, ApplyBegins, uses' = uses
  PROVE  IInv'
<1>1. TypeOK'
  <2>1. th' \in [Thread -> ThreadState]
    BY DEF IInv, TypeOK, ThreadState, PC, ApplyBegins, Goto
  <2>2. holder' \in [Mutex -> Thread \cup {Nobody}]
    BY DEF IInv, TypeOK, ApplyBegins, Lock
  <2>4. th'["app"]= th["app"]
    BY DEF IInv, ApplyBegins, Goto
  <2> QED BY <2>1, <2>2, <2>4 DEF IInv, TypeOK, ApplyBegins, ownerVars,
     netVars
<1>2. Places'
  BY DEF IInv, Places, Applying, ApplyBegins, Goto, netVars
<1>3. Mutexes'
  BY DEF IInv, TypeOK, Mutexes, Applying, ApplyBegins, Goto, Lock, Free
<1>4. Contents'
  BY DEF IInv, Contents, ApplyBegins, At, Goto, netVars
<1>5. Unsent'
  BY DEF IInv, Unsent, ApplyBegins, At, Goto, ownerVars
<1>6. OneReply'
  BY DEF IInv, OneReply, ApplyBegins, Goto, netVars
<1>7. Updates'
  BY DEF IInv, Updates, Clean, Flowing, ApplyBegins, At, Goto, ownerVars,
     netVars
<1>8. Answers'
  BY DEF IInv, Answers, Clean, Flowing, ApplyBegins, Goto, ownerVars, netVars
<1>9. Shown'
  BY DEF IInv, Shown, ApplyBegins, At, Goto
<1>10. Distinct'
  BY DEF IInv, Distinct, Fresh, ApplyBegins, Goto, ownerVars, netVars
<1>11. Unsubscribed'
  BY DEF IInv, Unsubscribed, ApplyBegins, At
<1>12. SetAhead'
  BY DEF IInv, SetAhead, ApplyBegins, ownerVars, netVars
<1>13. NotStale'
  BY DEF IInv, NotStale, ApplyBegins, Goto, netVars
<1> QED BY <1>1, <1>2, <1>3, <1>4, <1>5, <1>6, <1>7, <1>8, <1>9, <1>10, <1>11,
   <1>12, <1>13 DEF IInv

(* The update is written to the copy.                                      *)
LEMMA ApplyDeserializeKeeps ==
  ASSUME IInv, ApplyDeserialize, uses' = uses
  PROVE  IInv'
<1>1. TypeOK'
  <2>1. th' \in [Thread -> ThreadState]
    BY DEF IInv, TypeOK, ThreadState, PC, ApplyDeserialize, Goto
  <2>2. th["worker"].val \in Value
    BY DEF ApplyDeserialize, At, IInv, Contents
  <2>4. th'["app"]= th["app"]
    BY DEF IInv, ApplyDeserialize, Goto
  <2> QED BY <2>1, <2>2, <2>4 DEF IInv, TypeOK, ApplyDeserialize, ownerVars,
     netVars
<1>2. Places'
  BY DEF IInv, Places, Applying, ApplyDeserialize, Goto, netVars
<1>3. Mutexes'
  BY DEF IInv, Mutexes, Applying, ApplyDeserialize, At, Goto
<1>4. Contents'
  BY DEF IInv, Contents, ApplyDeserialize, Goto, netVars
<1>5. Unsent'
  BY DEF IInv, Unsent, ApplyDeserialize, At, Goto, ownerVars
<1>6. OneReply'
  BY DEF IInv, OneReply, ApplyDeserialize, Goto, netVars
<1>7. Updates'
  BY DEF IInv, Updates, Clean, Flowing, ApplyDeserialize, Goto, ownerVars,
     netVars
<1>8. Answers'
  BY DEF IInv, Answers, Clean, Flowing, ApplyDeserialize, Goto, ownerVars,
     netVars
<1>9. Shown'
  BY DEF IInv, Updates, Shown, Clean, Flowing, ApplyDeserialize, At, Goto,
     ownerVars, netVars
<1>10. Distinct'
  BY DEF IInv, Distinct, Fresh, ApplyDeserialize, Goto, ownerVars, netVars
<1>11. Unsubscribed'
  BY DEF IInv, Unsubscribed, ApplyDeserialize, At
<1>12. SetAhead'
  BY DEF IInv, SetAhead, ApplyDeserialize, ownerVars, netVars
<1>13. NotStale'
  BY DEF IInv, Unsubscribed, NotStale, ApplyDeserialize, At
<1> QED BY <1>1, <1>2, <1>3, <1>4, <1>5, <1>6, <1>7, <1>8, <1>9, <1>10, <1>11,
   <1>12, <1>13 DEF IInv

(* Listeners are told the value of the copy.                               *)
LEMMA ApplyNotifyKeeps ==
  ASSUME IInv, ApplyNotify, uses' = uses
  PROVE  IInv'
<1>1. TypeOK'
  <2>1. th' \in [Thread -> ThreadState]
    BY DEF IInv, TypeOK, ThreadState, PC, ApplyNotify, Goto
  <2>4. th'["app"]= th["app"]
    BY DEF IInv, ApplyNotify, Goto
  <2> QED BY <2>1, <2>4 DEF IInv, TypeOK, ApplyNotify, ListenerReads,
     ownerVars, netVars
<1>2. Places'
  BY DEF IInv, Places, Applying, ApplyNotify, Goto, netVars
<1>3. Mutexes'
  BY DEF IInv, Mutexes, Applying, ApplyNotify, At, Goto
<1>4. Contents'
  BY DEF IInv, Contents, ApplyNotify, Goto, netVars
<1>5. Unsent'
  BY DEF IInv, Unsent, ApplyNotify, At, Goto, ownerVars
<1>6. OneReply'
  BY DEF IInv, OneReply, ApplyNotify, Goto, netVars
<1>7. Updates'
  BY DEF IInv, Updates, Clean, ApplyNotify, At, Goto, ownerVars, netVars
<1>8. Answers'
  BY DEF IInv, Answers, Clean, Flowing, ApplyNotify, Goto, ownerVars, netVars
<1>9. Shown'
  BY DEF IInv, Shown, Clean, Flowing, Setting, ApplyNotify, At, Goto,
     ListenerReads, ownerVars, netVars
<1>10. Distinct'
  BY DEF IInv, Distinct, Fresh, ApplyNotify, Goto, ownerVars, netVars
<1>11. Unsubscribed'
  BY DEF IInv, Unsubscribed, ApplyNotify, At
<1>12. SetAhead'
  BY DEF IInv, SetAhead, ApplyNotify, ownerVars, netVars
<1>13. NotStale'
  BY DEF IInv, NotStale, ApplyNotify, Goto, netVars
<1> QED BY <1>1, <1>2, <1>3, <1>4, <1>5, <1>6, <1>7, <1>8, <1>9, <1>10, <1>11,
   <1>12, <1>13 DEF IInv

(* process_prop_value clears the flag and releases the mutex.              *)
LEMMA ApplyEndsKeeps ==
  ASSUME IInv, ApplyEnds, uses' = uses
  PROVE  IInv'
<1>1. TypeOK'
  <2>1. th' \in [Thread -> ThreadState]
    BY DEF IInv, TypeOK, ThreadState, PC, ApplyEnds, Goto
  <2>2. holder' \in [Mutex -> Thread \cup {Nobody}]
    BY DEF IInv, TypeOK, ApplyEnds, Unlock
  <2>4. th'["app"]= th["app"]
    BY DEF IInv, ApplyEnds, Goto
  <2> QED BY <2>1, <2>2, <2>4 DEF IInv, TypeOK, ApplyEnds, ownerVars,
     proxyVars, netVars
<1>2. Places'
  BY DEF IInv, Places, ApplyEnds, Goto, netVars
<1>3. Mutexes'
  BY DEF IInv, TypeOK, Mutexes, Applying, ApplyEnds, At, Goto, Unlock
<1>4. Contents'
  BY DEF IInv, Contents, ApplyEnds, Goto, netVars
<1>5. Unsent'
  BY DEF IInv, Unsent, ApplyEnds, At, Goto, ownerVars
<1>6. OneReply'
  BY DEF IInv, OneReply, ApplyEnds, Goto, netVars
<1>7. Updates'
  BY DEF IInv, Updates, Clean, ApplyEnds, At, Goto, ownerVars, netVars
<1>8. Answers'
  BY DEF IInv, Answers, Clean, Flowing, ApplyEnds, Goto, ownerVars, netVars
<1>9. Shown'
  BY DEF IInv, Shown, Clean, Flowing, Setting, ApplyEnds, At, Goto, ownerVars,
     netVars
<1>10. Distinct'
  BY DEF IInv, Distinct, Fresh, ApplyEnds, Goto, ownerVars, netVars
<1>11. Unsubscribed'
  BY DEF IInv, Unsubscribed, ApplyEnds, Goto, ownerVars, netVars
<1>12. SetAhead'
  BY DEF IInv, SetAhead, ApplyEnds, ownerVars, netVars
<1>13. NotStale'
  BY DEF IInv, NotStale, ApplyEnds, Goto, netVars
<1> QED BY <1>1, <1>2, <1>3, <1>4, <1>5, <1>6, <1>7, <1>8, <1>9, <1>10, <1>11,
   <1>12, <1>13 DEF IInv

-----------------------------------------------------------------------------
(* Before the first operation.                                             *)
LEMMA InitKeeps ==
  ASSUME Init
  PROVE  IInv
<1>1. TypeOK
  <2>1. /\ registered \in BOOLEAN /\ flag \in BOOLEAN
        /\ update_in_process \in BOOLEAN /\ listening \in BOOLEAN
        /\ told \in BOOLEAN
    BY Zenon DEF Init
  <2>2. 0 \in Value
    BY DEF Value
  <2>3. Idle \in ThreadState
    BY DEF Idle, ThreadState, PC
  <2>4. /\ unsent = <<>> /\ to_owner = <<>> /\ wire = <<>> /\ package_queue = <<>>
        /\ reply = <<>> /\ ops = [t \in Application |-> 0]
        /\ th = [t \in Thread |-> Idle] /\ holder = [m \in Mutex |-> Nobody]
        /\ real = 0 /\ cache = 0 /\ heard = NoValue /\ uses \in Programs
        /\ past = {} /\ stale = {} /\ races = {}
    BY DEF Init
  <2> QED BY <2>1, <2>2, <2>3, <2>4 DEF TypeOK
<1>2. Places
  BY DEF Init, Places, Idle
<1>3. Mutexes
  BY DEF Init, Mutexes, Idle, Updating, Applying
<1>4. Contents
  BY DEF Init, Contents, Idle
<1>5. Unsent
  BY DEF Init, Unsent, Idle
<1>6. OneReply
  BY DEF Init, OneReply, Has, OnlyOne, Idle
<1>7. Updates
  BY DEF Init, Updates, Clean
<1>8. Answers
  BY DEF Init, Answers, Clean
<1>9. Shown
  BY DEF Init, Shown, Clean
<1>10. Distinct
  BY DEF Init, Distinct, Fresh, Idle
<1>11. Unsubscribed
  BY DEF Init, Unsubscribed, Has, Idle
<1>12. SetAhead
  BY DEF Init, SetAhead
<1>13. NotStale
  BY DEF Init, NotStale
<1> QED BY <1>1, <1>2, <1>3, <1>4, <1>5, <1>6, <1>7, <1>8, <1>9, <1>10, <1>11,
     <1>12, <1>13 DEF IInv

(* Every step keeps the invariant.                                         *)
LEMMA StepKeeps ==
  ASSUME IInv, [Next]_vars
  PROVE  IInv'
<1>1. CASE UNCHANGED vars
  <2>1. UNCHANGED <<real, past, registered, unsent, told, cache, flag,
                    update_in_process, listening, heard, stale, to_owner, wire,
                    package_queue, reply, holder, th, ops, races, uses>>
    BY <1>1 DEF vars, ownerVars, proxyVars, netVars
  <2>2. TypeOK' /\ Places' /\ Mutexes' /\ Contents'
    BY <2>1 DEF IInv, TypeOK, Places, Mutexes, Contents, Updating, Applying
  <2>3. Unsent' /\ OneReply' /\ Updates' /\ Answers' /\ Shown'
    BY <2>1 DEF IInv, Unsent, OneReply, Updates, Answers, Shown, Clean, Flowing,
       Setting
  <2>4. Distinct' /\ Unsubscribed' /\ SetAhead' /\ NotStale'
    BY <2>1 DEF IInv, Distinct, Fresh, Unsubscribed, SetAhead, NotStale
  <2> QED BY <2>2, <2>3, <2>4 DEF IInv
<1>2. CASE OwnerNext /\ uses' = uses
  BY <1>2, ChangeKeeps, UpdatedSerializeKeeps, UpdatedWriteKeeps,
     NotifyNobodyKeeps, CmdPropValueKeeps, CmdGetPropKeeps,
     CmdGetPropRepliesKeeps, CmdSubscribeKeeps DEF OwnerNext
<1>3. CASE AppNext /\ uses' = uses
  BY <1>3, ListenKeeps, UnlistenKeeps, SetValueKeeps, RequestSetKeeps,
     GetValueKeeps, UpdatePropKeeps, UpdateBeginsKeeps, UpdateDeserializeKeeps,
     UpdateEndsKeeps, GetReturnsKeeps DEF AppNext
<1>4. CASE Receive /\ uses' = uses
  BY <1>4, ReceiveKeeps
<1>5. CASE WorkerNext /\ uses' = uses
  BY <1>5, FindPropKeeps, DropUpdateKeeps, AcceptUpdateKeeps, ApplyBeginsKeeps,
     ApplyDeserializeKeeps, ApplyNotifyKeeps, ApplyEndsKeeps DEF WorkerNext
<1> QED BY <1>1, <1>2, <1>3, <1>4, <1>5 DEF Next

(* The invariant holds in every state.                                     *)
THEOREM Invariance == Spec => []IInv
<1>1. Init => IInv
  BY InitKeeps
<1>2. IInv /\ [Next]_vars => IInv'
  BY StepKeeps
<1> QED BY <1>1, <1>2, PTL DEF Spec

(* The types: a property never gets a value nobody has set, and the reply  *)
(* to update_prop finds its sender waiting.                                *)
THEOREM TypeCorrect == Spec => []TypeOK
<1>1. IInv => TypeOK
  BY DEF IInv
<1> QED BY <1>1, Invariance, PTL

(* When everything has been delivered a subscribed proxy, and what its     *)
(* listener has read, is what the property was last set to, whichever of   *)
(* set_value, update_prop and process_prop_value wrote the copy, unless    *)
(* one of the three windows was hit.                                       *)
THEOREM ProxiesAgree == Spec => []AgreeWhenQuiet
<1>1. IInv => AgreeWhenQuiet
  <2> SUFFICES ASSUME IInv, Quiet, told, races = {}
               PROVE  cache = real /\ (listening => heard \in {NoValue, real})
    BY DEF AgreeWhenQuiet
  <2>1. /\ th["worker"].pc = "idle" /\ th["app"].pc = "idle"
        /\ th["owner_app"].pc = "idle" /\ th["owner_worker"].pc = "idle"
    BY DEF Quiet, At
  <2>2. unsent = <<>>
    <3>1. \A i \in DOMAIN unsent : FALSE
      BY <2>1, UnsentBy DEF IInv, Unsent
    <3> DEFINE S == [by : {"owner_app", "owner_worker"}, val : Value]
    <3>2. unsent \in Seq(S)
      BY DEF IInv, TypeOK
    <3> HIDE DEF S
    <3>3. unsent # <<>> => 1 \in DOMAIN unsent
      BY <3>2
    <3> QED BY <3>1, <3>3
  <2>3. ~Has(wire, "update") /\ ~Has(to_owner, "set") /\ package_queue = <<>>
    BY DEF Quiet, Has
  <2> QED BY <2>1, <2>2, <2>3 DEF IInv, Shown, Clean, Flowing, Setting
<1> QED BY <1>1, Invariance, PTL

(* Without a subscription get_value returns neither a value that was       *)
(* replaced before the call nor one from before the caller's own           *)
(* set_value.                                                              *)
THEOREM GetsAreFresh == Spec => []GetIsFresh
<1>1. IInv => GetIsFresh
  BY DEF IInv, NotStale, GetIsFresh, At
<1> QED BY <1>1, Invariance, PTL
=============================================================================
