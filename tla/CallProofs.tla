----------------------------- MODULE CallProofs -----------------------------
(***************************************************************************)
(* What becomes of a call on the first connection, for any number of       *)
(* threads and calls: it is in one place at a time, it is not over before  *)
(* the peer has replied to it, a thread alone on its dispatcher gets its   *)
(* own response, and the dispatchers implement CallService.                *)
(***************************************************************************)
EXTENDS RequestReplyProofs

(* The frames and the request a call goes by.                              *)
FrameOf(s)   == [raw |-> my[s], call |-> CallOf(s)]
ReplyOf(s)   == [raw |-> my[s] + reply_flag, call |-> CallOf(s)]
RequestOf(s) == [id |-> my[s], call |-> CallOf(s)]

Received(s) == my[s] \in sender_response_received[Home[s]]
Waits(s)    == Busy(s) /\ ~Received(s)

(* A sequence contains f; it does not contain f twice.                     *)
Has(q, f)    == \E i \in DOMAIN q : q[i] = f
AtMostOne(q, f) == \A i, j \in DOMAIN q : q[i] = f /\ q[j] = f => i = j

Out(s)  == Has(wire[Peer(Home[s])], FrameOf(s))
With(s) == RequestOf(s) \in request_msgids[Peer(Home[s])]
Back(s) == Has(wire[Home[s]], ReplyOf(s))

(* Nothing happens before the first connection, on dispatchers that do not *)
(* exist yet, or on a connection that is down.                             *)
Connection ==
  /\ link => /\ conn # 0
             /\ is_connected[Client] /\ is_connected[conn]
  /\ ~link => \A e \in Ends : wire[e] = <<>>
  /\ \A e \in Ends : e > conn => wire[e] = <<>> /\ request_msgids[e] = {}
  /\ conn = 0 => /\ \A e \in Ends : ~is_connected[e]
                 /\ \A s \in Sender : ~Busy(s)
  /\ \A s \in Sender : Busy(s) => Home[s] <= conn

(* Every frame but a notification, and every request, is that of a thread  *)
(* which waits for it.                                                     *)
FramesBelong ==
  \A e \in Ends, f \in Frame : Has(wire[e], f) =>
    \/ f.raw = 0
    \/ \E s \in Sender : /\ Waits(s) /\ Peer(Home[s]) = e /\ f = FrameOf(s)
                         /\ CallOf(s) \notin answered
    \/ \E s \in Sender : /\ Waits(s) /\ Home[s] = e /\ f = ReplyOf(s)
                         /\ CallOf(s) \in answered

RequestsBelong ==
  \A e \in Ends : \A r \in request_msgids[e] :
    \E s \in Sender : /\ Waits(s) /\ Peer(Home[s]) = e /\ r = RequestOf(s)
                      /\ CallOf(s) \notin answered

(* No call is in two places, and on a connection that is up every call     *)
(* that waits is in one.                                                   *)
NotTwice ==
  \A s \in Sender : Busy(s) =>
    /\ AtMostOne(wire[Peer(Home[s])], FrameOf(s))
    /\ AtMostOne(wire[Home[s]], ReplyOf(s))
    /\ ~(Out(s) /\ With(s))

Somewhere ==
  link => \A s \in Sender : Waits(s) => Out(s) \/ With(s) \/ Back(s)

(* A flag that is set was set by the reply to this call, and a thread      *)
(* alone on its dispatcher finds that reply in "in".                       *)
Answers ==
  /\ \A s \in Sender : Busy(s) /\ Received(s) => CallOf(s) \in answered
  /\ \A s \in Sender, n \in Nat : <<s, n>> \in answered => n <= calls[s]
  /\ \A s \in Sender : Busy(s) => calls[s] # 0

Responses ==
  \A s \in Sender : IsAlone(s) =>
    /\ Busy(s) /\ Received(s) => in[Home[s]] = CallOf(s)
    /\ ~Busy(s) => resp[s] \in {NoCall, CallOf(s)}

CallInv ==
  conn <= 1 =>
    /\ Connection
    /\ FramesBelong
    /\ RequestsBelong
    /\ NotTwice
    /\ Somewhere
    /\ Answers
    /\ Responses

-----------------------------------------------------------------------------
USE ConstantsAssumption

(* Sequences: push_back and pop_front seen from one element.               *)
LEMMA HasAppend ==
  ASSUME NEW S, NEW q \in Seq(S), NEW g \in S, NEW f
  PROVE  /\ Has(Append(q, g), f) <=> (Has(q, f) \/ f = g)
         /\ AtMostOne(q, f) /\ (f = g => ~Has(q, f)) => AtMostOne(Append(q, g), f)
<1> DEFINE r == Append(q, g)
<1> DEFINE n == Len(q)
<1>1. n \in Nat /\ DOMAIN q = 1..n
  BY LenProperties
<1>2. /\ r \in Seq(S) /\ Len(r) = n + 1
      /\ \A i \in 1..n : r[i] = q[i]
      /\ r[n + 1] = g
  BY AppendProperties
<1>3. DOMAIN r = 1..(n + 1)
  BY <1>2, LenProperties
<1> HIDE DEF n, r
<1>4. Has(r, f) <=> (Has(q, f) \/ f = g)
  BY <1>1, <1>2, <1>3 DEF Has
<1>5. AtMostOne(q, f) /\ (f = g => ~Has(q, f)) => AtMostOne(r, f)
  BY <1>1, <1>2, <1>3 DEF Has, AtMostOne
<1> QED BY <1>4, <1>5 DEF r

(* A frame of a channel is its head or in what is left of it.              *)
LEMMA HasTail ==
  ASSUME NEW S, NEW q \in Seq(S), q # <<>>, NEW f
  PROVE  /\ Has(q, Head(q))
         /\ Has(Tail(q), f) => Has(q, f)
         /\ Has(q, f) /\ f # Head(q) => Has(Tail(q), f)
         /\ AtMostOne(q, f) => AtMostOne(Tail(q), f)
         /\ AtMostOne(q, f) /\ f = Head(q) => ~Has(Tail(q), f)
<1> DEFINE r == Tail(q)
<1> DEFINE n == Len(q)
<1>1. n \in Nat \ {0} /\ DOMAIN q = 1..n
  BY LenProperties, EmptySeq
<1>2. Head(q) = q[1] /\ r \in Seq(S) /\ Len(r) = n - 1
      /\ \A i \in 1..(n - 1) : r[i] = q[i + 1]
  BY <1>1, HeadTailProperties
<1>3. DOMAIN r = 1..(n - 1)
  BY <1>2, LenProperties
<1> HIDE DEF n, r
<1>4. Has(q, Head(q))
  BY <1>1, <1>2 DEF Has
<1>5. Has(r, f) => Has(q, f)
  BY <1>1, <1>2, <1>3 DEF Has
<1>6. Has(q, f) /\ f # Head(q) => Has(r, f)
  <2> SUFFICES ASSUME NEW i \in 1..n, q[i] = f, f # Head(q) PROVE Has(r, f)
    BY <1>1 DEF Has
  <2>1. i - 1 \in 1..(n - 1) /\ r[i - 1] = q[(i - 1) + 1]
    BY <1>1, <1>2
  <2> QED BY <1>3, <2>1 DEF Has
<1>7. AtMostOne(q, f) => AtMostOne(r, f)
  <2> SUFFICES ASSUME AtMostOne(q, f), NEW i \in 1..(n - 1), NEW j \in 1..(n - 1),
                      r[i] = f, r[j] = f
               PROVE  i = j
    BY <1>3 DEF AtMostOne
  <2>1. i + 1 \in DOMAIN q /\ j + 1 \in DOMAIN q /\ q[i + 1] = f /\ q[j + 1] = f
    BY <1>1, <1>2
  <2>2. i + 1 = j + 1
    BY <2>1 DEF AtMostOne
  <2> QED BY <2>2
<1>8. AtMostOne(q, f) /\ f = Head(q) => ~Has(r, f)
  <2> SUFFICES ASSUME AtMostOne(q, f), f = Head(q), NEW i \in 1..(n - 1), r[i] = f
               PROVE  FALSE
    BY <1>3 DEF Has
  <2>1. i + 1 \in DOMAIN q /\ 1 \in DOMAIN q /\ q[i + 1] = f /\ q[1] = f
    BY <1>1, <1>2
  <2>2. i + 1 = 1
    BY <2>1 DEF AtMostOne
  <2> QED BY <2>2
<1> QED BY <1>4, <1>5, <1>6, <1>7, <1>8 DEF r

(* An empty channel has no frame.                                          *)
LEMMA HasNothing == \A f : ~Has(<<>>, f) /\ AtMostOne(<<>>, f)
BY DEF Has, AtMostOne

(* A frame that is not in a channel is not in it twice.                    *)
LEMMA HasNot ==
  ASSUME NEW q, NEW f, ~Has(q, f)
  PROVE  AtMostOne(q, f)
BY DEF Has, AtMostOne

(* A write appends its frame to one wire, or nothing.                      *)
LEMMA WriteHas ==
  ASSUME TypeOK, NEW e \in Ends, NEW f \in Frame, WriteOk(e, f)
  PROVE  /\ \A d \in Ends : \A g :
              Has(wire'[d], g) <=>
                (Has(wire[d], g) \/ (Linked(e) /\ d = Peer(e) /\ g = f))
         /\ \A d \in Ends : \A g :
              AtMostOne(wire[d], g) /\ (g = f => ~Has(wire[d], g))
                => AtMostOne(wire'[d], g)
<1>1. Peer(e) \in Ends /\ wire \in [Ends -> Seq(Frame)]
  BY DEF TypeOK, Peer, Client, Ends
<1>2. CASE Linked(e)
  <2>1. wire' = [wire EXCEPT ![Peer(e)] = Append(wire[Peer(e)], f)]
    BY <1>2 DEF WriteOk
  <2>2. wire'[Peer(e)] = Append(wire[Peer(e)], f)
        /\ \A d \in Ends \ {Peer(e)} : wire'[d] = wire[d]
    BY <1>1, <2>1
  <2>3. wire[Peer(e)] \in Seq(Frame)
    BY <1>1
  <2>4. \A g : /\ Has(wire'[Peer(e)], g) <=> (Has(wire[Peer(e)], g) \/ g = f)
               /\ AtMostOne(wire[Peer(e)], g) /\ (g = f => ~Has(wire[Peer(e)], g))
                    => AtMostOne(wire'[Peer(e)], g)
    BY <2>2, <2>3, HasAppend
  <2> QED BY <1>1, <1>2, <2>2, <2>4
<1>3. CASE ~Linked(e)
  BY <1>3 DEF WriteOk
<1> QED BY <1>2, <1>3

(* Taking a frame off a wire.                                              *)
LEMMA TakeHas ==
  ASSUME TypeOK, NEW e \in Ends, wire[e] # <<>>, Take(e)
  PROVE  LET h == Head(wire[e]) IN
         /\ h \in Frame /\ Has(wire[e], h)
         /\ \A d \in Ends : \A g : Has(wire'[d], g) => Has(wire[d], g)
         /\ \A d \in Ends : \A g :
              Has(wire[d], g) /\ ~(d = e /\ g = h) => Has(wire'[d], g)
         /\ \A d \in Ends : \A g : AtMostOne(wire[d], g) => AtMostOne(wire'[d], g)
         /\ AtMostOne(wire[e], h) => ~Has(wire'[e], h)
<1>1. wire \in [Ends -> Seq(Frame)] /\ wire[e] \in Seq(Frame)
  BY DEF TypeOK
<1>2. wire'[e] = Tail(wire[e]) /\ \A d \in Ends \ {e} : wire'[d] = wire[d]
  BY <1>1 DEF Take
<1>3. Head(wire[e]) \in Frame
  BY <1>1, HeadTailProperties
<1>4. \A f : /\ Has(wire[e], Head(wire[e]))
             /\ Has(wire'[e], f) => Has(wire[e], f)
             /\ Has(wire[e], f) /\ f # Head(wire[e]) => Has(wire'[e], f)
             /\ AtMostOne(wire[e], f) => AtMostOne(wire'[e], f)
             /\ AtMostOne(wire[e], f) /\ f = Head(wire[e]) => ~Has(wire'[e], f)
  BY <1>1, <1>2, HasTail
<1> QED BY <1>2, <1>3, <1>4
-----------------------------------------------------------------------------
(* The id of a thread inside send is an id of a request.                   *)
LEMMA BusyId ==
  ASSUME IInv, NEW s \in Sender, Busy(s)
  PROVE  my[s] \in 1..(reply_flag - 1)
<1>1. Home[s] \in Ends /\ msgid[Home[s]] \in 1..reply_flag
  BY DEF IInv, TypeOK
<1>2. my[s] \in InUse(Home[s])
  BY DEF InUse
<1>3. my[s] \in 1..(msgid[Home[s]] - 1)
  BY <1>1, <1>2 DEF IInv, IdsConserved
<1> QED BY <1>1, <1>3

(* On the first connection there are two dispatchers, each the other's     *)
(* peer.                                                                   *)
LEMMA Pair ==
  ASSUME TypeOK, CallInv, conn <= 1, NEW s \in Sender, Busy(s)
  PROVE  /\ conn = 1 /\ Home[s] \in {0, 1} /\ 1 \in Ends
         /\ Peer(Home[s]) = 1 - Home[s] /\ Peer(Peer(Home[s])) = Home[s]
         /\ Peer(Home[s]) \in Ends /\ Peer(Home[s]) # Home[s]
<1>1. conn = 1 /\ Home[s] \in Ends /\ Home[s] <= 1 /\ 1 \in Ends
  BY DEF CallInv, Connection, TypeOK, Ends
<1>2. Home[s] \in {0, 1}
  BY <1>1 DEF Ends
<1> QED BY <1>1, <1>2 DEF Peer, Client, Ends

(* A call that is sent has a frame on the wire, the only thing under its   *)
(* name: the id was nobody's and the number is new.                        *)
LEMMA SendOkCalls ==
  ASSUME IInv, CallInv, conn <= 1, NEW s \in Sender, SendOk(s)
  PROVE  CallInv'
<1> DEFINE e == Home[s]
<1> DEFINE c == <<s, calls[s] + 1>>
<1> DEFINE f == [raw |-> NextId(e), call |-> c]
<1>1. TypeOK /\ e \in Ends /\ calls[s] \in Nat /\ pc[s] = "idle"
  BY DEF IInv, TypeOK, SendOk, MayCall
<1>2. NextId(e) \in 1..(reply_flag - 1)
      /\ \A t \in Sender : Busy(t) /\ Home[t] = e => my[t] # NextId(e)
  BY <1>1, NextIdIsFree
<1>3. f \in Frame /\ WriteOk(e, f)
  BY <1>1, <1>2 DEF Frame, Payload, Call, SendOk
<1>4. conn = 1 /\ e \in {0, 1} /\ conn' = conn /\ link' = link
  <2>1. is_connected[e] /\ e <= conn /\ conn' = conn /\ link' = link
    BY DEF SendOk, WriteOk, MayCall
  <2>2. conn # 0 /\ conn \in Nat
    BY <1>1, <2>1 DEF CallInv, Connection, TypeOK, Ends
  <2> QED BY <1>1, <2>1, <2>2 DEF Ends
<1>5. Peer(e) = 1 - e /\ Peer(e) \in Ends /\ (Linked(e) <=> link)
      /\ \A d \in Ends : Peer(d)' = Peer(d) /\ Peer(d) \in Ends
  <2>1. Peer(e) = 1 - e /\ Peer(e) \in Ends
    BY <1>1, <1>4 DEF Peer, Client, Ends, TypeOK
  <2>2. Linked(e) <=> link
    BY <1>4 DEF Linked, Client
  <2>3. \A d \in Ends : Peer(d)' = Peer(d) /\ Peer(d) \in Ends
    BY <1>1, <1>4 DEF Peer, Client, Ends, TypeOK
  <2> QED BY <2>1, <2>2, <2>3
<1>6. ~Busy(s)
  BY <1>1 DEF Busy
<1>7. \A t \in Sender \ {s} :
        /\ Busy(t)' = Busy(t) /\ my'[t] = my[t] /\ calls'[t] = calls[t]
        /\ resp'[t] = resp[t]
        /\ Busy(t) => Received(t)' = Received(t)
        /\ Busy(t) => Waits(t)' = Waits(t)
        /\ Waits(t)' => Waits(t)
        /\ CallOf(t)' = CallOf(t)
        /\ FrameOf(t)' = FrameOf(t) /\ ReplyOf(t)' = ReplyOf(t)
        /\ RequestOf(t)' = RequestOf(t)
  BY <1>1, <1>2 DEF SendOk, Busy, Received, Waits, CallOf, FrameOf, ReplyOf,
     RequestOf, IInv, TypeOK
<1>8. /\ Busy(s)' /\ ~Received(s)' /\ Waits(s)' /\ resp'[s] = NoCall
      /\ CallOf(s)' = c /\ FrameOf(s)' = f
      /\ ReplyOf(s)' = [raw |-> NextId(e) + reply_flag, call |-> c]
      /\ RequestOf(s)' = [id |-> NextId(e), call |-> c]
  BY <1>1, <1>2 DEF SendOk, Busy, Received, Waits, CallOf, FrameOf, ReplyOf,
     RequestOf, IInv, TypeOK
<1>9. c \notin answered /\ answered' = answered /\ request_msgids' = request_msgids
      /\ in' = in /\ is_connected' = is_connected
  BY <1>1 DEF CallInv, Answers, SendOk, WriteOk
<1>10. \A t \in Sender \ {s} : CallOf(t) # c
  BY DEF CallOf
<1>11. \A d \in Ends : \A g \in Frame : Has(wire[d], g) => g.raw = 0 \/ g.call # c
  <2> SUFFICES ASSUME NEW d \in Ends, NEW g \in Frame, Has(wire[d], g), g.raw # 0
               PROVE  g.call # c
    OBVIOUS
  <2>1. PICK t \in Sender : Busy(t) /\ g.call = CallOf(t)
    BY DEF CallInv, FramesBelong, Waits, FrameOf, ReplyOf
  <2> QED BY <1>6, <1>10, <2>1
<1>12. \A d \in Ends : \A r \in request_msgids[d] : r.call # c
  <2> SUFFICES ASSUME NEW d \in Ends, NEW r \in request_msgids[d] PROVE r.call # c
    OBVIOUS
  <2>1. PICK t \in Sender : Busy(t) /\ r.call = CallOf(t)
    BY DEF CallInv, RequestsBelong, Waits, RequestOf
  <2> QED BY <1>6, <1>10, <2>1
<1>13. \A d \in Ends : \A g :
         Has(wire'[d], g) <=> (Has(wire[d], g) \/ (link /\ d = Peer(e) /\ g = f))
  BY <1>1, <1>3, <1>5, WriteHas
<1>14. \A d \in Ends : \A g :
         AtMostOne(wire[d], g) /\ (g = f => ~Has(wire[d], g)) => AtMostOne(wire'[d], g)
  BY <1>1, <1>3, WriteHas
<1> HIDE DEF e, c, f
<1>15. Connection'
  <2>1. wire' = IF link THEN [wire EXCEPT ![Peer(e)] = Append(@, f)] ELSE wire
    BY <1>3, <1>5 DEF WriteOk
  <2>2. \A d \in Ends : d > conn => wire'[d] = wire[d]
    BY <1>1, <1>4, <1>5, <2>1 DEF TypeOK, Ends
  <2> QED BY <1>1, <1>4, <1>5, <1>7, <1>9, <2>1, <2>2 DEF CallInv, Connection, e
<1>16. FramesBelong'
  <2> SUFFICES ASSUME NEW d \in Ends, NEW g \in Frame, Has(wire'[d], g), g.raw # 0
               PROVE  \/ \E t \in Sender : /\ Waits(t)' /\ Peer(Home[t])' = d
                                           /\ g = FrameOf(t)'
                                           /\ (CallOf(t) \notin answered)'
                      \/ \E t \in Sender : /\ Waits(t)' /\ Home[t] = d
                                           /\ g = ReplyOf(t)'
                                           /\ (CallOf(t) \in answered)'
    BY DEF FramesBelong
  <2>1. CASE g = f /\ d = Peer(e)
    BY <1>1, <1>5, <1>8, <1>9, <2>1 DEF e
  <2>2. CASE Has(wire[d], g)
    BY <1>5, <1>6, <1>7, <1>9, <2>2 DEF CallInv, FramesBelong, Waits
  <2> QED BY <1>13, <2>1, <2>2
<1>17. RequestsBelong'
  BY <1>5, <1>6, <1>7, <1>9 DEF CallInv, RequestsBelong, Waits
<1>18. NotTwice'
  <2> SUFFICES ASSUME NEW t \in Sender, Busy(t)'
               PROVE  /\ AtMostOne(wire[Peer(Home[t])], FrameOf(t))'
                      /\ AtMostOne(wire[Home[t]], ReplyOf(t))'
                      /\ ~(Out(t) /\ With(t))'
    BY DEF NotTwice
  <2> DEFINE r == ReplyOf(s)'
  <2>1. CASE t = s
    <3>1. r \in Frame /\ r.raw # 0 /\ f.raw # 0 /\ r.call = c /\ f.call = c /\ r # f
      BY <1>1, <1>2, <1>8 DEF Frame, Payload, Call, c, f
    <3>2. \A d \in Ends : ~Has(wire[d], f) /\ ~Has(wire[d], r)
      BY <1>3, <1>11, <3>1
    <3>3. \A d \in Ends : AtMostOne(wire'[d], f) /\ AtMostOne(wire'[d], r)
      BY <1>14, <3>2, HasNot
    <3>4. ~With(s)'
      BY <1>1, <1>5, <1>8, <1>9, <1>12 DEF With, e
    <3> QED BY <1>1, <1>5, <1>8, <2>1, <3>3, <3>4 DEF e
  <2>2. CASE t # s
    <3>1. Busy(t) /\ FrameOf(t)' = FrameOf(t) /\ ReplyOf(t)' = ReplyOf(t)
          /\ RequestOf(t)' = RequestOf(t)
      BY <1>7, <2>2
    <3>2. FrameOf(t) # f /\ ReplyOf(t) # f
      BY <1>10, <2>2 DEF FrameOf, ReplyOf, f
    <3>3. Home[t] \in Ends /\ Peer(Home[t]) \in Ends /\ Peer(Home[t])' = Peer(Home[t])
      BY <1>5
    <3>4. AtMostOne(wire[Peer(Home[t])], FrameOf(t))
          /\ AtMostOne(wire[Home[t]], ReplyOf(t)) /\ ~(Out(t) /\ With(t))
      BY <3>1 DEF CallInv, NotTwice
    <3> QED BY <1>9, <1>13, <1>14, <3>1, <3>2, <3>3, <3>4 DEF Out, With
  <2> QED BY <2>1, <2>2
<1>19. Somewhere'
  <2> SUFFICES ASSUME link, NEW t \in Sender, Waits(t)'
               PROVE  (Out(t) \/ With(t) \/ Back(t))'
    BY <1>4 DEF Somewhere
  <2>1. CASE t = s
    BY <1>1, <1>5, <1>8, <1>13, <2>1 DEF Out, e
  <2>2. CASE t # s
    <3>1. Waits(t) /\ FrameOf(t)' = FrameOf(t) /\ ReplyOf(t)' = ReplyOf(t)
          /\ RequestOf(t)' = RequestOf(t)
      BY <1>7, <2>2
    <3>2. Home[t] \in Ends /\ Peer(Home[t]) \in Ends /\ Peer(Home[t])' = Peer(Home[t])
      BY <1>5
    <3>3. Out(t) \/ With(t) \/ Back(t)
      BY <3>1 DEF CallInv, Somewhere
    <3> QED BY <1>9, <1>13, <3>1, <3>2, <3>3 DEF Out, With, Back
  <2> QED BY <2>1, <2>2
<1>20. Answers'
  <2>1. \A t \in Sender : Busy(t)' /\ Received(t)' => (CallOf(t) \in answered)'
    BY <1>7, <1>8, <1>9 DEF CallInv, Answers
  <2>2. \A t \in Sender : calls[t] \in Nat /\ calls'[t] \in Nat /\ calls[t] <= calls'[t]
    BY DEF SendOk, IInv, TypeOK
  <2>3. \A t \in Sender, n \in Nat : <<t, n>> \in answered' => n <= calls'[t]
    BY <1>9, <2>2 DEF CallInv, Answers
  <2>4. \A t \in Sender : Busy(t)' => calls'[t] # 0
    <3>1. calls'[s] = calls[s] + 1
      BY DEF SendOk, IInv, TypeOK
    <3> QED BY <1>1, <1>7, <3>1 DEF CallInv, Answers
  <2> QED BY <2>1, <2>3, <2>4 DEF Answers
<1>21. Responses'
  BY <1>6, <1>7, <1>8, <1>9 DEF CallInv, Responses, IsAlone
<1> QED BY <1>15, <1>16, <1>17, <1>18, <1>19, <1>20, <1>21 DEF CallInv
-----------------------------------------------------------------------------
(* Every dispatcher has a peer.                                            *)
LEMMA PeerType ==
  ASSUME TypeOK
  PROVE  \A d \in Ends : Peer(d) \in Ends
BY DEF TypeOK, Peer, Client, Ends

(* The frames of a thread inside send are frames of a request and a reply. *)
LEMMA BusyFrames ==
  ASSUME IInv, CallInv, conn <= 1, NEW s \in Sender, Busy(s)
  PROVE  /\ FrameOf(s) \in Frame /\ ReplyOf(s) \in Frame
         /\ FrameOf(s).raw # 0 /\ ReplyOf(s).raw # 0
         /\ ~IsReply(FrameOf(s)) /\ IsReply(ReplyOf(s))
         /\ IdOf(FrameOf(s)) = my[s] /\ IdOf(ReplyOf(s)) = my[s]
         /\ CallOf(s) \in Call
<1>1. my[s] \in 1..(reply_flag - 1)
  BY BusyId
<1>2. CallOf(s) \in Call
  BY DEF CallInv, Answers, CallOf, Call, IInv, TypeOK
<1>3. FrameOf(s).raw = my[s] /\ ReplyOf(s).raw = my[s] + reply_flag
  BY DEF FrameOf, ReplyOf
<1>4. FrameOf(s) \in Frame /\ ReplyOf(s) \in Frame
  BY <1>1, <1>2 DEF FrameOf, ReplyOf, Frame, Payload
<1>5. ~IsReply(FrameOf(s)) /\ IsReply(ReplyOf(s))
  BY <1>1, <1>3 DEF IsReply
<1>6. IdOf(FrameOf(s)) = my[s] /\ IdOf(ReplyOf(s)) = my[s]
  BY <1>1, <1>3, <1>5 DEF IdOf
<1> QED BY <1>1, <1>2, <1>3, <1>4, <1>5, <1>6

(* What a thread whose call is not answered in this step may do: nothing,  *)
(* or return with a response that is its own or, if it was not inside      *)
(* send, call it in vain.                                                  *)
Aside(t) ==
  /\ Busy(t)' => Busy(t)
  /\ Waits(t) => Busy(t)'
  /\ Busy(t)' => /\ my'[t] = my[t] /\ calls'[t] = calls[t]
                 /\ Received(t)' <=> Received(t)
  /\ calls[t] \in Nat /\ calls'[t] \in Nat /\ calls[t] <= calls'[t]
  /\ IsAlone(t) /\ ~Busy(t)' => resp'[t] \in {NoCall, CallOf(t)'}

(* A step that moves no call: frames and requests may go when the          *)
(* connection goes, and notifications come and go.                         *)
LEMMA NoCallMoves ==
  ASSUME IInv, CallInv, conn <= 1, conn' = conn, Connection',
         \A t \in Sender : Aside(t),
         answered' = answered, in' = in,
         \A d \in Ends : request_msgids'[d] \subseteq request_msgids[d],
         \A d \in Ends : \A g \in Frame :
           Has(wire'[d], g) => Has(wire[d], g) \/ g.raw = 0,
         \A d \in Ends : \A g \in Frame :
           g.raw # 0 /\ AtMostOne(wire[d], g) => AtMostOne(wire'[d], g),
         link' => /\ link /\ request_msgids' = request_msgids
                  /\ \A d \in Ends : \A g \in Frame :
                       Has(wire[d], g) /\ g.raw # 0 => Has(wire'[d], g)
  PROVE  CallInv'
<1>1. \A d \in Ends : Peer(d) \in Ends /\ Peer(d)' = Peer(d)
  BY PeerType DEF Peer, IInv
<1>2. \A t \in Sender : Busy(t)' =>
        /\ Busy(t) /\ CallOf(t)' = CallOf(t)
        /\ FrameOf(t)' = FrameOf(t) /\ ReplyOf(t)' = ReplyOf(t)
        /\ RequestOf(t)' = RequestOf(t)
        /\ (Waits(t)' <=> Waits(t)) /\ (Received(t)' <=> Received(t))
  BY DEF Aside, CallOf, FrameOf, ReplyOf, RequestOf, Waits
<1>3. \A t \in Sender : (Waits(t) => Waits(t)' /\ Busy(t)') /\ (Waits(t)' => Waits(t))
  BY <1>2 DEF Aside, Waits
<1>4. FramesBelong'
  <2> SUFFICES ASSUME NEW d \in Ends, NEW g \in Frame, Has(wire'[d], g), g.raw # 0
               PROVE  \/ \E t \in Sender : /\ Waits(t)' /\ Peer(Home[t])' = d
                                           /\ g = FrameOf(t)'
                                           /\ (CallOf(t) \notin answered)'
                      \/ \E t \in Sender : /\ Waits(t)' /\ Home[t] = d
                                           /\ g = ReplyOf(t)'
                                           /\ (CallOf(t) \in answered)'
    BY DEF FramesBelong
  <2>1. Has(wire[d], g)
    OBVIOUS
  <2> QED BY <1>1, <1>2, <1>3, <2>1 DEF CallInv, FramesBelong
<1>5. RequestsBelong'
  BY <1>1, <1>2, <1>3 DEF CallInv, RequestsBelong
<1>6. NotTwice'
  BY <1>1, <1>2, BusyFrames DEF CallInv, NotTwice, Out, With
<1>7. Somewhere'
  BY <1>1, <1>2, <1>3, BusyFrames DEF CallInv, Somewhere, Out, With, Back
<1>8. Answers'
  <2>1. \A t \in Sender : Busy(t)' /\ Received(t)' => (CallOf(t) \in answered)'
    BY <1>2 DEF CallInv, Answers
  <2>2. \A t \in Sender, n \in Nat : <<t, n>> \in answered' => n <= calls'[t]
    BY DEF CallInv, Answers, Aside
  <2>3. \A t \in Sender : Busy(t)' => calls'[t] # 0
    BY DEF CallInv, Answers, Aside
  <2> QED BY <2>1, <2>2, <2>3 DEF Answers
<1>9. Responses'
  BY <1>2 DEF CallInv, Responses, IsAlone, Aside
<1> QED BY <1>4, <1>5, <1>6, <1>7, <1>8, <1>9 DEF CallInv

(* Waking up and going back to sleep in the loop around the wait.          *)
LEMMA WakeCalls ==
  ASSUME IInv, CallInv, conn <= 1, NEW s \in Sender,
         SpuriousWakeup(s) \/ WaitAgain(s)
  PROVE  CallInv'
<1>1. /\ UNCHANGED <<linkVars, wire, sender_response_received, in, request_msgids,
                     my, calls, resp, answered>>
      /\ \A t \in Sender : Busy(t)' <=> Busy(t)
  BY DEF SpuriousWakeup, WaitAgain, Busy, IInv, TypeOK
<1>2. Connection'
  BY <1>1 DEF CallInv, Connection, linkVars
<1>3. \A t \in Sender : Aside(t)
  BY <1>1 DEF CallInv, Responses, Aside, Waits, Received, CallOf, IInv, TypeOK
<1> QED BY <1>1, <1>2, <1>3, NoCallMoves DEF linkVars

(* The transport learns that its connection is down.                       *)
LEMMA StreamClosedCalls ==
  ASSUME IInv, CallInv, conn <= 1, NEW e \in Ends, StreamClosed(e)
  PROVE  CallInv'
<1>1. /\ UNCHANGED <<conn, link, wire, sender_response_received, in, request_msgids,
                     pc, my, calls, resp, answered>>
      /\ is_connected' = [is_connected EXCEPT ![e] = FALSE]
      /\ ~Linked(e)
  BY DEF StreamClosed, senderVars
<1>2. Connection'
  BY <1>1 DEF CallInv, Connection, Linked, Client, IInv, TypeOK, Busy
<1>3. \A t \in Sender : Aside(t)
  BY <1>1 DEF CallInv, Responses, Aside, Busy, Waits, Received, CallOf, IInv, TypeOK
<1> QED BY <1>1, <1>2, <1>3, NoCallMoves

(* The connection breaks: every frame is lost, and no call need be         *)
(* anywhere any more.                                                      *)
LEMMA CloseCalls ==
  ASSUME IInv, CallInv, conn <= 1, Close
  PROVE  CallInv'
<1>1. /\ UNCHANGED <<conn, is_connected, sender_response_received, in,
                     request_msgids, pc, my, calls, resp, answered>>
      /\ ~link'
      /\ \A d \in Ends : wire'[d] = <<>>
  BY DEF Close, senderVars
<1>2. Connection'
  BY <1>1 DEF CallInv, Connection, Busy
<1>3. \A t \in Sender : Aside(t)
  BY <1>1 DEF CallInv, Responses, Aside, Busy, Waits, Received, CallOf, IInv, TypeOK
<1>4. \A d \in Ends : \A g : ~Has(wire'[d], g) /\ AtMostOne(wire'[d], g)
  BY <1>1, HasNothing
<1> QED BY <1>1, <1>2, <1>3, <1>4, NoCallMoves

(* A write only fails on a connection that is down.                        *)
LEMMA FailedWrite ==
  ASSUME IInv, CallInv, conn <= 1, NEW e \in Ends, e <= conn, WriteFails(e),
         UNCHANGED <<conn, link>>, \A t \in Sender : Busy(t)' <=> Busy(t),
         \A d \in Ends : request_msgids'[d] \subseteq request_msgids[d]
  PROVE  /\ Connection' /\ wire' = wire
         /\ ~link'
<1>1. /\ is_connected' = [is_connected EXCEPT ![e] = FALSE]
      /\ wire' = wire /\ (is_connected[e] => ~Linked(e))
  BY DEF WriteFails
<1>2. ~link
  <2> SUFFICES ASSUME link PROVE FALSE
    OBVIOUS
  <2>1. conn = 1 /\ is_connected[Client] /\ is_connected[conn]
    BY DEF CallInv, Connection, IInv, TypeOK, Ends
  <2>2. e = Client \/ e = conn
    BY <2>1 DEF Ends, Client
  <2> QED BY <1>1, <2>1, <2>2 DEF WriteFails, Linked
<1>3. Connection'
  BY <1>1, <1>2 DEF CallInv, Connection, IInv, TypeOK
<1> QED BY <1>1, <1>2, <1>3

(* write(p): a package that belongs to no call.                            *)
LEMMA WriteNoteCalls ==
  ASSUME IInv, CallInv, conn <= 1, NEW e \in Ends, WriteNote(e)
  PROVE  CallInv'
<1>1. /\ UNCHANGED <<conn, link, sender_response_received, in, request_msgids,
                     pc, my, calls, resp, answered>>
      /\ e <= conn
  BY DEF WriteNote, senderVars
<1>2. \A t \in Sender : Aside(t)
  BY <1>1 DEF CallInv, Responses, Aside, Busy, Waits, Received, CallOf, IInv, TypeOK
<1>3. CASE WriteFails(e)
  <2>1. Connection' /\ wire' = wire /\ ~link'
    BY <1>1, <1>3, FailedWrite DEF Busy
  <2> QED BY <1>1, <1>2, <2>1, NoCallMoves
<1>4. CASE WriteOk(e, [raw |-> 0, call |-> NoCall])
  <2> DEFINE f == [raw |-> 0, call |-> NoCall]
  <2>1. f \in Frame /\ f.raw = 0
    <3>1. 0 < reply_flag
      BY FS_CardinalityType
    <3> QED BY <3>1 DEF Frame, Payload
  <2>2. \A d \in Ends : \A g \in Frame :
          /\ Has(wire'[d], g) => Has(wire[d], g) \/ g.raw = 0
          /\ Has(wire[d], g) => Has(wire'[d], g)
          /\ g.raw # 0 /\ AtMostOne(wire[d], g) => AtMostOne(wire'[d], g)
    <3> HIDE DEF f
    <3> QED BY <1>4, <2>1, WriteHas DEF f, IInv
  <2>3. Connection'
    <3>1. is_connected' = is_connected /\ (Linked(e) => link /\ Peer(e) <= conn)
      BY <1>1, <1>4 DEF WriteOk, Linked, Peer, Client, IInv, TypeOK, Ends
    <3>2. \A d \in Ends : d > conn \/ ~link => wire'[d] = wire[d]
      BY <1>1, <1>4, <3>1 DEF WriteOk, IInv, TypeOK, Ends
    <3> QED BY <1>1, <3>1, <3>2 DEF CallInv, Connection, Busy
  <2> QED BY <1>1, <1>2, <2>2, <2>3, NoCallMoves
<1> QED BY <1>3, <1>4 DEF WriteNote

(* send whose write fails: its thread was not inside send and is not after *)
(* it, and the id whose flag it clears was nobody's.                       *)
LEMMA SendFailsCalls ==
  ASSUME IInv, CallInv, conn <= 1, NEW s \in Sender, SendFails(s)
  PROVE  CallInv'
<1> DEFINE e == Home[s]
<1>1. /\ UNCHANGED <<conn, link, in, request_msgids, pc, my, answered>>
      /\ e \in Ends /\ e <= conn /\ WriteFails(e) /\ pc[s] = "idle"
  BY DEF SendFails, MayCall
<1>2. \A t \in Sender : Busy(t) /\ Home[t] = e => my[t] # NextId(e)
  BY <1>1, NextIdIsFree
<1>3. Connection' /\ wire' = wire /\ ~link'
  BY <1>1, FailedWrite DEF Busy
<1>4. \A t \in Sender \ {s} : Aside(t)
  BY <1>1, <1>2 DEF CallInv, Responses, Aside, Busy, Waits, Received, CallOf, IsAlone,
     SendFails, IInv, TypeOK
<1>5. Aside(s)
  BY <1>1 DEF Aside, Busy, Waits, SendFails, IInv, TypeOK
<1> QED BY <1>1, <1>3, <1>4, <1>5, NoCallMoves

(* reply whose write fails: the request is forgotten, but on a connection  *)
(* that is down.                                                           *)
LEMMA ReplyFailsCalls ==
  ASSUME IInv, CallInv, conn <= 1, NEW e \in Ends, NEW r \in request_msgids[e],
         ReplyFails(e, r)
  PROVE  CallInv'
<1>1. /\ UNCHANGED <<conn, link, sender_response_received, in, pc, my, calls, resp,
                     answered>>
      /\ WriteFails(e)
      /\ \A d \in Ends : request_msgids'[d] \subseteq request_msgids[d]
  BY DEF ReplyFails, senderVars, IInv, TypeOK
<1>2. e <= conn
  BY DEF CallInv, Connection, IInv, TypeOK, Ends
<1>3. Connection' /\ wire' = wire /\ ~link'
  BY <1>1, <1>2, FailedWrite DEF Busy
<1>4. \A t \in Sender : Aside(t)
  BY <1>1 DEF CallInv, Responses, Aside, Busy, Waits, Received, CallOf, IInv, TypeOK
<1> QED BY <1>1, <1>3, <1>4, NoCallMoves

(* Taking a frame off a wire leaves the connection as it was.              *)
LEMMA TakeConnection ==
  ASSUME IInv, CallInv, conn <= 1, NEW e \in Ends, wire[e] # <<>>, Take(e),
         UNCHANGED <<conn, link, is_connected>>,
         \A t \in Sender : Busy(t)' <=> Busy(t),
         \A d \in Ends \ {e} : request_msgids'[d] = request_msgids[d]
  PROVE  Connection'
<1>1. link /\ ~(e > conn)
  BY DEF CallInv, Connection
<1>2. \A d \in Ends : d > conn => wire'[d] = wire[d]
  BY <1>1 DEF Take, IInv, TypeOK
<1> QED BY <1>1, <1>2 DEF CallInv, Connection

(* A notification that is received was nobody's call.                      *)
LEMMA ReceiveNoteCalls ==
  ASSUME IInv, CallInv, conn <= 1, NEW e \in Ends, ReceiveNote(e)
  PROVE  CallInv'
<1> DEFINE h == Head(wire[e])
<1>1. /\ UNCHANGED <<conn, link, is_connected, sender_response_received, in,
                     request_msgids, pc, my, calls, resp, answered>>
      /\ wire[e] # <<>> /\ Take(e) /\ IdOf(h) = 0
  BY DEF ReceiveNote, senderVars, linkVars
<1>2. \A t \in Sender : Aside(t)
  BY <1>1 DEF CallInv, Responses, Aside, Busy, Waits, Received, CallOf, IInv, TypeOK
<1>3. /\ h \in Frame /\ Has(wire[e], h)
      /\ \A d \in Ends : \A g : Has(wire'[d], g) => Has(wire[d], g)
      /\ \A d \in Ends : \A g : Has(wire[d], g) /\ ~(d = e /\ g = h) => Has(wire'[d], g)
      /\ \A d \in Ends : \A g : AtMostOne(wire[d], g) => AtMostOne(wire'[d], g)
  BY <1>1, TakeHas DEF IInv
<1> HIDE DEF h
<1>4. h.raw = 0
  <2> SUFFICES ASSUME h.raw # 0 PROVE FALSE
    OBVIOUS
  <2>1. PICK t \in Sender : Busy(t) /\ (h = FrameOf(t) \/ h = ReplyOf(t))
    BY <1>3 DEF CallInv, FramesBelong, Waits
  <2>2. IdOf(h) = my[t] /\ my[t] # 0
    BY <2>1, BusyFrames, BusyId
  <2> QED BY <1>1, <2>2 DEF h
<1>5. Connection'
  BY <1>1, TakeConnection DEF Busy
<1> QED BY <1>1, <1>2, <1>3, <1>4, <1>5, NoCallMoves

(* The end of the wait: the call was answered, no frame or request is its  *)
(* own, and what is in "in" is its response if the thread was alone.       *)
LEMMA SendReturnsCalls ==
  ASSUME IInv, CallInv, conn <= 1, NEW s \in Sender, SendReturns(s)
  PROVE  CallInv'
<1>1. /\ UNCHANGED <<conn, link, is_connected, wire, sender_response_received, in,
                     request_msgids, my, calls, answered>>
      /\ Received(s) /\ Busy(s)
      /\ \A t \in Sender \ {s} : (Busy(t)' <=> Busy(t)) /\ resp'[t] = resp[t]
      /\ ~Busy(s)' /\ resp'[s] = in[Home[s]]
  BY DEF SendReturns, linkVars, Received, Busy, IInv, TypeOK
<1>2. Connection'
  BY <1>1 DEF CallInv, Connection
<1>3. \A t \in Sender \ {s} : Aside(t)
  BY <1>1 DEF CallInv, Responses, Aside, Waits, Received, CallOf, IInv, TypeOK
<1>4. Aside(s)
  <2>1. IsAlone(s) => in[Home[s]] = CallOf(s)
    BY <1>1 DEF CallInv, Responses
  <2>2. CallOf(s)' = CallOf(s) /\ ~Waits(s)
    BY <1>1 DEF CallOf, Waits
  <2>3. calls[s] \in Nat /\ calls'[s] = calls[s]
    BY <1>1 DEF IInv, TypeOK
  <2> QED BY <1>1, <2>1, <2>2, <2>3 DEF Aside
<1> QED BY <1>1, <1>2, <1>3, <1>4, NoCallMoves

(* The first connection: nobody is inside send and nothing on any wire.    *)
LEMMA ConnectCalls ==
  ASSUME IInv, CallInv, conn <= 1, Connect, conn' <= 1
  PROVE  CallInv'
<1>1. /\ UNCHANGED <<wire, sender_response_received, in, request_msgids, pc, my,
                     calls, resp, answered>>
      /\ conn = 0 /\ conn' = 1 /\ ~link /\ link'
      /\ is_connected'[Client] /\ is_connected'[1]
  BY DEF Connect, senderVars, Client, Ends, IInv, TypeOK
<1>2. /\ \A d \in Ends : wire[d] = <<>>
      /\ \A t \in Sender : ~Busy(t) /\ ~Busy(t)'
  BY <1>1 DEF CallInv, Connection, Busy
<1>3. \A d \in Ends : request_msgids[d] = {}
  BY <1>1, <1>2 DEF CallInv, RequestsBelong, Waits
<1>4. \A d \in Ends : \A g : ~Has(wire'[d], g)
  BY <1>1, <1>2, HasNothing
<1>5. Connection'
  BY <1>1, <1>2, <1>3 DEF CallInv, Connection
<1>6. FramesBelong' /\ RequestsBelong' /\ NotTwice' /\ Somewhere'
  BY <1>1, <1>2, <1>3, <1>4 DEF FramesBelong, RequestsBelong, NotTwice, Somewhere, Waits
<1>7. Answers' /\ Responses'
  BY <1>1, <1>2 DEF CallInv, Answers, Responses, CallOf, IsAlone
<1> QED BY <1>5, <1>6, <1>7 DEF CallInv

-----------------------------------------------------------------------------
(* A frame that is taken off a wire and is not a notification is that of a *)
(* thread that waits: a request of a thread of the peer, or the reply to a *)
(* thread of this dispatcher, and there is no second one.                  *)
LEMMA HeadBelongs ==
  ASSUME IInv, CallInv, conn <= 1, NEW e \in Ends, wire[e] # <<>>,
         IdOf(Head(wire[e])) # 0
  PROVE  LET h == Head(wire[e]) IN
         /\ link /\ conn = 1 /\ e \in {0, 1}
         /\ h \in Frame /\ h.raw # 0 /\ AtMostOne(wire[e], h)
         /\ IsReply(h) => \E s \in Sender : /\ Waits(s) /\ Home[s] = e
                                             /\ h = ReplyOf(s) /\ IdOf(h) = my[s]
                                             /\ CallOf(s) \in answered
         /\ ~IsReply(h) => \E s \in Sender : /\ Waits(s) /\ Peer(Home[s]) = e
                                              /\ h = FrameOf(s) /\ IdOf(h) = my[s]
                                              /\ CallOf(s) \notin answered
<1> DEFINE h == Head(wire[e])
<1>1. wire[e] \in Seq(Frame)
  BY DEF IInv, TypeOK
<1>2. h \in Frame /\ Has(wire[e], h)
  BY <1>1, HasTail, HeadTailProperties
<1> HIDE DEF h
<1>3. 0 < reply_flag
  BY FS_CardinalityType
<1>4. h.raw # 0
  BY <1>3 DEF IdOf, IsReply, h
<1>5. link /\ conn = 1 /\ e \in {0, 1}
  BY DEF CallInv, Connection, IInv, TypeOK, Ends
<1>6. CASE \E s \in Sender : /\ Waits(s) /\ Peer(Home[s]) = e /\ h = FrameOf(s)
                             /\ CallOf(s) \notin answered
  <2>1. PICK s \in Sender : /\ Waits(s) /\ Peer(Home[s]) = e /\ h = FrameOf(s)
                            /\ CallOf(s) \notin answered
    BY <1>6
  <2>2. ~IsReply(h) /\ IdOf(h) = my[s]
    BY <2>1, BusyFrames DEF Waits
  <2>3. AtMostOne(wire[e], h)
    BY <2>1 DEF CallInv, NotTwice, Waits
  <2> QED BY <1>2, <1>4, <1>5, <2>1, <2>2, <2>3 DEF h
<1>7. CASE \E s \in Sender : /\ Waits(s) /\ Home[s] = e /\ h = ReplyOf(s)
                             /\ CallOf(s) \in answered
  <2>1. PICK s \in Sender : /\ Waits(s) /\ Home[s] = e /\ h = ReplyOf(s)
                            /\ CallOf(s) \in answered
    BY <1>7
  <2>2. IsReply(h) /\ IdOf(h) = my[s]
    BY <2>1, BusyFrames DEF Waits
  <2>3. AtMostOne(wire[e], h)
    BY <2>1 DEF CallInv, NotTwice, Waits
  <2> QED BY <1>2, <1>4, <1>5, <2>1, <2>2, <2>3 DEF h
<1> QED BY <1>2, <1>4, <1>6, <1>7 DEF CallInv, FramesBelong

(* A reply sets the flag of the thread that waits for it and of no other,  *)
(* since ids have one owner.                                               *)
LEMMA ReceiveReplyCalls ==
  ASSUME IInv, CallInv, conn <= 1, NEW e \in Ends, ReceiveReply(e)
  PROVE  CallInv'
<1> DEFINE h == Head(wire[e])
<1>1. /\ UNCHANGED <<conn, link, is_connected, request_msgids, my, calls, resp,
                     answered>>
      /\ wire[e] # <<>> /\ Take(e) /\ IsReply(h) /\ IdOf(h) # 0
      /\ in' = [in EXCEPT ![e] = h.call]
      /\ sender_response_received' =
           [sender_response_received EXCEPT ![e] = @ \cup {IdOf(h)}]
  BY DEF ReceiveReply, linkVars
<1>2. \A t \in Sender : Busy(t)' <=> Busy(t)
  BY DEF ReceiveReply, NotifyOne, Waiters, Busy, IInv, TypeOK
<1>3. /\ h \in Frame
      /\ \A d \in Ends : \A g : Has(wire'[d], g) => Has(wire[d], g)
      /\ \A d \in Ends : \A g : Has(wire[d], g) /\ ~(d = e /\ g = h) => Has(wire'[d], g)
      /\ \A d \in Ends : \A g : AtMostOne(wire[d], g) => AtMostOne(wire'[d], g)
      /\ AtMostOne(wire[e], h) => ~Has(wire'[e], h)
  BY <1>1, TakeHas DEF IInv
<1>4. AtMostOne(wire[e], h)
  BY <1>1, HeadBelongs
<1>5. PICK s \in Sender : /\ Waits(s) /\ Home[s] = e /\ h = ReplyOf(s)
                          /\ IdOf(h) = my[s] /\ CallOf(s) \in answered
  BY <1>1, HeadBelongs
<1> HIDE DEF h
<1>6. \A d \in Ends : Peer(d) \in Ends /\ Peer(d)' = Peer(d)
  BY <1>1, PeerType DEF Peer, IInv
<1>7. \A t \in Sender : /\ CallOf(t)' = CallOf(t) /\ FrameOf(t)' = FrameOf(t)
                        /\ ReplyOf(t)' = ReplyOf(t) /\ RequestOf(t)' = RequestOf(t)
  BY <1>1 DEF CallOf, FrameOf, ReplyOf, RequestOf
<1>8. \A t \in Sender : t # s => CallOf(t) # CallOf(s) /\ FrameOf(t) # h /\ ReplyOf(t) # h
  BY <1>5 DEF CallOf, FrameOf, ReplyOf
<1>9. Busy(s) /\ Received(s)'
  BY <1>1, <1>5 DEF Waits, Received, IInv, TypeOK
<1>10. \A t \in Sender : Busy(t) /\ t # s => (Received(t)' <=> Received(t))
  BY <1>1, <1>5, <1>9 DEF Received, IInv, TypeOK, IdHasOneOwner
<1>11. \A t \in Sender : Waits(t)' <=> (Waits(t) /\ t # s)
  BY <1>2, <1>9, <1>10 DEF Waits
<1>12. FramesBelong'
  <2> SUFFICES ASSUME NEW d \in Ends, NEW g \in Frame, Has(wire'[d], g), g.raw # 0
               PROVE  \/ \E t \in Sender : /\ Waits(t)' /\ Peer(Home[t])' = d
                                           /\ g = FrameOf(t)'
                                           /\ (CallOf(t) \notin answered)'
                      \/ \E t \in Sender : /\ Waits(t)' /\ Home[t] = d
                                           /\ g = ReplyOf(t)'
                                           /\ (CallOf(t) \in answered)'
    BY DEF FramesBelong
  <2>1. Has(wire[d], g) /\ ~(d = e /\ g = h)
    BY <1>3, <1>4
  <2> QED BY <1>1, <1>5, <1>6, <1>7, <1>11, <2>1 DEF CallInv, FramesBelong
<1>13. RequestsBelong'
  BY <1>1, <1>5, <1>6, <1>7, <1>11 DEF CallInv, RequestsBelong
<1>14. NotTwice'
  BY <1>1, <1>2, <1>3, <1>6, <1>7 DEF CallInv, NotTwice, Out, With
<1>15. Somewhere'
  BY <1>1, <1>3, <1>6, <1>7, <1>8, <1>11 DEF CallInv, Somewhere, Out, With, Back
<1>16. Answers'
  BY <1>1, <1>2, <1>5, <1>7, <1>10 DEF CallInv, Answers
<1>17. Responses'
  <2>1. in'[e] = CallOf(s) /\ \A d \in Ends : d # e => in'[d] = in[d]
    BY <1>1, <1>5 DEF ReplyOf, IInv, TypeOK
  <2>2. \A t \in Sender : IsAlone(t) /\ t # s => Home[t] # e
    BY <1>5 DEF IsAlone
  <2> QED BY <1>1, <1>2, <1>5, <1>7, <1>10, <2>1, <2>2
          DEF CallInv, Responses, IsAlone
<1>18. Connection'
  BY <1>1, <1>2, TakeConnection
<1> QED BY <1>12, <1>13, <1>14, <1>15, <1>16, <1>17, <1>18 DEF CallInv

(* A request goes from the wire to the listener.                           *)
LEMMA ReceiveRequestCalls ==
  ASSUME IInv, CallInv, conn <= 1, NEW e \in Ends, ReceiveRequest(e)
  PROVE  CallInv'
<1> DEFINE h == Head(wire[e])
<1>1. /\ UNCHANGED <<conn, link, is_connected, sender_response_received, in, pc, my,
                     calls, resp, answered>>
      /\ wire[e] # <<>> /\ Take(e) /\ ~IsReply(h) /\ IdOf(h) # 0
      /\ request_msgids' =
           [request_msgids EXCEPT ![e] = @ \cup {[id |-> IdOf(h), call |-> h.call]}]
  BY DEF ReceiveRequest, linkVars, senderVars
<1>2. \A t \in Sender : /\ (Busy(t)' <=> Busy(t)) /\ (Waits(t)' <=> Waits(t))
                        /\ Received(t)' <=> Received(t)
  BY <1>1 DEF Busy, Waits, Received
<1>3. /\ h \in Frame
      /\ \A d \in Ends : \A g : Has(wire'[d], g) => Has(wire[d], g)
      /\ \A d \in Ends : \A g : Has(wire[d], g) /\ ~(d = e /\ g = h) => Has(wire'[d], g)
      /\ \A d \in Ends : \A g : AtMostOne(wire[d], g) => AtMostOne(wire'[d], g)
      /\ AtMostOne(wire[e], h) => ~Has(wire'[e], h)
  BY <1>1, TakeHas DEF IInv
<1>4. AtMostOne(wire[e], h)
  BY <1>1, HeadBelongs
<1>5. PICK s \in Sender : /\ Waits(s) /\ Peer(Home[s]) = e /\ h = FrameOf(s)
                          /\ IdOf(h) = my[s] /\ CallOf(s) \notin answered
  BY <1>1, HeadBelongs
<1>6. \A d \in Ends : Peer(d) \in Ends /\ Peer(d)' = Peer(d)
  BY <1>1, PeerType DEF Peer, IInv
<1>7. \A t \in Sender : /\ CallOf(t)' = CallOf(t) /\ FrameOf(t)' = FrameOf(t)
                        /\ ReplyOf(t)' = ReplyOf(t) /\ RequestOf(t)' = RequestOf(t)
  BY <1>1 DEF CallOf, FrameOf, ReplyOf, RequestOf
<1>8. \A t \in Sender : t # s => /\ FrameOf(t) # h /\ ReplyOf(t) # h
                                 /\ RequestOf(t) # RequestOf(s)
  BY <1>5 DEF CallOf, FrameOf, ReplyOf, RequestOf
<1>9. /\ request_msgids'[e] = request_msgids[e] \cup {RequestOf(s)}
      /\ \A d \in Ends \ {e} : request_msgids'[d] = request_msgids[d]
  BY <1>1, <1>5 DEF RequestOf, FrameOf, IInv, TypeOK
<1> HIDE DEF h
<1>10. FramesBelong'
  BY <1>1, <1>2, <1>3, <1>6, <1>7 DEF CallInv, FramesBelong
<1>11. RequestsBelong'
  BY <1>1, <1>2, <1>5, <1>6, <1>7, <1>9 DEF CallInv, RequestsBelong
<1>12. NotTwice'
  <2> SUFFICES ASSUME NEW t \in Sender, Busy(t)
               PROVE  /\ AtMostOne(wire[Peer(Home[t])], FrameOf(t))'
                      /\ AtMostOne(wire[Home[t]], ReplyOf(t))'
                      /\ ~(Out(t) /\ With(t))'
    BY <1>2 DEF NotTwice
  <2>1. /\ AtMostOne(wire[Peer(Home[t])], FrameOf(t))'
        /\ AtMostOne(wire[Home[t]], ReplyOf(t))'
    BY <1>3, <1>6, <1>7 DEF CallInv, NotTwice
  <2>2. CASE t = s
    BY <1>3, <1>4, <1>5, <1>6, <1>7, <2>1, <2>2 DEF Out
  <2>3. CASE t # s
    BY <1>3, <1>6, <1>7, <1>8, <1>9, <2>1, <2>3 DEF CallInv, NotTwice, Out, With
  <2> QED BY <2>2, <2>3
<1>13. Somewhere'
  <2> SUFFICES ASSUME link, NEW t \in Sender, Waits(t)
               PROVE  (Out(t) \/ With(t) \/ Back(t))'
    BY <1>1, <1>2 DEF Somewhere
  <2>1. CASE t = s
    BY <1>5, <1>6, <1>7, <1>9, <2>1 DEF With
  <2>2. CASE t # s
    BY <1>3, <1>6, <1>7, <1>8, <1>9, <2>2 DEF CallInv, Somewhere, Out, With, Back
  <2> QED BY <2>1, <2>2
<1>14. Answers' /\ Responses'
  BY <1>1, <1>2, <1>7 DEF CallInv, Answers, Responses, IsAlone
<1>15. Connection'
  BY <1>1, <1>2, <1>9, TakeConnection
<1> QED BY <1>10, <1>11, <1>12, <1>13, <1>14, <1>15 DEF CallInv

(* A reply goes from the listener to the wire, and the call is answered.   *)
LEMMA ReplyOkCalls ==
  ASSUME IInv, CallInv, conn <= 1, NEW e \in Ends, NEW r \in request_msgids[e],
         ReplyOk(e, r)
  PROVE  CallInv'
<1>1. /\ UNCHANGED <<conn, link, is_connected, sender_response_received, in, pc, my,
                     calls, resp>>
      /\ request_msgids' = [request_msgids EXCEPT ![e] = @ \ {r}]
      /\ answered' = answered \cup {r.call}
      /\ WriteOk(e, [raw |-> r.id + reply_flag, call |-> r.call])
  BY DEF ReplyOk, WriteOk, senderVars
<1>2. PICK s \in Sender : /\ Waits(s) /\ Peer(Home[s]) = e /\ r = RequestOf(s)
                          /\ CallOf(s) \notin answered
  BY DEF CallInv, RequestsBelong
<1> DEFINE f == ReplyOf(s)
<1>3. /\ Busy(s) /\ f \in Frame /\ f.raw # 0 /\ IsReply(f)
      /\ conn = 1 /\ e \in {0, 1} /\ Peer(e) = Home[s] /\ (Linked(e) <=> link)
  <2>1. Busy(s)
    BY <1>2 DEF Waits
  <2>2. conn = 1 /\ Home[s] \in {0, 1} /\ e = 1 - Home[s] /\ Peer(e) = Home[s]
    BY <1>2, <2>1, Pair DEF IInv
  <2>3. Linked(e) <=> link
    BY <2>2 DEF Linked, Client
  <2> QED BY <2>1, <2>2, <2>3, BusyFrames
<1>4. WriteOk(e, f) /\ answered' = answered \cup {CallOf(s)}
  BY <1>1, <1>2 DEF ReplyOf, RequestOf
<1>5. \A t \in Sender : /\ (Busy(t)' <=> Busy(t)) /\ (Waits(t)' <=> Waits(t))
                        /\ Received(t)' <=> Received(t)
  BY <1>1 DEF Busy, Waits, Received
<1>6. \A d \in Ends : Peer(d) \in Ends /\ Peer(d)' = Peer(d)
  BY <1>1, PeerType DEF Peer, IInv
<1>7. \A t \in Sender : /\ CallOf(t)' = CallOf(t) /\ FrameOf(t)' = FrameOf(t)
                        /\ ReplyOf(t)' = ReplyOf(t) /\ RequestOf(t)' = RequestOf(t)
  BY <1>1 DEF CallOf, FrameOf, ReplyOf, RequestOf
<1>8. \A t \in Sender : t # s => /\ CallOf(t) # CallOf(s) /\ ReplyOf(t) # f
                                 /\ RequestOf(t) # r
  BY <1>2 DEF CallOf, ReplyOf, RequestOf
<1>9. \A t \in Sender : Busy(t) => FrameOf(t) # f
  BY <1>3, BusyFrames
<1>10. /\ \A d \in Ends : \A g :
            Has(wire'[d], g) <=>
              (Has(wire[d], g) \/ (link /\ d = Home[s] /\ g = f))
       /\ \A d \in Ends : \A g :
            AtMostOne(wire[d], g) /\ (g = f => ~Has(wire[d], g))
              => AtMostOne(wire'[d], g)
  <2> HIDE DEF f
  <2> QED BY <1>3, <1>4, WriteHas DEF IInv
<1>11. /\ request_msgids'[e] = request_msgids[e] \ {r}
       /\ \A d \in Ends \ {e} : request_msgids'[d] = request_msgids[d]
  BY <1>1 DEF IInv, TypeOK
<1> HIDE DEF f
<1>12. \A d \in Ends : ~Has(wire[d], f)
  <2> SUFFICES ASSUME NEW d \in Ends, Has(wire[d], f) PROVE FALSE
    OBVIOUS
  <2>1. PICK t \in Sender :
          Waits(t) /\ (f = FrameOf(t) \/ (f = ReplyOf(t) /\ CallOf(t) \in answered))
    BY <1>3 DEF CallInv, FramesBelong
  <2>2. Busy(t)
    BY <2>1 DEF Waits
  <2> QED BY <1>2, <1>8, <1>9, <2>1, <2>2
<1>13. \A d \in Ends, g \in Frame : Has(wire[d], g) /\ g.raw # 0 =>
         \E t \in Sender \ {s} :
           /\ Waits(t)
           /\ \/ Peer(Home[t]) = d /\ g = FrameOf(t) /\ CallOf(t) \notin answered
              \/ Home[t] = d /\ g = ReplyOf(t) /\ CallOf(t) \in answered
  <2>1. ~Has(wire[e], FrameOf(s))
    BY <1>2, <1>3 DEF CallInv, NotTwice, Out, With
  <2> QED BY <1>2, <2>1 DEF CallInv, FramesBelong
<1>14. FramesBelong'
  <2> SUFFICES ASSUME NEW d \in Ends, NEW g \in Frame, Has(wire'[d], g), g.raw # 0
               PROVE  \/ \E t \in Sender : /\ Waits(t)' /\ Peer(Home[t])' = d
                                           /\ g = FrameOf(t)'
                                           /\ (CallOf(t) \notin answered)'
                      \/ \E t \in Sender : /\ Waits(t)' /\ Home[t] = d
                                           /\ g = ReplyOf(t)'
                                           /\ (CallOf(t) \in answered)'
    BY DEF FramesBelong
  <2>1. CASE Has(wire[d], g)
    BY <1>4, <1>5, <1>6, <1>7, <1>8, <1>13, <2>1
  <2>2. CASE d = Home[s] /\ g = f
    BY <1>2, <1>4, <1>5, <1>7, <2>2 DEF f
  <2> QED BY <1>10, <2>1, <2>2
<1>15. RequestsBelong'
  <2> SUFFICES ASSUME NEW d \in Ends, NEW q \in request_msgids'[d]
               PROVE  \E t \in Sender : /\ Waits(t)' /\ Peer(Home[t])' = d
                                        /\ q = RequestOf(t)'
                                        /\ (CallOf(t) \notin answered)'
    BY DEF RequestsBelong
  <2>1. q \in request_msgids[d] /\ ~(d = e /\ q = r)
    BY <1>11
  <2>2. PICK t \in Sender : /\ Waits(t) /\ Peer(Home[t]) = d /\ q = RequestOf(t)
                            /\ CallOf(t) \notin answered
    BY <2>1 DEF CallInv, RequestsBelong
  <2>3. t # s
    BY <1>2, <2>1, <2>2
  <2> QED BY <1>4, <1>5, <1>6, <1>7, <1>8, <2>2, <2>3
<1>16. NotTwice'
  <2> SUFFICES ASSUME NEW t \in Sender, Busy(t)
               PROVE  /\ AtMostOne(wire[Peer(Home[t])], FrameOf(t))'
                      /\ AtMostOne(wire[Home[t]], ReplyOf(t))'
                      /\ ~(Out(t) /\ With(t))'
    BY <1>5 DEF NotTwice
  <2>1. Home[t] \in Ends /\ Peer(Home[t]) \in Ends /\ Peer(Home[t])' = Peer(Home[t])
    BY <1>6
  <2>2. AtMostOne(wire[Peer(Home[t])], FrameOf(t))
        /\ AtMostOne(wire[Home[t]], ReplyOf(t)) /\ ~(Out(t) /\ With(t))
    BY DEF CallInv, NotTwice
  <2>3. \A d \in Ends : request_msgids'[d] \subseteq request_msgids[d]
    BY <1>11
  <2> QED BY <1>7, <1>9, <1>10, <1>12, <2>1, <2>2, <2>3 DEF Out, With
<1>17. Somewhere'
  <2> SUFFICES ASSUME link, NEW t \in Sender, Waits(t)
               PROVE  (Out(t) \/ With(t) \/ Back(t))'
    BY <1>1, <1>5 DEF Somewhere
  <2>1. CASE t = s
    BY <1>7, <1>10, <2>1 DEF Back, f
  <2>2. CASE t # s
    BY <1>6, <1>7, <1>8, <1>10, <1>11, <2>2 DEF CallInv, Somewhere, Out, With, Back
  <2> QED BY <2>1, <2>2
<1>18. Answers'
  <2>1. \A t \in Sender : Busy(t)' /\ Received(t)' => (CallOf(t) \in answered)'
    BY <1>4, <1>5, <1>7 DEF CallInv, Answers
  <2>2. \A t \in Sender, n \in Nat : <<t, n>> \in answered' => n <= calls'[t]
    <3> SUFFICES ASSUME NEW t \in Sender, NEW n \in Nat, <<t, n>> \in answered'
                 PROVE  n <= calls[t]
      BY <1>1
    <3>1. CASE <<t, n>> \in answered
      BY <3>1 DEF CallInv, Answers
    <3>2. CASE <<t, n>> = CallOf(s)
      BY <3>2 DEF CallOf, IInv, TypeOK
    <3> QED BY <1>4, <3>1, <3>2
  <2> QED BY <1>1, <1>5, <2>1, <2>2 DEF CallInv, Answers
<1>19. Responses'
  BY <1>1, <1>5, <1>7 DEF CallInv, Responses, IsAlone
<1>20. Connection'
  <2>1. wire' = IF link THEN [wire EXCEPT ![Home[s]] = Append(@, f)] ELSE wire
    BY <1>3, <1>4 DEF WriteOk
  <2>2. \A d \in Ends : d > conn => wire'[d] = wire[d] /\ d # e
    <3>1. Home[s] \in Ends /\ Home[s] <= conn /\ conn = 1 /\ e <= conn
      BY <1>3 DEF CallInv, Connection
    <3>2. \A d \in Ends : d > conn => d # Home[s] /\ d # e
      BY <3>1 DEF Ends
    <3>3. \A d \in Ends : d # Home[s] => wire'[d] = wire[d]
      BY <2>1, <3>1 DEF IInv, TypeOK
    <3> QED BY <3>2, <3>3
  <2> QED BY <1>1, <1>3, <1>5, <1>11, <2>1, <2>2 DEF CallInv, Connection
<1> QED BY <1>14, <1>15, <1>16, <1>17, <1>18, <1>19, <1>20 DEF CallInv

-----------------------------------------------------------------------------
(* Nothing was called yet and no connection made.                          *)
LEMMA InitCalls == Init => CallInv
<1> SUFFICES ASSUME Init PROVE CallInv
  OBVIOUS
<1>1. /\ conn = 0 /\ link = FALSE /\ answered = {}
      /\ \A t \in Sender : ~Busy(t) /\ resp[t] = NoCall
      /\ \A d \in Ends : wire[d] = <<>> /\ request_msgids[d] = {} /\ ~is_connected[d]
  BY DEF Init, Busy
<1>2. \A d \in Ends : \A g : ~Has(wire[d], g)
  BY <1>1, HasNothing
<1>3. Connection /\ FramesBelong /\ RequestsBelong
  BY <1>1, <1>2 DEF Connection, FramesBelong, RequestsBelong
<1>4. NotTwice /\ Somewhere /\ Answers /\ Responses
  BY <1>1 DEF NotTwice, Somewhere, Answers, Responses
<1> QED BY <1>3, <1>4 DEF CallInv

(* Every step keeps it, as long as the first connection is the last.       *)
LEMMA StepCalls == IInv /\ CallInv /\ [Next]_vars => CallInv'
<1> SUFFICES ASSUME IInv, CallInv, [Next]_vars, conn' <= 1 PROVE CallInv'
  BY DEF CallInv
<1>1. conn <= 1
  <2>1. conn \in Nat
    BY DEF IInv, TypeOK, Ends
  <2>2. conn' = conn \/ conn' = conn + 1
    BY DEF Next, Connect, Close, SenderStep, SendOk, SendFails, SpuriousWakeup,
       WaitAgain, SendReturns, EndStep, StreamClosed, WriteNote, ReceiveReply,
       ReceiveRequest, ReceiveNote, ReplyOk, ReplyFails, linkVars, vars
  <2> QED BY <2>1, <2>2
<1>2. CASE Connect \/ Close
  BY <1>1, <1>2, ConnectCalls, CloseCalls
<1>3. CASE \E s \in Sender : SenderStep(s)
  BY <1>1, <1>3, SendOkCalls, SendFailsCalls, WakeCalls, SendReturnsCalls DEF SenderStep
<1>4. CASE \E e \in Ends : EndStep(e)
  BY <1>1, <1>4, StreamClosedCalls, WriteNoteCalls, ReceiveReplyCalls,
     ReceiveRequestCalls, ReceiveNoteCalls, ReplyOkCalls, ReplyFailsCalls DEF EndStep
<1>5. CASE UNCHANGED vars
  <2>1. Connection'
    BY <1>1, <1>5 DEF vars, CallInv, Connection, Busy
  <2>2. \A t \in Sender : Aside(t)
    BY <1>1, <1>5 DEF vars, CallInv, Responses, Aside, Busy, Waits, Received, CallOf,
       IInv, TypeOK
  <2> QED BY <1>1, <1>5, <2>1, <2>2, NoCallMoves DEF vars
<1> QED BY <1>2, <1>3, <1>4, <1>5 DEF Next

(* The invariant the theorems below are drawn from.                        *)
THEOREM CallInvariance == Spec => [](IInv /\ CallInv)
<1>1. Init => CallInv
  BY InitCalls
<1>2. IInv /\ CallInv /\ [Next]_vars => CallInv'
  BY StepCalls
<1> QED BY <1>1, <1>2, Invariance, PTL DEF Spec

-----------------------------------------------------------------------------
(* The number of places of a sequence that hold f.                         *)
LEMMA CountPlaces ==
  ASSUME NEW q, NEW f, AtMostOne(q, f)
  PROVE  Cardinality({i \in DOMAIN q : q[i] = f}) = IF Has(q, f) THEN 1 ELSE 0
<1> DEFINE S == {i \in DOMAIN q : q[i] = f}
<1>1. CASE Has(q, f)
  <2>1. PICK i \in DOMAIN q : q[i] = f
    BY <1>1 DEF Has
  <2>2. S = {i}
    BY <2>1 DEF AtMostOne
  <2> HIDE DEF S
  <2>3. Cardinality(S) = 1
    BY <2>2, FS_Singleton
  <2> QED BY <1>1, <2>3 DEF S
<1>2. CASE ~Has(q, f)
  <2>1. S = {}
    BY <1>2 DEF Has
  <2> HIDE DEF S
  <2>2. Cardinality(S) = 0
    BY <2>1, FS_EmptySet
  <2> QED BY <1>2, <2>2 DEF S
<1> QED BY <1>1, <1>2

(* A call is in one place only: what is on its way out or with the         *)
(* listener is not answered yet, what is on its way back is.               *)
LEMMA OnePlace ==
  ASSUME IInv, CallInv, conn <= 1, NEW s \in Sender, Busy(s)
  PROVE  /\ Out(s) \/ With(s) => CallOf(s) \notin answered
         /\ Back(s) => CallOf(s) \in answered
<1>1. /\ FrameOf(s) \in Frame /\ ReplyOf(s) \in Frame
      /\ FrameOf(s).raw # 0 /\ ReplyOf(s).raw # 0
      /\ ~IsReply(FrameOf(s)) /\ IsReply(ReplyOf(s))
  BY BusyFrames
<1>2. Home[s] \in Ends /\ Peer(Home[s]) \in Ends
  BY PeerType DEF IInv
<1>3. \A t \in Sender : t # s => /\ CallOf(t) # CallOf(s) /\ FrameOf(t) # FrameOf(s)
                                 /\ ReplyOf(t) # ReplyOf(s) /\ RequestOf(t) # RequestOf(s)
  BY DEF CallOf, FrameOf, ReplyOf, RequestOf
<1>4. \A t \in Sender : Waits(t) => FrameOf(t) # ReplyOf(s) /\ ReplyOf(t) # FrameOf(s)
  BY <1>1, BusyFrames DEF Waits
<1>5. Out(s) => CallOf(s) \notin answered
  BY <1>1, <1>2, <1>3, <1>4 DEF CallInv, FramesBelong, Out
<1>6. With(s) => CallOf(s) \notin answered
  BY <1>2, <1>3 DEF CallInv, RequestsBelong, With
<1>7. Back(s) => CallOf(s) \in answered
  BY <1>1, <1>2, <1>3, <1>4 DEF CallInv, FramesBelong, Back
<1> QED BY <1>5, <1>6, <1>7

(* For any number of threads in both directions: on the first connection,  *)
(* as long as it is up, the call of a thread whose flag is still false is  *)
(* in exactly one place, neither lost nor duplicated.                      *)
THEOREM CallsAreSomewhereOnce == Spec => []CallIsSomewhereOnce
<1>1. IInv /\ CallInv => CallIsSomewhereOnce
  <2> SUFFICES ASSUME IInv, CallInv, conn = 1, link, NEW s \in Sender, Waits(s)
               PROVE  Cardinality(OnTheWayOut(s)) + Cardinality(WithListener(s))
                        + Cardinality(OnTheWayBack(s)) = 1
    BY DEF CallIsSomewhereOnce, Waits, Received
  <2>1. Busy(s) /\ conn <= 1
    BY DEF Waits
  <2>2. /\ AtMostOne(wire[Peer(Home[s])], FrameOf(s))
        /\ AtMostOne(wire[Home[s]], ReplyOf(s)) /\ ~(Out(s) /\ With(s))
    BY <2>1 DEF CallInv, NotTwice
  <2>3. Cardinality(OnTheWayOut(s)) = IF Out(s) THEN 1 ELSE 0
    BY <2>2, CountPlaces DEF OnTheWayOut, Out, FrameOf
  <2>4. Cardinality(OnTheWayBack(s)) = IF Back(s) THEN 1 ELSE 0
    BY <2>2, CountPlaces DEF OnTheWayBack, Back, ReplyOf
  <2>5. Cardinality(WithListener(s)) = IF With(s) THEN 1 ELSE 0
    <3>1. WithListener(s) = IF With(s) THEN {RequestOf(s)} ELSE {}
      BY DEF WithListener, With, RequestOf
    <3> QED BY <3>1, FS_Singleton, FS_EmptySet
  <2>6. Out(s) \/ With(s) \/ Back(s)
    BY <2>1 DEF CallInv, Somewhere
  <2> QED BY <2>1, <2>2, <2>3, <2>4, <2>5, <2>6, OnePlace
<1> QED BY <1>1, CallInvariance, PTL

(* A thread alone on its dispatcher gets the response to its own request.  *)
THEOREM ResponsesAreOwn == Spec => []OwnResponse
<1>1. IInv /\ CallInv => OwnResponse
  BY DEF CallInv, Responses, OwnResponse, Busy
<1> QED BY <1>1, CallInvariance, PTL

(* send returns only after the peer has replied to that very call: the     *)
(* only step that ends a wait is the end of the loop, which tests a flag   *)
(* no other reply has set.                                                 *)
THEOREM ReturnsAnswered == Spec => AnsweredBeforeReturn
<1> DEFINE A == \A s \in Sender :
                  (conn = 1 /\ Busy(s) /\ pc'[s] = "idle") => CallOf(s) \in answered
<1>1. IInv /\ CallInv /\ [Next]_vars => [A]_vars
  <2> SUFFICES ASSUME IInv, CallInv, [Next]_vars, NEW s \in Sender,
                      conn = 1, Busy(s), pc'[s] = "idle"
               PROVE  CallOf(s) \in answered
    OBVIOUS
  <2>1. pc[s] # "idle" /\ pc \in [Sender -> {"idle", "asleep", "ready"}]
    BY DEF Busy, IInv, TypeOK
  <2>2. SendReturns(s)
    BY <2>1 DEF Next, Connect, Close, SenderStep, SendOk, SendFails, SpuriousWakeup,
       WaitAgain, SendReturns, EndStep, StreamClosed, WriteNote, ReceiveReply, NotifyOne,
       Waiters, ReceiveRequest, ReceiveNote, ReplyOk, ReplyFails, senderVars, vars
  <2> QED BY <2>2 DEF SendReturns, CallInv, Answers, Received
<1> QED BY <1>1, CallInvariance, PTL DEF Spec, AnsweredBeforeReturn

-----------------------------------------------------------------------------
(* The refinement of CallService, step by step.  A step in which no thread *)
(* begins or ends a call and none is answered is not seen by the callers.  *)
LEMMA NotSeen ==
  ASSUME calls' = calls, answered' = answered, \A t \in Sender : Busy(t)' <=> Busy(t)
  PROVE  UNCHANGED Service!callVars
<1>1. \A t \in Sender : StageOf(t)' = StageOf(t)
  BY DEF StageOf, CallOf
<1> QED BY <1>1 DEF Service!callVars

(* A step of one thread or for one thread, from one stage to another.      *)
LEMMA OneMoves ==
  ASSUME NEW s \in Sender, NEW from, NEW to, StageOf(s) = from, StageOf(s)' = to,
         \A t \in Sender \ {s} : StageOf(t)' = StageOf(t)
  PROVE  Service!Moves(s, from, to)
BY DEF Service!Moves

(* send writes its request: the call waits.                                *)
LEMMA SendOkIsCall ==
  ASSUME IInv, CallInv, conn <= 1, NEW s \in Sender, SendOk(s)
  PROVE  Service!Call(s)
<1>1. /\ ~Busy(s) /\ Busy(s)' /\ answered' = answered
      /\ calls' = [calls EXCEPT ![s] = @ + 1] /\ calls[s] \in Nat
      /\ CallOf(s)' = <<s, calls[s] + 1>>
  BY DEF SendOk, MayCall, Busy, CallOf, IInv, TypeOK
<1>2. \A t \in Sender \ {s} : (Busy(t)' <=> Busy(t)) /\ CallOf(t)' = CallOf(t)
  BY DEF SendOk, Busy, CallOf, IInv, TypeOK
<1>3. <<s, calls[s] + 1>> \notin answered
  BY <1>1 DEF CallInv, Answers
<1>4. StageOf(s) = "idle" /\ StageOf(s)' = "waiting"
  BY <1>1, <1>3 DEF StageOf
<1>5. \A t \in Sender \ {s} : StageOf(t)' = StageOf(t)
  BY <1>1, <1>2 DEF StageOf
<1>6. Service!Moves(s, "idle", "waiting")
  BY <1>4, <1>5, OneMoves
<1> QED BY <1>1, <1>6 DEF Service!Call, Service!Counts

(* send fails at once when the write does.                                 *)
LEMMA SendFailsIsFail ==
  ASSUME IInv, CallInv, conn <= 1, NEW s \in Sender, SendFails(s)
  PROVE  Service!Fail(s)
<1>1. /\ ~Busy(s) /\ answered' = answered /\ (\A t \in Sender : Busy(t)' <=> Busy(t))
      /\ calls' = [calls EXCEPT ![s] = @ + 1]
  BY DEF SendFails, MayCall, Busy
<1>2. \A t \in Sender \ {s} : CallOf(t)' = CallOf(t)
  BY <1>1 DEF CallOf, IInv, TypeOK
<1>3. StageOf(s) = "idle" /\ StageOf(s)' = "idle"
  BY <1>1 DEF StageOf
<1>4. \A t \in Sender \ {s} : StageOf(t)' = StageOf(t)
  BY <1>1, <1>2 DEF StageOf
<1>5. Service!Moves(s, "idle", "idle")
  BY <1>3, <1>4, OneMoves
<1> QED BY <1>1, <1>5 DEF Service!Fail, Service!Counts

(* The loop around the wait ends: the call was served, and returns.        *)
LEMMA SendReturnsIsReturn ==
  ASSUME IInv, CallInv, conn <= 1, NEW s \in Sender, SendReturns(s)
  PROVE  Service!Return(s)
<1>1. /\ Busy(s) /\ Received(s) /\ ~Busy(s)' /\ answered' = answered /\ calls' = calls
      /\ \A t \in Sender \ {s} : Busy(t)' <=> Busy(t)
  BY DEF SendReturns, Busy, Received, IInv, TypeOK
<1>2. CallOf(s) \in answered
  BY <1>1 DEF CallInv, Answers
<1>3. StageOf(s) = "served" /\ StageOf(s)' = "idle"
  BY <1>1, <1>2 DEF StageOf
<1>4. \A t \in Sender \ {s} : StageOf(t)' = StageOf(t)
  BY <1>1 DEF StageOf, CallOf
<1>5. Service!Moves(s, "served", "idle")
  BY <1>3, <1>4, OneMoves
<1> QED BY <1>1, <1>5 DEF Service!Return

(* The peer's listener replies: one call that waits is served.             *)
LEMMA ReplyOkIsServe ==
  ASSUME IInv, CallInv, conn <= 1, NEW e \in Ends, NEW r \in request_msgids[e],
         ReplyOk(e, r)
  PROVE  \E s \in Sender : Service!Serve(s)
<1>1. PICK s \in Sender : /\ Waits(s) /\ r = RequestOf(s) /\ CallOf(s) \notin answered
  BY DEF CallInv, RequestsBelong
<1>2. /\ calls' = calls /\ answered' = answered \cup {CallOf(s)}
      /\ \A t \in Sender : (Busy(t)' <=> Busy(t)) /\ CallOf(t)' = CallOf(t)
  BY <1>1 DEF ReplyOk, senderVars, Busy, CallOf, RequestOf
<1>3. \A t \in Sender \ {s} : CallOf(t) # CallOf(s)
  BY DEF CallOf
<1>4. StageOf(s) = "waiting" /\ StageOf(s)' = "served"
  BY <1>1, <1>2 DEF StageOf, Waits
<1>5. \A t \in Sender \ {s} : StageOf(t)' = StageOf(t)
  BY <1>2, <1>3 DEF StageOf
<1>6. Service!Moves(s, "waiting", "served")
  BY <1>4, <1>5, OneMoves
<1> QED BY <1>2, <1>6 DEF Service!Serve

(* Every other step of the dispatchers, the wire and the connection.       *)
LEMMA StepImplements ==
  ASSUME IInv, CallInv, conn <= 1, [Next]_vars
  PROVE  [Service!Next]_(Service!callVars)
<1>1. CASE Connect \/ Close \/ UNCHANGED vars
  BY <1>1, NotSeen DEF Connect, Close, senderVars, vars, Busy
<1>2. ASSUME NEW s \in Sender, SenderStep(s)
      PROVE  [Service!Next]_(Service!callVars)
  <2>1. CASE SpuriousWakeup(s) \/ WaitAgain(s)
    <3>1. calls' = calls /\ answered' = answered
      BY <2>1 DEF SpuriousWakeup, WaitAgain
    <3>2. \A t \in Sender : Busy(t)' <=> Busy(t)
      BY <2>1 DEF SpuriousWakeup, WaitAgain, Busy, IInv, TypeOK
    <3> QED BY <3>1, <3>2, NotSeen
  <2> QED BY <1>2, <2>1, SendOkIsCall, SendFailsIsFail, SendReturnsIsReturn
          DEF SenderStep, Service!Next
<1>3. ASSUME NEW e \in Ends, EndStep(e)
      PROVE  [Service!Next]_(Service!callVars)
  <2>1. CASE ReceiveReply(e)
    <3>1. calls' = calls /\ answered' = answered
      BY <2>1 DEF ReceiveReply
    <3>2. \A t \in Sender : Busy(t)' <=> Busy(t)
      BY <2>1 DEF ReceiveReply, NotifyOne, Waiters, Busy, IInv, TypeOK
    <3> QED BY <3>1, <3>2, NotSeen
  <2>2. ASSUME NEW r \in request_msgids[e], ReplyOk(e, r)
        PROVE  Service!Next
    BY <2>2, ReplyOkIsServe DEF Service!Next
  <2>3. CASE StreamClosed(e) \/ WriteNote(e) \/ ReceiveRequest(e) \/ ReceiveNote(e)
             \/ \E r \in request_msgids[e] : ReplyFails(e, r)
    <3>1. UNCHANGED <<calls, answered, pc>>
      BY <2>3 DEF StreamClosed, WriteNote, ReceiveRequest, ReceiveNote, ReplyFails,
         senderVars
    <3> QED BY <3>1, NotSeen DEF Busy
  <2> QED BY <1>3, <2>1, <2>2, <2>3 DEF EndStep
<1> QED BY <1>1, <1>2, <1>3 DEF Next

(***************************************************************************)
(* The dispatchers implement the safety part of CallService with any       *)
(* number of threads, calls and notifications, even if the connection      *)
(* breaks: a call is served once, by the peer, and returns after that.     *)
(* With one connection, that is: on a second one a reply may be for a call *)
(* of the first.                                                           *)
(***************************************************************************)
THEOREM CallsAreImplemented ==
  ASSUME MaxConn <= 1
  PROVE  Spec => Service!Safety
<1>1. Init => Service!Init
  BY DEF Init, Service!Init, StageOf, Busy
<1>2. IInv /\ CallInv /\ [Next]_vars => [Service!Next]_(Service!callVars)
  <2> SUFFICES ASSUME IInv, CallInv, [Next]_vars
               PROVE  [Service!Next]_(Service!callVars)
    OBVIOUS
  <2>1. conn <= 1
    BY DEF IInv, TypeOK, Ends
  <2> QED BY <2>1, StepImplements
<1> QED BY <1>1, <1>2, CallInvariance, PTL DEF Spec, Service!Safety
=============================================================================
