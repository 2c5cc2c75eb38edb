------------------------- MODULE RequestReplyProofs -------------------------
(***************************************************************************)
(* For any number of threads, connections and calls: the ids of            *)
(* request_reply_dispatcher are conserved and have one owner, no wakeup is *)
(* lost, and every value has its type.                                     *)
(***************************************************************************)
EXTENDS RequestReply, FiniteSetTheorems, SequenceTheorems, TLAPS

(***************************************************************************)
(* None of the four invariants is inductive alone: the type of a message   *)
(* id needs the conservation of ids (or msgid grows into reply_flag),      *)
(* which needs that a released id was nobody else's, which needs the type. *)
(***************************************************************************)
IInv ==
  /\ TypeOK
  /\ IdsConserved
  /\ IdHasOneOwner
  /\ NoLostWakeup

(* vector::pop_back on a vector of distinct elements.                       *)
LEMMA PopBack ==
  ASSUME NEW S, NEW q \in Seq(S), q # <<>>, IsInjective(q)
  PROVE  LET r == SubSeq(q, 1, Len(q) - 1)
         IN  /\ q[Len(q)] \in Range(q)
             /\ r \in Seq(S)
             /\ IsInjective(r)
             /\ Range(r) = Range(q) \ {q[Len(q)]}
<1> DEFINE n == Len(q)
<1> DEFINE r == SubSeq(q, 1, n - 1)
<1>1. n \in Nat \ {0} /\ DOMAIN q = 1..n /\ \A i \in 1..n : q[i] \in S
  BY EmptySeq, LenProperties, ElementOfSeq
<1>2. r \in Seq(S) /\ Len(r) = n - 1 /\ \A i \in 1..(n - 1) : r[i] = q[i]
  <2>1. /\ r \in Seq(S)
        /\ Len(r) = IF 1 <= n - 1 THEN (n - 1) - 1 + 1 ELSE 0
        /\ \A i \in 1..((n - 1) - 1 + 1) : r[i] = q[1 + i - 1]
    <3>1. \A i \in 1..(n - 1) : q[i] \in S
      BY <1>1
    <3> HIDE DEF n
    <3> QED BY <1>1, <3>1, SubSeqProperties
  <2> QED BY <1>1, <2>1
<1>3. DOMAIN r = 1..(n - 1)
  BY <1>2, LenProperties
<1> HIDE DEF n, r
<1>4. IsInjective(r)
  BY <1>1, <1>2, <1>3 DEF IsInjective
<1>5. Range(r) = {q[i] : i \in 1..(n - 1)}
  BY <1>2, <1>3 DEF Range
<1>6. q[n] \in Range(q)
  BY <1>1 DEF Range
<1>7. \A x : x \in Range(r) <=> (x \in Range(q) /\ x # q[n])
  <2>1. \A i \in 1..(n - 1) : i \in DOMAIN q /\ q[i] # q[n]
    BY <1>1 DEF IsInjective
  <2>2. \A i \in DOMAIN q : q[i] # q[n] => i \in 1..(n - 1)
    BY <1>1
  <2> QED BY <1>5, <2>1, <2>2 DEF Range
<1> QED BY <1>2, <1>4, <1>6, <1>7 DEF n, r

(* vector::push_back of an element the vector does not have.               *)
LEMMA PushBack ==
  ASSUME NEW S, NEW q \in Seq(S), IsInjective(q), NEW x \in S, x \notin Range(q)
  PROVE  /\ Append(q, x) \in Seq(S)
         /\ IsInjective(Append(q, x))
         /\ Range(Append(q, x)) = Range(q) \cup {x}
<1> DEFINE n == Len(q)
<1> DEFINE r == Append(q, x)
<1>1. n \in Nat /\ DOMAIN q = 1..n
  BY LenProperties
<1>2. /\ r \in Seq(S)
      /\ Len(r) = n + 1
      /\ \A i \in 1..n : r[i] = q[i]
      /\ r[n + 1] = x
  BY AppendProperties
<1>3. DOMAIN r = 1..(n + 1)
  BY <1>2, LenProperties
<1> HIDE DEF n, r
<1>4. \A i \in 1..n : r[i] # x
  BY <1>1, <1>2 DEF Range
<1>5. IsInjective(r)
  BY <1>1, <1>2, <1>3, <1>4 DEF IsInjective
<1>6. DOMAIN r = DOMAIN q \cup {n + 1}
  BY <1>1, <1>3
<1>7. Range(r) = Range(q) \cup {x}
  BY <1>1, <1>2, <1>6 DEF Range
<1> QED BY <1>2, <1>5, <1>7 DEF r

USE ConstantsAssumption

(* A thread outside send is one thread fewer to own an id, so a fresh id   *)
(* (generate_msgid with an empty stack) is below reply_flag.               *)
LEMMA FreshIdBound ==
  ASSUME IInv, NEW s \in Sender, pc[s] = "idle",
         msgid_released[Home[s]] = <<>>
  PROVE  msgid[Home[s]] \in 1..(reply_flag - 1)
<1> DEFINE e == Home[s]
<1> DEFINE Ids == 1..(msgid[e] - 1)
<1> DEFINE Others == Sender \ {s}
<1>1. e \in Ends /\ msgid[e] \in 1..reply_flag
  BY DEF IInv, TypeOK
<1>2. Ids = InUse(e)
  <2>1. Range(msgid_released[e]) = {}
    BY DEF Range
  <2> QED
    BY <1>1, <2>1 DEF IInv, IdsConserved
<1>3. \A n \in Ids : \E t \in Others : Busy(t) /\ Home[t] = e /\ my[t] = n
  BY <1>2 DEF InUse, Busy
<1> DEFINE f == [n \in Ids |-> CHOOSE t \in Others :
                                 Busy(t) /\ Home[t] = e /\ my[t] = n]
<1>4. \A n \in Ids : f[n] \in Others /\ my[f[n]] = n
  BY <1>3
<1>5. f \in [Ids -> Others] /\ \A m, n \in Ids : f[m] = f[n] => m = n
  BY <1>4
<1>6. IsFiniteSet(Others) /\ Cardinality(Others) = Cardinality(Sender) - 1
  BY FS_RemoveElement
<1>7. IsFiniteSet(Ids) /\ Cardinality(Ids) = msgid[e] - 1
  BY <1>1, FS_Interval
<1>8. Cardinality(Sender) \in Nat /\ Cardinality(Others) \in Nat
  BY <1>6, FS_CardinalityType
<1>9. ~(Cardinality(Others) < Cardinality(Ids))
  <2> SUFFICES ASSUME Cardinality(Others) < Cardinality(Ids) PROVE FALSE
    OBVIOUS
  <2>1. \E m, n \in Ids : m # n /\ f[m] = f[n]
    <3> HIDE DEF f, Ids, Others
    <3> QED BY <1>5, <1>6, <1>7, FS_PigeonHole
  <2> QED BY <2>1, <1>5
<1> HIDE DEF Ids, Others, f
<1> QED
  BY <1>1, <1>6, <1>7, <1>8, <1>9

(* The id send is about to use is a request's id, and nobody's.            *)
LEMMA NextIdIsFree ==
  ASSUME IInv, NEW s \in Sender, pc[s] = "idle"
  PROVE  /\ NextId(Home[s]) \in 1..(reply_flag - 1)
         /\ \A t \in Sender :
              (Busy(t) /\ Home[t] = Home[s]) => my[t] # NextId(Home[s])
<1> DEFINE e == Home[s]
<1>1. /\ e \in Ends
      /\ msgid[e] \in 1..reply_flag
      /\ msgid_released[e] \in Seq(1..(reply_flag - 1))
  BY DEF IInv, TypeOK
<1>2. CASE HasReleased(e)
  <2>1. IsInjective(msgid_released[e])
    BY <1>1 DEF IInv, IdsConserved
  <2>2. NextId(e) \in Range(msgid_released[e])
    BY <1>1, <1>2, <2>1, PopBack DEF HasReleased, NextId
  <2>3. NextId(e) \in 1..(reply_flag - 1)
    BY <1>1, <2>2, LenProperties DEF Range
  <2>4. \A t \in Sender : (Busy(t) /\ Home[t] = e) => my[t] # NextId(e)
    BY <2>2 DEF IInv, IdHasOneOwner
  <2> QED BY <2>3, <2>4
<1>3. CASE ~HasReleased(e)
  <2>1. NextId(e) = msgid[e] /\ msgid_released[e] = <<>>
    BY <1>3 DEF NextId, HasReleased
  <2>2. NextId(e) \in 1..(reply_flag - 1)
    BY <2>1, FreshIdBound
  <2>3. \A t \in Sender : (Busy(t) /\ Home[t] = e) => my[t] \in 1..(msgid[e] - 1)
    BY <1>1 DEF IInv, IdsConserved, InUse
  <2> QED BY <1>1, <2>1, <2>2, <2>3
<1> QED BY <1>2, <1>3

(* generate_msgid takes its id off the stack, or makes it below msgid.     *)
LEMMA GenerateIdEffect ==
  ASSUME IInv, NEW s \in Sender, pc[s] = "idle", GenerateId(Home[s])
  PROVE  LET e == Home[s] IN
         /\ msgid' \in [Ends -> 1..reply_flag]
         /\ msgid_released' \in [Ends -> Seq(1..(reply_flag - 1))]
         /\ IsInjective(msgid_released'[e])
         /\ Range(msgid_released'[e]) = Range(msgid_released[e]) \ {NextId(e)}
         /\ 1..(msgid'[e] - 1) = 1..(msgid[e] - 1) \cup {NextId(e)}
         /\ \A d \in Ends \ {e} :
              msgid'[d] = msgid[d] /\ msgid_released'[d] = msgid_released[d]
<1> DEFINE e == Home[s]
<1> DEFINE q == msgid_released[e]
<1>1. /\ e \in Ends
      /\ msgid \in [Ends -> 1..reply_flag]
      /\ msgid_released \in [Ends -> Seq(1..(reply_flag - 1))]
      /\ q \in Seq(1..(reply_flag - 1))
      /\ msgid[e] \in 1..reply_flag
  BY DEF IInv, TypeOK
<1>2. IsInjective(q) /\ Range(q) \subseteq 1..(msgid[e] - 1)
  BY <1>1 DEF IInv, IdsConserved
<1>3. CASE HasReleased(e)
  <2> DEFINE r == SubSeq(q, 1, Len(q) - 1)
  <2>1. q # <<>> /\ NextId(e) = q[Len(q)]
    BY <1>3 DEF HasReleased, NextId
  <2>2. /\ NextId(e) \in Range(q)
        /\ r \in Seq(1..(reply_flag - 1))
        /\ IsInjective(r)
        /\ Range(r) = Range(q) \ {NextId(e)}
    BY <1>1, <1>2, <2>1, PopBack
  <2>3. /\ msgid' = msgid
        /\ msgid_released' = [msgid_released EXCEPT ![e] = r]
    BY <1>3 DEF GenerateId
  <2> HIDE DEF r
  <2>4. msgid_released'[e] = r
    BY <1>1, <2>3
  <2>5. msgid_released' \in [Ends -> Seq(1..(reply_flag - 1))]
    BY <1>1, <2>2, <2>3
  <2>6. 1..(msgid'[e] - 1) = 1..(msgid[e] - 1) \cup {NextId(e)}
    BY <1>2, <2>2, <2>3
  <2> QED BY <1>1, <2>2, <2>3, <2>4, <2>5, <2>6
<1>4. CASE ~HasReleased(e)
  <2>1. q = <<>> /\ NextId(e) = msgid[e]
    BY <1>4 DEF HasReleased, NextId
  <2>2. msgid[e] \in 1..(reply_flag - 1)
    BY <2>1, FreshIdBound
  <2>3. /\ msgid' = [msgid EXCEPT ![e] = msgid[e] + 1]
        /\ msgid_released' = msgid_released
    BY <1>1, <1>4, <2>2 DEF GenerateId, Increment
  <2>4. Range(q) = {}
    BY <2>1 DEF Range
  <2>5. msgid'[e] = msgid[e] + 1
    BY <1>1, <2>3
  <2>6. 1..((msgid[e] + 1) - 1) = 1..(msgid[e] - 1) \cup {msgid[e]}
    BY <2>2
  <2> QED BY <1>1, <1>2, <2>1, <2>2, <2>3, <2>4, <2>5, <2>6
<1> QED BY <1>3, <1>4

(* generate_msgid and release_msgid of the same id: the stack ends up with *)
(* that id on it, once.                                                    *)
LEMMA GenerateAndReleaseIdEffect ==
  ASSUME IInv, NEW s \in Sender, pc[s] = "idle", GenerateAndReleaseId(Home[s])
  PROVE  LET e == Home[s] IN
         /\ msgid' \in [Ends -> 1..reply_flag]
         /\ msgid_released' \in [Ends -> Seq(1..(reply_flag - 1))]
         /\ IsInjective(msgid_released'[e])
         /\ Range(msgid_released'[e]) = Range(msgid_released[e]) \cup {NextId(e)}
         /\ 1..(msgid'[e] - 1) = 1..(msgid[e] - 1) \cup {NextId(e)}
         /\ \A d \in Ends \ {e} :
              msgid'[d] = msgid[d] /\ msgid_released'[d] = msgid_released[d]
<1> DEFINE e == Home[s]
<1> DEFINE q == msgid_released[e]
<1>1. /\ e \in Ends
      /\ msgid \in [Ends -> 1..reply_flag]
      /\ msgid_released \in [Ends -> Seq(1..(reply_flag - 1))]
      /\ q \in Seq(1..(reply_flag - 1))
      /\ msgid[e] \in 1..reply_flag
  BY DEF IInv, TypeOK
<1>2. IsInjective(q) /\ Range(q) \subseteq 1..(msgid[e] - 1)
  BY <1>1 DEF IInv, IdsConserved
<1>3. CASE HasReleased(e)
  <2>1. q # <<>> /\ NextId(e) = q[Len(q)]
    BY <1>3 DEF HasReleased, NextId
  <2>2. NextId(e) \in Range(q)
    BY <1>1, <1>2, <2>1, PopBack
  <2>3. msgid' = msgid /\ msgid_released' = msgid_released
    BY <1>3 DEF GenerateAndReleaseId, idVars
  <2> QED BY <1>1, <1>2, <2>2, <2>3
<1>4. CASE ~HasReleased(e)
  <2> DEFINE r == <<msgid[e]>>
  <2>1. q = <<>> /\ NextId(e) = msgid[e]
    BY <1>4 DEF HasReleased, NextId
  <2>2. msgid[e] \in 1..(reply_flag - 1)
    BY <2>1, FreshIdBound
  <2>3. /\ msgid' = [msgid EXCEPT ![e] = msgid[e] + 1]
        /\ msgid_released' = [msgid_released EXCEPT ![e] = r]
    BY <1>1, <1>4, <2>2 DEF GenerateAndReleaseId, Increment
  <2>4. /\ r \in Seq(1..(reply_flag - 1))
        /\ IsInjective(r)
        /\ Range(r) = {msgid[e]}
    BY <2>2 DEF IsInjective, Range
  <2>5. Range(q) = {}
    BY <2>1 DEF Range
  <2> HIDE DEF r
  <2>6. msgid'[e] = msgid[e] + 1 /\ msgid_released'[e] = r
    BY <1>1, <2>3
  <2>7. 1..((msgid[e] + 1) - 1) = 1..(msgid[e] - 1) \cup {msgid[e]}
    BY <2>2
  <2>8. msgid_released' \in [Ends -> Seq(1..(reply_flag - 1))]
    BY <1>1, <2>3, <2>4
  <2> QED BY <1>1, <2>1, <2>2, <2>3, <2>4, <2>5, <2>6, <2>7, <2>8
<1> QED BY <1>3, <1>4

(* release_msgid, by the thread that owns the id.                          *)
LEMMA ReleaseIdEffect ==
  ASSUME IInv, NEW s \in Sender, Busy(s), ReleaseId(Home[s], my[s])
  PROVE  LET e == Home[s] IN
         /\ msgid' = msgid
         /\ msgid_released' \in [Ends -> Seq(1..(reply_flag - 1))]
         /\ IsInjective(msgid_released'[e])
         /\ Range(msgid_released'[e]) = Range(msgid_released[e]) \cup {my[s]}
         /\ \A d \in Ends \ {e} : msgid_released'[d] = msgid_released[d]
<1> DEFINE e == Home[s]
<1> DEFINE q == msgid_released[e]
<1>1. /\ e \in Ends
      /\ msgid_released \in [Ends -> Seq(1..(reply_flag - 1))]
      /\ q \in Seq(1..(reply_flag - 1))
      /\ msgid[e] \in 1..reply_flag
  BY DEF IInv, TypeOK
<1>2. IsInjective(q) /\ my[s] \notin Range(q)
  BY <1>1 DEF IInv, IdsConserved, IdHasOneOwner
<1>3. my[s] \in 1..(reply_flag - 1)
  <2>1. my[s] \in InUse(e)
    BY DEF InUse
  <2>2. my[s] \in 1..(msgid[e] - 1)
    BY <1>1, <2>1 DEF IInv, IdsConserved
  <2> QED BY <1>1, <2>2
<1>4. /\ Append(q, my[s]) \in Seq(1..(reply_flag - 1))
      /\ IsInjective(Append(q, my[s]))
      /\ Range(Append(q, my[s])) = Range(q) \cup {my[s]}
  BY <1>1, <1>2, <1>3, PushBack
<1>5. /\ msgid' = msgid
      /\ msgid_released' = [msgid_released EXCEPT ![e] = Append(q, my[s])]
  BY DEF ReleaseId
<1>6. msgid_released'[e] = Append(q, my[s])
  BY <1>1, <1>5
<1> QED BY <1>1, <1>4, <1>5, <1>6
-----------------------------------------------------------------------------
(* package_codec::write keeps the types, whatever becomes of the frame.    *)
LEMMA WriteTypes ==
  ASSUME TypeOK, NEW e \in Ends, NEW f \in Frame, WriteOk(e, f) \/ WriteFails(e)
  PROVE  wire' \in [Ends -> Seq(Frame)] /\ is_connected' \in [Ends -> BOOLEAN]
<1>1. Peer(e) \in Ends /\ wire \in [Ends -> Seq(Frame)]
  BY DEF TypeOK, Peer, Client, Ends
<1>2. Append(wire[Peer(e)], f) \in Seq(Frame)
  BY <1>1, AppendProperties
<1>3. CASE WriteOk(e, f)
  BY <1>1, <1>2, <1>3 DEF WriteOk, TypeOK
<1>4. CASE WriteFails(e)
  BY <1>1, <1>4 DEF WriteFails, TypeOK
<1> QED BY <1>3, <1>4

(* Taking a frame off a wire keeps the types; the frame's id is an id.     *)
LEMMA TakeTypes ==
  ASSUME TypeOK, NEW e \in Ends, wire[e] # <<>>, Take(e)
  PROVE  /\ wire' \in [Ends -> Seq(Frame)]
         /\ Head(wire[e]) \in Frame
         /\ Head(wire[e]).call \in Payload
         /\ IdOf(Head(wire[e])) \in 0..(reply_flag - 1)
<1>1. wire \in [Ends -> Seq(Frame)]
  BY DEF TypeOK
<1>2. Head(wire[e]) \in Frame /\ Tail(wire[e]) \in Seq(Frame)
  BY <1>1, HeadTailProperties
<1>3. wire' \in [Ends -> Seq(Frame)]
  BY <1>1, <1>2 DEF Take
<1>4. Head(wire[e]).call \in Payload /\ IdOf(Head(wire[e])) \in 0..(reply_flag - 1)
  BY <1>2 DEF Frame, IdOf, IsReply
<1> QED BY <1>2, <1>3, <1>4

(***************************************************************************)
(* A step that leaves the ids, the threads and the flags alone preserves   *)
(* everything but the types.                                               *)
(***************************************************************************)
LEMMA Frameless ==
  ASSUME IInv, UNCHANGED <<idVars, pc, my, sender_response_received>>, TypeOK'
  PROVE  IInv'
BY DEF IInv, idVars, IdsConserved, InUse, IdHasOneOwner, NoLostWakeup, Busy

(* Connect, Close, StreamClosed.                                           *)
LEMMA LinkPreserves ==
  ASSUME IInv, Connect \/ Close \/ \E e \in Ends : StreamClosed(e)
  PROVE  IInv'
<1>1. CASE Connect
  <2>1. conn' \in Ends /\ link' \in BOOLEAN /\ is_connected' \in [Ends -> BOOLEAN]
    <3>1. conn + 1 \in Ends /\ Client \in Ends
      BY <1>1 DEF IInv, TypeOK, Connect, Ends, Client
    <3>2. conn' \in Ends /\ link' \in BOOLEAN
      BY <1>1, <3>1 DEF Connect
    <3>3. is_connected' \in [Ends -> BOOLEAN]
      BY <1>1, <3>1 DEF IInv, TypeOK, Connect
    <3> QED BY <3>2, <3>3
  <2>2. TypeOK'
    BY <1>1, <2>1 DEF IInv, TypeOK, Connect, idVars, senderVars
  <2> QED BY <1>1, <2>2, Frameless DEF Connect, idVars, senderVars
<1>2. CASE Close
  <2>1. wire' \in [Ends -> Seq(Frame)]
    BY <1>2 DEF Close
  <2>2. TypeOK'
    BY <1>2, <2>1 DEF IInv, TypeOK, Close, idVars, senderVars
  <2> QED BY <1>2, <2>2, Frameless DEF Close, idVars, senderVars
<1>3. ASSUME NEW e \in Ends, StreamClosed(e) PROVE IInv'
  <2>1. TypeOK'
    BY <1>3 DEF IInv, TypeOK, StreamClosed, idVars, senderVars
  <2> QED BY <1>3, <2>1, Frameless DEF StreamClosed, idVars, senderVars
<1> QED BY <1>1, <1>2, <1>3

(* WriteNote, ReceiveNote, ReceiveRequest and reply.                       *)
LEMMA EndPreserves ==
  ASSUME IInv, NEW e \in Ends,
         \/ WriteNote(e) \/ ReceiveNote(e) \/ ReceiveRequest(e)
         \/ \E r \in request_msgids[e] : ReplyOk(e, r) \/ ReplyFails(e, r)
  PROVE  IInv'
<1>0. TypeOK BY DEF IInv
<1>1. CASE WriteNote(e)
  <2>1. [raw |-> 0, call |-> NoCall] \in Frame
    <3>1. Cardinality(Sender) \in Nat
      BY FS_CardinalityType
    <3> QED BY <3>1 DEF Frame, Payload
  <2>2. wire' \in [Ends -> Seq(Frame)] /\ is_connected' \in [Ends -> BOOLEAN]
    BY <1>0, <1>1, <2>1, WriteTypes DEF WriteNote
  <2>3. TypeOK'
    BY <1>0, <1>1, <2>2 DEF TypeOK, WriteNote, idVars, senderVars
  <2> QED BY <1>1, <2>3, Frameless DEF WriteNote, idVars, senderVars
<1>2. CASE ReceiveNote(e)
  <2>1. wire' \in [Ends -> Seq(Frame)]
    BY <1>0, <1>2, TakeTypes DEF ReceiveNote
  <2>2. TypeOK'
    BY <1>0, <1>2, <2>1 DEF TypeOK, ReceiveNote, idVars, senderVars, linkVars
  <2> QED BY <1>2, <2>2, Frameless DEF ReceiveNote, idVars, senderVars
<1>3. CASE ReceiveRequest(e)
  <2>1. /\ wire' \in [Ends -> Seq(Frame)]
        /\ Head(wire[e]).call \in Payload
        /\ IdOf(Head(wire[e])) \in 0..(reply_flag - 1)
    BY <1>0, <1>3, TakeTypes DEF ReceiveRequest
  <2>2. [id |-> IdOf(Head(wire[e])), call |-> Head(wire[e]).call] \in Request
    BY <1>3, <2>1 DEF ReceiveRequest, Request
  <2>3. request_msgids' \in [Ends -> SUBSET Request]
    BY <1>0, <1>3, <2>2 DEF ReceiveRequest, TypeOK
  <2>4. TypeOK'
    BY <1>0, <1>3, <2>1, <2>3 DEF TypeOK, ReceiveRequest, idVars, senderVars, linkVars
  <2> QED BY <1>3, <2>4, Frameless DEF ReceiveRequest, idVars, senderVars
<1>4. ASSUME NEW r \in request_msgids[e], ReplyOk(e, r) \/ ReplyFails(e, r)
      PROVE  IInv'
  <2>1. r \in Request /\ r.call \in Payload
    BY <1>0 DEF TypeOK, Request
  <2>2. [raw |-> r.id + reply_flag, call |-> r.call] \in Frame
    BY <2>1 DEF Request, Frame
  <2>3. wire' \in [Ends -> Seq(Frame)] /\ is_connected' \in [Ends -> BOOLEAN]
    BY <1>0, <1>4, <2>2, WriteTypes DEF ReplyOk, ReplyFails
  <2>4. request_msgids' \in [Ends -> SUBSET Request]
    <3>1. request_msgids' = [request_msgids EXCEPT ![e] = @ \ {r}]
      BY <1>4 DEF ReplyOk, ReplyFails
    <3> QED BY <1>0, <3>1 DEF TypeOK
  <2>5. answered' \subseteq Payload
    <3>1. answered' = answered \/ answered' = answered \cup {r.call}
      BY <1>4 DEF ReplyOk, ReplyFails
    <3> QED BY <1>0, <2>1, <3>1 DEF TypeOK
  <2>6. TypeOK'
    BY <1>0, <1>4, <2>3, <2>4, <2>5 DEF TypeOK, ReplyOk, ReplyFails, idVars, senderVars
  <2> QED BY <1>4, <2>6, Frameless DEF ReplyOk, ReplyFails, idVars, senderVars
<1> QED BY <1>1, <1>2, <1>3, <1>4

(***************************************************************************)
(* ReceiveReply: the flag of the id is set and its waiter, the only one    *)
(* there can be, is woken in the same step.                                *)
(***************************************************************************)
LEMMA ReceiveReplyPreserves ==
  ASSUME IInv, NEW e \in Ends, ReceiveReply(e)
  PROVE  IInv'
<1> DEFINE f == Head(wire[e])
<1> DEFINE id == IdOf(f)
<1>1. /\ wire' \in [Ends -> Seq(Frame)]
      /\ f.call \in Payload
      /\ id \in 1..(reply_flag - 1)
  BY TakeTypes DEF IInv, ReceiveReply
<1>2. /\ in' = [in EXCEPT ![e] = f.call]
      /\ sender_response_received' =
           [sender_response_received EXCEPT ![e] = @ \cup {id}]
      /\ UNCHANGED <<linkVars, idVars, request_msgids, my, calls, resp, notes,
                     answered>>
  BY DEF ReceiveReply
<1>3. /\ pc' \in [Sender -> {"idle", "asleep", "ready"}]
      /\ \A s \in Sender : Busy(s)' = Busy(s)
      /\ \A s \in Sender : pc'[s] = "asleep" => pc[s] = "asleep"
      /\ \A s \in Sender : pc'[s] = "asleep" => s \notin Waiters(e, id)
  <2> HIDE DEF id
  <2>1. NotifyOne(e, id)
    BY DEF ReceiveReply, id
  <2>2. CASE Waiters(e, id) = {}
    BY <2>1, <2>2 DEF NotifyOne, IInv, TypeOK, Busy
  <2>3. ASSUME NEW s \in Waiters(e, id), pc' = [pc EXCEPT ![s] = "ready"]
        PROVE  <1>3!1 /\ <1>3!2 /\ <1>3!3 /\ <1>3!4
    <3>1. s \in Sender /\ pc[s] = "asleep" /\ Home[s] = e /\ my[s] = id
      BY <2>3 DEF Waiters
    <3>2. \A t \in Waiters(e, id) : t = s
      BY <3>1 DEF Waiters, IInv, IdHasOneOwner, Busy
    <3> QED BY <2>3, <3>1, <3>2 DEF IInv, TypeOK, Busy
  <2> QED BY <2>1, <2>2, <2>3 DEF NotifyOne
<1> HIDE DEF id, f
<1>4. TypeOK'
  <2>1. /\ in' \in [Ends -> Payload]
        /\ sender_response_received' \in [Ends -> SUBSET (1..(reply_flag - 1))]
    BY <1>1, <1>2 DEF IInv, TypeOK
  <2> QED BY <1>1, <1>2, <1>3, <2>1 DEF IInv, TypeOK, linkVars, idVars
<1>5. IdsConserved'
  BY <1>2, <1>3 DEF IInv, IdsConserved, InUse, idVars
<1>6. IdHasOneOwner'
  BY <1>2, <1>3 DEF IInv, IdHasOneOwner, idVars
<1>7. NoLostWakeup'
  <2> SUFFICES ASSUME NEW s \in Sender, pc'[s] = "asleep"
               PROVE  my[s] \notin sender_response_received'[Home[s]]
    BY <1>2 DEF NoLostWakeup
  <2>1. pc[s] = "asleep" /\ ~(Home[s] = e /\ my[s] = id)
    BY <1>3 DEF Waiters
  <2>2. my[s] \notin sender_response_received[Home[s]]
    BY <2>1 DEF IInv, NoLostWakeup
  <2> QED BY <1>2, <2>1, <2>2 DEF IInv, TypeOK
<1> QED BY <1>4, <1>5, <1>6, <1>7 DEF IInv

(* send, from the call to the wait: the caller becomes the owner of an id. *)
LEMMA SendOkPreserves ==
  ASSUME IInv, NEW s \in Sender, SendOk(s)
  PROVE  IInv'
<1> DEFINE e == Home[s]
<1> DEFINE id == NextId(e)
<1> DEFINE call == <<s, calls[s] + 1>>
<1>1. /\ pc[s] = "idle"
      /\ GenerateId(e)
      /\ sender_response_received' = [sender_response_received EXCEPT ![e] = @ \ {id}]
      /\ WriteOk(e, [raw |-> id, call |-> call])
      /\ pc' = [pc EXCEPT ![s] = "asleep"]
      /\ my' = [my EXCEPT ![s] = id]
      /\ calls' = [calls EXCEPT ![s] = @ + 1]
      /\ resp' = [resp EXCEPT ![s] = NoCall]
      /\ UNCHANGED <<conn, link, in, request_msgids, notes, answered>>
  BY DEF SendOk, MayCall
<1>2. /\ id \in 1..(reply_flag - 1)
      /\ \A t \in Sender : (Busy(t) /\ Home[t] = e) => my[t] # id
  BY <1>1, NextIdIsFree
<1>3. /\ msgid' \in [Ends -> 1..reply_flag]
      /\ msgid_released' \in [Ends -> Seq(1..(reply_flag - 1))]
      /\ IsInjective(msgid_released'[e])
      /\ Range(msgid_released'[e]) = Range(msgid_released[e]) \ {id}
      /\ 1..(msgid'[e] - 1) = 1..(msgid[e] - 1) \cup {id}
      /\ \A d \in Ends \ {e} :
           msgid'[d] = msgid[d] /\ msgid_released'[d] = msgid_released[d]
  BY <1>1, GenerateIdEffect
<1>4. e \in Ends /\ call \in Payload
  BY DEF IInv, TypeOK, Payload, Call
<1>5. wire' \in [Ends -> Seq(Frame)] /\ is_connected' \in [Ends -> BOOLEAN]
  <2>1. [raw |-> id, call |-> call] \in Frame
    BY <1>2, <1>4 DEF Frame
  <2> HIDE DEF e, id, call
  <2> QED BY <1>1, <1>4, <2>1, WriteTypes DEF IInv
<1> HIDE DEF id, call
<1>6. TypeOK'
  <2>1. /\ pc' \in [Sender -> {"idle", "asleep", "ready"}]
        /\ my' \in [Sender -> 0..(reply_flag - 1)]
        /\ calls' \in [Sender -> Nat]
        /\ resp' \in [Sender -> Payload]
        /\ sender_response_received' \in [Ends -> SUBSET (1..(reply_flag - 1))]
    BY <1>1, <1>2, <1>4 DEF IInv, TypeOK, Payload
  <2> QED BY <1>1, <1>3, <1>5, <2>1 DEF IInv, TypeOK
<1>7. /\ Busy(s)' /\ my'[s] = id /\ ~Busy(s)
      /\ \A t \in Sender \ {s} : Busy(t)' = Busy(t) /\ my'[t] = my[t]
  BY <1>1 DEF IInv, TypeOK, Busy
<1>8. IdsConserved'
  <2> SUFFICES ASSUME NEW d \in Ends
               PROVE  /\ IsInjective(msgid_released'[d])
                      /\ Range(msgid_released'[d]) \cup InUse(d)' = 1..(msgid'[d] - 1)
    BY DEF IdsConserved
  <2>0. /\ IsInjective(msgid_released[d])
        /\ Range(msgid_released[d]) \cup InUse(d) = 1..(msgid[d] - 1)
    BY DEF IInv, IdsConserved
  <2>1. CASE d = e
    <3>1. InUse(e)' = InUse(e) \cup {id}
      BY <1>7 DEF InUse
    <3> QED BY <1>3, <2>0, <2>1, <3>1
  <2>2. CASE d # e
    <3>1. InUse(d)' = InUse(d)
      BY <1>7, <2>2 DEF InUse
    <3> QED BY <1>3, <2>0, <2>2, <3>1
  <2> QED BY <2>1, <2>2
<1>9. IdHasOneOwner'
  <2> SUFFICES ASSUME NEW t \in Sender, Busy(t)'
               PROVE  /\ \A u \in Sender :
                           (Busy(u)' /\ Home[u] = Home[t] /\ u # t) => my'[u] # my'[t]
                      /\ my'[t] \notin Range(msgid_released'[Home[t]])
    BY DEF IdHasOneOwner
  <2>1. Range(msgid_released'[Home[t]]) \subseteq Range(msgid_released[Home[t]])
    BY <1>3
  <2>2. CASE t = s
    BY <1>2, <1>3, <1>7, <2>2
  <2>3. CASE t # s
    <3>1. Busy(t) /\ my'[t] = my[t]
      BY <1>7, <2>3
    <3>2. my[t] \notin Range(msgid_released[Home[t]])
      BY <3>1 DEF IInv, IdHasOneOwner
    <3>3. ASSUME NEW u \in Sender, Busy(u)', Home[u] = Home[t], u # t
          PROVE  my'[u] # my'[t]
      BY <1>2, <1>7, <3>1, <3>3 DEF IInv, IdHasOneOwner
    <3> QED BY <2>1, <3>1, <3>2, <3>3
  <2> QED BY <2>2, <2>3
<1>10. NoLostWakeup'
  <2> SUFFICES ASSUME NEW t \in Sender, pc'[t] = "asleep"
               PROVE  my'[t] \notin sender_response_received'[Home[t]]
    BY DEF NoLostWakeup
  <2>1. CASE t = s
    BY <1>1, <1>4, <1>7, <2>1 DEF IInv, TypeOK
  <2>2. CASE t # s
    <3>1. my[t] \notin sender_response_received[Home[t]]
      BY <1>1, <2>2 DEF IInv, TypeOK, NoLostWakeup
    <3> QED BY <1>1, <1>7, <2>2, <3>1 DEF IInv, TypeOK
  <2> QED BY <2>1, <2>2
<1> QED BY <1>6, <1>8, <1>9, <1>10 DEF IInv

(* send when the write fails: the id goes back to where it came from.      *)
LEMMA SendFailsPreserves ==
  ASSUME IInv, NEW s \in Sender, SendFails(s)
  PROVE  IInv'
<1> DEFINE e == Home[s]
<1> DEFINE id == NextId(e)
<1>1. /\ pc[s] = "idle"
      /\ GenerateAndReleaseId(e)
      /\ sender_response_received' = [sender_response_received EXCEPT ![e] = @ \ {id}]
      /\ WriteFails(e)
      /\ calls' = [calls EXCEPT ![s] = @ + 1]
      /\ resp' = [resp EXCEPT ![s] = NoCall]
      /\ UNCHANGED <<conn, link, in, request_msgids, pc, my, notes, answered>>
  BY DEF SendFails, MayCall
<1>2. /\ id \in 1..(reply_flag - 1)
      /\ \A t \in Sender : (Busy(t) /\ Home[t] = e) => my[t] # id
  BY <1>1, NextIdIsFree
<1>3. /\ msgid' \in [Ends -> 1..reply_flag]
      /\ msgid_released' \in [Ends -> Seq(1..(reply_flag - 1))]
      /\ IsInjective(msgid_released'[e])
      /\ Range(msgid_released'[e]) = Range(msgid_released[e]) \cup {id}
      /\ 1..(msgid'[e] - 1) = 1..(msgid[e] - 1) \cup {id}
      /\ \A d \in Ends \ {e} :
           msgid'[d] = msgid[d] /\ msgid_released'[d] = msgid_released[d]
  BY <1>1, GenerateAndReleaseIdEffect
<1>4. e \in Ends
  OBVIOUS
<1>5. wire' \in [Ends -> Seq(Frame)] /\ is_connected' \in [Ends -> BOOLEAN]
  BY <1>1, <1>4 DEF IInv, TypeOK, WriteFails
<1> HIDE DEF id, e
<1>6. TypeOK'
  <2>1. /\ calls' \in [Sender -> Nat]
        /\ resp' \in [Sender -> Payload]
        /\ sender_response_received' \in [Ends -> SUBSET (1..(reply_flag - 1))]
    BY <1>1, <1>4 DEF IInv, TypeOK, Payload
  <2> QED BY <1>1, <1>3, <1>5, <2>1 DEF IInv, TypeOK
<1>7. \A t \in Sender : Busy(t)' = Busy(t) /\ my'[t] = my[t]
  BY <1>1 DEF Busy
<1>8. IdsConserved'
  <2> SUFFICES ASSUME NEW d \in Ends
               PROVE  /\ IsInjective(msgid_released'[d])
                      /\ Range(msgid_released'[d]) \cup InUse(d)' = 1..(msgid'[d] - 1)
    BY DEF IdsConserved
  <2>1. /\ IsInjective(msgid_released[d])
        /\ Range(msgid_released[d]) \cup InUse(d) = 1..(msgid[d] - 1)
    BY DEF IInv, IdsConserved
  <2>2. InUse(d)' = InUse(d)
    BY <1>7 DEF InUse
  <2> QED BY <1>3, <2>1, <2>2
<1>9. IdHasOneOwner'
  <2> SUFFICES ASSUME NEW t \in Sender, Busy(t)
               PROVE  my[t] \notin Range(msgid_released'[Home[t]])
    BY <1>7 DEF IInv, IdHasOneOwner
  <2>1. my[t] \notin Range(msgid_released[Home[t]])
    BY DEF IInv, IdHasOneOwner
  <2> QED BY <1>2, <1>3, <2>1
<1>10. NoLostWakeup'
  BY <1>1, <1>4 DEF IInv, TypeOK, NoLostWakeup
<1> QED BY <1>6, <1>8, <1>9, <1>10 DEF IInv

(* The wait loop of send: waking up and going back to sleep.               *)
LEMMA WaitLoopPreserves ==
  ASSUME IInv, NEW s \in Sender, SpuriousWakeup(s) \/ WaitAgain(s)
  PROVE  IInv'
<1>1. /\ Busy(s)
      /\ \/ pc' = [pc EXCEPT ![s] = "ready"]
         \/ /\ pc' = [pc EXCEPT ![s] = "asleep"]
            /\ my[s] \notin sender_response_received[Home[s]]
      /\ UNCHANGED <<linkVars, wire, idVars, sender_response_received, in,
                     request_msgids, my, calls, resp, notes, answered>>
  BY DEF SpuriousWakeup, WaitAgain, Busy
<1>2. /\ pc' \in [Sender -> {"idle", "asleep", "ready"}]
      /\ \A t \in Sender : Busy(t)' = Busy(t)
  <2>1. PICK x \in {"asleep", "ready"} : pc' = [pc EXCEPT ![s] = x]
    BY <1>1
  <2>2. pc \in [Sender -> {"idle", "asleep", "ready"}]
    BY DEF IInv, TypeOK
  <2>3. pc'[s] = x /\ \A t \in Sender \ {s} : pc'[t] = pc[t]
    BY <2>1, <2>2
  <2> QED BY <1>1, <2>1, <2>2, <2>3 DEF Busy
<1>3. TypeOK'
  BY <1>1, <1>2 DEF IInv, TypeOK, linkVars, idVars
<1>4. IdsConserved'
  BY <1>1, <1>2 DEF IInv, IdsConserved, InUse, idVars
<1>5. IdHasOneOwner'
  BY <1>1, <1>2 DEF IInv, IdHasOneOwner, idVars
<1>6. NoLostWakeup'
  <2> SUFFICES ASSUME NEW t \in Sender, pc'[t] = "asleep"
               PROVE  my[t] \notin sender_response_received[Home[t]]
    BY <1>1 DEF NoLostWakeup
  <2>1. CASE t = s
    BY <1>1, <2>1 DEF IInv, TypeOK
  <2>2. CASE t # s
    BY <1>1, <2>2 DEF IInv, TypeOK, NoLostWakeup
  <2> QED BY <2>1, <2>2
<1> QED BY <1>3, <1>4, <1>5, <1>6 DEF IInv

(* send returns: the id's owner becomes the stack.                         *)
LEMMA SendReturnsPreserves ==
  ASSUME IInv, NEW s \in Sender, SendReturns(s)
  PROVE  IInv'
<1> DEFINE e == Home[s]
<1>1. /\ Busy(s) /\ e \in Ends
      /\ ReleaseId(e, my[s])
      /\ resp' = [resp EXCEPT ![s] = in[e]]
      /\ pc' = [pc EXCEPT ![s] = "idle"]
      /\ UNCHANGED <<linkVars, wire, sender_response_received, in,
                     request_msgids, my, calls, notes, answered>>
  BY DEF SendReturns, Busy
<1>2. /\ msgid' = msgid
      /\ msgid_released' \in [Ends -> Seq(1..(reply_flag - 1))]
      /\ IsInjective(msgid_released'[e])
      /\ Range(msgid_released'[e]) = Range(msgid_released[e]) \cup {my[s]}
      /\ \A d \in Ends \ {e} : msgid_released'[d] = msgid_released[d]
  BY <1>1, ReleaseIdEffect
<1>3. ~Busy(s)' /\ \A t \in Sender \ {s} : Busy(t)' = Busy(t)
  BY <1>1 DEF IInv, TypeOK, Busy
<1>4. TypeOK'
  <2>1. /\ pc' \in [Sender -> {"idle", "asleep", "ready"}]
        /\ resp' \in [Sender -> Payload]
    BY <1>1 DEF IInv, TypeOK
  <2> QED BY <1>1, <1>2, <2>1 DEF IInv, TypeOK, linkVars
<1>5. IdsConserved'
  <2> SUFFICES ASSUME NEW d \in Ends
               PROVE  /\ IsInjective(msgid_released'[d])
                      /\ Range(msgid_released'[d]) \cup InUse(d)' = 1..(msgid[d] - 1)
    BY <1>2 DEF IdsConserved
  <2>1. /\ IsInjective(msgid_released[d])
        /\ Range(msgid_released[d]) \cup InUse(d) = 1..(msgid[d] - 1)
    BY DEF IInv, IdsConserved
  <2>2. CASE d = e
    <3>1. InUse(e) = InUse(e)' \cup {my[s]}
      BY <1>1, <1>3 DEF InUse
    <3> QED BY <1>2, <2>1, <2>2, <3>1
  <2>3. CASE d # e
    <3>1. InUse(d)' = InUse(d)
      BY <1>1, <1>3, <2>3 DEF InUse
    <3> QED BY <1>2, <2>1, <2>3, <3>1
  <2> QED BY <2>2, <2>3
<1>6. IdHasOneOwner'
  <2> SUFFICES ASSUME NEW t \in Sender, Busy(t)'
               PROVE  /\ \A u \in Sender :
                           (Busy(u)' /\ Home[u] = Home[t] /\ u # t) => my[u] # my[t]
                      /\ my[t] \notin Range(msgid_released'[Home[t]])
    BY <1>1 DEF IdHasOneOwner
  <2>1. t # s /\ Busy(t)
    BY <1>3
  <2>2. my[t] \notin Range(msgid_released[Home[t]])
    BY <2>1 DEF IInv, IdHasOneOwner
  <2>3. Home[t] = e => my[t] # my[s]
    BY <1>1, <2>1 DEF IInv, IdHasOneOwner
  <2>4. \A u \in Sender : (Busy(u)' /\ Home[u] = Home[t] /\ u # t) => my[u] # my[t]
    BY <1>3, <2>1 DEF IInv, IdHasOneOwner
  <2> QED BY <1>2, <2>2, <2>3, <2>4
<1>7. NoLostWakeup'
  BY <1>1 DEF IInv, TypeOK, NoLostWakeup
<1> QED BY <1>4, <1>5, <1>6, <1>7 DEF IInv
-----------------------------------------------------------------------------
(* No call is in progress at the start, and no id has been handed out.     *)
LEMMA InitEstablishes == Init => IInv
<1> SUFFICES ASSUME Init PROVE IInv
  OBVIOUS
<1>1. reply_flag \in Nat \ {0} /\ Cardinality(Sender) \in Nat
  BY FS_CardinalityType
<1>2. TypeOK
  <2>1. conn \in Ends
    BY DEF Init, Ends
  <2>2. link \in BOOLEAN /\ is_connected \in [Ends -> BOOLEAN]
    BY DEF Init
  <2>3. wire \in [Ends -> Seq(Frame)]
    BY DEF Init
  <2>4. /\ msgid \in [Ends -> 1..reply_flag]
        /\ msgid_released \in [Ends -> Seq(1..(reply_flag - 1))]
        /\ sender_response_received \in [Ends -> SUBSET (1..(reply_flag - 1))]
        /\ request_msgids \in [Ends -> SUBSET Request]
    BY <1>1 DEF Init
  <2>5. /\ in \in [Ends -> Payload]
        /\ resp \in [Sender -> Payload]
    BY DEF Init, Payload
  <2>6. /\ pc \in [Sender -> {"idle", "asleep", "ready"}]
        /\ my \in [Sender -> 0..(reply_flag - 1)]
        /\ calls \in [Sender -> Nat]
        /\ notes \in Nat
        /\ answered \subseteq Payload
    BY <1>1 DEF Init
  <2> QED BY <2>1, <2>2, <2>3, <2>4, <2>5, <2>6 DEF TypeOK
<1>3. \A s \in Sender : ~Busy(s)
  BY DEF Init, Busy
<1>4. IdsConserved
  BY <1>3 DEF Init, IdsConserved, InUse, IsInjective, Range
<1> QED BY <1>2, <1>3, <1>4 DEF IInv, Init, IdHasOneOwner, NoLostWakeup

(* Every step of a thread, of a dispatcher and of the connection.          *)
LEMMA StepPreserves == IInv /\ [Next]_vars => IInv'
<1> SUFFICES ASSUME IInv, [Next]_vars PROVE IInv'
  OBVIOUS
<1>1. CASE UNCHANGED vars
  <2>1. TypeOK'
    BY <1>1 DEF IInv, TypeOK, vars
  <2> QED BY <1>1, <2>1, Frameless DEF vars, idVars
<1>2. CASE Connect \/ Close
  BY <1>2, LinkPreserves
<1>3. ASSUME NEW s \in Sender, SenderStep(s) PROVE IInv'
  BY <1>3, SendOkPreserves, SendFailsPreserves, WaitLoopPreserves,
     SendReturnsPreserves DEF SenderStep
<1>4. ASSUME NEW e \in Ends, EndStep(e) PROVE IInv'
  BY <1>4, LinkPreserves, EndPreserves, ReceiveReplyPreserves DEF EndStep
<1> QED BY <1>1, <1>2, <1>3, <1>4 DEF Next

(* The four invariants hold in every reachable state.                      *)
THEOREM Invariance == Spec => []IInv
BY InitEstablishes, StepPreserves, PTL DEF Spec

(* Every variable keeps its type; in particular no request is ever written *)
(* with the reply bit set, on any history of reuse and failed writes.      *)
THEOREM TypeCorrect == Spec => []TypeOK
<1>1. IInv => TypeOK BY DEF IInv
<1> QED BY Invariance, <1>1, PTL

(* Two threads never wait under one id, nor under an id of the stack.      *)
THEOREM IdsHaveOneOwner == Spec => []IdHasOneOwner
<1>1. IInv => IdHasOneOwner BY DEF IInv
<1> QED BY Invariance, <1>1, PTL

(* No id leaks and none is on the stack twice.                             *)
THEOREM IdsAreConserved == Spec => []IdsConserved
<1>1. IInv => IdsConserved BY DEF IInv
<1> QED BY Invariance, <1>1, PTL

(* A thread asleep in send has not been answered.                          *)
THEOREM WakeupsAreNotLost == Spec => []NoLostWakeup
<1>1. IInv => NoLostWakeup BY DEF IInv
<1> QED BY Invariance, <1>1, PTL
=============================================================================
