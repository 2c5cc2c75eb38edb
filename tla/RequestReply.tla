---------------------------- MODULE RequestReply ----------------------------
(***************************************************************************)
(* request_reply_dispatcher (package_stream.h, package_stream.cpp): the    *)
(* layer that turns a stream of packages into blocking calls.              *)
(*                                                                         *)
(* Dispatcher 0 is the client's.  It outlives its connections: the same    *)
(* socket_client is given a new socket after every reconnect.  Dispatchers *)
(* 1..MaxConn are the server's: conn_server builds a new one for every     *)
(* accepted socket and never removes an old one.                           *)
(*                                                                         *)
(* Every critical section of the class is one step.  All of its state is   *)
(* guarded by senders_mutex or request_msgids_mutex, and the only point at *)
(* which a critical section is left half way is the wait on the condition  *)
(* variable in send, which is where a sender's program counter changes.    *)
(***************************************************************************)
EXTENDS Integers, Sequences, FiniteSets, Functions

CONSTANTS
  Sender,      \* threads that call send
  Home,        \* the dispatcher each of them calls it on
  MaxConn,     \* bound: connections the client makes, one after the other
  MaxCalls,    \* bound: calls of send per thread
  MaxNotes,    \* bound: calls of write(p), the packages that want no reply
  CanClose,    \* whether a connection may break
  reply_flag,  \* the highest bit of a msgid_t; 2 * reply_flag is its range
  NoCall       \* the payload of a default-constructed package

Client == 0
Ends   == 0..MaxConn

(***************************************************************************)
(* A payload is told apart by the call it belongs to: <<s, n>> is the n-th *)
(* request of thread s, or the reply the peer computed for that request.   *)
(***************************************************************************)
Call    == Sender \X (Nat \ {0})
Payload == Call \cup {NoCall}

ASSUME ConstantsAssumption ==
  /\ IsFiniteSet(Sender)
  /\ MaxConn \in Nat
  /\ MaxCalls \in Nat
  /\ MaxNotes \in Nat
  /\ CanClose \in BOOLEAN
  /\ Home \in [Sender -> Ends]
  /\ reply_flag \in Nat
  \* 32767 threads blocked in send at once are more than a process has
  /\ Cardinality(Sender) < reply_flag
  /\ NoCall \notin Call

VARIABLES
  conn,          \* number of the current (or last) connection, 0 before any
  link,          \* whether that connection is up
  is_connected,  \* socket_client::is_connected of each dispatcher's transport
  wire,          \* wire[e]: frames on their way to dispatcher e
  msgid,         \* next id that was never used
  msgid_released,           \* ids to use again, a stack
  sender_response_received, \* ids whose flag is true
  in,            \* the one package every reply is copied to
  request_msgids,\* requests handed to the listener and not replied to yet
  pc,            \* where each sender is
  my,            \* the local variable msgid of send
  calls,         \* calls of send each thread has begun
  resp,          \* the package send filled in for its caller
  notes,         \* calls of write(p) so far
  answered       \* history: calls whose reply was written by the peer

linkVars   == <<conn, link, is_connected>>
idVars     == <<msgid, msgid_released>>
senderVars == <<pc, my, calls, resp>>
vars == <<conn, link, is_connected, wire, msgid, msgid_released,
          sender_response_received, in, request_msgids, pc, my, calls, resp,
          notes, answered>>

Frame   == [raw : 0..(2 * reply_flag - 1), call : Payload]
Request == [id : 1..(reply_flag - 1), call : Payload]

Peer(e)   == IF e = Client THEN conn ELSE Client
Linked(e) == link /\ (e = Client \/ e = conn)

Busy(s) == pc[s] \in {"asleep", "ready"}

Init ==
  /\ conn = 0
  /\ link = FALSE
  /\ is_connected = [e \in Ends |-> FALSE]
  /\ wire = [e \in Ends |-> <<>>]
  /\ msgid = [e \in Ends |-> 1]      \* the constructor burns id 0
  /\ msgid_released = [e \in Ends |-> <<>>]
  /\ sender_response_received = [e \in Ends |-> {}]
  /\ in = [e \in Ends |-> NoCall]
  /\ request_msgids = [e \in Ends |-> {}]
  /\ pc = [s \in Sender |-> "idle"]
  /\ my = [s \in Sender |-> 0]
  /\ calls = [s \in Sender |-> 0]
  /\ resp = [s \in Sender |-> NoCall]
  /\ notes = 0
  /\ answered = {}

-----------------------------------------------------------------------------
(***************************************************************************)
(* The transport below.  A write on a transport that knows it is closed    *)
(* fails; on one that does not know yet it either vanishes in the kernel   *)
(* or reports the error, which makes the transport know.                   *)
(***************************************************************************)
WriteOk(e, f) ==
  /\ is_connected[e]
  /\ wire' = IF Linked(e) THEN [wire EXCEPT ![Peer(e)] = Append(@, f)] ELSE wire
  /\ is_connected' = is_connected

WriteFails(e) ==
  /\ is_connected[e] => ~Linked(e)
  /\ is_connected' = [is_connected EXCEPT ![e] = FALSE]
  /\ wire' = wire

(* The client's connector succeeds and conn_server accepts: a new pair.    *)
Connect ==
  /\ ~link
  /\ ~is_connected[Client]
  /\ conn < MaxConn
  /\ conn' = conn + 1
  /\ link' = TRUE
  /\ is_connected' = [is_connected EXCEPT ![Client] = TRUE, ![conn + 1] = TRUE]
  /\ UNCHANGED <<wire, idVars, sender_response_received, in, request_msgids,
                 senderVars, notes, answered>>

(* The connection breaks: what is on its way is lost in both directions.   *)
Close ==
  /\ CanClose
  /\ link
  /\ link' = FALSE
  /\ wire' = [e \in Ends |-> <<>>]
  /\ UNCHANGED <<conn, is_connected, idVars, sender_response_received, in,
                 request_msgids, senderVars, notes, answered>>

(***************************************************************************)
(* data_ready gets the error.  bytestream_closed only passes the event on  *)
(* to the listener: nothing of the dispatcher changes.                     *)
(***************************************************************************)
StreamClosed(e) ==
  /\ is_connected[e]
  /\ ~Linked(e)
  /\ is_connected' = [is_connected EXCEPT ![e] = FALSE]
  /\ UNCHANGED <<conn, link, wire, idVars, sender_response_received, in,
                 request_msgids, senderVars, notes, answered>>

-----------------------------------------------------------------------------
(* generate_msgid: the id released last if there is one, a new one if not. *)
HasReleased(e) == msgid_released[e] # <<>>

NextId(e) ==
  IF HasReleased(e) THEN msgid_released[e][Len(msgid_released[e])]
                    ELSE msgid[e]

(* msgid++ on an unsigned type *)
Increment(n) == IF n = 2 * reply_flag - 1 THEN 0 ELSE n + 1

(* Mutant: generate_msgid without pop_back.                                *)
GenerateIdWithoutPop(e) ==
  /\ msgid' = IF HasReleased(e) THEN msgid ELSE [msgid EXCEPT ![e] = Increment(@)]
  /\ msgid_released' = msgid_released

GenerateId(e) ==
  IF HasReleased(e)
  THEN /\ msgid' = msgid
       /\ msgid_released' = [msgid_released EXCEPT ![e] = SubSeq(@, 1, Len(@) - 1)]
  ELSE /\ msgid' = [msgid EXCEPT ![e] = Increment(@)]
       /\ msgid_released' = msgid_released

(* release_msgid *)
ReleaseId(e, id) ==
  /\ msgid' = msgid
  /\ msgid_released' = [msgid_released EXCEPT ![e] = Append(@, id)]

(* generate_msgid followed by release_msgid of the id it returned *)
GenerateAndReleaseId(e) ==
  IF HasReleased(e)
  THEN UNCHANGED idVars
  ELSE /\ msgid' = [msgid EXCEPT ![e] = Increment(@)]
       /\ msgid_released' = [msgid_released EXCEPT ![e] = <<msgid[e]>>]

MayCall(s) ==
  /\ pc[s] = "idle"
  /\ calls[s] < MaxCalls
  /\ Home[s] <= conn       \* a server's dispatcher exists once accepted

(***************************************************************************)
(* send, from the call to the wait.  The caller passes a fresh package for *)
(* the response.                                                           *)
(***************************************************************************)
SendOk(s) ==
  LET e == Home[s] IN
  /\ MayCall(s)
  /\ GenerateId(e)
  /\ sender_response_received' =
       [sender_response_received EXCEPT ![e] = @ \ {NextId(e)}]
  /\ WriteOk(e, [raw |-> NextId(e), call |-> <<s, calls[s] + 1>>])
  /\ pc' = [pc EXCEPT ![s] = "asleep"]
  /\ my' = [my EXCEPT ![s] = NextId(e)]
  /\ calls' = [calls EXCEPT ![s] = @ + 1]
  /\ resp' = [resp EXCEPT ![s] = NoCall]
  /\ UNCHANGED <<conn, link, in, request_msgids, notes, answered>>

(* send when the write fails: the id is released and resp is not touched.  *)
SendFails(s) ==
  LET e == Home[s] IN
  /\ MayCall(s)
  /\ GenerateAndReleaseId(e)
  /\ sender_response_received' =
       [sender_response_received EXCEPT ![e] = @ \ {NextId(e)}]
  /\ WriteFails(e)
  /\ calls' = [calls EXCEPT ![s] = @ + 1]
  /\ resp' = [resp EXCEPT ![s] = NoCall]
  /\ UNCHANGED <<conn, link, in, request_msgids, pc, my, notes, answered>>

(* A condition variable may wake its waiter for no reason.                 *)
SpuriousWakeup(s) ==
  /\ pc[s] = "asleep"
  /\ pc' = [pc EXCEPT ![s] = "ready"]
  /\ UNCHANGED <<linkVars, wire, idVars, sender_response_received, in,
                 request_msgids, my, calls, resp, notes, answered>>

(* The loop around wait finds its flag still false.                        *)
WaitAgain(s) ==
  /\ pc[s] = "ready"
  /\ my[s] \notin sender_response_received[Home[s]]
  /\ pc' = [pc EXCEPT ![s] = "asleep"]
  /\ UNCHANGED <<linkVars, wire, idVars, sender_response_received, in,
                 request_msgids, my, calls, resp, notes, answered>>

(* Mutant: "if" in place of "while" around the wait.                       *)
SendReturnsUnchecked(s) ==
  /\ pc[s] = "ready"
  /\ ReleaseId(Home[s], my[s])
  /\ resp' = [resp EXCEPT ![s] = in[Home[s]]]
  /\ pc' = [pc EXCEPT ![s] = "idle"]
  /\ UNCHANGED <<linkVars, wire, sender_response_received, in,
                 request_msgids, my, calls, notes, answered>>

(* The loop ends: the id is released and send returns what is in "in".     *)
SendReturns(s) ==
  /\ pc[s] = "ready"
  /\ my[s] \in sender_response_received[Home[s]]
  /\ ReleaseId(Home[s], my[s])
  /\ resp' = [resp EXCEPT ![s] = in[Home[s]]]
  /\ pc' = [pc EXCEPT ![s] = "idle"]
  /\ UNCHANGED <<linkVars, wire, sender_response_received, in,
                 request_msgids, my, calls, notes, answered>>

(* write(p): a package with id 0, for which nobody waits.                  *)
WriteNote(e) ==
  /\ notes < MaxNotes
  /\ e <= conn
  /\ \/ WriteOk(e, [raw |-> 0, call |-> NoCall])
     \/ WriteFails(e)
  /\ notes' = notes + 1
  /\ UNCHANGED <<conn, link, idVars, sender_response_received, in,
                 request_msgids, senderVars, answered>>

-----------------------------------------------------------------------------
(***************************************************************************)
(* process_notification, on the thread that reads the socket.  The highest *)
(* bit of the id tells replies from requests; it is cleared before the id  *)
(* is looked at.                                                           *)
(***************************************************************************)
IsReply(f) == f.raw >= reply_flag
IdOf(f)    == IF IsReply(f) THEN f.raw - reply_flag ELSE f.raw

Waiters(e, id) == {s \in Sender : Home[s] = e /\ pc[s] = "asleep" /\ my[s] = id}

(* Mutant: the flag is set and nobody is notified.                         *)
NotifyNobody(e, id) == pc' = pc

(* sender_condvars[msgid].notify_one()                                     *)
NotifyOne(e, id) ==
  IF Waiters(e, id) = {}
  THEN pc' = pc
  ELSE \E s \in Waiters(e, id) : pc' = [pc EXCEPT ![s] = "ready"]

Take(e) == wire' = [wire EXCEPT ![e] = Tail(@)]

ReceiveReply(e) ==
  /\ wire[e] # <<>>
  /\ LET f == Head(wire[e]) IN
     /\ IsReply(f) /\ IdOf(f) # 0
     /\ in' = [in EXCEPT ![e] = f.call]
     /\ sender_response_received' =
          [sender_response_received EXCEPT ![e] = @ \cup {IdOf(f)}]
     /\ NotifyOne(e, IdOf(f))
  /\ Take(e)
  /\ UNCHANGED <<linkVars, idVars, request_msgids, my, calls, resp, notes,
                 answered>>

ReceiveRequest(e) ==
  /\ wire[e] # <<>>
  /\ LET f == Head(wire[e]) IN
     /\ ~IsReply(f) /\ IdOf(f) # 0
     /\ request_msgids' =
          [request_msgids EXCEPT ![e] = @ \cup {[id |-> IdOf(f), call |-> f.call]}]
  /\ Take(e)
  /\ UNCHANGED <<linkVars, idVars, sender_response_received, in, senderVars,
                 notes, answered>>

(* Only handed to the listener: the dispatcher keeps nothing of it.        *)
ReceiveNote(e) ==
  /\ wire[e] # <<>>
  /\ IdOf(Head(wire[e])) = 0
  /\ Take(e)
  /\ UNCHANGED <<linkVars, idVars, sender_response_received, in,
                 request_msgids, senderVars, notes, answered>>

(* Mutant: reply without request_msgids.erase.                             *)
ReplyWithoutErase(e, r) ==
  /\ r \in request_msgids[e]
  /\ WriteOk(e, [raw |-> r.id + reply_flag, call |-> r.call])
  /\ answered' = answered \cup {r.call}
  /\ UNCHANGED <<conn, link, idVars, sender_response_received, in, senderVars,
                 request_msgids, notes>>

(***************************************************************************)
(* reply, called by the listener for one of the requests it was handed, in *)
(* whatever order it likes.  The request is forgotten even when the write  *)
(* fails.                                                                  *)
(***************************************************************************)
ReplyOk(e, r) ==
  /\ r \in request_msgids[e]
  /\ WriteOk(e, [raw |-> r.id + reply_flag, call |-> r.call])
  /\ request_msgids' = [request_msgids EXCEPT ![e] = @ \ {r}]
  /\ answered' = answered \cup {r.call}
  /\ UNCHANGED <<conn, link, idVars, sender_response_received, in, senderVars,
                 notes>>

ReplyFails(e, r) ==
  /\ r \in request_msgids[e]
  /\ WriteFails(e)
  /\ request_msgids' = [request_msgids EXCEPT ![e] = @ \ {r}]
  /\ UNCHANGED <<conn, link, idVars, sender_response_received, in, senderVars,
                 notes, answered>>

-----------------------------------------------------------------------------
SenderStep(s) ==
  \/ SendOk(s)
  \/ SendFails(s)
  \/ SpuriousWakeup(s)
  \/ WaitAgain(s)
  \/ SendReturns(s)

EndStep(e) ==
  \/ StreamClosed(e)
  \/ WriteNote(e)
  \/ ReceiveReply(e)
  \/ ReceiveRequest(e)
  \/ ReceiveNote(e)
  \/ \E r \in request_msgids[e] : ReplyOk(e, r) \/ ReplyFails(e, r)

Next ==
  \/ Connect
  \/ Close
  \/ \E s \in Sender : SenderStep(s)
  \/ \E e \in Ends : EndStep(e)

Spec == Init /\ [][Next]_vars

(***************************************************************************)
(* The reading thread reads as long as there is data, the listener replies *)
(* to every request it was handed, an awake thread runs, and the client    *)
(* keeps trying to connect.  Nobody is obliged to call send or write, to   *)
(* wake up without cause, or to lose the connection.                       *)
(***************************************************************************)
Fairness ==
  /\ WF_vars(Connect)
  /\ \A e \in Ends :
       /\ WF_vars(StreamClosed(e))
       /\ WF_vars(ReceiveReply(e) \/ ReceiveRequest(e) \/ ReceiveNote(e))
       /\ WF_vars(\E r \in request_msgids[e] : ReplyOk(e, r) \/ ReplyFails(e, r))
  /\ \A s \in Sender : WF_vars(WaitAgain(s) \/ SendReturns(s))

FairSpec == Spec /\ Fairness
-----------------------------------------------------------------------------
(* What the variables hold (types of package_stream.h:71-88).              *)
TypeOK ==
  /\ conn \in Ends
  /\ link \in BOOLEAN
  /\ is_connected \in [Ends -> BOOLEAN]
  /\ wire \in [Ends -> Seq(Frame)]
  /\ msgid \in [Ends -> 1..reply_flag]
  /\ msgid_released \in [Ends -> Seq(1..(reply_flag - 1))]
  /\ sender_response_received \in [Ends -> SUBSET (1..(reply_flag - 1))]
  /\ in \in [Ends -> Payload]
  /\ request_msgids \in [Ends -> SUBSET Request]
  /\ pc \in [Sender -> {"idle", "asleep", "ready"}]
  /\ my \in [Sender -> 0..(reply_flag - 1)]
  /\ calls \in [Sender -> Nat]
  /\ resp \in [Sender -> Payload]
  /\ notes \in Nat
  /\ answered \subseteq Payload

(***************************************************************************)
(* An id has one owner.  Two threads inside send on the same dispatcher    *)
(* never wait under the same id, and an id somebody waits under is not on  *)
(* the stack of ids to hand out again (generate_msgid, release_msgid),     *)
(* through any sequence of failed writes, lost connections and reuse.      *)
(***************************************************************************)
IdHasOneOwner ==
  \A s \in Sender : Busy(s) =>
    /\ \A t \in Sender : (Busy(t) /\ Home[t] = Home[s] /\ t # s) => my[t] # my[s]
    /\ my[s] \notin Range(msgid_released[Home[s]])

(***************************************************************************)
(* Ids are conserved.  Every id generate_msgid ever handed out is on the   *)
(* stack, once, or owned by a thread inside send: none leaks on the error  *)
(* paths, so msgid stays below reply_flag and a request is never taken for *)
(* a reply ("highest bit shows if package is a reply").                    *)
(***************************************************************************)
InUse(e) == {my[s] : s \in {t \in Sender : Busy(t) /\ Home[t] = e}}

IdsConserved ==
  \A e \in Ends :
    /\ IsInjective(msgid_released[e])
    /\ Range(msgid_released[e]) \cup InUse(e) = 1..(msgid[e] - 1)

(***************************************************************************)
(* No wakeup is lost.  A thread asleep on its condition variable in send   *)
(* has not been answered yet: process_notification sets the flag and       *)
(* notifies in one critical section, and the flag is cleared before the    *)
(* request is written.                                                     *)
(***************************************************************************)
NoLostWakeup ==
  \A s \in Sender :
    pc[s] = "asleep" => my[s] \notin sender_response_received[Home[s]]

(***************************************************************************)
(* The places where the call of a waiting thread can be: on its way as a   *)
(* request, with the peer's listener, or on its way back as a reply.       *)
(***************************************************************************)
CallOf(s) == <<s, calls[s]>>

OnTheWayOut(s)  == {i \in DOMAIN wire[Peer(Home[s])] :
                      wire[Peer(Home[s])][i] = [raw |-> my[s], call |-> CallOf(s)]}
WithListener(s) == {r \in request_msgids[Peer(Home[s])] :
                      r = [id |-> my[s], call |-> CallOf(s)]}
OnTheWayBack(s) == {i \in DOMAIN wire[Home[s]] :
                      wire[Home[s]][i] = [raw |-> my[s] + reply_flag, call |-> CallOf(s)]}

(***************************************************************************)
(* While the first connection is up, the call of a thread whose flag is    *)
(* still false exists, once: it is neither lost nor duplicated by the      *)
(* dispatchers, so a reply to it is still to come.                         *)
(***************************************************************************)
CallIsSomewhereOnce ==
  (conn = 1 /\ link) =>
    \A s \in Sender :
      (Busy(s) /\ my[s] \notin sender_response_received[Home[s]]) =>
        Cardinality(OnTheWayOut(s)) + Cardinality(WithListener(s))
          + Cardinality(OnTheWayBack(s)) = 1

(***************************************************************************)
(* send does not return before the peer has replied to that very call: no  *)
(* reply to another call, or to an earlier call under the same id, ends    *)
(* the wait.  (What it then returns is another matter, see OwnResponse.)   *)
(***************************************************************************)
AnsweredBeforeReturn ==
  [][\A s \in Sender :
       (conn = 1 /\ Busy(s) /\ pc'[s] = "idle") => CallOf(s) \in answered]_vars

(***************************************************************************)
(* send "blocks and waits for response" (package_stream_base.h:202): what  *)
(* a successful send returns is the response to its own request, if no     *)
(* other thread sends on the same dispatcher and no earlier connection has *)
(* left requests behind.  Both conditions are needed: all threads share    *)
(* "in", and the client replies to a request of a lost connection under    *)
(* its old id on the next one.                                             *)
(***************************************************************************)
IsAlone(s) == \A t \in Sender \ {s} : Home[t] # Home[s]

OwnResponse ==
  \A s \in Sender :
    (conn = 1 /\ IsAlone(s) /\ pc[s] = "idle") => resp[s] \in {NoCall, CallOf(s)}

(***************************************************************************)
(* The wait in send ends (package_stream_base.h:202 "blocks and waits for  *)
(* response").                                                             *)
(***************************************************************************)
SendEnds == \A s \in Sender : Busy(s) ~> pc[s] = "idle"

(***************************************************************************)
(* Dispatchers, ids and wire implement the abstract calls of CallService:  *)
(* as long as the first connection holds every call is served exactly once *)
(* and returns after that.  A call is served when its reply is written.    *)
(***************************************************************************)
StageOf(s) ==
  IF ~Busy(s) THEN "idle" ELSE IF CallOf(s) \in answered THEN "served" ELSE "waiting"

Service == INSTANCE CallService WITH
             Caller <- Sender, count <- calls,
             stage <- [s \in Sender |-> StageOf(s)]

ImplementsCalls == Service!Spec
=============================================================================
