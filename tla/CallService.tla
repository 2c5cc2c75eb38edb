---------------------------- MODULE CallService ----------------------------
(***************************************************************************)
(* What request_reply_dispatcher promises to the threads that call send,   *)
(* without ids, packages, condition variables or a wire: a call waits, is  *)
(* served once by the peer, and returns only after that; a thread has one  *)
(* call at a time.  A call that cannot be sent fails at once.  The comment *)
(* of the interface: send "blocks and waits for response"                  *)
(* (package_stream_base.h:202).                                            *)
(***************************************************************************)
EXTENDS Naturals

CONSTANT Caller

VARIABLES
  stage,   \* "idle", "waiting" or "served" for each thread
  count    \* calls each thread has made

callVars == <<stage, count>>

Init == stage = [s \in Caller |-> "idle"] /\ count = [s \in Caller |-> 0]

Moves(s, from, to) == stage[s] = from /\ stage' = [stage EXCEPT ![s] = to]
Counts(s)          == count' = [count EXCEPT ![s] = @ + 1]

Call(s)   == Moves(s, "idle", "waiting") /\ Counts(s)
Fail(s)   == Moves(s, "idle", "idle") /\ Counts(s)
Serve(s)  == Moves(s, "waiting", "served") /\ count' = count
Return(s) == Moves(s, "served", "idle") /\ count' = count

Next == \E s \in Caller : Call(s) \/ Fail(s) \/ Serve(s) \/ Return(s)

(* What may happen to a call.                                              *)
Safety == Init /\ [][Next]_callVars

(* A call that waits is over some time, so it is served before that.       *)
Ends(s) == stage[s] # "idle" ~> stage[s] = "idle"

Spec == Safety /\ \A s \in Caller : Ends(s)
=============================================================================
