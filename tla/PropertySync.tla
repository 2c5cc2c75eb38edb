---------------------------- MODULE PropertySync ----------------------------
(***************************************************************************)
(* One property and its proxy.  The owner's end has the property itself    *)
(* (real), the other end a property_value_fake with a copy (cache).  The   *)
(* copy is written by three parties: the application (set_value), the      *)
(* reply to a get_value (update_prop) and the updates of a subscription    *)
(* (process_prop_value, on the worker).  A flag of the proxy,              *)
(* deserialization_in_process, tells the second and third from the first.  *)
(*                                                                         *)
(* Threads: the owner's application and worker, the proxy's application,   *)
(* reading thread and worker.  All packages to the owner pass its queue,   *)
(* so its wire and its queue are one; at the proxy replies bypass the      *)
(* queue.  Types are the plain ones, whose deserialize calls set_value.    *)
(***************************************************************************)
EXTENDS Integers, Sequences

CONSTANTS
  Programs,   \* which operations the applications may use, by behaviour
  OwnerOps,   \* bound: operations of the owner's application
  ProxyOps,   \* bound: operations of the proxy's application
  Nobody

Operation == {"change", "set", "get", "listen", "unlisten"}
Mutex     == {"owner_tracked", "tracked", "update"}
Thread    == {"owner_app", "owner_worker", "app", "worker"}
Application == {"owner_app", "app"}
Race      == {"swallowed", "dropped", "overtaken"}
Value     == 0 .. OwnerOps + ProxyOps

ASSUME PropertyAssumption ==
  /\ Programs \subseteq SUBSET Operation
  /\ OwnerOps \in Nat /\ ProxyOps \in Nat
  /\ Nobody \notin Thread

VARIABLES
  uses,        \* the program of this behaviour; never changes
  real,        \* the value of the property
  registered,  \* node_sync is a listener of the property
  unsent,      \* the owner's updates that are serialized and not written
  cache,       \* the proxy's copy
  flag,        \* property_fake::deserialization_in_process
  update_in_process,
  listening,   \* the proxy has a listener of its application
  heard,       \* what that listener has read when it was last notified
  holder,      \* the thread that has each mutex
  to_owner,    \* packages for the owner's worker
  wire,        \* packages for the proxy's reading thread
  package_queue,
  reply,       \* the reply that has been copied for the waiting application
  th,          \* the local state of each thread
  ops,         \* operations begun by each application
  past,        \* history: values the property no longer has
  stale,       \* history: values a get_value must not return any more
  told,        \* history: an update was serialized after the last change
  races        \* history: the windows that have been hit

ownerVars == <<real, past, registered, unsent, told>>
proxyVars == <<cache, flag, update_in_process, listening, heard, stale>>
netVars   == <<to_owner, wire, package_queue, reply>>
vars == <<ownerVars, proxyVars, netVars, holder, th, ops, races, uses>>

NoValue  == -1
Idle     == [pc |-> "idle", val |-> NoValue]
Msg(kind, v) == [kind |-> kind, val |-> v]

Init ==
  /\ uses \in Programs
  /\ real = 0
  /\ registered = FALSE
  /\ unsent = <<>>
  /\ cache = 0
  /\ flag = FALSE
  /\ update_in_process = FALSE
  /\ listening = FALSE
  /\ heard = NoValue
  /\ holder = [m \in Mutex |-> Nobody]
  /\ to_owner = <<>> /\ wire = <<>> /\ package_queue = <<>> /\ reply = <<>>
  /\ th = [t \in Thread |-> Idle]
  /\ ops = [t \in Application |-> 0]
  /\ past = {} /\ stale = {}
  /\ told = FALSE
  /\ races = {}

-----------------------------------------------------------------------------
At(t, pc)        == th[t].pc = pc
Goto(t, pc, v)   == th' = [th EXCEPT ![t] = [pc |-> pc, val |-> v]]
Free(m, t)       == holder[m] \in {Nobody, t}
Lock(ms, t)      == /\ \A m \in ms : Free(m, t)
                    /\ holder' = [m \in Mutex |-> IF m \in ms THEN t ELSE holder[m]]
Unlock(ms)       == holder' = [m \in Mutex |-> IF m \in ms THEN Nobody ELSE holder[m]]
Fresh            == ops["owner_app"] + ops["app"] + 1

Begins(t, op) ==
  /\ op \in uses
  /\ At(t, "idle")
  /\ ops[t] < IF t = "app" THEN ProxyOps ELSE OwnerOps
  /\ ops' = [ops EXCEPT ![t] = @ + 1]

-----------------------------------------------------------------------------
(* The owner.  A change of the property is set_value and notify_change,    *)
(* whoever makes it; the listeners it notifies include the node_sync that  *)
(* has been subscribed, whose "updated" serializes the value the property  *)
(* has by then and writes it, in two steps and under no lock of its own.   *)

SetReal(v) ==
  /\ real' = v
  /\ past' = (past \cup {real}) \ {v}
  /\ told' = FALSE

Change ==
  /\ Begins("owner_app", "change")
  /\ SetReal(Fresh)
  /\ Goto("owner_app", "notify", NoValue)
  /\ UNCHANGED <<registered, unsent, proxyVars, netVars, holder, races>>

(* get_nid takes and releases tracked_mutex before the value is read.      *)
UpdatedSerialize(t) ==
  /\ At(t, "notify")
  /\ registered
  /\ Free("owner_tracked", t)
  /\ unsent' = Append(unsent, [by |-> t, val |-> real])
  /\ told' = TRUE
  /\ Goto(t, "updated", real)
  /\ UNCHANGED <<real, past, registered, proxyVars, netVars, holder, ops, races>>

(* Each thread has at most one update that is serialized and not written.  *)
Without(t) == IF Head(unsent).by = t THEN Tail(unsent) ELSE <<Head(unsent)>>

(* The worker still holds the locks of cmd_prop_value and drops them.      *)
EndsChange(t) ==
  IF t = "owner_worker" THEN Unlock({"owner_tracked"}) ELSE UNCHANGED holder

(* Mutant: a change that came from the proxy is not announced to it.       *)
UpdatedWriteOwnOnly(t) ==
  /\ At(t, "updated")
  /\ wire' = IF t = "owner_worker" THEN wire
             ELSE Append(wire, Msg("update", th[t].val))
  /\ unsent' = Without(t)
  /\ races' = races \cup (IF Head(unsent).by = t THEN {} ELSE {"overtaken"})
  /\ EndsChange(t)
  /\ Goto(t, "idle", NoValue)
  /\ UNCHANGED <<real, past, registered, told, proxyVars, to_owner,
                 package_queue, reply, ops>>

UpdatedWrite(t) ==
  /\ At(t, "updated")
  /\ wire' = Append(wire, Msg("update", th[t].val))
  /\ unsent' = Without(t)
  /\ races' = races \cup (IF Head(unsent).by = t THEN {} ELSE {"overtaken"})
  /\ EndsChange(t)
  /\ Goto(t, "idle", NoValue)
  /\ UNCHANGED <<real, past, registered, told, proxyVars, to_owner, package_queue,
                 reply, ops>>

NotifyNobody(t) ==
  /\ At(t, "notify")
  /\ ~registered
  /\ EndsChange(t)
  /\ Goto(t, "idle", NoValue)
  /\ UNCHANGED <<ownerVars, proxyVars, netVars, ops, races>>

Pop(kind) ==
  /\ At("owner_worker", "idle")
  /\ to_owner # <<>>
  /\ Head(to_owner).kind = kind
  /\ to_owner' = Tail(to_owner)

(* cmd_prop_value: tracked_mutex is held until the notification is over.   *)
CmdPropValue ==
  /\ Pop("set")
  /\ Lock({"owner_tracked"}, "owner_worker")
  /\ SetReal(Head(to_owner).val)
  /\ Goto("owner_worker", "notify", NoValue)
  /\ UNCHANGED <<registered, unsent, proxyVars, wire, package_queue, reply,
                 ops, races>>

CmdGetProp ==
  /\ Pop("get")
  /\ Free("owner_tracked", "owner_worker")
  /\ Goto("owner_worker", "reply", real)
  /\ UNCHANGED <<ownerVars, proxyVars, wire, package_queue, reply, holder,
                 ops, races>>

CmdGetPropReplies ==
  /\ At("owner_worker", "reply")
  /\ wire' = Append(wire, Msg("reply", th["owner_worker"].val))
  /\ Goto("owner_worker", "idle", NoValue)
  /\ UNCHANGED <<ownerVars, proxyVars, to_owner, package_queue, reply, holder,
                 ops, races>>

CmdSubscribe(erase) ==
  /\ Pop(IF erase THEN "unsubscribe" ELSE "subscribe")
  /\ registered' = ~erase
  /\ UNCHANGED <<real, past, unsent, told, proxyVars, wire, package_queue, reply,
                 holder, th, ops, races>>

OwnerNext ==
  \/ Change
  \/ \E t \in {"owner_app", "owner_worker"} :
       UpdatedSerialize(t) \/ UpdatedWrite(t) \/ NotifyNobody(t)
  \/ CmdPropValue \/ CmdGetProp \/ CmdGetPropReplies
  \/ \E erase \in BOOLEAN : CmdSubscribe(erase)

-----------------------------------------------------------------------------
(* The proxy's application: property_value_fake.                           *)

Listen ==
  /\ Begins("app", "listen")
  /\ ~listening
  /\ listening' = TRUE
  /\ heard' = NoValue
  /\ to_owner' = Append(to_owner, Msg("subscribe", NoValue))
  /\ UNCHANGED <<ownerVars, cache, flag, update_in_process, stale,
                 wire, package_queue, reply, holder, th, races>>

Unlisten ==
  /\ Begins("app", "unlisten")
  /\ listening
  /\ listening' = FALSE
  /\ to_owner' = Append(to_owner, Msg("unsubscribe", NoValue))
  /\ UNCHANGED <<ownerVars, cache, flag, update_in_process, heard, stale,
                 wire, package_queue, reply, holder, th, races>>

(* set_value: the copy first, then the flag, then the request.             *)
SetValue ==
  /\ Begins("app", "set")
  /\ cache' = Fresh
  /\ Goto("app", "request_set", Fresh)
  /\ UNCHANGED <<ownerVars, flag, update_in_process, listening, heard, stale, netVars,
                 holder, races>>

RequestSet ==
  /\ At("app", "request_set")
  /\ IF flag
     THEN /\ races' = races \cup {"swallowed"}
          /\ UNCHANGED <<to_owner, stale>>
     ELSE /\ to_owner' = Append(to_owner, Msg("set", th["app"].val))
          /\ stale' = past \cup {real}
          /\ UNCHANGED races
  /\ Goto("app", "idle", NoValue)
  /\ UNCHANGED <<ownerVars, cache, flag, update_in_process, listening, heard,
                 wire, package_queue, reply, holder, ops>>

(* get_value, up to update_prop's look at update_in_process.  The thread   *)
(* that sets it keeps update_in_process_mutex until it is false again, so  *)
(* here it is always false.                                                *)
GetValue ==
  /\ Begins("app", "get")
  /\ Free("update", "app")
  /\ stale' = stale \cup past
  /\ Goto("app", "get", NoValue)
  /\ UNCHANGED <<ownerVars, cache, flag, update_in_process, listening, heard,
                 netVars, holder, races>>

(* The flag is looked at with tracked_mutex held: with the flag set        *)
(* update_prop returns and the caller has the copy as it is.               *)
UpdateProp ==
  /\ At("app", "get")
  /\ Free("tracked", "app")
  /\ IF flag
     THEN Goto("app", "read", NoValue) /\ UNCHANGED <<to_owner, holder>>
     ELSE /\ Lock({"tracked"}, "app")
          /\ to_owner' = Append(to_owner, Msg("get", NoValue))
          /\ Goto("app", "wait", NoValue)
  /\ UNCHANGED <<ownerVars, proxyVars, wire, package_queue, reply, ops, races>>

(* send returns; the reply is deserialized with both mutexes held.         *)
UpdateBegins ==
  /\ At("app", "wait")
  /\ reply # <<>>
  /\ Lock({"update"}, "app")
  /\ flag' = TRUE
  /\ update_in_process' = TRUE
  /\ Goto("app", "deserialize", NoValue)
  /\ UNCHANGED <<ownerVars, cache, listening, heard, stale, netVars, ops, races>>

(* Mutant: the reply is dropped, the caller has the copy as it is.         *)
UpdateWithoutValue ==
  /\ At("app", "deserialize")
  /\ reply' = <<>>
  /\ Goto("app", "update_ends", NoValue)
  /\ UNCHANGED <<ownerVars, proxyVars, to_owner, wire,
                 package_queue, holder, ops, races>>

(* Mutant: the reply stays for the next call.                              *)
UpdateKeepsReply ==
  /\ At("app", "deserialize")
  /\ cache' = Head(reply)
  /\ Goto("app", "update_ends", NoValue)
  /\ UNCHANGED <<ownerVars, flag, update_in_process, listening, heard, stale,
                 netVars, holder, ops, races>>

UpdateDeserialize ==
  /\ At("app", "deserialize")
  /\ cache' = Head(reply)
  /\ reply' = <<>>
  /\ Goto("app", "update_ends", NoValue)
  /\ UNCHANGED <<ownerVars, flag, update_in_process, listening, heard, stale, to_owner,
                 wire, package_queue, holder, ops, races>>

UpdateEnds ==
  /\ At("app", "update_ends")
  /\ flag' = FALSE
  /\ update_in_process' = FALSE
  /\ Unlock({"update", "tracked"})
  /\ Goto("app", "read", NoValue)
  /\ UNCHANGED <<ownerVars, cache, listening, heard, stale, netVars, ops, races>>

(* property_value::get_value returns the copy.                             *)
GetReturns ==
  /\ At("app", "read")
  /\ Goto("app", "idle", NoValue)
  /\ UNCHANGED <<ownerVars, proxyVars, netVars, holder, ops, races>>

AppNext ==
  \/ Listen \/ Unlisten \/ SetValue \/ RequestSet
  \/ GetValue \/ UpdateProp \/ UpdateBegins \/ UpdateDeserialize \/ UpdateEnds
  \/ GetReturns

-----------------------------------------------------------------------------
(* The proxy's reading thread: replies are copied for their sender,        *)
(* updates are queued for the worker.                                      *)
Receive ==
  /\ wire # <<>>
  /\ wire' = Tail(wire)
  /\ IF Head(wire).kind = "reply"
     THEN reply' = <<Head(wire).val>> /\ UNCHANGED package_queue
     ELSE package_queue' = Append(package_queue, Head(wire)) /\ UNCHANGED reply
  /\ UNCHANGED <<ownerVars, proxyVars, to_owner, holder, th, ops, races>>

(* process_prop_value: the property is found under tracked_mutex, the flag *)
(* looked at after it is released.                                         *)
FindProp ==
  /\ At("worker", "idle")
  /\ package_queue # <<>>
  /\ Free("tracked", "worker")
  /\ package_queue' = Tail(package_queue)
  /\ Goto("worker", "found", Head(package_queue).val)
  /\ UNCHANGED <<ownerVars, proxyVars, to_owner, wire, reply, holder, ops, races>>

DropUpdate ==
  /\ At("worker", "found")
  /\ flag
  /\ races' = races \cup {"dropped"}
  /\ Goto("worker", "idle", NoValue)
  /\ UNCHANGED <<ownerVars, proxyVars, netVars, holder, ops>>

AcceptUpdate ==
  /\ At("worker", "found")
  /\ ~flag
  /\ Goto("worker", "lock", th["worker"].val)
  /\ UNCHANGED <<ownerVars, proxyVars, netVars, holder, ops, races>>

ApplyBegins ==
  /\ At("worker", "lock")
  /\ Lock({"update"}, "worker")
  /\ flag' = TRUE
  /\ update_in_process' = TRUE
  /\ Goto("worker", "deserialize", th["worker"].val)
  /\ UNCHANGED <<ownerVars, cache, listening, heard, stale, netVars, ops, races>>

(* Mutant: the proxy's set_value does not look at the flag, so the value   *)
(* that has just come is sent back.                                        *)
ApplyAndSendBack ==
  /\ At("worker", "deserialize")
  /\ cache' = th["worker"].val
  /\ to_owner' = Append(to_owner, Msg("set", th["worker"].val))
  /\ Goto("worker", "notify", NoValue)
  /\ UNCHANGED <<ownerVars, flag, update_in_process, listening, heard, stale, wire,
                 package_queue, reply, holder, ops, races>>

(* deserialize calls the proxy's set_value, which finds the flag set.      *)
ApplyDeserialize ==
  /\ At("worker", "deserialize")
  /\ cache' = th["worker"].val
  /\ Goto("worker", "notify", NoValue)
  /\ UNCHANGED <<ownerVars, flag, update_in_process, listening, heard, stale, netVars,
                 holder, ops, races>>

(* Mutant: update_prop does not return when update_in_process is set.      *)
ListenerReadsLocked == Free("tracked", "worker") /\ heard' = cache

(* A listener reads the property: the proxy's get_value, whose update_prop *)
(* finds update_in_process set by its own thread and returns at once.      *)
ListenerReads ==
  /\ update_in_process \/ Free("tracked", "worker")
  /\ heard' = cache

ApplyNotify ==
  /\ At("worker", "notify")
  /\ IF listening THEN ListenerReads ELSE UNCHANGED heard
  /\ Goto("worker", "apply_ends", NoValue)
  /\ UNCHANGED <<ownerVars, cache, flag, update_in_process, listening, stale, netVars,
                 holder, ops, races>>

ApplyEnds ==
  /\ At("worker", "apply_ends")
  /\ flag' = FALSE
  /\ update_in_process' = FALSE
  /\ Unlock({"update"})
  /\ Goto("worker", "idle", NoValue)
  /\ UNCHANGED <<ownerVars, cache, listening, heard, stale, netVars, ops, races>>

WorkerNext ==
  \/ FindProp \/ DropUpdate \/ AcceptUpdate
  \/ ApplyBegins \/ ApplyDeserialize \/ ApplyNotify \/ ApplyEnds

Next == (OwnerNext \/ AppNext \/ Receive \/ WorkerNext) /\ uses' = uses

(* Every thread keeps running; an application need not begin an operation. *)
OwnerAppRuns    == UpdatedSerialize("owner_app") \/ UpdatedWrite("owner_app")
                   \/ NotifyNobody("owner_app")
OwnerWorkerRuns ==
  \/ UpdatedSerialize("owner_worker") \/ UpdatedWrite("owner_worker")
  \/ NotifyNobody("owner_worker")
  \/ CmdPropValue \/ CmdGetProp \/ CmdGetPropReplies
  \/ \E erase \in BOOLEAN : CmdSubscribe(erase)
AppRuns ==
  \/ RequestSet \/ UpdateProp \/ UpdateBegins \/ UpdateDeserialize
  \/ UpdateEnds \/ GetReturns

Spec == Init /\ [][Next]_vars
FairSpec ==
  /\ Spec
  /\ WF_vars(OwnerAppRuns /\ uses' = uses)
  /\ WF_vars(OwnerWorkerRuns /\ uses' = uses)
  /\ WF_vars(AppRuns /\ uses' = uses)
  /\ WF_vars(Receive /\ uses' = uses)
  /\ WF_vars(WorkerNext /\ uses' = uses)

-----------------------------------------------------------------------------
Package == [kind : {"set", "get", "subscribe", "unsubscribe", "update", "reply"},
            val : Value \cup {NoValue}]
PC == {"idle", "notify", "updated", "reply", "request_set", "get", "wait",
       "deserialize", "update_ends", "read", "found", "lock", "apply_ends"}
ThreadState == [pc : PC, val : Value \cup {NoValue}]

(* Types; a property never gets a value nobody has set, and the reply of a *)
(* get finds its sender waiting.                                           *)
TypeOK ==
  /\ uses \in Programs
  /\ real \in Value /\ cache \in Value
  /\ past \subseteq Value /\ stale \subseteq Value
  /\ heard \in Value \cup {NoValue}
  /\ registered \in BOOLEAN /\ flag \in BOOLEAN /\ update_in_process \in BOOLEAN
  /\ listening \in BOOLEAN /\ told \in BOOLEAN
  /\ unsent \in Seq([by : {"owner_app", "owner_worker"}, val : Value])
  /\ holder \in [Mutex -> Thread \cup {Nobody}]
  /\ to_owner \in Seq(Package) /\ wire \in Seq(Package)
  /\ package_queue \in Seq(Package)
  /\ reply \in Seq(Value)
  /\ reply # <<>> => Len(reply) = 1 /\ th["app"].pc \in {"wait", "deserialize"}
  /\ th \in [Thread -> ThreadState]
  /\ ops \in [Application -> Nat]
  /\ ops["owner_app"] <= OwnerOps /\ ops["app"] <= ProxyOps
  /\ races \subseteq Race

Quiet ==
  /\ \A t \in Thread : At(t, "idle")
  /\ to_owner = <<>> /\ wire = <<>> /\ package_queue = <<>>

(* When everything has been delivered, a proxy whose node_sync was a       *)
(* listener at the last change shows the property's value, and so does     *)
(* what its application's listener has read since it was added.  The only  *)
(* exceptions are the three windows kept in races: set_value finds the     *)
(* flag of an update in progress (property_value_fake.h:47), an update     *)
(* finds the flag of a get in progress (node_sync.cpp:360), or two threads *)
(* of the owner write their updates in the other order than they have      *)
(* serialized them (node_sync.cpp:712).                                    *)
AgreeWhenQuiet ==
  Quiet /\ told /\ races = {} => /\ cache = real
                                 /\ listening => heard \in {NoValue, real}

(* Without a subscription get_value returns no value that was replaced     *)
(* before the call, and none from before the application's own last        *)
(* set_value: the request to set precedes the request to get on the wire.  *)
GetIsFresh ==
  At("app", "read") /\ "listen" \notin uses => cache \notin stale

(* Set, update and notification of the two ends do not call each other     *)
(* forever: when the applications stop everything comes to rest.           *)
ComesToRest == []<>Quiet

(* A get_value returns, whatever updates and changes it meets: the two     *)
(* mutexes of the proxy's end are not waited for in a circle, although its *)
(* worker calls listeners with one of them held (node_sync.cpp:370).       *)
GetEnds == At("app", "get") ~> At("app", "read")
=============================================================================
