----------------------------- MODULE Observable -----------------------------
(***************************************************************************)
(* one_to_one_observable (observable.h), through which every layer tells   *)
(* the one above, and the acceptor with its object_status, which lets the  *)
(* application destroy it while the io thread handles its connections.     *)
(*                                                                         *)
(* An observable and its listener point at each other, each pointer under  *)
(* the mutex of the object it is in.  set_listener locks the observable    *)
(* first, the destructor of a listener the listener: the thread "main"     *)
(* does all of that here, while "io" notifies.  Observables other than the *)
(* acceptor are only destroyed when io has stopped.                        *)
(***************************************************************************)
EXTENDS Naturals, FiniteSets

CONSTANTS
  Stream,     \* observables io notifies with data: transports, dispatchers
  Acceptor,   \* the observable io notifies with accepted sockets
  Listener,
  MaxOps,     \* bound: set_listener and destructors, by main
  None

Subject == Stream \cup {Acceptor}
Object  == Subject \cup Listener
Mutex   == Object \cup {"status"}
Thread  == {"main", "io"}

ASSUME ObservableAssumption ==
  /\ Acceptor \notin Stream
  /\ Subject \cap Listener = {}
  /\ None \notin Mutex \cup Thread
  /\ "status" \notin Object
  /\ MaxOps \in Nat

VARIABLES
  l,       \* l[o]: the listener observable o points at
  obs,     \* obs[x]: the observable listener x points at
  holder,  \* holder[m]: the thread that has mutex m
  main,    \* where main is, with its observable and listener
  io,      \* where io is, with the observable it notifies and its listener
  gone,    \* objects whose destructors have ended
  ok,      \* object_status::ok of the acceptor
  acc,     \* the acceptor's socket: accepting, closed, or nothing pending
  ops,
  abrupt   \* history: listeners whose destructor began while registered

vars == <<l, obs, holder, main, io, gone, ok, acc, ops, abrupt>>

Rest == [pc |-> "idle", o |-> None, x |-> None]

Init ==
  /\ l = [o \in Subject |-> None]
  /\ obs = [x \in Listener |-> None]
  /\ holder = [m \in Mutex |-> None]
  /\ main = Rest /\ io = Rest
  /\ gone = {}
  /\ ok = TRUE
  /\ acc = "accepting"
  /\ ops = 0
  /\ abrupt = {}

-----------------------------------------------------------------------------
Free(m)      == holder[m] = None
Lock(m, t)   == Free(m) /\ holder' = [holder EXCEPT ![m] = t]
Unlock(ms)   == holder' = [m \in Mutex |-> IF m \in ms THEN None ELSE holder[m]]
MainAt(pc)   == main.pc = pc
MainTo(pc)   == main' = [main EXCEPT !.pc = pc]
Begin(pc, o, x) ==
  /\ main.pc = "idle"
  /\ ops < MaxOps /\ ops' = ops + 1
  /\ main' = [pc |-> pc, o |-> o, x |-> x]

(* remove_observable and remove_listener: a pointer cleared under the      *)
(* mutex of its object.                                                    *)
ForgetObservable(x) == Free(x) /\ obs' = [obs EXCEPT ![x] = None]

ForgetListener(o)   == Free(o) /\ l' = [l EXCEPT ![o] = None]

(* Mutant: set_listener without the observable's mutex.                    *)
SetListenerUnlocked(o, x) ==
  /\ Begin("set", o, x)
  /\ o \notin gone /\ x \notin gone
  /\ UNCHANGED <<l, obs, holder, io, gone, ok, acc, abrupt>>

(* set_listener(x); x may be null, and may be registered here, elsewhere   *)
(* or nowhere.                                                             *)
SetListener(o, x) ==
  /\ Begin("set", o, x)
  /\ o \notin gone /\ x \notin gone
  /\ Lock(o, "main")
  /\ UNCHANGED <<l, obs, io, gone, ok, acc, abrupt>>

(* Mutant: the listener that is replaced is not told.                      *)
ReplaceSilently ==
  /\ MainAt("set")
  /\ obs' = obs
  /\ MainTo("install")
  /\ UNCHANGED <<l, holder, io, gone, ok, acc, ops, abrupt>>

ReplaceOld ==
  /\ MainAt("set")
  /\ IF l[main.o] = None THEN obs' = obs ELSE ForgetObservable(l[main.o])
  /\ MainTo("install")
  /\ UNCHANGED <<l, holder, io, gone, ok, acc, ops, abrupt>>

InstallNothing ==
  /\ MainAt("install") /\ main.x = None
  /\ l' = [l EXCEPT ![main.o] = None]
  /\ Unlock({main.o})
  /\ main' = Rest
  /\ UNCHANGED <<obs, io, gone, ok, acc, ops, abrupt>>

InstallNew ==
  /\ MainAt("install") /\ main.x # None
  /\ l' = [l EXCEPT ![main.o] = main.x]
  /\ Lock(main.x, "main")
  /\ MainTo("leave")
  /\ UNCHANGED <<obs, io, gone, ok, acc, ops, abrupt>>

(* Mutant: set_observable does not tell the observable it had before.      *)
LeaveSilently ==
  /\ MainAt("leave")
  /\ l' = l
  /\ MainTo("point")
  /\ UNCHANGED <<obs, holder, io, gone, ok, acc, ops, abrupt>>

(* set_observable, of the new listener or in the destructor of one: the    *)
(* observable it had before forgets it.                                    *)
LeaveOld ==
  /\ MainAt("leave")
  /\ IF obs[main.x] = None THEN l' = l ELSE ForgetListener(obs[main.x])
  /\ MainTo("point")
  /\ UNCHANGED <<obs, holder, io, gone, ok, acc, ops, abrupt>>

(* Mutant: the observable stays locked.                                    *)
PointAndStayLocked ==
  /\ MainAt("point")
  /\ obs' = [obs EXCEPT ![main.x] = main.o]
  /\ Unlock({main.x})
  /\ gone' = IF main.o = None THEN gone \cup {main.x} ELSE gone
  /\ main' = Rest
  /\ UNCHANGED <<l, io, ok, acc, ops, abrupt>>

(* For a destructor main.o is None.                                        *)
PointNew ==
  /\ MainAt("point")
  /\ obs' = [obs EXCEPT ![main.x] = main.o]
  /\ Unlock({main.x, main.o})
  /\ gone' = IF main.o = None THEN gone \cup {main.x} ELSE gone
  /\ main' = Rest
  /\ UNCHANGED <<l, io, ok, acc, ops, abrupt>>

(* ~listener; what is derived from it is destroyed already.                *)
DestroyListener(x) ==
  /\ Begin("unlisten", None, x)
  /\ x \notin gone
  /\ abrupt' = IF obs[x] = None THEN abrupt ELSE abrupt \cup {x}
  /\ UNCHANGED <<l, obs, holder, io, gone, ok, acc>>

Unlisten ==
  /\ MainAt("unlisten")
  /\ Lock(main.x, "main")
  /\ MainTo("leave")
  /\ UNCHANGED <<l, obs, io, gone, ok, acc, ops, abrupt>>

-----------------------------------------------------------------------------
(* ~acceptor closes the socket, then takes the status to say it is gone;   *)
(* ~one_to_one_observable follows.                                         *)
DestroyAcceptor ==
  /\ Begin("closing", Acceptor, None)
  /\ Acceptor \notin gone
  /\ acc' = IF acc = "accepting" THEN "closed" ELSE acc
  /\ UNCHANGED <<l, obs, holder, io, gone, ok, abrupt>>

(* Mutant: ok is cleared without status->mut.                              *)
ClearOkUnlocked ==
  /\ MainAt("closing")
  /\ ok' = FALSE
  /\ MainTo("forget")
  /\ UNCHANGED <<l, obs, holder, io, gone, acc, ops, abrupt>>

ClearOk ==
  /\ MainAt("closing")
  /\ Free("status")
  /\ ok' = FALSE
  /\ MainTo("forget")
  /\ UNCHANGED <<l, obs, holder, io, gone, acc, ops, abrupt>>

ForgetAcceptor ==
  /\ MainAt("forget")
  /\ Free(Acceptor)
  /\ IF l[Acceptor] = None THEN obs' = obs ELSE ForgetObservable(l[Acceptor])
  /\ gone' = gone \cup {Acceptor}
  /\ main' = Rest
  /\ UNCHANGED <<l, holder, io, ok, acc, ops, abrupt>>

MainContinues ==
  \/ ReplaceOld \/ InstallNothing \/ InstallNew \/ LeaveOld \/ PointNew
  \/ Unlisten \/ ClearOk \/ ForgetAcceptor

-----------------------------------------------------------------------------
(* connect_handler.  It runs for an accepted socket and for every error:   *)
(* the operation a closing acceptor had pending, and the one accept() then *)
(* starts on the closed socket, fail and are handled too.                  *)
ConnectHandler ==
  /\ io.pc = "idle" /\ acc # "nothing"
  /\ Lock("status", "io")
  /\ io' = [Rest EXCEPT !.pc = "handler", !.o = Acceptor]
  /\ UNCHANGED <<l, obs, main, gone, ok, acc, ops, abrupt>>

HandlerReturns ==
  /\ io.pc = "handler" /\ ~ok
  /\ acc' = "nothing"
  /\ Unlock({"status"})
  /\ io' = Rest
  /\ UNCHANGED <<l, obs, main, gone, ok, ops, abrupt>>

Accept ==
  /\ io.pc = "handler" /\ ok
  /\ io' = [io EXCEPT !.pc = "notify"]
  /\ UNCHANGED <<l, obs, holder, main, gone, ok, acc, ops, abrupt>>

(* data_ready of a transport, or a dispatcher that passes a package on.    *)
Data(o) ==
  /\ io.pc = "idle"
  /\ io' = [Rest EXCEPT !.pc = "notify", !.o = o]
  /\ UNCHANGED <<l, obs, holder, main, gone, ok, acc, ops, abrupt>>

(* notify keeps the mutex of the observable while the listener runs.       *)
Notify ==
  /\ io.pc = "notify"
  /\ Lock(io.o, "io")
  /\ io' = [io EXCEPT !.pc = "notified", !.x = l[io.o]]
  /\ UNCHANGED <<l, obs, main, gone, ok, acc, ops, abrupt>>

NotifyEnds ==
  /\ io.pc = "notified"
  /\ Unlock({io.o} \cup (IF io.o = Acceptor THEN {"status"} ELSE {}))
  /\ io' = Rest
  /\ UNCHANGED <<l, obs, main, gone, ok, acc, ops, abrupt>>

IoContinues == HandlerReturns \/ Accept \/ Notify \/ NotifyEnds

Next ==
  \/ \E o \in Subject, x \in Listener \cup {None} : SetListener(o, x)
  \/ \E x \in Listener : DestroyListener(x)
  \/ DestroyAcceptor
  \/ MainContinues
  \/ ConnectHandler \/ (\E o \in Stream : Data(o))
  \/ IoContinues

Spec == Init /\ [][Next]_vars

(***************************************************************************)
(* io goes on with what it has begun; main gets a mutex that is free again *)
(* and again (io may come back for it as often as it likes, and does while *)
(* a closed acceptor keeps failing).                                       *)
(***************************************************************************)
FairSpec == Spec /\ WF_vars(IoContinues) /\ SF_vars(MainContinues)
                 /\ WF_vars(ConnectHandler)

-----------------------------------------------------------------------------
(* Types.                                                                  *)
TypeOK ==
  /\ l \in [Subject -> Listener \cup {None}]
  /\ obs \in [Listener -> Subject \cup {None}]
  /\ holder \in [Mutex -> Thread \cup {None}]
  /\ main \in [pc : {"idle", "set", "install", "leave", "point", "unlisten",
                     "closing", "forget"},
               o : Subject \cup {None}, x : Listener \cup {None}]
  /\ io \in [pc : {"idle", "handler", "notify", "notified"},
             o : Subject \cup {None}, x : Listener \cup {None}]
  /\ gone \subseteq Listener \cup {Acceptor}
  /\ ok \in BOOLEAN /\ acc \in {"accepting", "closed", "nothing"}
  /\ ops \in 0 .. MaxOps
  /\ abrupt \subseteq Listener
  /\ \A x \in Listener : holder[x] # "io"
  /\ main.pc = "idle" => \A m \in Mutex : holder[m] # "main"

(* An observable and a listener whose mutexes are free point at each other *)
(* or not at all, through any sequence of registrations, replacements and  *)
(* destructions: no listener is notified by two observables, and no        *)
(* pointer to a destroyed object is left (observable.h:30-95).             *)
PointersAgree ==
  /\ \A o \in Subject \ gone, x \in Listener \ gone :
       Free(o) /\ Free(x) => (l[o] = x) = (obs[x] = o)
  /\ \A o \in Subject \ gone : l[o] \notin gone
  /\ \A x \in Listener \ gone : obs[x] \notin gone

(* What io is about to use or using exists: an acceptor past the test of   *)
(* ok is not destroyed, and the listener that runs is not.                 *)
NothingUsedIsGone ==
  /\ io.pc \in {"notify", "notified"} => io.o \notin gone
  /\ io.pc = "notified" => io.x \notin gone

(* A listener runs while its destructor does only if it was still          *)
(* registered when the destructor began: main.cpp destroys the conn_server *)
(* before the acceptor, so io may call it half destroyed.                  *)
WholeWhenNotified ==
  io.pc = "notified" /\ io.x # None /\ main.x = io.x
    /\ main.pc \in {"unlisten", "leave", "point"} /\ main.o = None
  => io.x \in abrupt

(* Registration and destruction end, whatever io is notifying meanwhile:   *)
(* locks are taken in both orders, but by one thread.                      *)
MainEnds == main.pc # "idle" ~> main.pc = "idle"
=============================================================================
