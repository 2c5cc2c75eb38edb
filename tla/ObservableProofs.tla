-------------------------- MODULE ObservableProofs --------------------------
(***************************************************************************)
(* For any number of observables and listeners: the pointers between the   *)
(* two sides agree, nothing that is used has been destroyed, and only a    *)
(* listener destroyed while registered runs during its own destruction.    *)
(***************************************************************************)
EXTENDS Observable, TLAPS

(* set_listener has the mutex of its observable throughout, and that of    *)
(* the listener while set_observable runs.                                 *)
Registering == main.pc \in {"set", "install", "leave", "point"}

(* Who has which mutex.                                                    *)
Owners ==
  /\ \A o \in Subject :
       /\ holder[o] = "main" <=> (Registering /\ main.o = o)
       /\ holder[o] = "io" <=> (io.pc = "notified" /\ io.o = o)
  /\ \A x \in Listener :
       /\ holder[x] # "io"
       /\ holder[x] = "main" <=> (main.pc \in {"leave", "point"} /\ main.x = x)
  /\ holder["status"] # "main"
  /\ holder["status"] = "io" <=>
       (io.pc = "handler" \/ (io.pc \in {"notify", "notified"} /\ io.o = Acceptor))

(* What main and io are working on.                                        *)
Places ==
  /\ main.o \notin gone /\ main.x \notin gone
  /\ main.pc \in {"set", "install", "closing", "forget"} => main.o # None
  /\ main.pc \in {"leave", "point", "unlisten"} => main.x # None
  /\ main.pc = "unlisten" => main.o = None
  /\ main.pc \in {"closing", "forget"} => main.o = Acceptor
  /\ io.pc # "idle" => io.o # None
  /\ io.pc = "handler" => io.o = Acceptor

(* The acceptor is only destroyed when ok is false, and io announces       *)
(* sockets only while it is true.                                          *)
Status ==
  /\ main.pc = "forget" \/ Acceptor \in gone => ~ok
  /\ io.pc \in {"notify", "notified"} /\ io.o = Acceptor => ok

(* The two pointers of every pair agree, except where set_listener and     *)
(* set_observable have written one of them and not yet the other.          *)
HalfWritten == main.pc \in {"install", "leave", "point"}

Links ==
  /\ \A o \in Subject \ gone, x \in Listener \ gone :
       ~(HalfWritten /\ o = main.o) /\ ~(main.pc = "point" /\ x = main.x)
         => (l[o] = x <=> obs[x] = o)
  /\ HalfWritten /\ main.o # None =>
       \A x \in Listener \ gone : obs[x] # main.o
  /\ main.pc \in {"leave", "point"} /\ main.o # None => l[main.o] = main.x
  /\ main.pc = "point" =>
       \A o \in Subject \ gone : o # main.o => l[o] # main.x

(* No pointer to what is destroyed.                                        *)
NoDangling ==
  /\ \A o \in Subject \ gone : l[o] \notin gone
  /\ \A x \in Listener \ gone : obs[x] \notin gone

(* io runs the listener the observable has; a listener being destroyed     *)
(* that is still registered was so from the start.                         *)
Running ==
  /\ io.pc = "notified" => io.x = l[io.o]
  /\ main.pc \in {"unlisten", "leave"} /\ main.o = None /\ obs[main.x] # None
       => main.x \in abrupt

IInv == TypeOK /\ Owners /\ Places /\ Status /\ Links /\ NoDangling /\ Running

USE ObservableAssumption DEF Subject, Object, Mutex, Thread

(* set_listener takes the mutex of its observable; nothing is written yet. *)
LEMMA SetListenerKeeps ==
  ASSUME IInv, NEW o \in Subject, NEW x \in Listener \cup {None}, SetListener(o, x)
  PROVE  IInv'
<1>1. TypeOK'
  BY DEF IInv, TypeOK, SetListener, Begin, Lock
<1>2. Owners'
  BY DEF IInv, TypeOK, Owners, Registering, SetListener, Begin, Lock, Free
<1>3. Places'
  BY DEF IInv, Places, SetListener, Begin
<1>4. Status'
  BY DEF IInv, Status, SetListener, Begin
<1>5. Links'
  BY DEF IInv, Links, HalfWritten, SetListener, Begin
<1>6. NoDangling'
  BY DEF IInv, NoDangling, SetListener
<1>7. Running'
  BY DEF IInv, Running, SetListener, Begin
<1> QED BY <1>1, <1>2, <1>3, <1>4, <1>5, <1>6, <1>7 DEF IInv

(* remove_observable: the listener that is replaced points nowhere from    *)
(* now on; from here to the end of set_listener one of two pointers is     *)
(* missing.                                                                *)
LEMMA ReplaceOldKeeps ==
  ASSUME IInv, ReplaceOld
  PROVE  IInv'
<1>1. TypeOK'
  BY DEF IInv, TypeOK, ReplaceOld, MainTo, ForgetObservable
<1>2. Owners'
  BY DEF IInv, Owners, Registering, ReplaceOld, MainAt, MainTo
<1>3. Places'
  BY DEF IInv, Places, ReplaceOld, MainAt, MainTo
<1>4. Status'
  BY DEF IInv, Status, ReplaceOld, MainTo
<1>5. Links'
  BY DEF IInv, TypeOK, Places, Links, HalfWritten, ReplaceOld, MainAt, MainTo,
     ForgetObservable
<1>6. NoDangling'
  BY DEF IInv, TypeOK, NoDangling, ReplaceOld, ForgetObservable
<1>7. Running'
  BY DEF IInv, Running, ReplaceOld, MainTo
<1> QED BY <1>1, <1>2, <1>3, <1>4, <1>5, <1>6, <1>7 DEF IInv

(* set_listener(NULL) clears the pointer and leaves.                       *)
LEMMA InstallNothingKeeps ==
  ASSUME IInv, InstallNothing
  PROVE  IInv'
<1>1. TypeOK'
  BY DEF IInv, TypeOK, Owners, Places, InstallNothing, MainAt, Unlock, Rest
<1>2. Owners'
  BY DEF IInv, TypeOK, Owners, Registering, InstallNothing, MainAt, Unlock,
     Rest
<1>3. Places'
  BY DEF IInv, Places, InstallNothing, Rest
<1>4. Status'
  BY DEF IInv, Status, InstallNothing, Rest
<1>5. Links'
  BY DEF IInv, TypeOK, Links, HalfWritten, InstallNothing, MainAt, Rest
<1>6. NoDangling'
  BY DEF IInv, Places, NoDangling, InstallNothing
<1>7. Running'
  BY DEF IInv, TypeOK, Owners, Registering, Running, InstallNothing, MainAt,
     Rest
<1> QED BY <1>1, <1>2, <1>3, <1>4, <1>5, <1>6, <1>7 DEF IInv

(* set_listener points at the new listener, whose mutex is then taken.     *)
LEMMA InstallNewKeeps ==
  ASSUME IInv, InstallNew
  PROVE  IInv'
<1>1. TypeOK'
  BY DEF IInv, TypeOK, Places, InstallNew, MainAt, MainTo, Lock
<1>2. Owners'
  BY DEF IInv, TypeOK, Owners, Registering, InstallNew, MainAt, MainTo, Lock
<1>3. Places'
  BY DEF IInv, Places, InstallNew, MainTo
<1>4. Status'
  BY DEF IInv, Status, InstallNew, MainTo
<1>5. Links'
  BY DEF IInv, TypeOK, Links, HalfWritten, InstallNew, MainAt, MainTo
<1>6. NoDangling'
  BY DEF IInv, Places, NoDangling, InstallNew
<1>7. Running'
  BY DEF IInv, TypeOK, Owners, Registering, Places, Running, InstallNew,
     MainAt, MainTo
<1> QED BY <1>1, <1>2, <1>3, <1>4, <1>5, <1>6, <1>7 DEF IInv

(* remove_listener: the observable the listener had before forgets it,     *)
(* under a mutex that io does not have then, so that io is not running it. *)
LEMMA LeaveOldKeeps ==
  ASSUME IInv, LeaveOld
  PROVE  IInv'
<1>1. TypeOK'
  BY DEF IInv, TypeOK, LeaveOld, MainTo, ForgetListener
<1>2. Owners'
  BY DEF IInv, Owners, Registering, LeaveOld, MainAt, MainTo
<1>3. Places'
  BY DEF IInv, Places, LeaveOld, MainAt, MainTo
<1>4. Status'
  BY DEF IInv, Status, LeaveOld, MainTo
<1>5. Links'
  BY DEF IInv, TypeOK, Places, Links, HalfWritten, LeaveOld, MainAt, MainTo,
     ForgetListener
<1>6. NoDangling'
  BY DEF IInv, TypeOK, NoDangling, LeaveOld, ForgetListener
<1>7. Running'
  BY DEF IInv, TypeOK, Owners, Places, Running, LeaveOld, MainTo,
     ForgetListener, Free
<1> QED BY <1>1, <1>2, <1>3, <1>4, <1>5, <1>6, <1>7 DEF IInv

(* set_observable writes the second pointer and both mutexes are released; *)
(* at the end of a destructor nothing points at the listener any more.     *)
LEMMA PointNewKeeps ==
  ASSUME IInv, PointNew
  PROVE  IInv'
<1>1. TypeOK'
  BY DEF IInv, TypeOK, Owners, Places, PointNew, MainAt, Unlock, Rest
<1>2. Owners'
  BY DEF IInv, TypeOK, Owners, Registering, PointNew, MainAt, Unlock, Rest
<1>3. Places'
  BY DEF IInv, TypeOK, Places, PointNew, MainAt, Rest
<1>4. Status'
  BY DEF IInv, TypeOK, Status, PointNew, Rest
<1>5. Links'
  BY DEF IInv, TypeOK, Links, PointNew, MainAt, Rest
<1>6. NoDangling'
  BY DEF IInv, TypeOK, Places, Links, NoDangling, PointNew, MainAt
<1>7. Running'
  BY DEF IInv, Running, PointNew, Rest
<1> QED BY <1>1, <1>2, <1>3, <1>4, <1>5, <1>6, <1>7 DEF IInv

(* ~listener begins; if it is still registered that is recorded.           *)
LEMMA DestroyListenerKeeps ==
  ASSUME IInv, NEW x \in Listener, DestroyListener(x)
  PROVE  IInv'
<1>1. TypeOK'
  BY DEF IInv, TypeOK, DestroyListener, Begin
<1>2. Owners'
  BY DEF IInv, Owners, Registering, DestroyListener, Begin
<1>3. Places'
  BY DEF IInv, TypeOK, Places, DestroyListener, Begin
<1>4. Status'
  BY DEF IInv, Status, DestroyListener, Begin
<1>5. Links'
  BY DEF IInv, Links, HalfWritten, DestroyListener, Begin
<1>6. NoDangling'
  BY DEF IInv, NoDangling, DestroyListener
<1>7. Running'
  BY DEF IInv, Running, DestroyListener, Begin
<1> QED BY <1>1, <1>2, <1>3, <1>4, <1>5, <1>6, <1>7 DEF IInv

(* ~listener takes its own mutex.                                          *)
LEMMA UnlistenKeeps ==
  ASSUME IInv, Unlisten
  PROVE  IInv'
<1>1. TypeOK'
  BY DEF IInv, TypeOK, Places, Unlisten, MainAt, MainTo, Lock
<1>2. Owners'
  BY DEF IInv, TypeOK, Owners, Places, Unlisten, MainAt, MainTo, Lock
<1>3. Places'
  BY DEF IInv, Places, Unlisten, MainAt, MainTo
<1>4. Status'
  BY DEF IInv, Status, Unlisten, MainTo
<1>5. Links'
  BY DEF IInv, Places, Links, Unlisten, MainAt, MainTo
<1>6. NoDangling'
  BY DEF IInv, NoDangling, Unlisten
<1>7. Running'
  BY DEF IInv, Running, Unlisten, MainAt, MainTo
<1> QED BY <1>1, <1>2, <1>3, <1>4, <1>5, <1>6, <1>7 DEF IInv

(* ~acceptor closes the socket, which changes no pointer.                  *)
LEMMA DestroyAcceptorKeeps ==
  ASSUME IInv, DestroyAcceptor
  PROVE  IInv'
<1>1. TypeOK'
  BY DEF IInv, TypeOK, DestroyAcceptor, Begin
<1>2. Owners'
  BY DEF IInv, Owners, Registering, DestroyAcceptor, Begin
<1>3. Places'
  BY DEF IInv, TypeOK, Places, DestroyAcceptor, Begin
<1>4. Status'
  BY DEF IInv, Status, DestroyAcceptor, Begin
<1>5. Links'
  BY DEF IInv, Links, HalfWritten, DestroyAcceptor, Begin
<1>6. NoDangling'
  BY DEF IInv, NoDangling, DestroyAcceptor
<1>7. Running'
  BY DEF IInv, Running, DestroyAcceptor, Begin
<1> QED BY <1>1, <1>2, <1>3, <1>4, <1>5, <1>6, <1>7 DEF IInv

(* ~acceptor clears ok under the status mutex, which connect_handler has   *)
(* while it announces a socket: none is being announced.                   *)
LEMMA ClearOkKeeps ==
  ASSUME IInv, ClearOk
  PROVE  IInv'
<1>1. TypeOK'
  BY DEF IInv, TypeOK, Owners, Registering, Places, Status, Links,
     HalfWritten, NoDangling, Running, ClearOk, MainAt, MainTo, Free
<1>2. Owners'
  BY DEF IInv, Owners, Registering, ClearOk, MainAt, MainTo
<1>3. Places'
  BY DEF IInv, Places, ClearOk, MainAt, MainTo
<1>4. Status'
  BY DEF IInv, Owners, Status, ClearOk, Free
<1>5. Links'
  BY DEF IInv, Links, HalfWritten, ClearOk, MainAt, MainTo
<1>6. NoDangling'
  BY DEF IInv, NoDangling, ClearOk
<1>7. Running'
  BY DEF IInv, Running, ClearOk, MainTo
<1> QED BY <1>1, <1>2, <1>3, <1>4, <1>5, <1>6, <1>7 DEF IInv

(* ~one_to_one_observable of the acceptor: its listener forgets it, so     *)
(* that no pointer to the destroyed acceptor is left.                      *)
LEMMA ForgetAcceptorKeeps ==
  ASSUME IInv, ForgetAcceptor
  PROVE  IInv'
<1>1. TypeOK'
  BY DEF IInv, TypeOK, Owners, Places, ForgetAcceptor, MainAt, Rest,
     ForgetObservable, Free
<1>2. Owners'
  BY DEF IInv, Owners, Places, ForgetAcceptor, MainAt, Rest, Free
<1>3. Places'
  BY DEF IInv, TypeOK, Places, ForgetAcceptor, Rest
<1>4. Status'
  BY DEF IInv, Status, ForgetAcceptor, MainAt
<1>5. Links'
  BY DEF IInv, TypeOK, Places, Links, HalfWritten, ForgetAcceptor, MainAt,
     Rest, ForgetObservable
<1>6. NoDangling'
  BY DEF IInv, TypeOK, Links, NoDangling, ForgetAcceptor, MainAt,
     ForgetObservable
<1>7. Running'
  BY DEF IInv, Running, ForgetAcceptor, Rest
<1> QED BY <1>1, <1>2, <1>3, <1>4, <1>5, <1>6, <1>7 DEF IInv

(* connect_handler takes the status mutex.                                 *)
LEMMA ConnectHandlerKeeps ==
  ASSUME IInv, ConnectHandler
  PROVE  IInv'
<1>1. TypeOK'
  BY DEF IInv, TypeOK, ConnectHandler, Rest, Lock, Free
<1>2. Owners'
  BY DEF IInv, TypeOK, Owners, Registering, ConnectHandler, Lock
<1>3. Places'
  BY DEF IInv, Places, ConnectHandler
<1>4. Status'
  BY DEF IInv, Status, ConnectHandler
<1>5. Links'
  BY DEF IInv, Links, HalfWritten, ConnectHandler
<1>6. NoDangling'
  BY DEF IInv, NoDangling, ConnectHandler
<1>7. Running'
  BY DEF IInv, Running, ConnectHandler
<1> QED BY <1>1, <1>2, <1>3, <1>4, <1>5, <1>6, <1>7 DEF IInv

(* connect_handler finds ok false.                                         *)
LEMMA HandlerReturnsKeeps ==
  ASSUME IInv, HandlerReturns
  PROVE  IInv'
<1>1. TypeOK'
  BY DEF IInv, TypeOK, HandlerReturns, Rest, Unlock
<1>2. Owners'
  BY DEF IInv, Owners, Registering, HandlerReturns, Rest, Unlock
<1>3. Places'
  BY DEF IInv, Places, HandlerReturns, Rest
<1>4. Status'
  BY DEF IInv, Status, HandlerReturns, Rest
<1>5. Links'
  BY DEF IInv, Links, HalfWritten, HandlerReturns
<1>6. NoDangling'
  BY DEF IInv, NoDangling, HandlerReturns
<1>7. Running'
  BY DEF IInv, Running, HandlerReturns, Rest
<1> QED BY <1>1, <1>2, <1>3, <1>4, <1>5, <1>6, <1>7 DEF IInv

(* connect_handler finds ok true and keeps the status mutex while the      *)
(* socket is announced.                                                    *)
LEMMA AcceptKeeps ==
  ASSUME IInv, Accept
  PROVE  IInv'
<1>1. TypeOK'
  BY DEF IInv, TypeOK, Accept
<1>2. Owners'
  BY DEF IInv, Owners, Registering, Places, Accept
<1>3. Places'
  BY DEF IInv, Places, Accept
<1>4. Status'
  BY DEF IInv, Status, Accept
<1>5. Links'
  BY DEF IInv, Links, HalfWritten, Accept
<1>6. NoDangling'
  BY DEF IInv, NoDangling, Accept
<1>7. Running'
  BY DEF IInv, Running, Accept
<1> QED BY <1>1, <1>2, <1>3, <1>4, <1>5, <1>6, <1>7 DEF IInv

(* data_ready of a transport, which is not destroyed while io runs.        *)
LEMMA DataKeeps ==
  ASSUME IInv, NEW o \in Stream, Data(o)
  PROVE  IInv'
<1>1. TypeOK'
  BY DEF IInv, TypeOK, Owners, Registering, Places, Status, Links,
     HalfWritten, NoDangling, Running, Data, Rest
<1>2. Owners'
  BY DEF IInv, Owners, Registering, Data
<1>3. Places'
  BY DEF IInv, Places, Data
<1>4. Status'
  BY DEF IInv, Status, Data
<1>5. Links'
  BY DEF IInv, Links, HalfWritten, Data
<1>6. NoDangling'
  BY DEF IInv, NoDangling, Data
<1>7. Running'
  BY DEF IInv, Running, Data
<1> QED BY <1>1, <1>2, <1>3, <1>4, <1>5, <1>6, <1>7 DEF IInv

(* notify takes the mutex of the observable and calls its listener.        *)
LEMMA NotifyKeeps ==
  ASSUME IInv, Notify
  PROVE  IInv'
<1>1. TypeOK'
  BY DEF IInv, TypeOK, Places, Notify, Lock, Free
<1>2. Owners'
  BY DEF IInv, TypeOK, Owners, Registering, Notify, Lock, Free
<1>3. Places'
  BY DEF IInv, Places, Notify
<1>4. Status'
  BY DEF IInv, Status, Notify
<1>5. Links'
  BY DEF IInv, Links, HalfWritten, Notify
<1>6. NoDangling'
  BY DEF IInv, NoDangling, Notify
<1>7. Running'
  BY DEF IInv, Running, Notify
<1> QED BY <1>1, <1>2, <1>3, <1>4, <1>5, <1>6, <1>7 DEF IInv

(* The listener returns; its observable, and the status if it was the      *)
(* acceptor, are unlocked.                                                 *)
LEMMA NotifyEndsKeeps ==
  ASSUME IInv, NotifyEnds
  PROVE  IInv'
<1>1. TypeOK'
  BY DEF IInv, TypeOK, NotifyEnds, Rest, Unlock
<1>2. Owners'
  BY DEF IInv, TypeOK, Owners, Registering, NotifyEnds, Rest, Unlock
<1>3. Places'
  BY DEF IInv, Places, NotifyEnds, Rest
<1>4. Status'
  BY DEF IInv, Status, NotifyEnds, Rest
<1>5. Links'
  BY DEF IInv, Links, HalfWritten, NotifyEnds
<1>6. NoDangling'
  BY DEF IInv, NoDangling, NotifyEnds
<1>7. Running'
  BY DEF IInv, Running, NotifyEnds, Rest
<1> QED BY <1>1, <1>2, <1>3, <1>4, <1>5, <1>6, <1>7 DEF IInv

-----------------------------------------------------------------------------
(* Nobody is registered and nothing is locked at first.                    *)
LEMMA InitKeeps == Init => IInv
<1> SUFFICES ASSUME Init PROVE IInv
  OBVIOUS
<1>1. TypeOK
  BY DEF Init, TypeOK, Rest
<1>2. Owners /\ Places /\ Status
  BY DEF Init, Rest, Owners, Registering, Places, Status
<1>3. Links /\ NoDangling /\ Running
  BY DEF Init, Rest, Links, HalfWritten, NoDangling, Running
<1> QED BY <1>1, <1>2, <1>3 DEF IInv

(* Every step of main and of io keeps the invariant.                       *)
LEMMA StepKeeps == IInv /\ [Next]_vars => IInv'
<1> SUFFICES ASSUME IInv, [Next]_vars PROVE IInv'
  OBVIOUS
<1>1. CASE \E o \in Subject, x \in Listener \cup {None} : SetListener(o, x)
  BY <1>1, SetListenerKeeps
<1>2. CASE \E x \in Listener : DestroyListener(x)
  BY <1>2, DestroyListenerKeeps
<1>3. CASE DestroyAcceptor
  BY <1>3, DestroyAcceptorKeeps
<1>4. CASE MainContinues
  BY <1>4, ReplaceOldKeeps, InstallNothingKeeps, InstallNewKeeps, LeaveOldKeeps,
     PointNewKeeps, UnlistenKeeps, ClearOkKeeps, ForgetAcceptorKeeps
     DEF MainContinues
<1>5. CASE ConnectHandler \/ \E o \in Stream : Data(o)
  BY <1>5, ConnectHandlerKeeps, DataKeeps
<1>6. CASE IoContinues
  BY <1>6, HandlerReturnsKeeps, AcceptKeeps, NotifyKeeps, NotifyEndsKeeps
     DEF IoContinues
<1>7. CASE UNCHANGED vars
  BY <1>7 DEF vars, IInv, TypeOK, Owners, Registering, Places, Status, Links,
     HalfWritten, NoDangling, Running
<1> QED BY <1>1, <1>2, <1>3, <1>4, <1>5, <1>6, <1>7 DEF Next

(* The invariant the theorems below are drawn from.                        *)
THEOREM Invariance == Spec => []IInv
<1>1. Init => IInv
  BY InitKeeps
<1>2. IInv /\ [Next]_vars => IInv'
  BY StepKeeps
<1> QED BY <1>1, <1>2, PTL DEF Spec

(* Pointers, mutexes and program counters have their types; the io thread  *)
(* never locks a listener, and main keeps no mutex between its operations. *)
THEOREM TypeCorrect == Spec => []TypeOK
<1>1. IInv => TypeOK
  BY DEF IInv
<1> QED BY <1>1, Invariance, PTL

(* observable.h:30-95, for any number of observables, listeners and calls: *)
(* an observable and a listener that are not locked point at each other or *)
(* not at all, and no pointer to a destroyed object is left.               *)
THEOREM PointersAlwaysAgree == Spec => []PointersAgree
<1>1. IInv => PointersAgree
  <2> SUFFICES ASSUME IInv PROVE PointersAgree
    OBVIOUS
  <2>1. ASSUME NEW o \in Subject \ gone, NEW x \in Listener \ gone, Free(o), Free(x)
        PROVE  l[o] = x <=> obs[x] = o
    <3>1. ~(HalfWritten /\ o = main.o)
      BY <2>1 DEF IInv, Owners, Registering, HalfWritten, Free
    <3>2. ~(main.pc = "point" /\ x = main.x)
      BY <2>1 DEF IInv, Owners, Free
    <3> QED BY <2>1, <3>1, <3>2 DEF IInv, Links
  <2> QED BY <2>1 DEF IInv, NoDangling, PointersAgree
<1> QED BY <1>1, Invariance, PTL

(* What io notifies has not been destroyed, and the listener it calls has  *)
(* not either: ok is tested and the listener looked up under the mutexes   *)
(* their destructors need.                                                 *)
THEOREM UsedExists == Spec => []NothingUsedIsGone
<1>1. IInv => NothingUsedIsGone
  <2> SUFFICES ASSUME IInv PROVE NothingUsedIsGone
    OBVIOUS
  <2>1. io.pc \in {"notify", "notified"} => io.o \in Subject \ gone
    BY DEF IInv, TypeOK, Places, Status
  <2>2. io.pc = "notified" => io.x \notin gone
    BY <2>1 DEF IInv, NoDangling, Running
  <2> QED BY <2>1, <2>2 DEF NothingUsedIsGone
<1> QED BY <1>1, Invariance, PTL

(* A listener that runs while it is being destroyed was registered when    *)
(* its destructor began: set_listener(NULL) first is enough to be safe.    *)
THEOREM NotifiedWhole == Spec => []WholeWhenNotified
<1>1. IInv => WholeWhenNotified
  <2> SUFFICES ASSUME IInv, io.pc = "notified", io.x # None, main.x = io.x,
                      main.pc \in {"unlisten", "leave", "point"}, main.o = None
               PROVE  io.x \in abrupt
    BY DEF WholeWhenNotified
  <2>1. io.o \in Subject \ gone /\ io.x \in Listener \ gone /\ l[io.o] = io.x
    BY DEF IInv, TypeOK, Places, Status, Running
  <2>2. main.pc # "point"
    BY <2>1 DEF IInv, Links
  <2>3. obs[io.x] = io.o
    BY <2>1, <2>2 DEF IInv, Links
  <2> QED BY <2>1, <2>2, <2>3 DEF IInv, Running
<1> QED BY <1>1, Invariance, PTL
=============================================================================
