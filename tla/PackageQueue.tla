---------------------------- MODULE PackageQueue ----------------------------
(***************************************************************************)
(* The worker thread of node_sync: what the reading thread pushes to       *)
(* package_queue (locking_queue.h) it pops and processes, until the        *)
(* destructor stops it.                                                    *)
(*                                                                         *)
(* package_processing_thread_run is a plain bool the destructor writes     *)
(* while the worker reads it.  A read gives either value as long as        *)
(* nothing orders it after the write; what does is the mutex of the queue, *)
(* once the worker has locked it after the destructor's push.              *)
(***************************************************************************)
EXTENDS Integers, Sequences, SequencesExt

CONSTANTS
  MaxPackages,  \* bound: packages the reading thread pushes
  nullptr       \* what the destructor pushes

ASSUME QueueAssumption == MaxPackages \in Nat /\ nullptr \notin Nat

VARIABLES
  elements,   \* of the queue; a package is its number
  worker,     \* where package_processing_routine is
  p,          \* its local variable
  popped_late,\* it has locked the queue after the destructor's push
  dtor,       \* where the destructor is
  pushed,     \* packages pushed so far
  processed   \* history: what process_package was called with, in order

vars == <<elements, worker, p, popped_late, dtor, pushed, processed>>

Init ==
  /\ elements = <<>>
  /\ worker = "loop" /\ p = nullptr
  /\ popped_late = FALSE
  /\ dtor = "alive"
  /\ pushed = 0
  /\ processed = <<>>

(* What a read of package_processing_thread_run may give.                  *)
Run == IF dtor = "alive" THEN {TRUE}
       ELSE IF popped_late THEN {FALSE} ELSE BOOLEAN

-----------------------------------------------------------------------------
(* Mutants: push at the wrong end, and push without notify_one.            *)
PushFront(x) ==
  /\ elements' = <<x>> \o elements
  /\ worker' = IF worker = "asleep" THEN "pop" ELSE worker

PushSilently(x) == elements' = Append(elements, x) /\ worker' = worker

(* push, and the notify_one inside its critical section.                   *)
Push(x) ==
  /\ elements' = Append(elements, x)
  /\ worker' = IF worker = "asleep" THEN "pop" ELSE worker

(***************************************************************************)
(* process_notification, for everything but a request for a nid.  It may   *)
(* be called while the destructor runs: the listener is taken from the     *)
(* stream after the destructor's body.                                     *)
(***************************************************************************)
ProcessNotification ==
  /\ pushed < MaxPackages
  /\ dtor # "joined"
  /\ pushed' = pushed + 1
  /\ Push(pushed + 1)
  /\ UNCHANGED <<p, popped_late, dtor, processed>>

(* The destructor writes the flag, ...                                     *)
StopFlag ==
  /\ dtor = "alive"
  /\ dtor' = "flagged"
  /\ UNCHANGED <<elements, worker, p, popped_late, pushed, processed>>

(* Mutant: the destructor relies on the flag alone.                        *)
StopWithoutPush ==
  /\ dtor = "flagged"
  /\ dtor' = "pushed"
  /\ UNCHANGED <<elements, worker, p, popped_late, pushed, processed>>

(* ... pushes an empty package to wake the worker, ...                     *)
StopPush ==
  /\ dtor = "flagged"
  /\ dtor' = "pushed"
  /\ Push(nullptr)
  /\ UNCHANGED <<p, popped_late, pushed, processed>>

(* ... and joins it.                                                       *)
Join ==
  /\ dtor = "pushed"
  /\ worker = "ended"
  /\ dtor' = "joined"
  /\ UNCHANGED <<elements, worker, p, popped_late, pushed, processed>>

-----------------------------------------------------------------------------
(* The condition of the loop.                                              *)
Loop ==
  /\ worker = "loop"
  /\ \E run \in Run : worker' = IF run THEN "pop" ELSE "ended"
  /\ UNCHANGED <<elements, p, popped_late, dtor, pushed, processed>>

(* pop, with the mutex of the queue: wait while it is empty, ...           *)
Wait ==
  /\ worker = "pop"
  /\ elements = <<>>
  /\ worker' = "asleep"
  /\ popped_late' = (dtor = "pushed")
  /\ UNCHANGED <<elements, p, dtor, pushed, processed>>

SpuriousWakeup ==
  /\ worker = "asleep"
  /\ worker' = "pop"
  /\ UNCHANGED <<elements, p, popped_late, dtor, pushed, processed>>

(* ... otherwise take the first element.                                   *)
Pop ==
  /\ worker = "pop"
  /\ elements # <<>>
  /\ p' = Head(elements)
  /\ elements' = Tail(elements)
  /\ popped_late' = (dtor = "pushed")
  /\ worker' = "popped"
  /\ UNCHANGED <<dtor, pushed, processed>>

(* Mutants: no test behind pop, and none of the flag.                      *)
LeavesNever(run)  == FALSE
LeavesAtNull(run) == p = nullptr

(* The second test of the flag, and of the element.                        *)
Leaves(run) == ~run \/ p = nullptr

Check ==
  /\ worker = "popped"
  /\ \E run \in Run : worker' = IF Leaves(run) THEN "ended" ELSE "process"
  /\ UNCHANGED <<elements, p, popped_late, dtor, pushed, processed>>

(* process_package; NodeSync says what it does.                            *)
Process ==
  /\ worker = "process"
  /\ processed' = Append(processed, p)
  /\ worker' = "loop"
  /\ UNCHANGED <<elements, p, popped_late, dtor, pushed>>

WorkerStep == Loop \/ Wait \/ Pop \/ Check \/ Process

Next ==
  \/ ProcessNotification
  \/ StopFlag
  \/ StopPush
  \/ Join
  \/ WorkerStep
  \/ SpuriousWakeup

Spec == Init /\ [][Next]_vars

(* The worker runs when it can, and a destructor once begun goes on.       *)
Fairness == WF_vars(WorkerStep) /\ WF_vars(StopPush \/ Join)

FairSpec == Spec /\ Fairness
-----------------------------------------------------------------------------
(* What the variables hold (locking_queue.h:10-13, node_sync.h:26-28).     *)
TypeOK ==
  /\ elements \in Seq(1..MaxPackages \cup {nullptr})
  /\ worker \in {"loop", "pop", "asleep", "popped", "process", "ended"}
  /\ p \in 1..MaxPackages \cup {nullptr}
  /\ popped_late \in BOOLEAN
  /\ dtor \in {"alive", "flagged", "pushed", "joined"}
  /\ pushed \in 0..MaxPackages
  /\ processed \in Seq(1..MaxPackages)

(***************************************************************************)
(* Packages are processed in the order they came in, none twice and none   *)
(* left out, and what has not been processed is in the worker's hands or   *)
(* in the queue: commands of the peer build on each other (a child is      *)
(* announced after its parent).                                            *)
(***************************************************************************)
Taken == /\ p # nullptr
         /\ \/ worker \in {"popped", "process"}
            \/ worker = "ended" /\ p > Len(processed)
Begun == Len(processed) + (IF Taken THEN 1 ELSE 0)

(* The number of packages among the first i of q, which has at most one    *)
(* element that is none.                                                   *)
First(q, i) == IF \E j \in 1..i : q[j] = nullptr THEN i - 1 ELSE i

InOrder ==
  /\ \A i \in 1..Len(processed) : processed[i] = i
  /\ Taken => p = Len(processed) + 1
  /\ \A i \in 1..Len(elements) :
       elements[i] # nullptr => elements[i] = Begun + First(elements, i)
  /\ Begun + First(elements, Len(elements)) = pushed

(***************************************************************************)
(* The destructor "pushes an empty package to wake the thread"             *)
(* (node_sync.cpp:21): it returns from join, however the race on the flag  *)
(* turns out and whatever the reading thread pushes meanwhile.             *)
(***************************************************************************)
JoinEnds == dtor = "flagged" ~> dtor = "joined"

(* What is pushed is processed unless the node_sync is destroyed.          *)
PackagesAreServed ==
  \A i \in 1..MaxPackages :
    pushed >= i ~> (i \in ToSet(processed) \/ dtor # "alive")

(***************************************************************************)
(* After the destructor's push the worker begins no package but the one it *)
(* had popped before: the queue is not drained on destruction.             *)
(***************************************************************************)
StopsAtOnce ==
  [][(dtor = "pushed" /\ worker = "popped" /\ worker' = "process") => ~popped_late]_vars
=============================================================================
