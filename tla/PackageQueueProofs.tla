------------------------- MODULE PackageQueueProofs -------------------------
(***************************************************************************)
(* For any number of packages, and whatever a racing read of the flag      *)
(* package_processing_thread_run gives: what the reading thread pushes is  *)
(* processed in that order, and nothing is begun once the worker has seen  *)
(* the destructor's push.                                                  *)
(***************************************************************************)
EXTENDS PackageQueue, SequenceTheorems, TLAPS

(* The destructor pushes its empty package once, after the flag; what the  *)
(* worker processes is a package, and what it has processed is behind it.  *)
OneStop ==
  /\ \A i, j \in 1..Len(elements) :
       elements[i] = nullptr /\ elements[j] = nullptr => i = j
  /\ dtor \in {"alive", "flagged"} =>
       \A i \in 1..Len(elements) : elements[i] # nullptr
  /\ worker = "process" => p # nullptr
  /\ worker \in {"loop", "pop", "asleep"} /\ p # nullptr => p <= Len(processed)

IInv == TypeOK /\ InOrder /\ OneStop

USE QueueAssumption

(* What the queue holds: packages, and the destructor's null package.      *)
Element == 1..MaxPackages \cup {nullptr}

(* push: the packages before the new one keep their places.                *)
LEMMA PushAppends ==
  ASSUME TypeOK, NEW x \in Element, Push(x), UNCHANGED <<p, processed>>
  PROVE  /\ elements' \in Seq(Element) /\ Len(elements') = Len(elements) + 1
         /\ \A i \in 1..Len(elements) : elements'[i] = elements[i]
         /\ \A i \in 1..Len(elements) : First(elements', i) = First(elements, i)
         /\ First(elements, Len(elements)) \in Int
         /\ elements'[Len(elements) + 1] = x
         /\ x # nullptr => First(elements', Len(elements) + 1) = First(elements, Len(elements)) + 1
         /\ x = nullptr => First(elements', Len(elements) + 1) = Len(elements)
         /\ (Taken' <=> Taken) /\ Begun' = Begun
<1>1. elements \in Seq(Element) /\ elements' = Append(elements, x)
  BY DEF TypeOK, Push, Element
<1>2. Len(elements) \in Nat
  BY <1>1, LenProperties
<1>3. /\ elements' \in Seq(Element) /\ Len(elements') = Len(elements) + 1
      /\ \A i \in 1..Len(elements) : elements'[i] = elements[i]
      /\ elements'[Len(elements) + 1] = x
  BY <1>1, AppendProperties
<1>4. \A i \in 1..Len(elements) : First(elements', i) = First(elements, i)
  BY <1>2, <1>3 DEF First
<1>5. First(elements, Len(elements)) \in Int
  BY <1>2 DEF First
<1>6. /\ x # nullptr => First(elements', Len(elements) + 1) = First(elements, Len(elements)) + 1
      /\ x = nullptr => First(elements', Len(elements) + 1) = Len(elements)
  BY <1>2, <1>3 DEF First
<1>7. (Taken' <=> Taken) /\ Begun' = Begun
  BY DEF Taken, Begun, Push
<1> QED BY <1>3, <1>4, <1>5, <1>6, <1>7

(* process_notification gives the package the next number.                 *)
LEMMA ProcessNotificationKeeps ==
  ASSUME IInv, ProcessNotification
  PROVE  IInv'
<1> DEFINE n == Len(elements)
<1> DEFINE x == pushed + 1
<1>1. /\ TypeOK /\ x \in Element /\ x # nullptr /\ Push(x) /\ pushed' = x
      /\ UNCHANGED <<p, popped_late, dtor, processed>>
      /\ Begun \in Nat /\ n \in Nat /\ elements \in Seq(Element)
  <2>1. TypeOK /\ pushed < MaxPackages /\ Push(x) /\ pushed' = x
        /\ UNCHANGED <<p, popped_late, dtor, processed>>
    BY DEF IInv, ProcessNotification
  <2>2. x \in Element /\ x # nullptr
    BY <2>1 DEF TypeOK, Element
  <2>3. n \in Nat /\ Len(processed) \in Nat /\ elements \in Seq(Element)
    BY <2>1, LenProperties DEF TypeOK, Element
  <2> QED BY <2>1, <2>2, <2>3 DEF Begun
<1>2. /\ elements' \in Seq(Element) /\ Len(elements') = n + 1
      /\ \A i \in 1..n : elements'[i] = elements[i] /\ First(elements', i) = First(elements, i)
      /\ elements'[n + 1] = x
      /\ First(elements, n) \in Int /\ First(elements', n + 1) = First(elements, n) + 1
      /\ (Taken' <=> Taken) /\ Begun' = Begun
  BY <1>1, PushAppends
<1>3. Begun + First(elements, n) = pushed
  BY DEF IInv, InOrder
<1>4. TypeOK'
  BY <1>1, <1>2 DEF TypeOK, Push, Element
<1> HIDE DEF n
<1>5. InOrder'
  <2>1. \A i \in 1..(n + 1) :
          elements'[i] # nullptr => elements'[i] = Begun' + First(elements', i)
    <3> SUFFICES ASSUME NEW i \in 1..(n + 1), elements'[i] # nullptr
                 PROVE  elements'[i] = Begun + First(elements', i)
      BY <1>2
    <3>1. CASE i \in 1..n
      BY <1>2, <3>1 DEF IInv, InOrder, n
    <3>2. CASE i = n + 1
      BY <1>1, <1>2, <1>3, <3>2
    <3> QED BY <1>1, <3>1, <3>2
  <2>2. Begun' + First(elements', n + 1) = pushed'
    BY <1>1, <1>2, <1>3
  <2>3. First(elements', Len(elements')) = First(elements', n + 1)
    BY <1>2 DEF First
  <2> QED BY <1>1, <1>2, <2>1, <2>2, <2>3 DEF IInv, InOrder
<1>6. OneStop'
  BY <1>1, <1>2 DEF IInv, OneStop, Push, n, TypeOK
<1> QED BY <1>4, <1>5, <1>6 DEF IInv

(* The destructor's empty package has no number.                           *)
LEMMA StopPushKeeps ==
  ASSUME IInv, StopPush
  PROVE  IInv'
<1> DEFINE n == Len(elements)
<1>1. /\ TypeOK /\ nullptr \in Element /\ Push(nullptr)
      /\ dtor = "flagged" /\ dtor' = "pushed"
      /\ UNCHANGED <<p, popped_late, pushed, processed>>
      /\ n \in Nat /\ elements \in Seq(Element)
  BY LenProperties DEF IInv, StopPush, TypeOK, Element
<1>2. /\ elements' \in Seq(Element) /\ Len(elements') = n + 1
      /\ \A i \in 1..n : elements'[i] = elements[i] /\ First(elements', i) = First(elements, i)
      /\ elements'[n + 1] = nullptr /\ First(elements', n + 1) = n
      /\ (Taken' <=> Taken) /\ Begun' = Begun
  BY <1>1, PushAppends
<1>3. (\A i \in 1..n : elements[i] # nullptr) /\ First(elements, n) = n
  BY <1>1 DEF IInv, OneStop, First
<1>4. TypeOK'
  BY <1>1, <1>2 DEF TypeOK, Push, Element
<1> HIDE DEF n
<1>5. InOrder'
  <2>1. \A i \in 1..(n + 1) :
          elements'[i] # nullptr => i \in 1..n /\ elements'[i] = Begun' + First(elements', i)
    BY <1>1, <1>2 DEF IInv, InOrder, n
  <2>2. Begun + n = pushed
    BY <1>3 DEF IInv, InOrder, n
  <2>3. First(elements', Len(elements')) = First(elements', n + 1)
    BY <1>2 DEF First
  <2> QED BY <1>1, <1>2, <2>1, <2>2, <2>3 DEF IInv, InOrder
<1>6. OneStop'
  <2>1. \A i \in 1..(n + 1) : elements'[i] = nullptr => i = n + 1
    BY <1>1, <1>2, <1>3
  <2> QED BY <1>1, <1>2, <2>1 DEF IInv, OneStop, Push, TypeOK
<1> QED BY <1>4, <1>5, <1>6 DEF IInv

(* Counting packages when the first element is gone.                       *)
LEMMA Shift ==
  ASSUME NEW q, NEW r, NEW n \in Nat \ {0}, \A i \in 1..(n - 1) : r[i] = q[i + 1],
         NEW i \in 0..(n - 1)
  PROVE  /\ First(r, i) \in Int
         /\ q[1] # nullptr => First(q, i + 1) = First(r, i) + 1
         /\ q[1] = nullptr => First(q, i + 1) = i
<1>1. First(r, i) \in Int
  BY DEF First
<1>2. ASSUME q[1] # nullptr PROVE First(q, i + 1) = First(r, i) + 1
  <2>1. ASSUME NEW j \in 1..(i + 1), q[j] = nullptr
        PROVE  \E k \in 1..i : r[k] = nullptr
    <3>1. j - 1 \in 1..i /\ j - 1 \in 1..(n - 1) /\ (j - 1) + 1 = j
      BY <1>2, <2>1
    <3>2. r[j - 1] = q[(j - 1) + 1]
      BY <3>1
    <3> QED BY <2>1, <3>1, <3>2
  <2>2. ASSUME NEW k \in 1..i, r[k] = nullptr
        PROVE  \E j \in 1..(i + 1) : q[j] = nullptr
    <3>1. k + 1 \in 1..(i + 1) /\ k \in 1..(n - 1)
      OBVIOUS
    <3> QED BY <2>2, <3>1
  <2> QED BY <2>1, <2>2 DEF First
<1>3. ASSUME q[1] = nullptr PROVE First(q, i + 1) = i
  <2>1. 1 \in 1..(i + 1)
    OBVIOUS
  <2> QED BY <1>3, <2>1 DEF First
<1> QED BY <1>1, <1>2, <1>3

(* pop: the first element is the first not processed, or the empty         *)
(* package; the others move up.                                            *)
LEMMA PopKeeps ==
  ASSUME IInv, Pop
  PROVE  IInv'
<1> DEFINE n == Len(elements)
<1>1. /\ worker = "pop" /\ worker' = "popped" /\ elements # <<>>
      /\ p' = Head(elements) /\ elements' = Tail(elements)
      /\ popped_late' = (dtor = "pushed")
      /\ UNCHANGED <<dtor, pushed, processed>>
      /\ elements \in Seq(Element)
  BY DEF Pop, IInv, TypeOK, Element
<1>2. n \in Nat \ {0}
  BY <1>1, LenProperties, EmptySeq
<1>3. /\ p' = elements[1] /\ p' \in Element
      /\ elements' \in Seq(Element) /\ Len(elements') = n - 1
      /\ \A i \in 1..(n - 1) : elements'[i] = elements[i + 1]
  BY <1>1, <1>2, HeadTailProperties, ElementOfSeq
<1>4. TypeOK'
  BY <1>1, <1>3 DEF IInv, TypeOK, Element
<1>5. Len(processed) \in Nat /\ ~Taken /\ Begun = Len(processed)
  BY <1>1, LenProperties DEF IInv, TypeOK, Taken, Begun
<1> HIDE DEF n
<1>6. CASE p' = nullptr
  <2>1. ~Taken' /\ Begun' = Begun
    BY <1>1, <1>5, <1>6 DEF Taken, Begun
  <2>2. \A i \in 2..n : elements[i] # nullptr
    <3>1. 1 \in 1..n /\ \A i \in 2..n : i \in 1..n /\ i # 1
      BY <1>2
    <3> QED BY <1>3, <1>6, <3>1 DEF IInv, OneStop, n
  <2>3. \A i \in 0..(n - 1) : First(elements', i) = i /\ First(elements, i + 1) = i
    <3>1. \A i \in 1..(n - 1) : i + 1 \in 2..n
      BY <1>2
    <3>2. \A i \in 1..(n - 1) : elements'[i] # nullptr
      BY <1>3, <2>2, <3>1
    <3>3. \A i \in 0..(n - 1) : \A j \in 1..i : j \in 1..(n - 1)
      BY <1>2
    <3>4. \A i \in 0..(n - 1) : First(elements', i) = i
      BY <3>2, <3>3 DEF First
    <3>5. ASSUME NEW i \in 0..(n - 1) PROVE First(elements, i + 1) = i
      <4>1. elements[1] = nullptr
        BY <1>3, <1>6
      <4>2. \A k \in 1..(n - 1) : elements'[k] = elements[k + 1]
        BY <1>3
      <4> QED BY <1>2, <4>1, <4>2, Shift
    <3> QED BY <3>4, <3>5
  <2>4. InOrder'
    <3>1. \A i \in 1..(n - 1) : elements'[i] = Begun' + First(elements', i)
      BY <1>2, <1>3, <2>1, <2>2, <2>3 DEF IInv, InOrder, n
    <3>2. First(elements', Len(elements')) = n - 1 /\ First(elements, Len(elements)) = n - 1
      BY <1>2, <1>3, <2>3 DEF n, First
    <3> QED BY <1>1, <1>3, <2>1, <3>1, <3>2 DEF IInv, InOrder
  <2>5. OneStop'
    BY <1>1, <1>2, <1>3, <2>2 DEF IInv, OneStop
  <2> QED BY <1>4, <2>4, <2>5 DEF IInv
<1>7. CASE p' # nullptr
  <2>1. Taken' /\ Begun' = Begun + 1
    BY <1>1, <1>5, <1>7 DEF Taken, Begun
  <2>2. \A i \in 0..(n - 1) :
          First(elements, i + 1) = First(elements', i) + 1 /\ First(elements', i) \in Int
    <3> SUFFICES ASSUME NEW i \in 0..(n - 1)
                 PROVE  First(elements, i + 1) = First(elements', i) + 1
                        /\ First(elements', i) \in Int
      OBVIOUS
    <3>1. elements[1] # nullptr
      BY <1>3, <1>7
    <3>2. \A k \in 1..(n - 1) : elements'[k] = elements[k + 1]
      BY <1>3
    <3> QED BY <1>2, <3>1, <3>2, Shift
  <2>3. p' = Len(processed) + 1
    <3>1. First(elements, 1) = 1
      BY <1>3, <1>7 DEF First
    <3> QED BY <1>2, <1>3, <1>5, <1>7, <3>1 DEF IInv, InOrder, n
  <2>4. InOrder'
    <3>1. \A i \in 1..(n - 1) :
            elements'[i] # nullptr => elements'[i] = Begun' + First(elements', i)
      <4> SUFFICES ASSUME NEW i \in 1..(n - 1), elements'[i] # nullptr
                   PROVE  elements'[i] = Begun' + First(elements', i)
        OBVIOUS
      <4>1. i + 1 \in 1..n /\ elements[i + 1] # nullptr
        BY <1>2, <1>3
      <4>2. elements[i + 1] = Begun + First(elements, i + 1)
        BY <4>1 DEF IInv, InOrder, n
      <4>3. First(elements, i + 1) = First(elements', i) + 1 /\ First(elements', i) \in Int
        BY <1>2, <2>2
      <4>4. elements'[i] = elements[i + 1]
        BY <1>3
      <4> QED BY <1>5, <2>1, <4>2, <4>3, <4>4
    <3>2. /\ First(elements', Len(elements')) = First(elements', n - 1)
          /\ First(elements, n) = First(elements', n - 1) + 1
      <4>1. n - 1 \in 0..(n - 1) /\ (n - 1) + 1 = n
        BY <1>2
      <4> QED BY <1>3, <2>2, <4>1
    <3>3. Begun + First(elements, n) = pushed
      BY DEF IInv, InOrder, n
    <3>4. First(elements', n - 1) \in Int
      BY <1>2, <2>2
    <3> QED BY <1>1, <1>3, <1>5, <2>1, <2>3, <3>1, <3>2, <3>3, <3>4 DEF IInv, InOrder
  <2>5. OneStop'
    <3>1. \A i, j \in 1..(n - 1) :
            elements'[i] = nullptr /\ elements'[j] = nullptr => i = j
      BY <1>2, <1>3 DEF IInv, OneStop, n
    <3>2. dtor' \in {"alive", "flagged"} =>
            \A i \in 1..(n - 1) : elements'[i] # nullptr
      BY <1>1, <1>2, <1>3 DEF IInv, OneStop, n
    <3> QED BY <1>1, <1>3, <3>1, <3>2 DEF OneStop
  <2> QED BY <1>4, <2>4, <2>5 DEF IInv
<1> QED BY <1>6, <1>7

(* process_package: what was taken is now behind.                          *)
LEMMA ProcessKeeps ==
  ASSUME IInv, Process
  PROVE  IInv'
<1> DEFINE m == Len(processed)
<1>1. /\ worker = "process" /\ worker' = "loop" /\ processed' = Append(processed, p)
      /\ UNCHANGED <<elements, p, popped_late, dtor, pushed>>
  BY DEF Process
<1>2. /\ p # nullptr /\ p \in 1..MaxPackages /\ Taken /\ p = m + 1
      /\ processed \in Seq(1..MaxPackages) /\ m \in Nat
  BY <1>1, LenProperties DEF IInv, TypeOK, OneStop, InOrder, Taken
<1>3. /\ processed' \in Seq(1..MaxPackages) /\ Len(processed') = m + 1
      /\ \A i \in 1..m : processed'[i] = processed[i]
      /\ processed'[m + 1] = p
  BY <1>1, <1>2, AppendProperties
<1>4. TypeOK'
  BY <1>1, <1>3 DEF IInv, TypeOK
<1> HIDE DEF m
<1>5. ~Taken' /\ Begun' = Begun
  BY <1>1, <1>2, <1>3 DEF Taken, Begun, m
<1>6. \A i \in 1..(m + 1) : processed'[i] = i
  BY <1>2, <1>3 DEF IInv, InOrder, m
<1>7. InOrder'
  BY <1>1, <1>3, <1>5, <1>6 DEF IInv, InOrder
<1>8. OneStop'
  BY <1>1, <1>2, <1>3 DEF IInv, OneStop
<1> QED BY <1>4, <1>7, <1>8 DEF IInv

(* Everything else leaves the queue, the package in hand and what was      *)
(* processed alone; only the tests of the flag change whose the package    *)
(* is, and one that is given up stays the first not processed.             *)
LEMMA OtherKeeps ==
  ASSUME IInv,
         StopFlag \/ Join \/ Loop \/ Wait \/ SpuriousWakeup \/ Check \/ UNCHANGED vars
  PROVE  IInv'
<1>1. UNCHANGED <<elements, p, pushed, processed>>
  BY DEF StopFlag, Join, Loop, Wait, SpuriousWakeup, Check, vars
<1>2. TypeOK'
  BY <1>1 DEF IInv, TypeOK, StopFlag, Join, Loop, Wait, SpuriousWakeup, Check, vars
<1>3. Len(processed) \in Nat
  BY LenProperties DEF IInv, TypeOK
<1>4. Taken' <=> Taken
  <2>1. CASE StopFlag \/ Join \/ UNCHANGED vars
    BY <2>1 DEF StopFlag, Join, vars, Taken
  <2>2. CASE Loop
    BY <1>3, <2>2 DEF Loop, Taken, IInv, TypeOK, OneStop
  <2>3. CASE Wait \/ SpuriousWakeup
    BY <2>3 DEF Wait, SpuriousWakeup, Taken
  <2>4. CASE Check
    BY <1>3, <2>4 DEF Check, Leaves, Taken, IInv, InOrder
  <2> QED BY <2>1, <2>2, <2>3, <2>4
<1>5. InOrder'
  BY <1>1, <1>4 DEF IInv, InOrder, Begun
<1>6. OneStop'
  BY <1>1 DEF IInv, OneStop, StopFlag, Join, Loop, Wait, SpuriousWakeup, Check,
     Leaves, vars
<1> QED BY <1>2, <1>5, <1>6 DEF IInv

-----------------------------------------------------------------------------
(* The invariant the theorems below are drawn from.                        *)
THEOREM Invariance == Spec => []IInv
<1>1. Init => IInv
  <2> SUFFICES ASSUME Init PROVE IInv
    OBVIOUS
  <2>1. Len(elements) = 0 /\ Len(processed) = 0 /\ ~Taken /\ Begun = 0
    BY DEF Init, Taken, Begun
  <2>2. First(elements, 0) = 0
    BY DEF First
  <2>3. TypeOK
    <3>1. elements \in Seq(1..MaxPackages \cup {nullptr}) /\ processed \in Seq(1..MaxPackages)
      BY EmptySeq DEF Init
    <3>2. p \in 1..MaxPackages \cup {nullptr} /\ pushed \in 0..MaxPackages
      BY DEF Init
    <3>3. popped_late \in BOOLEAN
      BY Zenon DEF Init
    <3> QED BY <3>1, <3>2, <3>3 DEF Init, TypeOK
  <2>4. InOrder
    BY <2>1, <2>2 DEF Init, InOrder
  <2>5. OneStop
    BY <2>1 DEF Init, OneStop
  <2> QED BY <2>3, <2>4, <2>5 DEF IInv
<1>2. IInv /\ [Next]_vars => IInv'
  BY ProcessNotificationKeeps, StopPushKeeps, PopKeeps, ProcessKeeps, OtherKeeps
     DEF Next, WorkerStep
<1> QED BY <1>1, <1>2, PTL DEF Spec

(* Queue, worker and destructor keep their types; in particular the empty  *)
(* package of the destructor is never processed.                           *)
THEOREM TypeCorrect == Spec => []TypeOK
<1>1. IInv => TypeOK
  BY DEF IInv
<1> QED BY <1>1, Invariance, PTL

(* Packages are processed in the order they were pushed, none twice and    *)
(* none left out, for any number of them and any outcome of the race.      *)
THEOREM ProcessedInOrder == Spec => []InOrder
<1>1. IInv => InOrder
  BY DEF IInv
<1> QED BY <1>1, Invariance, PTL

(* A worker that has locked the queue after the destructor's push reads    *)
(* the flag as false: it begins no other package.                          *)
THEOREM NothingBegunAfterStop == Spec => StopsAtOnce
<1> DEFINE A == (dtor = "pushed" /\ worker = "popped" /\ worker' = "process")
                  => ~popped_late
<1>1. [Next]_vars => [A]_vars
  <2> SUFFICES ASSUME Next, dtor = "pushed", worker = "popped", worker' = "process"
               PROVE  ~popped_late
    BY DEF vars
  <2>1. Check
    BY DEF Next, WorkerStep, ProcessNotification, StopFlag, StopPush, Push, Join,
       Loop, Wait, Pop, Process, SpuriousWakeup
  <2> QED BY <2>1 DEF Check, Run, Leaves
<1> QED BY <1>1, PTL DEF Spec, StopsAtOnce
=============================================================================
