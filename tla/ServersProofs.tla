----------------------------- MODULE ServersProofs -----------------------------
(***************************************************************************)
(* Proofs about the two servers.  UdpServer first, for every size of the   *)
(* pool and of the socket and any number of datagrams and failures.  Then  *)
(* that sharing the event task with the TCP server takes nothing from it:  *)
(* what is proved of it alone holds of the two together.  Last the         *)
(* invariants of the TCP server, for any sizes of buffer and segments, any *)
(* number of clients and any failures.                                     *)
(***************************************************************************)
EXTENDS Servers, FiniteSetTheorems, SequenceTheorems, TLAPS

USE UdpAssumption

-----------------------------------------------------------------------------
(* Types.                                                                  *)

LEMMA InitType == Init => TypeOK
BY DEF Init, TypeOK, Blocks

LEMMA NextType == TypeOK /\ [Next]_vars => TypeOK'
<1> SUFFICES ASSUME TypeOK, [Next]_vars
             PROVE  TypeOK'
  OBVIOUS
<1> USE DEF TypeOK, Blocks, netVars, blockVars, cbVars, workerVars
<1>1. CASE Arrive
  <2>1. arrived' \in 1 .. MaxArrived
    BY <1>1 DEF Arrive
  <2>2. CASE Len(socket) < SocketCap
    <3>1. socket' = Append(socket, arrived') /\ events' = events + 1
      BY <1>1, <2>2 DEF Arrive
    <3>2. socket' \in Seq(1 .. MaxArrived) /\ Len(socket') = Len(socket) + 1
      BY <2>1, <3>1
    <3> QED
      BY <1>1, <2>1, <2>2, <3>1, <3>2 DEF Arrive
  <2>3. CASE ~(Len(socket) < SocketCap)
    BY <1>1, <2>1, <2>3 DEF Arrive
  <2> QED
    BY <2>2, <2>3
<1>2. CASE Allocate
  BY <1>2 DEF Allocate
<1>3. CASE Drop
  BY <1>3 DEF Drop
<1>4. CASE Recvfrom
  <2>1. socket \in Seq(1 .. MaxArrived) /\ socket # <<>>
    BY <1>4 DEF Recvfrom
  <2>2. /\ Head(socket) \in 1 .. MaxArrived
        /\ Tail(socket) \in Seq(1 .. MaxArrived)
        /\ Len(Tail(socket)) = Len(socket) - 1
    BY ONLY <2>1, HeadTailProperties, Zenon
  <2>3. filling \in Blocks
    BY <1>4 DEF Recvfrom
  <2>4. content' \in [Blocks -> 0 .. MaxArrived]
    BY <1>4, <2>2, <2>3 DEF Recvfrom
  <2> QED
    BY <1>4, <2>2, <2>4 DEF Recvfrom
<1>5. CASE RecvfromFails
  BY <1>5 DEF RecvfromFails
<1>6. CASE Put
  BY <1>6 DEF Put
<1>7. CASE Get
  <2>1. Head(queue) \in Blocks /\ Tail(queue) \in Seq(Blocks)
    BY <1>7 DEF Get
  <2> QED
    BY <1>7, <2>1 DEF Get
<1>8. CASE Handle
  <2>1. content[msg] \in 0 .. MaxArrived
    BY <1>8 DEF Handle
  <2>2. handled' \in Seq(0 .. MaxArrived)
    BY <1>8, <2>1 DEF Handle
  <2> QED
    BY <1>8, <2>2 DEF Handle
<1>9. CASE Free
  BY <1>9 DEF Free
<1>10. CASE UNCHANGED vars
  BY <1>10 DEF vars
<1> QED
  BY <1>1, <1>2, <1>3, <1>4, <1>5, <1>6, <1>7, <1>8, <1>9, <1>10 DEF Next, Callback, Worker

(* Every variable keeps its type: the socket and the queue hold what the   *)
(* stack and the pool can give them, and a thread holds a block exactly    *)
(* while it uses one.                                                      *)
THEOREM UdpTypeCorrect == Spec => []TypeOK
<1>1. Init => TypeOK
  BY InitType
<1>2. TypeOK /\ [Next]_vars => TypeOK'
  BY NextType
<1> QED
  BY <1>1, <1>2, PTL DEF Spec
-----------------------------------------------------------------------------
(* What is buffered and what was announced.                                *)

(* A dropped indication leaves its datagram in the socket, for any sizes   *)
(* of the pool and the socket: as many datagrams stay behind as drops and  *)
(* failed recvfrom calls were counted.                                     *)
THEOREM DropsLeaveDatagrams == Spec => []DropsStayBehind
<1>1. Init => DropsStayBehind
  BY InitType DEF Init, DropsStayBehind
<1>2. DropsStayBehind /\ [Next]_vars => DropsStayBehind'
  <2> SUFFICES ASSUME DropsStayBehind, [Next]_vars
               PROVE  DropsStayBehind'
    OBVIOUS
  <2>1. TypeOK /\ TypeOK'
    BY NextType DEF DropsStayBehind
  <2> DEFINE Receiving == IF callback = "receive" THEN 1 ELSE 0
             Account == Len(socket) = events + drops + errors + Receiving
  <2>2. Account /\ Len(socket) \in Nat /\ events \in Nat /\ drops \in Nat /\ errors \in Nat
    BY <2>1 DEF DropsStayBehind, TypeOK
  <2>3. Account'
    <3> USE DEF netVars, blockVars, cbVars, workerVars
    <3>1. CASE Arrive
      <4>1. CASE Len(socket) < SocketCap
        <5>1. Len(socket') = Len(socket) + 1 /\ events' = events + 1
          BY <2>1, <3>1, <4>1 DEF Arrive, TypeOK
        <5> QED
          BY <2>2, <3>1, <5>1 DEF Arrive
      <4>2. CASE ~(Len(socket) < SocketCap)
        BY <2>2, <3>1, <4>2 DEF Arrive
      <4> QED
        BY <4>1, <4>2
    <3>2. CASE Allocate
      BY <2>2, <3>2 DEF Allocate
    <3>3. CASE Drop
      BY <2>2, <3>3 DEF Drop
    <3>4. CASE Recvfrom
      <4>1. socket \in Seq(1 .. MaxArrived) /\ socket # <<>>
        BY <2>1, <3>4 DEF Recvfrom, TypeOK
      <4>2. Len(Tail(socket)) = Len(socket) - 1
        BY ONLY <4>1, HeadTailProperties, Zenon
      <4> QED
        BY <2>2, <3>4, <4>2 DEF Recvfrom
    <3>5. CASE RecvfromFails
      BY <2>2, <3>5 DEF RecvfromFails
    <3>6. CASE Put
      BY <2>2, <3>6 DEF Put
    <3>7. CASE Worker \/ UNCHANGED vars
      BY <2>2, <3>7 DEF Worker, Get, Handle, Free, vars
    <3> QED
      BY <3>1, <3>2, <3>3, <3>4, <3>5, <3>6, <3>7 DEF Next, Callback
  <2> QED
    BY <2>1, <2>3 DEF DropsStayBehind
<1> QED
  BY <1>1, <1>2, PTL DEF Spec
-----------------------------------------------------------------------------
(* Who holds a block.                                                      *)

LEMMA CountUpTo == \A n \in Nat : Cardinality(1 .. n) = n
BY FS_Interval

(* The blocks in the queue are different from each other and from those    *)
(* the two threads hold: there is room for all of them.                    *)
LEMMA QueueFits ==
  ASSUME TypeOK, OneHolder
  PROVE  Len(queue) + (IF filling # None THEN 1 ELSE 0) + (IF msg # None THEN 1 ELSE 0)
           <= QueueLen
<1> DEFINE NotFilled == Blocks \ {filling}
           Others == NotFilled \ {msg}
<1>1. /\ filling \in Blocks \cup {None} /\ msg \in Blocks \cup {None} /\ None \notin Blocks
      /\ queue \in Seq(Blocks)
  BY DEF TypeOK, Blocks
<1>2. DOMAIN queue = 1 .. Len(queue) /\ Len(queue) \in Nat /\ queue \in [1 .. Len(queue) -> Blocks]
  BY <1>1, LenProperties, Zenon
<1>3. queue \in Injection(1 .. Len(queue), Others)
  <2>1. \A i \in 1 .. Len(queue) : queue[i] \in Others
    BY <1>2 DEF OneHolder, Queued
  <2>2. queue \in [1 .. Len(queue) -> Others]
    BY <1>2, <2>1
  <2> QED
    BY <1>2, <2>2 DEF OneHolder, Injection, IsInjective
<1>4. IsFiniteSet(Blocks) /\ Cardinality(Blocks) = QueueLen
  BY FS_Interval DEF Blocks
<1>5. /\ IsFiniteSet(NotFilled)
      /\ Cardinality(NotFilled) = IF filling # None THEN QueueLen - 1 ELSE QueueLen
  BY <1>1, <1>4, FS_RemoveElement
<1>6. msg \in NotFilled <=> msg # None
  BY <1>1 DEF OneHolder
<1>7. /\ IsFiniteSet(Others)
      /\ Cardinality(Others)
           = IF msg # None THEN Cardinality(NotFilled) - 1 ELSE Cardinality(NotFilled)
  <2> HIDE DEF NotFilled
  <2> QED
    BY <1>5, <1>6, FS_RemoveElement
<1> HIDE DEF NotFilled, Others
<1>8. Cardinality(1 .. Len(queue)) <= Cardinality(Others)
  BY ONLY <1>3, <1>7, FS_Injection, Zenon
<1>9. Cardinality(1 .. Len(queue)) = Len(queue)
  BY ONLY <1>2, CountUpTo
<1>10. Len(queue) <= Cardinality(Others)
  BY <1>8, <1>9
<1> QED
  <2>1. CASE filling # None /\ msg # None
    BY ONLY UdpAssumption, <1>2, <1>5, <1>7, <1>10, <2>1
  <2>2. CASE filling # None /\ msg = None
    BY ONLY UdpAssumption, <1>2, <1>5, <1>7, <1>10, <2>2
  <2>3. CASE filling = None /\ msg # None
    BY ONLY UdpAssumption, <1>2, <1>5, <1>7, <1>10, <2>3
  <2>4. CASE filling = None /\ msg = None
    BY ONLY UdpAssumption, <1>2, <1>5, <1>7, <1>10, <2>4
  <2> QED
    BY <2>1, <2>2, <2>3, <2>4

LEMMA NextHolder == TypeOK /\ OneHolder /\ [Next]_vars => OneHolder'
<1> SUFFICES ASSUME TypeOK, OneHolder, [Next]_vars
             PROVE  OneHolder'
  OBVIOUS
<1> USE DEF netVars, blockVars, cbVars, workerVars
<1>1. CASE Arrive \/ Drop \/ UNCHANGED vars
  BY <1>1 DEF Arrive, Drop, vars, OneHolder, Queued
<1>2. CASE Allocate
  <2>1. filling = None /\ pool \subseteq Blocks /\ None \notin Blocks
    BY <1>2 DEF Allocate, TypeOK, Blocks
  <2>2. PICK b \in pool : pool' = pool \ {b} /\ filling' = b
    BY <1>2 DEF Allocate
  <2>3. Queued' = Queued /\ queue' = queue /\ msg' = msg /\ callback' = "receive"
    BY <1>2 DEF Allocate, Queued
  <2> QED
    BY <2>1, <2>2, <2>3 DEF OneHolder
<1>3. CASE Recvfrom
  <2>1. filling # None /\ Len(queue) \in Nat
    BY <1>3 DEF Recvfrom, TypeOK
  <2>2. Len(queue) < QueueLen
    BY <2>1, QueueFits
  <2> QED
    BY <1>3, <2>2 DEF Recvfrom, OneHolder, Queued
<1>4. CASE RecvfromFails
  <2>1. filling \in Blocks /\ None \notin Blocks
    BY <1>4 DEF RecvfromFails, TypeOK, Blocks
  <2>2. queue \in Seq(Blocks) /\ pool \subseteq Blocks
    BY DEF TypeOK
  <2>3. Queued \subseteq Blocks
    BY <2>2, ElementOfSeq DEF Queued
  <2>4. Queued' = Queued /\ queue' = queue /\ msg' = msg /\ callback' = "idle"
    BY <1>4 DEF RecvfromFails, Queued
  <2>5. pool' = pool \cup {filling} /\ filling' = None
    BY <1>4 DEF RecvfromFails
  <2> QED
    BY <2>1, <2>2, <2>3, <2>4, <2>5 DEF OneHolder
<1>5. CASE Put
  <2>1. filling \in Blocks /\ None \notin Blocks /\ queue \in Seq(Blocks)
    BY <1>5 DEF Put, TypeOK, Blocks
  <2>2. /\ DOMAIN queue' = 1 .. Len(queue) + 1
        /\ DOMAIN queue = 1 .. Len(queue)
        /\ Len(queue) \in Nat
        /\ \A i \in 1 .. Len(queue) : queue'[i] = queue[i]
        /\ queue'[Len(queue) + 1] = filling
    BY <1>5, <2>1 DEF Put
  <2>3. Queued' = Queued \cup {filling}
    BY <2>2 DEF Queued
  <2>4. \A i, j \in DOMAIN queue' : queue'[i] = queue'[j] => i = j
    BY <2>2 DEF OneHolder, Queued
  <2>5. Queued \subseteq Blocks /\ pool \subseteq Blocks
    BY <2>1, <2>2 DEF Queued, TypeOK
  <2>6. pool' = pool /\ msg' = msg /\ filling' = None /\ callback' = "idle"
    BY <1>5 DEF Put
  <2> QED
    BY <2>1, <2>3, <2>4, <2>5, <2>6 DEF OneHolder
<1>6. CASE Get
  <2>1. queue \in Seq(Blocks) /\ queue # <<>> /\ msg = None /\ None \notin Blocks
    BY <1>6 DEF Get, TypeOK, Blocks
  <2>2. /\ Len(queue) \in Nat /\ Len(queue) > 0 /\ DOMAIN queue = 1 .. Len(queue)
        /\ DOMAIN queue' = 1 .. Len(queue) - 1 /\ Len(queue') = Len(queue) - 1
        /\ \A i \in 1 .. Len(queue) - 1 : queue'[i] = queue[i + 1]
        /\ msg' = queue[1]
    BY <1>6, <2>1 DEF Get
  <2>3. Queued = Queued' \cup {msg'}
    <3>1. \A i \in DOMAIN queue : i = 1 \/ (i - 1 \in DOMAIN queue' /\ queue[i] = queue'[i - 1])
      BY <2>2
    <3>2. \A i \in DOMAIN queue' : i + 1 \in DOMAIN queue /\ queue'[i] = queue[i + 1]
      BY <2>2
    <3> QED
      BY <2>2, <3>1, <3>2 DEF Queued
  <2>4. msg' \notin Queued' /\ msg' \in Blocks
    BY <2>1, <2>2 DEF Queued, OneHolder
  <2>5. \A i, j \in DOMAIN queue' : queue'[i] = queue'[j] => i = j
    <3> TAKE i, j \in DOMAIN queue'
    <3>1. /\ i + 1 \in DOMAIN queue /\ j + 1 \in DOMAIN queue
          /\ queue'[i] = queue[i + 1] /\ queue'[j] = queue[j + 1]
      BY <2>2
    <3>2. queue[i + 1] = queue[j + 1] => i + 1 = j + 1
      BY <3>1, Zenon DEF OneHolder
    <3> QED
      BY <2>2, <3>1, <3>2
  <2> QED
    BY <1>6, <2>1, <2>2, <2>3, <2>4, <2>5 DEF Get, OneHolder
<1>7. CASE Handle
  BY <1>7 DEF Handle, OneHolder, Queued
<1>8. CASE Free
  <2>1. msg \in Blocks /\ None \notin Blocks
    BY <1>8 DEF Free, TypeOK, Blocks
  <2>2. queue \in Seq(Blocks) /\ pool \subseteq Blocks
    BY DEF TypeOK
  <2>3. Queued \subseteq Blocks
    BY <2>2, ElementOfSeq DEF Queued
  <2>4. Queued' = Queued /\ queue' = queue /\ filling' = filling /\ callback' = callback
    BY <1>8 DEF Free, Queued
  <2>5. pool' = pool \cup {msg} /\ msg' = None
    BY <1>8 DEF Free
  <2> QED
    BY <2>1, <2>2, <2>3, <2>4, <2>5 DEF OneHolder
<1> QED
  BY <1>1, <1>2, <1>3, <1>4, <1>5, <1>6, <1>7, <1>8 DEF Next, Callback, Worker

LEMMA InitHolder == Init => OneHolder
BY DEF Init, OneHolder, Queued, Blocks

(* Whatever the order of the two threads and whatever recvfrom does, every *)
(* block is in one place only, for every length of the queue, and the      *)
(* queue never refuses a block that was filled.                            *)
THEOREM NoBlockLeaks == Spec => []OneHolder
<1>1. Init => TypeOK /\ OneHolder
  BY InitType, InitHolder
<1>2. (TypeOK /\ OneHolder) /\ [Next]_vars => (TypeOK /\ OneHolder)'
  BY NextType, NextHolder
<1> QED
  BY <1>1, <1>2, PTL DEF Spec
-----------------------------------------------------------------------------
(* The server is a queue of datagrams.                                     *)

PlaceSorts ==
  /\ InHand \in Seq(Nat) /\ Waiting \in Seq(Nat) /\ Received \in Seq(Nat)
  /\ socket \in Seq(Nat) /\ handled \in Seq(Nat) /\ Pending \in Seq(Nat)
  /\ Len(InHand) = IF worker = "handle" THEN 1 ELSE 0
  /\ Len(Waiting) = Len(queue)
  /\ Len(Received) = IF callback = "put" THEN 1 ELSE 0
  /\ Len(Pending) = Len(InHand) + Len(Waiting) + Len(Received) + Len(socket)
  /\ Len(queue) \in Nat /\ Len(socket) \in Nat
  /\ Received \o socket \in Seq(Nat) /\ Waiting \o (Received \o socket) \in Seq(Nat)

LEMMA PlaceTypes == TypeOK => PlaceSorts
<1> SUFFICES ASSUME TypeOK PROVE PlaceSorts
  OBVIOUS
<1>1. socket \in Seq(Nat) /\ handled \in Seq(Nat)
  <2>1. 1 .. MaxArrived \subseteq Nat /\ 0 .. MaxArrived \subseteq Nat
    OBVIOUS
  <2> QED
    BY <2>1, SeqMonotonic, Zenon DEF TypeOK
<1>2. \A b \in Blocks : content[b] \in Nat
  BY DEF TypeOK
<1>3. InHand \in Seq(Nat) /\ Len(InHand) = IF worker = "handle" THEN 1 ELSE 0
  <2>1. worker = "handle" => content[msg] \in Nat
    BY <1>2 DEF TypeOK
  <2> QED
    BY <2>1 DEF InHand
<1>4. Received \in Seq(Nat) /\ Len(Received) = IF callback = "put" THEN 1 ELSE 0
  <2>1. callback = "put" => content[filling] \in Nat
    BY <1>2 DEF TypeOK
  <2> QED
    BY <2>1 DEF Received
<1>5. Waiting \in Seq(Nat) /\ Len(Waiting) = Len(queue) /\ Len(queue) \in Nat
  <2>1. /\ Len(queue) \in Nat /\ DOMAIN queue = 1 .. Len(queue)
        /\ \A i \in 1 .. Len(queue) : queue[i] \in Blocks
    BY DEF TypeOK
  <2>2. \A i \in 1 .. Len(queue) : content[queue[i]] \in Nat
    BY <1>2, <2>1
  <2> QED
    BY <2>1, <2>2 DEF Waiting
<1> DEFINE rest == Received \o socket
           behind == Waiting \o rest
<1>6. rest \in Seq(Nat) /\ Len(rest) = Len(Received) + Len(socket)
  BY <1>1, <1>4, ConcatProperties
<1>7. behind \in Seq(Nat) /\ Len(behind) = Len(Waiting) + Len(rest)
  <2> HIDE DEF rest
  <2> QED
    BY <1>5, <1>6, ConcatProperties
<1>8. Pending \in Seq(Nat) /\ Len(Pending) = Len(InHand) + Len(behind)
  <2>1. Pending = InHand \o behind
    BY DEF Pending
  <2> HIDE DEF rest, behind
  <2> QED
    BY <1>3, <1>7, <2>1, ConcatProperties
<1>9. /\ Len(InHand) \in Nat /\ Len(Waiting) \in Nat /\ Len(Received) \in Nat
      /\ Len(socket) \in Nat
  BY <1>1, <1>3, <1>4, <1>5, LenProperties
<1>10. Len(Pending) = Len(InHand) + Len(Waiting) + Len(Received) + Len(socket)
  BY ONLY <1>6, <1>7, <1>8, <1>9
<1> QED
  BY <1>1, <1>3, <1>4, <1>5, <1>6, <1>7, <1>8, <1>9, <1>10 DEF PlaceSorts

LEMMA Assoc ==
  ASSUME NEW s \in Seq(Nat), NEW t \in Seq(Nat), NEW u \in Seq(Nat)
  PROVE  (s \o t) \o u = s \o (t \o u)
<1> DEFINE left == (s \o t) \o u
           right == s \o (t \o u)
<1>1. s \o t \in Seq(Nat) /\ t \o u \in Seq(Nat)
  OBVIOUS
<1>2. left \in Seq(Nat) /\ right \in Seq(Nat)
  BY <1>1
<1>3. Len(left) = Len(s) + Len(t) + Len(u) /\ Len(right) = Len(left)
  OBVIOUS
<1>4. \A i \in 1 .. Len(left) : left[i] = right[i]
  OBVIOUS
<1> HIDE DEF left, right
<1>5. left = right
  BY <1>2, <1>3, <1>4, SeqEqual
<1> QED
  BY <1>5 DEF left, right

(* What appending to the last of four sequences does to the whole, and     *)
(* what does not change it: moving an element to the next sequence.        *)
LEMMA JoinLast ==
  ASSUME NEW s \in Seq(Nat), NEW d \in Seq(Nat), NEW x \in Nat
  PROVE  s \o Append(d, x) = Append(s \o d, x)
<1>1. <<x>> \in Seq(Nat) /\ s \o d \in Seq(Nat)
  BY ConcatProperties
<1>2. Append(d, x) = d \o <<x>> /\ Append(s \o d, x) = (s \o d) \o <<x>>
  BY <1>1, AppendIsConcat
<1> QED
  BY <1>1, <1>2, ConcatAssociative

LEMMA HeadAndTail ==
  ASSUME NEW s \in Seq(Nat), s # <<>>
  PROVE  /\ Head(s) \in Nat /\ Tail(s) \in Seq(Nat) /\ <<Head(s)>> \in Seq(Nat)
         /\ s = <<Head(s)>> \o Tail(s)
<1>1. /\ Head(s) \in Nat /\ Tail(s) \in Seq(Nat) /\ Len(Tail(s)) = Len(s) - 1
      /\ \A i \in 1 .. Len(Tail(s)) : Tail(s)[i] = s[i + 1]
      /\ Len(s) \in Nat \ {0} /\ Head(s) = s[1]
  BY HeadTailProperties
<1>2. <<Head(s)>> \in Seq(Nat) /\ Len(<<Head(s)>>) = 1 /\ <<Head(s)>>[1] = Head(s)
  BY <1>1
<1>3. /\ <<Head(s)>> \o Tail(s) \in Seq(Nat)
      /\ Len(<<Head(s)>> \o Tail(s)) = Len(s)
      /\ \A i \in 1 .. Len(s) :
           (<<Head(s)>> \o Tail(s))[i] = IF i <= 1 THEN <<Head(s)>>[i] ELSE Tail(s)[i - 1]
  <2>1. Len(<<Head(s)>>) + Len(Tail(s)) = Len(s)
    BY <1>1, <1>2
  <2> QED
    BY <1>1, <1>2, <2>1, ConcatProperties
<1>4. \A i \in 1 .. Len(s) : (<<Head(s)>> \o Tail(s))[i] = s[i]
  <2> TAKE i \in 1 .. Len(s)
  <2>1. CASE i = 1
    BY <1>1, <1>2, <1>3, <2>1
  <2>2. CASE i # 1
    <3>1. i - 1 \in 1 .. Len(Tail(s)) /\ i - 1 + 1 = i
      BY <1>1, <2>2
    <3>2. Tail(s)[i - 1] = s[i]
      BY <1>1, <3>1
    <3> QED
      BY <1>1, <1>3, <2>2, <3>2
  <2> QED
    BY <2>1, <2>2
<1> QED
  BY <1>1, <1>2, <1>3, <1>4, SeqEqual

LEMMA FirstOfAll ==
  ASSUME NEW x \in Nat, NEW s \in Seq(Nat)
  PROVE  /\ <<x>> \o s # <<>>
         /\ Head(<<x>> \o s) = x
         /\ Tail(<<x>> \o s) = s
<1>1. <<x>> \in Seq(Nat) /\ Len(<<x>>) = 1 /\ <<x>>[1] = x
  OBVIOUS
<1>2. /\ <<x>> \o s \in Seq(Nat) /\ Len(<<x>> \o s) = Len(s) + 1 /\ Len(s) \in Nat
      /\ \A i \in 1 .. Len(s) + 1 : (<<x>> \o s)[i] = IF i <= 1 THEN <<x>>[i] ELSE s[i - 1]
  BY <1>1, ConcatProperties
<1>3. <<x>> \o s # <<>> /\ Head(<<x>> \o s) = x
  BY <1>1, <1>2
<1>4. /\ Tail(<<x>> \o s) \in Seq(Nat) /\ Len(Tail(<<x>> \o s)) = Len(s)
      /\ \A i \in 1 .. Len(s) : Tail(<<x>> \o s)[i] = (<<x>> \o s)[i + 1]
  BY <1>2, <1>3, HeadTailProperties
<1>5. \A i \in 1 .. Len(s) : Tail(<<x>> \o s)[i] = s[i]
  <2> TAKE i \in 1 .. Len(s)
  <2>1. i + 1 \in 1 .. Len(s) + 1 /\ ~(i + 1 <= 1) /\ i + 1 - 1 = i
    BY <1>2
  <2> QED
    BY <1>2, <1>4, <2>1
<1> QED
  BY <1>3, <1>4, <1>5, SeqEqual

(* Clearing a block and receiving into it disturbs no other: the contents  *)
(* of those that are queued or handled stay.                               *)
LEMMA OthersKept ==
  ASSUME TypeOK, OneHolder, NEW b \in Blocks, b \notin Queued, NEW d,
         content' = [content EXCEPT ![b] = d], queue' = queue
  PROVE  /\ Waiting' = Waiting
         /\ msg \in Blocks /\ msg # b => content'[msg] = content[msg]
<1>1. /\ DOMAIN queue = 1 .. Len(queue)
      /\ \A i \in 1 .. Len(queue) : queue[i] \in Blocks /\ queue[i] \in Queued
  BY DEF TypeOK, Queued
<1>2. \A c \in Blocks : c # b => content'[c] = content[c]
  BY DEF TypeOK
<1>3. \A i \in DOMAIN queue : content'[queue[i]] = content[queue[i]]
  BY <1>1, <1>2
<1> QED
  BY <1>2, <1>3 DEF Waiting

LEMMA FifoStep == TypeOK /\ OneHolder /\ [Next]_vars => [Fifo!FifoNext]_(Fifo!fifoVars)
<1> SUFFICES ASSUME TypeOK, OneHolder, [Next]_vars
             PROVE  [Fifo!FifoNext]_(Fifo!fifoVars)
  OBVIOUS
<1> USE DEF netVars, blockVars, cbVars, workerVars
<1>t. /\ InHand \in Seq(Nat) /\ Waiting \in Seq(Nat) /\ Received \in Seq(Nat)
      /\ socket \in Seq(Nat) /\ Pending \in Seq(Nat)
      /\ arrived \in Nat /\ None \notin Blocks /\ QueueLen \in Nat /\ SocketCap \in Nat
      /\ Len(socket) \in Nat
  BY PlaceTypes DEF PlaceSorts, TypeOK, Blocks
<1>s. PlaceSorts
  BY PlaceTypes
<1>l. /\ Len(Pending) = Len(InHand) + Len(Waiting) + Len(Received) + Len(socket)
      /\ Len(InHand) \in Nat /\ Len(Waiting) \in Nat /\ Len(Received) \in Nat
  <2>1. Len(Pending) = Len(InHand) + Len(Waiting) + Len(Received) + Len(socket)
    BY <1>s DEF PlaceSorts
  <2> QED
    BY <1>t, <2>1, LenProperties
<1>p. PlaceSorts'
  <2>1. TypeOK'
    BY NextType
  <2>2. TypeOK' => PlaceSorts'
    BY PlaceTypes, PTL
  <2> QED
    BY <2>1, <2>2
<1>1. ASSUME UNCHANGED <<arrived, handled>>, Pending' = Pending
      PROVE  [Fifo!FifoNext]_(Fifo!fifoVars)
  BY <1>1 DEF Fifo!fifoVars
<1>2. CASE Arrive
  <2>1. /\ arrived' = arrived + 1
        /\ UNCHANGED <<content, queue, callback, filling, worker, msg, handled>>
    BY <1>2 DEF Arrive
  <2>2. UNCHANGED <<InHand, Waiting, Received>>
    BY <2>1 DEF InHand, Waiting, Received
  <2>3. CASE Len(socket) < SocketCap
    <3>1. socket' = Append(socket, arrived')
      BY <1>2, <2>3 DEF Arrive
    <3>2. arrived' \in Nat
      BY <1>t, <2>1
    <3>3. Pending' = Append(Pending, arrived')
      <4> DEFINE rest == Received \o socket
                 behind == Waiting \o rest
      <4>1. rest \in Seq(Nat) /\ behind \in Seq(Nat)
        BY <1>s DEF PlaceSorts
      <4>2. Received \o Append(socket, arrived') = Append(rest, arrived')
        BY <1>t, <3>2, JoinLast
      <4>3. Waiting \o Append(rest, arrived') = Append(behind, arrived')
        <5> HIDE DEF rest
        <5> QED
          BY <1>t, <3>2, <4>1, JoinLast
      <4>4. InHand \o Append(behind, arrived') = Append(InHand \o behind, arrived')
        <5> HIDE DEF rest, behind
        <5> QED
          BY <1>t, <3>2, <4>1, JoinLast
      <4> QED
        BY <2>2, <3>1, <4>2, <4>3, <4>4 DEF Pending
    <3>4. Len(InHand) + Len(Waiting) + Len(Received) <= QueueLen
      <4>1. /\ Len(InHand) = IF worker = "handle" THEN 1 ELSE 0
            /\ Len(Received) = IF callback = "put" THEN 1 ELSE 0
            /\ Len(Waiting) = Len(queue) /\ Len(queue) \in Nat
        BY <1>s DEF PlaceSorts
      <4>2. (worker = "handle" => msg # None) /\ (callback = "put" => filling # None)
        BY DEF TypeOK
      <4>3. Len(queue) + (IF filling # None THEN 1 ELSE 0) + (IF msg # None THEN 1 ELSE 0)
              <= QueueLen
        BY QueueFits
      <4> DEFINE f == IF filling # None THEN 1 ELSE 0
                 m == IF msg # None THEN 1 ELSE 0
      <4>4. f \in Nat /\ m \in Nat
        OBVIOUS
      <4>5. Len(InHand) <= m
        BY <4>1, <4>2
      <4>6. Len(Received) <= f
        BY <4>1, <4>2
      <4>7. Len(queue) + f + m <= QueueLen
        BY <4>3
      <4> HIDE DEF f, m
      <4>8. Len(Waiting) = Len(queue)
        BY <4>1
      <4> QED
        BY ONLY <1>t, <1>l, <4>4, <4>5, <4>6, <4>7, <4>8
    <3>5. Len(Pending) < SocketCap + QueueLen
      BY ONLY <1>t, <1>l, <2>3, <3>4
    <3>6. Fifo!Accept
      BY <2>1, <3>3, <3>5 DEF Fifo!Accept
    <3> QED
      BY <3>6 DEF Fifo!FifoNext
  <2>4. CASE ~(Len(socket) < SocketCap)
    <3>1. Pending' = Pending
      BY <1>2, <2>2, <2>4 DEF Arrive, Pending
    <3>2. Len(Pending) >= SocketCap
      BY ONLY <1>t, <1>l, <2>4
    <3>3. Fifo!Refuse
      BY <2>1, <3>1, <3>2 DEF Fifo!Refuse
    <3> QED
      BY <3>3 DEF Fifo!FifoNext
  <2> QED
    BY <2>3, <2>4
<1>3. CASE Allocate
  <2>1. PICK b \in pool : content' = [content EXCEPT ![b] = 0]
    BY <1>3 DEF Allocate
  <2>2. /\ b \in Blocks /\ b \notin Queued /\ msg # b
        /\ worker = "handle" => msg \in Blocks
    BY <2>1 DEF TypeOK, OneHolder
  <2>3. /\ callback = "idle" /\ callback' = "receive"
        /\ UNCHANGED <<arrived, socket, queue, worker, msg, handled>>
    BY <1>3 DEF Allocate
  <2>4. Waiting' = Waiting /\ InHand' = InHand
    <3>1. Waiting' = Waiting /\ (worker = "handle" => content'[msg] = content[msg])
      BY <2>1, <2>2, <2>3, OthersKept
    <3> QED
      BY <2>3, <3>1 DEF InHand
  <2>5. Received' = Received
    BY <2>3 DEF Received
  <2> QED
    BY <1>1, <2>3, <2>4, <2>5 DEF Pending
<1>4. CASE Drop \/ RecvfromFails \/ Free \/ UNCHANGED vars
  <2>1. UNCHANGED <<arrived, socket, content, queue, handled>>
    BY <1>4 DEF Drop, RecvfromFails, Free, vars
  <2>2. UNCHANGED <<InHand, Received>>
    BY <1>4 DEF Drop, RecvfromFails, Free, vars, InHand, Received
  <2>3. Waiting' = Waiting
    BY <2>1 DEF Waiting
  <2> QED
    BY <1>1, <2>1, <2>2, <2>3 DEF Pending
<1>5. CASE Recvfrom
  <2>1. /\ callback = "receive" /\ callback' = "put" /\ filling' = filling
        /\ socket # <<>> /\ socket' = Tail(socket)
        /\ content' = [content EXCEPT ![filling] = Head(socket)]
        /\ UNCHANGED <<arrived, queue, worker, msg, handled>>
    BY <1>5 DEF Recvfrom
  <2>2. /\ filling \in Blocks /\ filling \notin Queued
        /\ worker = "handle" => msg \in Blocks /\ msg # filling
    BY <1>t, <2>1 DEF TypeOK, OneHolder
  <2>3. Waiting' = Waiting /\ InHand' = InHand
    <3>1. Waiting' = Waiting /\ (worker = "handle" => content'[msg] = content[msg])
      BY <2>1, <2>2, OthersKept
    <3> QED
      BY <2>1, <3>1 DEF InHand
  <2>4. Received = <<>> /\ Received' = <<Head(socket)>>
    BY <2>1, <2>2 DEF Received, TypeOK
  <2>5. Received \o socket = Received' \o socket'
    BY <1>t, <2>1, <2>4, HeadAndTail, ConcatEmptySeq
  <2>6. Pending' = Pending
    <3>1. Pending' = InHand' \o (Waiting' \o (Received' \o socket'))
      BY DEF Pending
    <3> QED
      BY <2>3, <2>5, <3>1 DEF Pending
  <2> QED
    BY <1>1, <2>1, <2>6
<1>6. CASE Put
  <2>1. /\ callback = "put" /\ callback' = "idle" /\ queue' = Append(queue, filling)
        /\ UNCHANGED <<arrived, socket, content, worker, msg, handled>>
    BY <1>6 DEF Put
  <2>2. InHand' = InHand
    BY <2>1 DEF InHand
  <2>3. Received' = <<>> /\ Received = <<content[filling]>>
    BY <2>1 DEF Received
  <2>4. Waiting' = Waiting \o Received
    <3>1. Waiting' = Append(Waiting, content[filling])
      <4>1. queue \in Seq(Blocks) /\ filling \in Blocks /\ content[filling] \in Nat
        BY <2>1 DEF TypeOK
      <4>2. /\ DOMAIN queue = 1 .. Len(queue) /\ Len(queue) \in Nat
            /\ DOMAIN queue' = 1 .. Len(queue) + 1
            /\ \A i \in 1 .. Len(queue) : queue'[i] = queue[i]
            /\ queue'[Len(queue) + 1] = filling
        BY <2>1, <4>1
      <4>3. Waiting' \in Seq(Nat) /\ Len(Waiting') = Len(queue) + 1 /\ Len(Waiting) = Len(queue)
        <5>1. Len(queue') = Len(queue) + 1
          BY <2>1, <4>1
        <5> QED
          BY <1>p, <1>s, <5>1 DEF PlaceSorts
      <4>4. \A i \in 1 .. Len(queue) + 1 :
              Waiting'[i] = IF i <= Len(queue) THEN content[queue[i]] ELSE content[filling]
        BY <2>1, <4>2 DEF Waiting
      <4>5. \A i \in 1 .. Len(queue) : Waiting[i] = content[queue[i]]
        BY <4>2 DEF Waiting
      <4>6. /\ Append(Waiting, content[filling]) \in Seq(Nat)
            /\ Len(Append(Waiting, content[filling])) = Len(queue) + 1
            /\ \A i \in 1 .. Len(queue) : Append(Waiting, content[filling])[i] = Waiting[i]
            /\ Append(Waiting, content[filling])[Len(queue) + 1] = content[filling]
        BY <1>t, <4>1, <4>3, AppendProperties
      <4>7. \A i \in 1 .. Len(queue) + 1 : Waiting'[i] = Append(Waiting, content[filling])[i]
        BY <4>2, <4>4, <4>5, <4>6
      <4> QED
        BY <4>3, <4>6, <4>7, SeqEqual
    <3>2. content[filling] \in Nat
      BY <2>1 DEF TypeOK
    <3> QED
      BY <1>t, <2>3, <3>1, <3>2, AppendIsConcat
  <2>5. Waiting' \o (Received' \o socket') = Waiting \o (Received \o socket)
    <3>1. Received' \o socket' = socket
      BY <1>t, <2>1, <2>3, ConcatEmptySeq
    <3>2. (Waiting \o Received) \o socket = Waiting \o (Received \o socket)
      <4>1. PICK w \in Seq(Nat), r \in Seq(Nat), k \in Seq(Nat) :
              w = Waiting /\ r = Received /\ k = socket
        BY <1>t
      <4>2. (w \o r) \o k = w \o (r \o k)
        BY ONLY Assoc
      <4> QED
        BY <4>1, <4>2
    <3> QED
      BY <2>4, <3>1, <3>2
  <2>6. Pending' = Pending
    <3>1. Pending' = InHand' \o (Waiting' \o (Received' \o socket'))
      BY DEF Pending
    <3> QED
      BY <2>2, <2>5, <3>1 DEF Pending
  <2> QED
    BY <1>1, <2>1, <2>6
<1>7. CASE Get
  <2>1. /\ worker = "get" /\ worker' = "handle" /\ queue # <<>> /\ msg' = Head(queue)
        /\ queue' = Tail(queue)
        /\ UNCHANGED <<arrived, socket, content, callback, filling, handled>>
    BY <1>7 DEF Get
  <2>2. Received' = Received
    BY <2>1 DEF Received
  <2>3. /\ Len(queue) \in Nat \ {0} /\ DOMAIN queue = 1 .. Len(queue)
        /\ Head(queue) = queue[1]
        /\ DOMAIN queue' = 1 .. Len(queue) - 1
        /\ \A i \in 1 .. Len(queue) - 1 : queue'[i] = queue[i + 1]
    BY <2>1 DEF TypeOK
  <2>4. Len(Waiting) = Len(queue) /\ Waiting # <<>>
    BY <1>s, <2>3 DEF PlaceSorts
  <2>5. InHand = <<>> /\ InHand' = <<Head(Waiting)>>
    <3>1. Head(Waiting) = Waiting[1]
      BY <1>t, <2>4
    <3>2. Waiting[1] = content[queue[1]]
      BY <2>3 DEF Waiting
    <3> QED
      BY <2>1, <2>3, <3>1, <3>2 DEF InHand
  <2>6. Waiting' = Tail(Waiting)
    <3>1. /\ Tail(Waiting) \in Seq(Nat) /\ Len(Tail(Waiting)) = Len(queue) - 1
          /\ \A i \in 1 .. Len(queue) - 1 : Tail(Waiting)[i] = Waiting[i + 1]
      BY <1>t, <2>4, HeadTailProperties
    <3>2. Waiting' \in Seq(Nat) /\ Len(Waiting') = Len(queue) - 1
      <4>1. Len(Waiting') = Len(queue') /\ Waiting' \in Seq(Nat)
        BY <1>p DEF PlaceSorts
      <4>2. Len(queue') = Len(queue) - 1
        BY <2>1 DEF TypeOK
      <4> QED
        BY <4>1, <4>2
    <3>3. \A i \in 1 .. Len(queue) - 1 : Waiting'[i] = content[queue[i + 1]]
      BY <2>1, <2>3 DEF Waiting
    <3>4. \A i \in 1 .. Len(queue) - 1 : Waiting[i + 1] = content[queue[i + 1]]
      BY <2>3 DEF Waiting
    <3>5. \A i \in 1 .. Len(queue) - 1 : Waiting'[i] = Tail(Waiting)[i]
      BY <3>1, <3>3, <3>4
    <3> QED
      BY <3>1, <3>2, <3>5, SeqEqual
  <2>7. Pending' = Pending
    <3> DEFINE rest == Received \o socket
    <3>1. Pending' = InHand' \o (Waiting' \o rest) /\ Pending = InHand \o (Waiting \o rest)
      <4>1. Pending' = InHand' \o (Waiting' \o (Received' \o socket'))
        BY DEF Pending
      <4> QED
        BY <2>1, <2>2, <4>1 DEF Pending
    <3>2. rest \in Seq(Nat) /\ Waiting \o rest \in Seq(Nat)
      BY <1>s DEF PlaceSorts
    <3> HIDE DEF rest
    <3>3. /\ <<Head(Waiting)>> \in Seq(Nat) /\ Tail(Waiting) \in Seq(Nat)
          /\ Waiting = <<Head(Waiting)>> \o Tail(Waiting)
      BY <1>t, <2>4, HeadAndTail
    <3>4. (<<Head(Waiting)>> \o Tail(Waiting)) \o rest
            = <<Head(Waiting)>> \o (Tail(Waiting) \o rest)
      BY <3>2, <3>3, Assoc
    <3>5. <<>> \o (Waiting \o rest) = Waiting \o rest
      BY <3>2, ConcatEmptySeq
    <3> QED
      BY <2>5, <2>6, <3>1, <3>3, <3>4, <3>5
  <2> QED
    BY <1>1, <2>1, <2>7
<1>8. CASE Handle
  <2>1. /\ worker = "handle" /\ worker' = "free" /\ handled' = Append(handled, content[msg])
        /\ UNCHANGED <<arrived, socket, content, queue, callback, filling, msg>>
    BY <1>8 DEF Handle
  <2>2. Waiting' = Waiting /\ Received' = Received
    BY <2>1 DEF Waiting, Received
  <2>3. InHand = <<content[msg]>> /\ InHand' = <<>>
    BY <2>1 DEF InHand
  <2>4. content[msg] \in Nat
    BY <2>1 DEF TypeOK
  <2> DEFINE rest == Waiting \o (Received \o socket)
  <2>5. rest \in Seq(Nat) /\ Pending = InHand \o rest
    BY <1>s DEF PlaceSorts, Pending
  <2>6. Pending' = <<>> \o rest
    <3>1. Pending' = InHand' \o (Waiting' \o (Received' \o socket'))
      BY DEF Pending
    <3> QED
      BY <2>1, <2>2, <2>3, <3>1
  <2> HIDE DEF rest
  <2>7. Pending # <<>> /\ Head(Pending) = content[msg] /\ Tail(Pending) = rest
    BY <2>3, <2>4, <2>5, FirstOfAll
  <2>8. Pending' = rest
    BY <2>5, <2>6, ConcatEmptySeq
  <2>9. Fifo!HandleNext
    BY <2>1, <2>7, <2>8 DEF Fifo!HandleNext
  <2> QED
    BY <2>9 DEF Fifo!FifoNext
<1> QED
  BY <1>2, <1>3, <1>4, <1>5, <1>6, <1>7, <1>8 DEF Next, Callback, Worker

(* The pool, the message queue and the two threads implement a queue, for  *)
(* every length and capacity: what recvfrom fetches is handled once and in *)
(* the order it arrived, and nothing that the socket took gets lost.       *)
THEOREM UdpIsFifo == Spec => ImplementsFifo
<1>1. Init => Fifo!FifoInit
  BY DEF Init, Fifo!FifoInit, Pending, InHand, Waiting, Received
<1>2. Init => TypeOK /\ OneHolder
  BY InitType, InitHolder
<1>3. (TypeOK /\ OneHolder) /\ [Next]_vars => (TypeOK /\ OneHolder)'
  BY NextType, NextHolder
<1>4. (TypeOK /\ OneHolder) /\ [Next]_vars => [Fifo!FifoNext]_(Fifo!fifoVars)
  BY FifoStep
<1> QED
  BY <1>1, <1>2, <1>3, <1>4, PTL DEF Spec, ImplementsFifo, Fifo!FifoSpec

(* A queue keeps the order: a datagram that arrives is the last, and one   *)
(* that is handled moves from the end of one part to that of the other.    *)
FifoTypes == arrived \in Nat /\ handled \in Seq(Nat) /\ Pending \in Seq(Nat)

LEMMA FifoKeepsOrder ==
  FifoTypes /\ FifoTypes' /\ Fifo!OnceAndInOrder /\ [Fifo!FifoNext]_(Fifo!fifoVars)
    => Fifo!OnceAndInOrder'
<1> SUFFICES ASSUME FifoTypes, FifoTypes', Fifo!OnceAndInOrder,
                    [Fifo!FifoNext]_(Fifo!fifoVars)
             PROVE  Fifo!OnceAndInOrder'
  OBVIOUS
<1>1. /\ arrived \in Nat /\ handled \in Seq(Nat) /\ Pending \in Seq(Nat)
      /\ Fifo!Order \in Seq(Nat)
  BY ConcatProperties DEF FifoTypes, Fifo!Order
<1>2. /\ DOMAIN Fifo!Order = 1 .. Len(Fifo!Order) /\ Len(Fifo!Order) \in Nat
      /\ \A i \in 1 .. Len(Fifo!Order) : Fifo!Order[i] \in Nat
  BY <1>1
<1>3. CASE Fifo!Accept
  <2>1. arrived' = arrived + 1 /\ Pending' = Append(Pending, arrived') /\ handled' = handled
    BY <1>3 DEF Fifo!Accept
  <2>2. Fifo!Order' = Append(Fifo!Order, arrived')
    <3>1. arrived' \in Nat
      BY <1>1, <2>1
    <3>2. handled \o Append(Pending, arrived') = Append(handled \o Pending, arrived')
      BY <1>1, <3>1, JoinLast
    <3> QED
      BY <2>1, <3>2 DEF Fifo!Order
  <2>3. /\ DOMAIN Fifo!Order' = 1 .. Len(Fifo!Order) + 1
        /\ \A i \in 1 .. Len(Fifo!Order) : Fifo!Order'[i] = Fifo!Order[i]
        /\ Fifo!Order'[Len(Fifo!Order) + 1] = arrived + 1
    BY <1>1, <1>2, <2>1, <2>2
  <2>4. /\ \A i, j \in 1 .. Len(Fifo!Order) : i < j => Fifo!Order[i] < Fifo!Order[j]
        /\ \A i \in 1 .. Len(Fifo!Order) : 1 <= Fifo!Order[i] /\ Fifo!Order[i] <= arrived
    <3>1. \A i \in 1 .. Len(Fifo!Order) : Fifo!Order[i] \in 1 .. arrived
      BY <1>2 DEF Fifo!OnceAndInOrder
    <3>2. \A i, j \in 1 .. Len(Fifo!Order) : i < j => Fifo!Order[i] < Fifo!Order[j]
      BY <1>2 DEF Fifo!OnceAndInOrder
    <3> QED
      BY ONLY <1>1, <1>2, <3>1, <3>2
  <2>5. \A j \in 1 .. Len(Fifo!Order) + 1 :
          j \in 1 .. Len(Fifo!Order) \/ j = Len(Fifo!Order) + 1
    BY <1>2
  <2>6. \A i, j \in 1 .. Len(Fifo!Order) + 1 : i < j => Fifo!Order'[i] < Fifo!Order'[j]
    <3> SUFFICES ASSUME NEW i \in 1 .. Len(Fifo!Order) + 1,
                        NEW j \in 1 .. Len(Fifo!Order) + 1, i < j
                 PROVE  Fifo!Order'[i] < Fifo!Order'[j]
      OBVIOUS
    <3>1. i \in 1 .. Len(Fifo!Order)
      BY <1>2
    <3>2. CASE j \in 1 .. Len(Fifo!Order)
      BY <2>3, <2>4, <3>1, <3>2
    <3>3. CASE j = Len(Fifo!Order) + 1
      BY <1>1, <1>2, <2>3, <2>4, <3>1, <3>3
    <3> QED
      BY <2>5, <3>2, <3>3
  <2>7. \A i \in 1 .. Len(Fifo!Order) + 1 : Fifo!Order'[i] \in 1 .. arrived'
    <3> TAKE j \in 1 .. Len(Fifo!Order) + 1
    <3>1. CASE j \in 1 .. Len(Fifo!Order)
      <4>1. Fifo!Order'[j] = Fifo!Order[j] /\ Fifo!Order[j] \in Nat
        BY <1>2, <2>3, <3>1
      <4>2. 1 <= Fifo!Order[j] /\ Fifo!Order[j] <= arrived
        BY <2>4, <3>1
      <4> QED
        BY <1>1, <2>1, <4>1, <4>2
    <3>2. CASE j = Len(Fifo!Order) + 1
      BY <1>1, <2>1, <2>3, <3>2
    <3> QED
      BY <2>5, <3>1, <3>2
  <2> QED
    BY <2>3, <2>6, <2>7 DEF Fifo!OnceAndInOrder
<1>4. CASE Fifo!Refuse
  <2>1. arrived' = arrived + 1 /\ Fifo!Order' = Fifo!Order
    BY <1>4 DEF Fifo!Refuse, Fifo!Order
  <2> QED
    BY <1>1, <1>2, <2>1 DEF Fifo!OnceAndInOrder
<1>5. CASE Fifo!HandleNext
  <2>1. /\ Pending # <<>> /\ handled' = Append(handled, Head(Pending))
        /\ Pending' = Tail(Pending) /\ arrived' = arrived
    BY <1>5 DEF Fifo!HandleNext
  <2>2. Fifo!Order' = Fifo!Order
    <3>1. PICK d \in Seq(Nat), p \in Seq(Nat) : d = handled /\ p = Pending
      BY <1>1
    <3>2. /\ Head(p) \in Nat /\ Tail(p) \in Seq(Nat) /\ <<Head(p)>> \in Seq(Nat)
          /\ p = <<Head(p)>> \o Tail(p)
      BY <2>1, <3>1, HeadAndTail
    <3>3. Append(d, Head(p)) = d \o <<Head(p)>>
      BY <3>2, AppendIsConcat
    <3>4. (d \o <<Head(p)>>) \o Tail(p) = d \o (<<Head(p)>> \o Tail(p))
      BY ONLY <3>2, Assoc
    <3> QED
      BY <2>1, <3>1, <3>2, <3>3, <3>4 DEF Fifo!Order
  <2> QED
    BY <1>1, <1>2, <2>1, <2>2 DEF Fifo!OnceAndInOrder
<1>6. CASE UNCHANGED Fifo!fifoVars
  BY <1>6 DEF Fifo!fifoVars, Fifo!OnceAndInOrder, Fifo!Order
<1> QED
  BY <1>3, <1>4, <1>5, <1>6 DEF Fifo!FifoNext

(* Hence no datagram is handled twice or before one that arrived earlier,  *)
(* and those in the blocks and in the socket wait in that order too.       *)
THEOREM FirstInFirstHandled == Spec => []Fifo!OnceAndInOrder
<1>1. Init => Fifo!OnceAndInOrder
  BY DEF Init, Fifo!OnceAndInOrder, Fifo!Order, Pending, InHand, Waiting, Received
<1>2. TypeOK => FifoTypes
  BY PlaceTypes DEF PlaceSorts, FifoTypes, TypeOK
<1>3. Spec => []TypeOK
  BY UdpTypeCorrect
<1> QED
  BY <1>1, <1>2, <1>3, UdpIsFifo, FifoKeepsOrder, PTL DEF Spec, ImplementsFifo, Fifo!FifoSpec

-----------------------------------------------------------------------------
(* The two servers on the one event task.                                  *)

LEMMA ServersStep == [ServersNext]_allVars => [Next]_vars
<1> SUFFICES ASSUME [ServersNext]_allVars
             PROVE  [Next]_vars
  OBVIOUS
<1>1. CASE UdpCallback
  BY <1>1 DEF UdpCallback, Next
<1>2. CASE TcpCallback
  BY <1>2 DEF TcpCallback, udpVars
<1>3. CASE UdpWorker
  BY <1>3 DEF UdpWorker, Next
<1>4. CASE TcpPrinter
  BY <1>4 DEF TcpPrinter, udpVars
<1>5. CASE Environment
  BY <1>5 DEF Environment, Next, udpVars
<1>6. CASE UNCHANGED allVars
  BY <1>6 DEF allVars, udpVars
<1> QED
  BY <1>1, <1>2, <1>3, <1>4, <1>5, <1>6 DEF ServersNext

(* Every behaviour of the two servers on the one event task is a behaviour *)
(* of the UDP server: that the callbacks take turns, and that a TCP recv   *)
(* may wait, only removes or delays steps of it.                           *)
THEOREM ServersImplementUdp == ServersSpec => Spec
<1>1. ServersInit => Init
  BY DEF ServersInit
<1>2. [ServersNext]_allVars => [Next]_vars
  BY ServersStep
<1> QED
  BY <1>1, <1>2, PTL DEF ServersSpec, Spec

(* Hence, with both servers on the one event task, no block of the pool    *)
(* leaks, and the queue has room for each one that is filled.              *)
THEOREM ServersLeakNoBlock == ServersSpec => []OneHolder
BY ServersImplementUdp, NoBlockLeaks, PTL

(* That queue is what the datagrams see of the two servers on the one      *)
(* event task.                                                             *)
THEOREM ServersAreFifo == ServersSpec => ImplementsFifo /\ []Fifo!OnceAndInOrder
BY ServersImplementUdp, UdpIsFifo, FirstInFirstHandled, PTL

(* As many datagrams wait unannounced as drops and failures were counted,  *)
(* whatever the TCP server does in between.                                *)
THEOREM ServersLeaveDatagrams == ServersSpec => []DropsStayBehind
BY ServersImplementUdp, DropsLeaveDatagrams, PTL

-----------------------------------------------------------------------------
(* The TCP server in the composition.                                      *)

USE ServersAssumption DEF Tcp!TcpAssumption

LEMMA TcpStep == [ServersNext]_allVars => [Tcp!Next]_tcpVars
<1> SUFFICES ASSUME [ServersNext]_allVars
             PROVE  [Tcp!Next]_tcpVars
  OBVIOUS
<1>1. CASE UdpCallback
  BY <1>1 DEF UdpCallback
<1>2. CASE TcpCallback
  BY <1>2 DEF TcpCallback, Tcp!Next
<1>3. CASE UdpWorker
  BY <1>3 DEF UdpWorker
<1>4. CASE TcpPrinter
  BY <1>4 DEF TcpPrinter, Tcp!Next
<1>5. CASE Environment
  BY <1>5 DEF Environment, Tcp!Next
<1>6. CASE UNCHANGED allVars
  BY <1>6 DEF allVars
<1> QED
  BY <1>1, <1>2, <1>3, <1>4, <1>5, <1>6 DEF ServersNext

TcpTypeInv ==
  /\ Tcp!TypeOK
  /\ sent \in 0 .. Len(SegmentLen) /\ failures \in Nat
  /\ latest \in Seq(Tcp!Segments)

LEMMA TcpInitType == Tcp!Init => TcpTypeInv
<1> SUFFICES ASSUME Tcp!Init
             PROVE  TcpTypeInv
  OBVIOUS
<1>1. received \in BOOLEAN
  BY Zenon DEF Tcp!Init
<1>2. stream \in [Tcp!Sockets -> Seq(Tcp!Segments)]
  BY DEF Tcp!Init
<1>3. buff \in [1 .. BuffSize -> Tcp!Segments \cup {0}] /\ buff[BuffSize] = 0
  BY DEF Tcp!Init
<1>4. Len(SegmentLen) \in Nat
  OBVIOUS
<1> QED
  BY <1>1, <1>2, <1>3, <1>4 DEF Tcp!Init, Tcp!TypeOK, TcpTypeInv

(* A segment's cells.                                                      *)
LEMMA SegmentCells ==
  ASSUME NEW n \in 1 .. Len(SegmentLen)
  PROVE  /\ n \in Tcp!Segments
         /\ SegmentLen[n] \in 1 .. BuffSize - 1
         /\ [i \in 1 .. SegmentLen[n] |-> n] \in Seq(Tcp!Segments)
         /\ Len([i \in 1 .. SegmentLen[n] |-> n]) = SegmentLen[n]
<1>1. DOMAIN SegmentLen = 1 .. Len(SegmentLen)
  OBVIOUS
<1>2. n \in Tcp!Segments
  BY <1>1 DEF Tcp!Segments
<1>3. SegmentLen[n] \in 1 .. BuffSize - 1
  OBVIOUS
<1>4. SegmentLen[n] \in Nat
  BY <1>3
<1>5. [i \in 1 .. SegmentLen[n] |-> n] \in Seq(Tcp!Segments)
  BY <1>2, <1>4
<1> QED
  BY <1>2, <1>3, <1>4, <1>5

(* What recv takes.                                                        *)
LEMMA RecvResult ==
  ASSUME TcpTypeInv, Tcp!Recv
  PROVE  /\ client \in Tcp!Sockets /\ client \in open
         /\ taken' \in 0 .. BuffSize - 1 /\ taken' <= Len(stream[client])
         /\ taken' = BuffSize - 1 \/ taken' = Len(stream[client])
         /\ latest' \in Seq(Tcp!Segments) /\ Len(latest') = taken'
         /\ buff' \in [1 .. BuffSize -> Tcp!Segments \cup {0}] /\ buff'[BuffSize] = 0
         /\ \A i \in 1 .. taken' : buff'[i] = latest'[i]
         /\ stream' \in [Tcp!Sockets -> Seq(Tcp!Segments)]
         /\ \A s \in Tcp!Sockets \ {client} : stream'[s] = stream[s]
         /\ Len(stream'[client]) = Len(stream[client]) - taken'
<1> DEFINE n == Tcp!Least(Len(stream[client]), BuffSize - 1)
<1>1. client \in open /\ client \in Tcp!Sockets
  BY DEF Tcp!Recv, TcpTypeInv, Tcp!TypeOK
<1>2. stream[client] \in Seq(Tcp!Segments) /\ Len(stream[client]) \in Nat
  BY <1>1 DEF TcpTypeInv, Tcp!TypeOK
<1>3. /\ n \in 0 .. BuffSize - 1 /\ n <= Len(stream[client])
      /\ n = BuffSize - 1 \/ n = Len(stream[client])
  BY <1>2 DEF Tcp!Least
<1>4. taken' = n
  BY DEF Tcp!Recv
<1>5. /\ buff' = [i \in 1 .. BuffSize |-> IF i <= n THEN stream[client][i] ELSE buff[i]]
      /\ stream' = [stream EXCEPT ![client] = SubSeq(@, n + 1, Len(@))]
      /\ latest' = SubSeq(stream[client], 1, n)
  BY DEF Tcp!Recv
<1> HIDE DEF n
<1>6. latest' \in Seq(Tcp!Segments) /\ Len(latest') = n /\ \A i \in 1 .. n : latest'[i] = stream[client][i]
  BY <1>2, <1>3, <1>5
<1>7. \A i \in 1 .. n : stream[client][i] \in Tcp!Segments
  BY <1>2, <1>3
<1>8. buff' \in [1 .. BuffSize -> Tcp!Segments \cup {0}] /\ buff'[BuffSize] = 0
  BY <1>3, <1>5, <1>7 DEF TcpTypeInv, Tcp!TypeOK
<1>9. \A i \in 1 .. n : buff'[i] = latest'[i]
  BY <1>3, <1>5, <1>6
<1>10. SubSeq(stream[client], n + 1, Len(stream[client])) \in Seq(Tcp!Segments)
       /\ Len(SubSeq(stream[client], n + 1, Len(stream[client]))) = Len(stream[client]) - n
  BY <1>2, <1>3
<1>11. /\ stream' \in [Tcp!Sockets -> Seq(Tcp!Segments)]
       /\ \A s \in Tcp!Sockets \ {client} : stream'[s] = stream[s]
       /\ stream'[client] = SubSeq(stream[client], n + 1, Len(stream[client]))
  BY <1>1, <1>5, <1>10 DEF TcpTypeInv, Tcp!TypeOK
<1> QED
  BY <1>1, <1>3, <1>4, <1>6, <1>8, <1>9, <1>10, <1>11

LEMMA TcpNextType == TcpTypeInv /\ [Tcp!Next]_tcpVars => TcpTypeInv'
<1> SUFFICES ASSUME TcpTypeInv, [Tcp!Next]_tcpVars
             PROVE  TcpTypeInv'
  OBVIOUS
<1> USE DEF Tcp!stackVars, Tcp!callbackVars, Tcp!printVars, Tcp!auxVars, Tcp!Deliver
<1>t. /\ Tcp!TypeOK /\ sent \in 0 .. Len(SegmentLen) /\ failures \in Nat
      /\ latest \in Seq(Tcp!Segments) /\ Len(SegmentLen) \in Nat
  BY DEF TcpTypeInv
<1> USE DEF TcpTypeInv, Tcp!TypeOK
<1>1. CASE Tcp!Connect
  BY <1>t, <1>1 DEF Tcp!Connect
<1>2. ASSUME NEW s \in Tcp!Sockets, Tcp!Segment(s)
      PROVE  TcpTypeInv'
  <2>1. sent' \in 1 .. Len(SegmentLen)
    BY <1>t, <1>2 DEF Tcp!Segment
  <2>2. [i \in 1 .. SegmentLen[sent'] |-> sent'] \in Seq(Tcp!Segments)
    BY <2>1, SegmentCells
  <2>3. stream' \in [Tcp!Sockets -> Seq(Tcp!Segments)]
    BY <1>t, <1>2, <2>2 DEF Tcp!Segment
  <2>4. indications' \in Seq(Tcp!Sockets \cup {Listener})
    BY <1>t, <1>2 DEF Tcp!Segment
  <2>5. UNCHANGED <<clients, open, fin, Tcp!callbackVars, buff, Tcp!printVars, Tcp!auxVars>>
    BY <1>2 DEF Tcp!Segment
  <2> QED
    BY <1>t, <2>1, <2>3, <2>4, <2>5
<1>3. ASSUME NEW s \in Tcp!Sockets, Tcp!Finish(s)
      PROVE  TcpTypeInv'
  BY <1>t, <1>3 DEF Tcp!Finish
<1>4. CASE Tcp!Accept
  BY <1>t, <1>4 DEF Tcp!Accept
<1>5. CASE Tcp!AcceptFails
  BY <1>t, <1>5 DEF Tcp!AcceptFails
<1>6. CASE Tcp!NotForTheServer
  BY <1>t, <1>6 DEF Tcp!NotForTheServer
<1>7. CASE Tcp!CallRecv
  BY <1>t, <1>7 DEF Tcp!CallRecv
<1>8. CASE Tcp!Recv
  <2>1. step' = "received" /\ UNCHANGED <<open, fin, indications, client, length, received, printer, sent, failures>>
    BY <1>8 DEF Tcp!Recv
  <2> QED
    BY <1>t, <1>8, <2>1, RecvResult
<1>9. CASE Tcp!RecvFails
  <2>1. failures' \in Nat
    BY <1>t, <1>9 DEF Tcp!RecvFails
  <2>2. latest' \in Seq(Tcp!Segments)
    BY <1>9 DEF Tcp!RecvFails
  <2> QED
    BY <1>t, <1>9, <2>1, <2>2 DEF Tcp!RecvFails
<1>15. CASE Tcp!StoreLength
  BY <1>t, <1>15 DEF Tcp!StoreLength
<1>10. CASE Tcp!Take
  <2>1. received' \in BOOLEAN
    BY <1>10, Zenon DEF Tcp!Take
  <2>2. fin' \subseteq open' /\ open' \subseteq Tcp!Sockets
    BY <1>t, <1>10 DEF Tcp!Take
  <2> QED
    BY <1>t, <1>10, <2>1, <2>2 DEF Tcp!Take
<1>11. CASE Tcp!EndText
  <2>1. buff' \in [1 .. BuffSize -> Tcp!Segments \cup {0}] /\ buff'[BuffSize] = 0
    BY <1>t, <1>11 DEF Tcp!EndText
  <2> QED
    BY <1>t, <1>11, <2>1 DEF Tcp!EndText
<1>12. CASE Tcp!PrintText
  BY <1>t, <1>12 DEF Tcp!PrintText
<1>13. CASE Tcp!Clear
  <2>1. received' \in BOOLEAN
    BY <1>13, Zenon DEF Tcp!Clear
  <2> QED
    BY <1>t, <1>13, <2>1 DEF Tcp!Clear
<1>14. CASE UNCHANGED tcpVars
  BY <1>t, <1>14 DEF tcpVars
<1> QED
  BY <1>1, <1>2, <1>3, <1>4, <1>5, <1>6, <1>7, <1>8, <1>9, <1>10, <1>11, <1>12, <1>13, <1>14,
     <1>15
  DEF Tcp!Next, Tcp!Client, Tcp!Callback, Tcp!Printer

-----------------------------------------------------------------------------
(* The printed texts.                                                      *)

(* What was received last is at the start of the buffer, and length is its *)
(* length once the event task has taken it; its end is marked before it is *)
(* printed.                                                                *)
TextInv == calm =>
  /\ Len(latest) < BuffSize /\ \A i \in 1 .. Len(latest) : buff[i] = latest[i]
  /\ (IF step = "received" THEN taken ELSE length) = Len(latest)
  /\ printer # "rest" => step # "received"
  /\ printer = "print" => buff[Len(latest) + 1] = 0
  /\ printer = "clear" => shown = latest

LEMMA InitText == Tcp!Init => TextInv
BY DEF Tcp!Init, TextInv

LEMMA TextIs ==
  ASSUME TcpTypeInv, Len(latest) < BuffSize, buff[Len(latest) + 1] = 0,
         \A i \in 1 .. Len(latest) : buff[i] = latest[i]
  PROVE  Tcp!Text = latest
<1> DEFINE n == Len(latest)
           ends == {i \in 1 .. BuffSize : buff[i] = 0}
<1>1. latest \in Seq(Tcp!Segments) /\ n \in Nat /\ 0 \notin Tcp!Segments
  BY DEF TcpTypeInv, Tcp!Segments
<1>2. \A i \in 1 .. n : buff[i] # 0
  BY <1>1
<1>3. n + 1 \in ends /\ \A j \in ends : n + 1 <= j
  BY <1>1, <1>2
<1>4. \A i \in ends : (\A j \in ends : i <= j) => i = n + 1
  BY <1>1, <1>3
<1>5. (CHOOSE i \in ends : \A j \in ends : i <= j) = n + 1
  <2> HIDE DEF ends, n
  <2> QED
    BY <1>3, <1>4
<1>6. Tcp!Text = SubSeq(buff, 1, n)
  <2>1. Tcp!Text = SubSeq(buff, 1, (CHOOSE i \in ends : \A j \in ends : i <= j) - 1)
    BY DEF Tcp!Text
  <2>2. (n + 1) - 1 = n
    BY <1>1
  <2> HIDE DEF ends, n
  <2> QED
    BY <1>5, <2>1, <2>2
<1>7. buff \in Seq(Tcp!Segments \cup {0}) /\ Len(buff) = BuffSize
  BY DEF TcpTypeInv, Tcp!TypeOK
<1>8. SubSeq(buff, 1, n) \in Seq(Tcp!Segments \cup {0}) /\ Len(SubSeq(buff, 1, n)) = n
      /\ \A i \in 1 .. n : SubSeq(buff, 1, n)[i] = buff[i]
  BY <1>1, <1>7
<1>9. latest \in Seq(Tcp!Segments \cup {0})
  BY <1>1
<1> QED
  BY <1>6, <1>8, <1>9

LEMMA NextText == TcpTypeInv /\ TextInv /\ [Tcp!Next]_tcpVars => TextInv'
<1> SUFFICES ASSUME TcpTypeInv, TextInv, [Tcp!Next]_tcpVars, calm'
             PROVE  TextInv'
  BY DEF TextInv
<1> USE DEF Tcp!stackVars, Tcp!callbackVars, Tcp!printVars, Tcp!auxVars
<1>t. Len(latest) \in Nat /\ 0 \notin Tcp!Segments
  BY DEF TcpTypeInv, Tcp!Segments
<1>1. CASE Tcp!Client
  BY <1>1 DEF Tcp!Client, Tcp!Connect, Tcp!Segment, Tcp!Finish, TextInv
<1>2. CASE Tcp!Accept \/ Tcp!AcceptFails \/ Tcp!NotForTheServer \/ Tcp!CallRecv
  <2>1. step \in {"idle"} /\ step' \in {"idle", "receive"}
    BY <1>2 DEF Tcp!Accept, Tcp!AcceptFails, Tcp!NotForTheServer, Tcp!CallRecv, Tcp!Deliver
  <2>2. UNCHANGED <<buff, length, latest, calm, printer, shown>>
    BY <1>2 DEF Tcp!Accept, Tcp!AcceptFails, Tcp!NotForTheServer, Tcp!CallRecv
  <2> QED
    BY <2>1, <2>2 DEF TextInv
<1>3. CASE Tcp!Recv
  <2>1. printer = "rest" /\ printer' = "rest" /\ step' = "received"
    BY <1>3 DEF Tcp!Recv
  <2> QED
    BY <1>3, <2>1, RecvResult DEF TextInv
<1>4. CASE Tcp!RecvFails
  <2>1. ~calm'
    BY <1>4, Zenon DEF Tcp!RecvFails
  <2> QED
    BY <2>1
<1>5. CASE Tcp!StoreLength \/ Tcp!Take
  BY <1>5 DEF Tcp!StoreLength, Tcp!Take, TextInv
<1>6. CASE Tcp!EndText
  <2>1. calm /\ step # "received" /\ step' = step /\ printer' = "print" /\ latest' = latest
    BY <1>6 DEF Tcp!EndText
  <2>2. length = Len(latest) /\ Len(latest) < BuffSize /\ length # Failed
    BY <1>t, <2>1 DEF TextInv
  <2>3. buff' = [buff EXCEPT ![length + 1] = 0]
    BY <1>6, <2>2 DEF Tcp!EndText
  <2>4. \A i \in 1 .. BuffSize : buff'[i] = IF i = length + 1 THEN 0 ELSE buff[i]
    BY <2>3 DEF TcpTypeInv, Tcp!TypeOK
  <2>5. buff'[Len(latest) + 1] = 0 /\ \A i \in 1 .. Len(latest) : buff'[i] = latest[i]
    BY <1>t, <2>1, <2>2, <2>4 DEF TextInv
  <2> QED
    BY <1>6, <2>1, <2>2, <2>5 DEF Tcp!EndText, TextInv
<1>7. CASE Tcp!PrintText
  <2>1. calm /\ shown' = Tcp!Text /\ printer' = "clear"
    BY <1>7 DEF Tcp!PrintText
  <2>2. Tcp!Text = latest
    BY <1>7, <2>1, TextIs DEF Tcp!PrintText, TextInv
  <2> QED
    BY <1>7, <2>1, <2>2 DEF Tcp!PrintText, TextInv
<1>8. CASE Tcp!Clear
  BY <1>8 DEF Tcp!Clear, TextInv
<1>9. CASE UNCHANGED tcpVars
  BY <1>9 DEF tcpVars, TextInv
<1> QED
  BY <1>1, <1>2, <1>3, <1>4, <1>5, <1>6, <1>7, <1>8, <1>9
  DEF Tcp!Next, Tcp!Callback, Tcp!Printer

-----------------------------------------------------------------------------
(* What is announced of a client.                                          *)

Count(q, s) == Cardinality({i \in DOMAIN q : q[i] = s})

LEMMA CountFinite ==
  ASSUME NEW S, NEW q \in Seq(S), NEW s
  PROVE  IsFiniteSet({i \in DOMAIN q : q[i] = s}) /\ Count(q, s) \in Nat
<1>1. IsFiniteSet(1 .. Len(q))
  BY FS_Interval
<1>2. {i \in DOMAIN q : q[i] = s} \subseteq 1 .. Len(q)
  OBVIOUS
<1>3. IsFiniteSet({i \in DOMAIN q : q[i] = s})
  BY <1>1, <1>2, FS_Subset
<1> QED
  BY <1>3, FS_CardinalityType DEF Count

LEMMA CountAppend ==
  ASSUME NEW S, NEW q \in Seq(S), NEW e \in S, NEW s
  PROVE  Count(Append(q, e), s) = Count(q, s) + IF e = s THEN 1 ELSE 0
<1> DEFINE A == {i \in DOMAIN q : q[i] = s}
           B == {i \in DOMAIN Append(q, e) : Append(q, e)[i] = s}
<1>1. IsFiniteSet(A) /\ Cardinality(A) \in Nat
  BY CountFinite DEF Count
<1>2. Len(q) + 1 \notin A
  OBVIOUS
<1>3. Count(q, s) = Cardinality(A) /\ Count(Append(q, e), s) = Cardinality(B)
  BY DEF Count
<1>4. CASE e = s
  <2>1. B = A \cup {Len(q) + 1}
    BY <1>4
  <2>2. Cardinality(A \cup {Len(q) + 1}) = Cardinality(A) + 1
    <3> HIDE DEF A
    <3> QED
      BY <1>1, <1>2, FS_AddElement
  <2> HIDE DEF A, B
  <2> QED
    BY <1>3, <1>4, <2>1, <2>2
<1>5. CASE e # s
  <2>1. B = A
    BY <1>5
  <2> HIDE DEF A, B
  <2> QED
    BY <1>1, <1>3, <1>5, <2>1
<1> QED
  BY <1>4, <1>5

LEMMA CountTail ==
  ASSUME NEW S, NEW q \in Seq(S), q # <<>>, NEW s
  PROVE  Count(q, s) = Count(Tail(q), s) + IF Head(q) = s THEN 1 ELSE 0
<1> DEFINE A == {i \in DOMAIN q : q[i] = s}
           B == {i \in DOMAIN Tail(q) : Tail(q)[i] = s}
           R == A \ {1}
           f == [i \in B |-> i + 1]
<1>1. Tail(q) \in Seq(S) /\ DOMAIN q = 1 .. Len(q) /\ Len(q) \in Nat \ {0}
      /\ DOMAIN Tail(q) = 1 .. Len(q) - 1 /\ \A i \in 1 .. Len(q) - 1 : Tail(q)[i] = q[i + 1]
  OBVIOUS
<1>2. IsFiniteSet(A) /\ Cardinality(A) \in Nat
  BY CountFinite DEF Count
<1>3. IsFiniteSet(B) /\ Cardinality(B) \in Nat
  BY <1>1, CountFinite DEF Count
<1>c. Count(q, s) = Cardinality(A) /\ Count(Tail(q), s) = Cardinality(B)
  BY DEF Count
<1>4. f \in [B -> R] /\ \A i, j \in B : f[i] = f[j] => i = j
  BY <1>1
<1>5. \A j \in R : \E i \in B : f[i] = j
  <2> SUFFICES ASSUME NEW j \in R
               PROVE  \E i \in B : f[i] = j
    OBVIOUS
  <2>1. j \in 2 .. Len(q) /\ q[j] = s
    BY <1>1
  <2>2. j - 1 \in B /\ f[j - 1] = j
    BY <1>1, <2>1
  <2> QED
    BY <2>2
<1>6. ExistsBijection(B, R)
  <2> HIDE DEF f, B, R
  <2>1. f \in Bijection(B, R)
    BY <1>4, <1>5 DEF Bijection, Injection, Surjection, IsInjective
  <2> QED
    BY <2>1 DEF ExistsBijection
<1>7. Cardinality(R) = Cardinality(B)
  <2> HIDE DEF f, B, R
  <2> QED
    BY <1>3, <1>6, FS_Bijection
<1>8. CASE Head(q) = s
  <2>1. 1 \in A
    BY <1>1, <1>8
  <2>2. Cardinality(R) = Cardinality(A) - 1
    <3> HIDE DEF A
    <3> QED
      BY <1>2, <2>1, FS_RemoveElement
  <2> HIDE DEF A, B, R, f
  <2> QED
    BY <1>2, <1>3, <1>c, <1>7, <1>8, <2>2
<1>9. CASE Head(q) # s
  <2>1. R = A
    BY <1>1, <1>9
  <2> HIDE DEF A, B, R, f
  <2> QED
    BY <1>2, <1>3, <1>c, <1>7, <1>9, <2>1
<1> QED
  BY <1>8, <1>9

(* The calls of recv for a socket that are announced or under way.         *)
Calls(s) == Count(indications, s) + IF step = "receive" /\ client = s THEN 1 ELSE 0

(* They are enough for the bytes, which each call takes a buffer of, and   *)
(* for the end of the stream.                                              *)
Covered(s) ==
  IF s \in fin
  THEN Calls(s) >= 1 /\ Len(stream[s]) <= (BuffSize - 1) * (Calls(s) - 1)
  ELSE Len(stream[s]) <= (BuffSize - 1) * Calls(s)

(* The end of the client is received and not yet taken.                    *)
Leaving(s) ==
  /\ client = s
  /\ (step = "received" /\ taken = 0) \/ (step = "stored" /\ length = 0)

CoverInv ==
  /\ \A s \in Tcp!Sockets \ open : stream[s] = <<>>
  /\ \A s : Leaving(s) => s \in fin /\ stream[s] = <<>>
  /\ failures = 0 /\ ~overlapped =>
       \A s \in open : s = client /\ (Covered(s) \/ Leaving(s))

LEMMA InitCover == Tcp!Init => CoverInv
BY DEF Tcp!Init, CoverInv, Leaving

LEMMA Product ==
  ASSUME NEW k \in Nat, NEW c \in Nat
  PROVE  k * c \in Nat /\ k * (c + 1) = k * c + k /\ k * 0 = 0
OBVIOUS

LEMMA Announced ==
  ASSUME TcpTypeInv, NEW s
  PROVE  Count(indications, s) \in Nat /\ Calls(s) \in Nat
<1>1. indications \in Seq(Tcp!Sockets \cup {Listener})
  BY DEF TcpTypeInv, Tcp!TypeOK
<1>2. Count(indications, s) \in Nat
  BY <1>1, CountFinite
<1> QED
  BY <1>2 DEF Calls

LEMMA Announce ==
  ASSUME TcpTypeInv, NEW e \in Tcp!Sockets \cup {Listener}, NEW s,
         indications' = Append(indications, e)
  PROVE  Count(indications', s) = Count(indications, s) + IF e = s THEN 1 ELSE 0
<1>1. indications \in Seq(Tcp!Sockets \cup {Listener})
  BY DEF TcpTypeInv, Tcp!TypeOK
<1>2. Count(Append(indications, e), s) = Count(indications, s) + IF e = s THEN 1 ELSE 0
  BY <1>1, CountAppend
<1> QED
  BY <1>2

LEMMA Deliver ==
  ASSUME TcpTypeInv, NEW e, Tcp!Deliver(e), NEW s
  PROVE  /\ step = "idle"
         /\ Count(indications', s) \in Nat
         /\ Count(indications, s) = Count(indications', s) + IF e = s THEN 1 ELSE 0
<1>1. indications \in Seq(Tcp!Sockets \cup {Listener}) /\ indications # <<>>
      /\ Head(indications) = e /\ indications' = Tail(indications) /\ step = "idle"
  BY DEF TcpTypeInv, Tcp!TypeOK, Tcp!Deliver
<1>2. Tail(indications) \in Seq(Tcp!Sockets \cup {Listener})
  BY <1>1
<1>3. Count(Tail(indications), s) \in Nat
  BY <1>2, CountFinite
<1>4. Count(indications, s) = Count(Tail(indications), s) + IF Head(indications) = s THEN 1 ELSE 0
  BY <1>1, CountTail
<1> QED
  BY <1>1, <1>3, <1>4

(* A step that leaves a socket's stream, and the calls for it, alone.      *)
LEMMA SameCover ==
  ASSUME NEW s, Covered(s), stream'[s] = stream[s], s \in fin' <=> s \in fin,
         Calls(s)' = Calls(s)
  PROVE  Covered(s)'
BY DEF Covered

(* A segment fits the call that is announced with it.                      *)
LEMMA SegmentCover ==
  ASSUME TcpTypeInv, CoverInv, NEW s \in Tcp!Sockets, Tcp!Segment(s)
  PROVE  CoverInv'
<1> USE DEF Tcp!stackVars, Tcp!callbackVars, Tcp!printVars, Tcp!auxVars
<1>1. s \in open /\ s \notin fin /\ sent' \in 1 .. Len(SegmentLen)
  BY DEF Tcp!Segment, TcpTypeInv
<1>2. SegmentLen[sent'] \in 1 .. BuffSize - 1
  BY <1>1, SegmentCells
<1>3. /\ stream \in [Tcp!Sockets -> Seq(Tcp!Segments)]
      /\ stream[s] \in Seq(Tcp!Segments) /\ Len(stream[s]) \in Nat
      /\ BuffSize - 1 \in Nat /\ open \subseteq Tcp!Sockets
  BY DEF TcpTypeInv, Tcp!TypeOK
<1>4. Len(stream'[s]) = Len(stream[s]) + SegmentLen[sent']
      /\ \A r \in Tcp!Sockets \ {s} : stream'[r] = stream[r]
  <2> DEFINE new == [i \in 1 .. SegmentLen[sent'] |-> sent']
  <2>1. new \in Seq(Tcp!Segments) /\ Len(new) = SegmentLen[sent']
    BY <1>1, SegmentCells
  <2>2. stream' = [stream EXCEPT ![s] = @ \o new]
    BY DEF Tcp!Segment
  <2> HIDE DEF new
  <2>3. stream'[s] = stream[s] \o new /\ \A r \in Tcp!Sockets \ {s} : stream'[r] = stream[r]
    BY <1>3, <2>2
  <2>4. \A q, r \in Seq(Tcp!Segments) : Len(q \o r) = Len(q) + Len(r)
    OBVIOUS
  <2> QED
    BY <1>3, <2>1, <2>3, <2>4
<1>5. UNCHANGED <<open, fin, step, taken, length, client, failures, overlapped>>
      /\ indications' = Append(indications, s)
  BY DEF Tcp!Segment
<1>6. Count(indications', s) = Count(indications, s) + 1 /\ Calls(s) \in Nat
      /\ Count(indications, s) \in Nat
  BY <1>5, Announce, Announced
<1>7. Calls(s)' = Calls(s) + 1
  BY <1>5, <1>6 DEF Calls
<1>8. ASSUME Covered(s)
      PROVE  Covered(s)'
  <2>1. Len(stream[s]) <= (BuffSize - 1) * Calls(s)
    BY <1>1, <1>8 DEF Covered
  <2>2. (BuffSize - 1) * (Calls(s) + 1) = (BuffSize - 1) * Calls(s) + (BuffSize - 1)
        /\ (BuffSize - 1) * Calls(s) \in Nat
    BY <1>3, <1>6, Product
  <2>3. Len(stream'[s]) <= (BuffSize - 1) * (Calls(s) + 1)
    BY <1>2, <1>3, <1>4, <2>1, <2>2
  <2> QED
    BY <1>1, <1>5, <1>7, <2>3 DEF Covered
<1>9. \A r \in Tcp!Sockets \ open' : stream'[r] = <<>>
  BY <1>1, <1>4, <1>5 DEF CoverInv
<1>10. ASSUME NEW r, Leaving(r)'
       PROVE  r \in fin' /\ stream'[r] = <<>>
  <2>1. Leaving(r)
    BY <1>5, <1>10 DEF Leaving
  <2>2. r \in fin /\ stream[r] = <<>> /\ r \in Tcp!Sockets
    BY <2>1 DEF CoverInv, TcpTypeInv, Tcp!TypeOK
  <2> QED
    BY <1>1, <1>4, <1>5, <2>2
<1>11. ASSUME failures' = 0, ~overlapped', NEW r \in open'
       PROVE  r = client' /\ (Covered(r)' \/ Leaving(r)')
  <2>1. r = client /\ s = client
    BY <1>1, <1>5, <1>11 DEF CoverInv
  <2>2. Covered(s)
    BY <1>1, <1>5, <1>11 DEF CoverInv
  <2>3. r = s /\ Covered(s)'
    BY <1>8, <2>1, <2>2
  <2> QED
    BY <1>5, <2>1, <2>3
<1> QED
  BY <1>9, <1>10, <1>11 DEF CoverInv

(* The end of the stream is announced by a call of its own.                *)
LEMMA FinishCover ==
  ASSUME TcpTypeInv, CoverInv, NEW s \in Tcp!Sockets, Tcp!Finish(s)
  PROVE  CoverInv'
<1> USE DEF Tcp!stackVars, Tcp!callbackVars, Tcp!printVars, Tcp!auxVars
<1>1. s \in open /\ s \notin fin /\ s \in fin'
  BY DEF Tcp!Finish
<1>2. UNCHANGED <<open, stream, step, taken, length, client, failures, overlapped>>
      /\ fin' = fin \cup {s}
      /\ indications' = Append(indications, s)
  BY DEF Tcp!Finish
<1>3. Count(indications', s) = Count(indications, s) + 1 /\ Calls(s) \in Nat
      /\ Count(indications, s) \in Nat
  BY <1>2, Announce, Announced
<1>c. Calls(s)' = Calls(s) + 1
  BY <1>2, <1>3 DEF Calls
<1>4. Calls(s)' = Calls(s) + 1 /\ Calls(s)' - 1 = Calls(s) /\ Calls(s)' >= 1
  BY ONLY <1>3, <1>c
<1>5. ASSUME Covered(s)
      PROVE  Covered(s)'
  BY <1>1, <1>2, <1>4, <1>5 DEF Covered
<1>6. \A r \in Tcp!Sockets \ open' : stream'[r] = <<>>
  BY <1>2 DEF CoverInv
<1>7. \A r : Leaving(r)' => r \in fin' /\ stream'[r] = <<>>
  BY <1>2 DEF CoverInv, Leaving
<1>8. ASSUME failures' = 0, ~overlapped', NEW r \in open'
      PROVE  r = client' /\ (Covered(r)' \/ Leaving(r)')
  <2>1. r = client /\ s = client
    BY <1>1, <1>2, <1>8 DEF CoverInv
  <2>2. Covered(s)
    BY <1>1, <1>2, <1>8 DEF CoverInv
  <2>3. r = s /\ Covered(s)'
    BY <1>5, <2>1, <2>2
  <2> QED
    BY <1>2, <2>1, <2>3
<1> QED
  BY <1>6, <1>7, <1>8 DEF CoverInv

(* A call of recv takes a buffer full, or all there is.                    *)
LEMMA RecvCover ==
  ASSUME TcpTypeInv, CoverInv, Tcp!Recv
  PROVE  CoverInv'
<1> USE DEF Tcp!stackVars, Tcp!callbackVars, Tcp!printVars, Tcp!auxVars
<1>1. /\ step = "receive" /\ step' = "received"
      /\ stream[client] # <<>> \/ client \in fin
      /\ UNCHANGED <<open, fin, indications, client, failures, overlapped>>
  BY DEF Tcp!Recv
<1>2. PICK s \in Tcp!Sockets : s = client
  BY RecvResult
<1>3. /\ s \in open
      /\ taken' \in 0 .. BuffSize - 1 /\ taken' <= Len(stream[s])
      /\ taken' = BuffSize - 1 \/ taken' = Len(stream[s])
      /\ \A r \in Tcp!Sockets \ {s} : stream'[r] = stream[r]
      /\ stream' \in [Tcp!Sockets -> Seq(Tcp!Segments)]
      /\ Len(stream'[s]) = Len(stream[s]) - taken'
  BY <1>2, RecvResult
<1>4. stream[s] \in Seq(Tcp!Segments) /\ stream'[s] \in Seq(Tcp!Segments)
      /\ Len(stream[s]) \in Nat /\ BuffSize - 1 \in Nat
  BY <1>3 DEF TcpTypeInv, Tcp!TypeOK
<1>5. Calls(s) = Calls(s)' + 1 /\ Calls(s)' \in Nat
  <2>1. Count(indications, s) \in Nat
    BY Announced
  <2> QED
    BY <1>1, <1>2, <2>1 DEF Calls
<1>6. Len(stream[s]) > 0 => BuffSize - 1 > 0
  <2> SUFFICES ASSUME Len(stream[s]) > 0
               PROVE  BuffSize - 1 > 0
    OBVIOUS
  <2>1. stream[s][1] \in Tcp!Segments
    BY <1>4
  <2>2. SegmentLen[stream[s][1]] \in 1 .. BuffSize - 1
    BY <2>1, SegmentCells DEF Tcp!Segments
  <2> QED
    BY <2>2
<1>7. ASSUME taken' = 0
      PROVE  s \in fin /\ stream'[s] = <<>>
  <2>1. Len(stream[s]) = 0
    BY <1>3, <1>4, <1>6, <1>7
  <2>2. stream[s] = <<>> /\ Len(stream'[s]) = 0
    BY <1>3, <1>4, <1>7, <2>1
  <2> QED
    BY <1>1, <1>2, <1>4, <2>2
<1>8. ASSUME Covered(s), taken' # 0
      PROVE  Covered(s)'
  <2> DEFINE K == BuffSize - 1
             c == Calls(s)'
  <2>1. K \in Nat /\ c \in Nat /\ Calls(s) = c + 1
    BY <1>4, <1>5
  <2>2. Len(stream[s]) > 0 /\ (taken' = K \/ Len(stream'[s]) = 0)
    BY <1>3, <1>4, <1>8
  <2>3. K * (c + 1) = K * c + K /\ K * c \in Nat /\ K * 0 = 0
    <3> HIDE DEF K, c
    <3> QED
      BY <2>1, Product
  <2>4. CASE s \notin fin
    <3>1. Len(stream[s]) <= K * (c + 1)
      BY <1>8, <2>1, <2>4 DEF Covered
    <3>2. Len(stream'[s]) <= K * c
      <4> HIDE DEF c
      <4> QED
        BY <1>3, <1>4, <2>1, <2>2, <2>3, <3>1
    <3> QED
      BY <1>1, <2>4, <3>2 DEF Covered
  <2>5. CASE s \in fin
    <3>1. Len(stream[s]) <= K * c
      <4>1. (c + 1) - 1 = c
        BY <2>1
      <4> QED
        BY <1>8, <2>1, <2>5, <4>1 DEF Covered
    <3>2. c # 0
      <4>1. Len(stream[s]) \in Nat /\ Len(stream[s]) > 0
        BY <1>4, <2>2
      <4> HIDE DEF K, c
      <4> QED
        BY <2>3, <3>1, <4>1
    <3>3. c >= 1 /\ c - 1 \in Nat /\ c = (c - 1) + 1
      <4> HIDE DEF c
      <4> QED
        BY <2>1, <3>2
    <3>4. K * c = K * (c - 1) + K /\ K * (c - 1) \in Nat
      <4> HIDE DEF K, c
      <4>1. K * ((c - 1) + 1) = K * (c - 1) + K /\ K * (c - 1) \in Nat
        BY <2>1, <3>3, Product
      <4> QED
        BY <3>3, <4>1
    <3>5. Len(stream'[s]) <= K * (c - 1)
      <4> HIDE DEF c
      <4> QED
        BY <1>3, <1>4, <2>1, <2>2, <3>1, <3>4
    <3> QED
      BY <1>1, <2>5, <3>3, <3>5 DEF Covered
  <2> QED
    BY <2>4, <2>5
<1>9. \A r \in Tcp!Sockets \ open' : stream'[r] = <<>>
  BY <1>1, <1>3 DEF CoverInv
<1>10. ASSUME NEW r, Leaving(r)'
       PROVE  r \in fin' /\ stream'[r] = <<>>
  <2>1. r = s /\ taken' = 0
    BY <1>1, <1>2, <1>10 DEF Leaving
  <2> QED
    BY <1>1, <1>7, <2>1
<1>11. ASSUME failures' = 0, ~overlapped', NEW r \in open'
       PROVE  r = client' /\ (Covered(r)' \/ Leaving(r)')
  <2>1. r = client /\ (Covered(r) \/ Leaving(r))
    BY <1>1, <1>11 DEF CoverInv
  <2>2. r = s /\ Covered(s)
    BY <1>1, <1>2, <2>1 DEF Leaving
  <2>3. CASE taken' = 0
    BY <1>1, <2>1, <2>3 DEF Leaving
  <2>4. CASE taken' # 0
    BY <1>1, <1>8, <2>1, <2>2, <2>4
  <2> QED
    BY <2>3, <2>4
<1> QED
  BY <1>9, <1>10, <1>11 DEF CoverInv

(* Any other delivery takes nothing that is for the client.                *)
LEMMA DeliverCover ==
  ASSUME TcpTypeInv, CoverInv,
         Tcp!Accept \/ Tcp!AcceptFails \/ Tcp!NotForTheServer \/ Tcp!CallRecv
  PROVE  CoverInv'
<1> USE DEF Tcp!stackVars, Tcp!callbackVars, Tcp!printVars, Tcp!auxVars
<1>1. step = "idle" /\ step' \in {"idle", "receive"} /\ UNCHANGED <<stream, fin>>
      /\ open \subseteq open' /\ Listener \notin Tcp!Sockets /\ open' \subseteq Tcp!Sockets
  BY DEF Tcp!Accept, Tcp!AcceptFails, Tcp!NotForTheServer, Tcp!CallRecv, Tcp!Deliver,
         TcpTypeInv, Tcp!TypeOK
<1>2. \A r \in Tcp!Sockets \ open' : stream'[r] = <<>>
  BY <1>1 DEF CoverInv
<1>3. \A r : ~Leaving(r) /\ ~Leaving(r)'
  BY <1>1 DEF Leaving
<1>4. ASSUME failures' = 0, ~overlapped', NEW r \in open'
      PROVE  r = client' /\ Covered(r)'
  <2>1. CASE Tcp!Accept
    <3>1. PICK s \in Tcp!Sockets \ open : open' = open \cup {s} /\ client' = s
      BY <2>1 DEF Tcp!Accept
    <3>2. open = {}
      BY <1>4, <2>1 DEF Tcp!Accept
    <3>3. r = client' /\ r \notin open /\ r \in Tcp!Sockets
      BY <1>4, <3>1, <3>2
    <3>4. stream'[r] = <<>> /\ r \notin fin'
      BY <1>1, <3>3 DEF CoverInv, TcpTypeInv, Tcp!TypeOK
    <3>5. Calls(r)' \in Nat
      <4>1. Count(indications', r) \in Nat
        BY <2>1, Deliver DEF Tcp!Accept
      <4> QED
        BY <4>1 DEF Calls
    <3>6. (BuffSize - 1) * Calls(r)' \in Nat /\ Len(<<>>) = 0
      BY <3>5, Product
    <3> QED
      BY <3>3, <3>4, <3>6 DEF Covered
  <2>2. CASE Tcp!AcceptFails
    <3>1. failures' > 0
      BY <2>2 DEF Tcp!AcceptFails, TcpTypeInv
    <3> QED
      BY <1>4, <3>1
  <2>3. CASE Tcp!NotForTheServer
    <3>1. UNCHANGED <<open, client, failures, overlapped, step>>
      BY <2>3 DEF Tcp!NotForTheServer
    <3>2. r = client /\ Covered(r)
      BY <1>3, <1>4, <3>1 DEF CoverInv
    <3>3. PICK e \in Tcp!Sockets : e # client /\ Tcp!Deliver(e)
      BY <2>3 DEF Tcp!NotForTheServer
    <3>4. Count(indications, r) = Count(indications', r) /\ Count(indications', r) \in Nat
      BY <3>2, <3>3, Deliver
    <3>5. Calls(r)' = Calls(r)
      BY <3>1, <3>4 DEF Calls
    <3> QED
      BY <1>1, <3>1, <3>2, <3>5, SameCover
  <2>4. CASE Tcp!CallRecv
    <3>1. UNCHANGED <<open, client, failures, overlapped>> /\ step' = "receive" /\ Tcp!Deliver(client)
      BY <2>4 DEF Tcp!CallRecv
    <3>2. r = client /\ Covered(r)
      BY <1>3, <1>4, <3>1 DEF CoverInv
    <3>3. Count(indications, r) = Count(indications', r) + 1 /\ Count(indications', r) \in Nat
      BY <3>1, <3>2, Deliver
    <3>4. Calls(r)' = Calls(r)
      BY <1>1, <3>1, <3>2, <3>3 DEF Calls
    <3> QED
      BY <1>1, <3>1, <3>2, <3>4, SameCover
  <2> QED
    BY <2>1, <2>2, <2>3, <2>4
<1> QED
  BY <1>2, <1>3, <1>4 DEF CoverInv

(* A socket is closed only after the end of its client.                    *)
LEMMA TakeCover ==
  ASSUME TcpTypeInv, CoverInv, Tcp!Take
  PROVE  CoverInv'
<1> USE DEF Tcp!stackVars, Tcp!callbackVars, Tcp!printVars, Tcp!auxVars
<1>1. /\ step = "stored" /\ step' = "idle"
      /\ UNCHANGED <<stream, indications, client, failures, overlapped>>
      /\ IF length = 0 THEN open' = open \ {client} /\ fin' = fin \ {client}
                      ELSE UNCHANGED <<open, fin>>
  BY DEF Tcp!Take
<1>2. \A r : ~Leaving(r)'
  BY <1>1 DEF Leaving
<1>3. ASSUME NEW r \in Tcp!Sockets \ open'
      PROVE  stream'[r] = <<>>
  <2>1. r \notin open \/ Leaving(r)
    BY <1>1 DEF Leaving
  <2> QED
    BY <1>1, <2>1 DEF CoverInv
<1>4. ASSUME failures' = 0, ~overlapped', NEW r \in open'
      PROVE  r = client' /\ Covered(r)'
  <2>1. r \in open /\ r = client /\ length # 0
    BY <1>1, <1>4 DEF CoverInv
  <2>2. Covered(r)
    BY <1>1, <1>4, <2>1 DEF CoverInv, Leaving
  <2>3. Calls(r)' = Calls(r) /\ UNCHANGED <<stream, fin>>
    BY <1>1, <2>1 DEF Calls
  <2> QED
    BY <1>1, <2>1, <2>2, <2>3, SameCover
<1> QED
  BY <1>2, <1>3, <1>4 DEF CoverInv

LEMMA NextCover == TcpTypeInv /\ CoverInv /\ [Tcp!Next]_tcpVars => CoverInv'
<1> SUFFICES ASSUME TcpTypeInv, CoverInv, [Tcp!Next]_tcpVars
             PROVE  CoverInv'
  OBVIOUS
<1> USE DEF Tcp!stackVars, Tcp!callbackVars, Tcp!printVars, Tcp!auxVars
<1>1. CASE Tcp!Connect
  <2>1. UNCHANGED <<open, stream, fin, step, taken, length, client, failures, overlapped>>
        /\ indications' = Append(indications, Listener)
    BY <1>1 DEF Tcp!Connect
  <2>2. \A r \in Tcp!Sockets : Count(indications', r) = Count(indications, r)
    <3> SUFFICES ASSUME NEW r \in Tcp!Sockets
                 PROVE  Count(indications', r) = Count(indications, r)
      OBVIOUS
    <3>1. Count(indications, r) \in Nat /\ Listener # r
      BY Announced
    <3>2. Count(indications', r) = Count(indications, r) + IF Listener = r THEN 1 ELSE 0
      BY <2>1, Announce
    <3> QED
      BY <3>1, <3>2
  <2>3. ASSUME NEW r \in open, Covered(r)
        PROVE  Covered(r)'
    <3>1. Calls(r)' = Calls(r)
      BY <2>1, <2>2 DEF Calls, TcpTypeInv, Tcp!TypeOK
    <3> QED
      BY <2>1, <2>3, <3>1, SameCover
  <2>4. \A r : Leaving(r)' <=> Leaving(r)
    BY <2>1 DEF Leaving
  <2> QED
    BY <2>1, <2>3, <2>4 DEF CoverInv
<1>2. ASSUME NEW s \in Tcp!Sockets, Tcp!Segment(s) \/ Tcp!Finish(s)
      PROVE  CoverInv'
  BY <1>2, SegmentCover, FinishCover
<1>3. CASE Tcp!Accept \/ Tcp!AcceptFails \/ Tcp!NotForTheServer \/ Tcp!CallRecv
  BY <1>3, DeliverCover
<1>4. CASE Tcp!Recv
  BY <1>4, RecvCover
<1>5. CASE Tcp!RecvFails
  <2>1. taken' # 0 /\ UNCHANGED <<open, stream, fin, client, overlapped>>
        /\ step = "receive" /\ step' = "received"
    BY <1>5 DEF Tcp!RecvFails
  <2>2. ASSUME failures' = 0, NEW r \in open
        PROVE  failures = 0 /\ r # client
    BY <1>5, <2>2 DEF Tcp!RecvFails, TcpTypeInv
  <2>3. \A r : ~Leaving(r)'
    BY <2>1 DEF Leaving
  <2> QED
    BY <2>1, <2>2, <2>3 DEF CoverInv
<1>6. CASE Tcp!Take
  BY <1>6, TakeCover
<1>9. CASE Tcp!StoreLength
  <2>1. /\ step = "received" /\ step' = "stored" /\ length' = taken
        /\ UNCHANGED <<open, stream, fin, indications, client, failures, overlapped>>
    BY <1>9 DEF Tcp!StoreLength
  <2>2. \A s : Leaving(s)' <=> Leaving(s)
    BY <2>1 DEF Leaving
  <2>3. \A s : Calls(s)' = Calls(s)
    BY <2>1 DEF Calls
  <2>4. \A s : Covered(s)' <=> Covered(s)
    BY <2>1, <2>3 DEF Covered
  <2> QED
    BY <2>1, <2>2, <2>4 DEF CoverInv
<1>7. CASE UNCHANGED <<open, stream, fin, indications, step, taken, length, client, failures,
                       overlapped>>
  <2>1. \A s : Leaving(s)' <=> Leaving(s)
    BY <1>7 DEF Leaving
  <2>2. \A s : Calls(s)' = Calls(s)
    BY <1>7 DEF Calls
  <2>3. \A s : Covered(s)' <=> Covered(s)
    BY <1>7, <2>2 DEF Covered
  <2> QED
    BY <1>7, <2>1, <2>3 DEF CoverInv
<1>8. CASE Tcp!Printer \/ UNCHANGED tcpVars
  BY <1>7, <1>8 DEF Tcp!Printer, Tcp!EndText, Tcp!PrintText, Tcp!Clear, tcpVars
<1> QED
  BY <1>1, <1>2, <1>3, <1>4, <1>5, <1>6, <1>8, <1>9 DEF Tcp!Next, Tcp!Client, Tcp!Callback

-----------------------------------------------------------------------------
LEMMA TcpInvariant == ServersSpec => [](TcpTypeInv /\ TextInv /\ CoverInv)
<1>1. ServersInit => TcpTypeInv /\ TextInv /\ CoverInv
  BY TcpInitType, InitText, InitCover DEF ServersInit
<1>2. TcpTypeInv /\ TextInv /\ CoverInv /\ [ServersNext]_allVars
        => (TcpTypeInv /\ TextInv /\ CoverInv)'
  BY TcpStep, TcpNextType, NextText, NextCover
<1> QED
  BY <1>1, <1>2, PTL DEF ServersSpec

(* A text is printed as it was received last, unless printing overlapped   *)
(* with receiving it.                                                      *)
THEOREM TextsAreWhole == ServersSpec => []TextIsWhole
<1>1. TextInv => TextIsWhole
  BY DEF TextInv, TextIsWhole, Tcp!TextIsWhole
<1> QED
  BY <1>1, TcpInvariant, PTL

(* What the client sent, its end included, is announced until it is taken. *)
THEOREM ClientIsFollowed == ServersSpec => []KeepsUpWithClient
<1>1. TcpTypeInv /\ CoverInv => KeepsUpWithClient
  <2> SUFFICES ASSUME TcpTypeInv, CoverInv, failures = 0, ~overlapped, NEW s \in open
               PROVE  /\ s = client
                      /\ stream[s] # <<>> \/ s \in fin =>
                           step # "idle" \/ \E i \in DOMAIN indications : indications[i] = s
    BY DEF KeepsUpWithClient, Tcp!KeepsUpWithClient, TcpTypeInv
  <2>1. s = client
    BY DEF CoverInv
  <2>2. ASSUME stream[s] # <<>> \/ s \in fin, step = "idle"
        PROVE  \E i \in DOMAIN indications : indications[i] = s
    <3>1. stream[s] \in Seq(Tcp!Segments) /\ indications \in Seq(Tcp!Sockets \cup {Listener})
      BY DEF TcpTypeInv, Tcp!TypeOK
    <3>2. Covered(s)
      BY <2>2 DEF CoverInv, Leaving
    <3>3. Count(indications, s) \in Nat
      BY Announced
    <3>4. Calls(s) = Count(indications, s)
      BY <2>2, <3>3 DEF Calls
    <3>5. Calls(s) # 0
      <4>1. CASE s \in fin
        BY <3>2, <3>3, <3>4, <4>1 DEF Covered
      <4>2. CASE s \notin fin
        <5>1. Len(stream[s]) > 0 /\ Len(stream[s]) <= (BuffSize - 1) * Calls(s)
          BY <2>2, <3>1, <3>2, <4>2 DEF Covered
        <5>2. (BuffSize - 1) * 0 = 0
          OBVIOUS
        <5> QED
          BY <5>1, <5>2
      <4> QED
        BY <4>1, <4>2
    <3>6. {i \in DOMAIN indications : indications[i] = s} # {}
      BY <3>4, <3>5, FS_EmptySet DEF Count
    <3> QED
      BY <3>6
  <2> QED
    BY <2>1, <2>2
<1> QED
  BY <1>1, TcpInvariant, PTL
=============================================================================
