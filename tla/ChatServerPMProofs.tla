------------------------ MODULE ChatServerPMProofs ------------------------
(***************************************************************************)
(* Proofs about ChatServerPM, for any number of connections, any names and *)
(* any size of the client array: the ranges of the shared state, the       *)
(* agreement of the array with the connections, whom a broadcast reaches   *)
(* and who receives a private message.                                     *)
(***************************************************************************)
EXTENDS ChatServerPM, FiniteSetTheorems, WellFoundedInduction, TLAPS

-----------------------------------------------------------------------------
(* The inductive invariant *)

(* A connection has a descriptor of its own from accept() to close().        *)
FdInv ==
  /\ \A c \in Conns : fd[c] = NoFd <=> pc[c] \in {"idle", "gone"}
  /\ \A c, d \in Conns : fd[c] = fd[d] /\ fd[c] # NoFd => c = d

(* Between accept() and pthread_create() main() serves that connection.      *)
MainInv ==
  /\ main \in {"add", "spawn"} => serving \in Conns /\ pc[serving] = "accepted"
  /\ \A c \in Conns : pc[c] = "accepted" => main \in {"add", "spawn"} /\ serving = c

TableInv == TypeOK /\ FdInv /\ MainInv /\ Registry

(* The control points at which a handler holds the mutex.                    *)
Holding == Sending \cup {"copy", "copy_again"}

MutexInv == \A c \in Conns : clients_mutex = c <=> pc[c] \in Holding

(* Whom the loop of broadcast() has come to: the owners of the slots before  *)
(* the one it is at.                                                         *)
Reached(c) == {d \in Registered \ {c} : \E j \in Slots : j < slot[c] /\ clients[j].fd = fd[d]}

LoopInv ==
  \A c \in Conns : IF pc[c] \in Sending THEN heard[c] = Reached(c)
                   ELSE slot[c] = 0 /\ heard[c] = {}

IInv == TableInv /\ MutexInv /\ LoopInv /\ PrivateStaysPrivate

(* The control points of a handler that is registered.                       *)
InChat == Labels \ {"idle", "accepted", "close", "gone"}

-----------------------------------------------------------------------------
(* The first slot, and the lowest descriptor *)

Below == {p \in Nat \X Nat : p[1] < p[2]}

LEMMA FirstIsLeast ==
  ASSUME NEW S \in SUBSET Nat, S # {}
  PROVE  First(S) \in S /\ \A y \in S : First(S) <= y
<1>1. IsWellFoundedOn(Below, Nat)
  BY NatLessThanWellFounded DEF OpToRel, Below
<1>2. PICK x \in S : \A y \in S : ~(<<y, x>> \in Below)
  BY <1>1, WFMin
<1>3. \A y \in S : ~(y < x)
  BY <1>2 DEF Below
<1>4. \E i \in S : \A j \in S : i <= j
  BY <1>3
<1> QED  BY <1>4 DEF First

LEMMA Numbers ==
  /\ Slots \subseteq Nat /\ Fds \subseteq Nat
  /\ NoFd \notin Fds /\ NoFd \notin Nat
  /\ Cardinality(Conns) \in Nat
  /\ Nobody \notin Conns
BY CSAssumption, FS_CardinalityType DEF Slots, Fds, NoFd

LEMMA FirstOfSlots ==
  ASSUME NEW S \in SUBSET Slots, S # {}
  PROVE  First(S) \in S /\ First(S) \in Slots
BY Numbers, FirstIsLeast

(* While a connection waits to be accepted there is a descriptor for it, and *)
(* it is nobody's.                                                           *)
LEMMA FreshDescriptor ==
  ASSUME TypeOK, FdInv, NEW c \in Conns, pc[c] = "idle"
  PROVE  /\ First(Fds \ OpenFds) \in Fds
         /\ \A d \in Conns : fd[d] # First(Fds \ OpenFds)
<1> DEFINE n == Cardinality(Conns)
           others == Conns \ {c}
           f == [d \in others |-> fd[d]]
           R == {fd[d] : d \in others}
<1>1. n \in Nat /\ IsFiniteSet(others) /\ Cardinality(others) = n - 1
  BY CSAssumption, Numbers, FS_RemoveElement
<1>2. f \in Surjection(others, R)
  BY DEF Surjection
<1>3. IsFiniteSet(R) /\ Cardinality(R) <= Cardinality(others) /\ Cardinality(R) \in Nat
  <2>1. IsFiniteSet(R) /\ Cardinality(R) <= Cardinality(others)
    <3> HIDE DEF others, R, f
    <3> QED  BY <1>1, <1>2, FS_Surjection
  <2> QED  BY <2>1, FS_CardinalityType
<1>4. OpenFds \subseteq R
  BY DEF FdInv, OpenFds
<1>5. IsFiniteSet(Fds) /\ Cardinality(Fds) = n
  BY <1>1, FS_Interval DEF Fds
<1>6. Fds \ OpenFds # {}
  <2> SUFFICES ASSUME Fds \subseteq OpenFds PROVE FALSE
    OBVIOUS
  <2>1. Cardinality(Fds) <= Cardinality(R)
    <3>1. Fds \in SUBSET R
      BY <1>4
    <3> HIDE DEF R
    <3> QED  BY <1>3, <3>1, FS_Subset
  <2> HIDE DEF n, others, R, f
  <2> QED  BY <1>1, <1>3, <1>5, <2>1
<1>7. First(Fds \ OpenFds) \in Fds \ OpenFds
  BY <1>6, Numbers, FirstIsLeast
<1> QED  BY <1>7, Numbers DEF OpenFds

-----------------------------------------------------------------------------
(* The array *)

(* A registered connection has a descriptor, and a slot of the array that no *)
(* other connection has.                                                     *)
LEMMA RegisteredFds ==
  ASSUME TypeOK, FdInv
  PROVE  /\ \A c \in Registered : c \in Conns /\ fd[c] \in Fds
         /\ \A c, d \in Registered : fd[c] = fd[d] => c = d
BY DEF TypeOK, FdInv, Registered

(* An active slot is that of a registered connection; any other slot is      *)
(* empty.                                                                    *)
LEMMA SlotOwners ==
  ASSUME TableInv, NEW i \in Slots
  PROVE  /\ clients[i].active => \E c \in Registered : clients[i].fd = fd[c]
         /\ ~clients[i].active => clients[i].fd = NoFd
<1>1. \/ \E c \in Registered : clients[i].fd = fd[c]
      \/ ~clients[i].active /\ clients[i].fd = NoFd
  BY DEF TableInv, Registry
<1>2. ASSUME NEW c \in Registered, clients[i].fd = fd[c] PROVE clients[i].active
  <2>1. PICK j \in Slots : SlotsWithFd(fd[c]) = {j} /\ clients[j].active
    BY DEF TableInv, Registry
  <2>2. i \in SlotsWithFd(fd[c])
    BY <1>2 DEF SlotsWithFd
  <2> QED  BY <2>1, <2>2
<1> QED  BY <1>1, <1>2

LEMMA OwnSlot ==
  ASSUME TableInv, NEW c \in Registered
  PROVE  /\ First(SlotsWithFd(fd[c])) \in Slots
         /\ SlotsWithFd(fd[c]) = {First(SlotsWithFd(fd[c]))}
         /\ clients[First(SlotsWithFd(fd[c]))].active
         /\ clients[First(SlotsWithFd(fd[c]))].fd = fd[c]
<1>1. PICK j \in Slots : SlotsWithFd(fd[c]) = {j} /\ clients[j].active
  BY DEF TableInv, Registry
<1>2. First(SlotsWithFd(fd[c])) = j
  BY <1>1, FirstOfSlots
<1>3. clients[j].fd = fd[c]
  BY <1>1 DEF SlotsWithFd
<1> QED  BY <1>1, <1>2, <1>3

(* What the array says of a slot, its username apart, and of a connection is *)
(* all that Registry looks at.                                               *)
LEMMA SameRegistry ==
  ASSUME Registry,
         \A i \in Slots : /\ clients'[i].fd = clients[i].fd
                          /\ clients'[i].active = clients[i].active,
         Registered' = Registered, \A c \in Registered : fd'[c] = fd[c]
  PROVE  Registry'
<1>1. \A c \in Registered : {i \in Slots : clients'[i].fd = fd'[c]} = SlotsWithFd(fd[c])
  BY DEF SlotsWithFd
<1>2. \A c \in Registered' : \E i \in Slots :
        {j \in Slots : clients'[j].fd = fd'[c]} = {i} /\ clients'[i].active
  BY <1>1 DEF Registry
<1>3. \A i \in Slots : \/ \E c \in Registered' : clients'[i].fd = fd'[c]
                       \/ ~clients'[i].active /\ clients'[i].fd = NoFd
  BY DEF Registry
<1> QED  BY <1>2, <1>3 DEF Registry, SlotsWithFd

LEMMA InvInit == Init => IInv
<1> SUFFICES ASSUME Init PROVE IInv
  OBVIOUS
<1>1. TypeOK
  BY Numbers, CSAssumption DEF Init, TypeOK, Labels, Names
<1>2. FdInv /\ MainInv
  BY DEF Init, FdInv, MainInv
<1>3. Registry
  <2>1. Registered = {}
    BY DEF Init, Registered
  <2> QED  BY <2>1 DEF Init, Registry
<1>4. MutexInv /\ LoopInv
  BY Numbers DEF Init, MutexInv, LoopInv, Holding, Sending
<1> QED  BY <1>1, <1>2, <1>3, <1>4 DEF Init, IInv, TableInv, PrivateStaysPrivate

(* The array and the registered connections stay as they are.                *)
Unmoved ==
  clients' = clients /\ Registered' = Registered /\ \A d \in Registered : fd'[d] = fd[d]

-----------------------------------------------------------------------------
(* The steps of main() *)

LEMMA AcceptStep ==
  ASSUME TableInv, NEW c \in Conns, Accept(c)
  PROVE  TableInv' /\ Unmoved
<1> DEFINE f == First(Fds \ OpenFds)
<1>1. TypeOK /\ FdInv /\ MainInv /\ Registry
  BY DEF TableInv
<1>2. /\ main = "accept" /\ pc[c] = "idle" /\ pc' = [pc EXCEPT ![c] = "accepted"]
      /\ fd' = [fd EXCEPT ![c] = f] /\ main' = "add" /\ serving' = c /\ sent' = {}
      /\ UNCHANGED <<clients, clients_mutex, name_buf, buffer, text, slot, heard>>
  BY DEF Accept, At, Goto, Silent, loop
<1>3. f \in Fds /\ \A d \in Conns : fd[d] # f
  BY <1>1, <1>2, FreshDescriptor
<1> HIDE DEF f
<1>4. TypeOK'
  BY <1>1, <1>2, <1>3 DEF TypeOK, Labels
<1>5. FdInv'
  BY <1>1, <1>2, <1>3, Numbers DEF TypeOK, FdInv
<1>6. MainInv'
  BY <1>1, <1>2 DEF TypeOK, MainInv
<1>7. Registered' = Registered /\ \A d \in Registered : fd'[d] = fd[d]
  BY <1>1, <1>2 DEF TypeOK, MainInv, Registered
<1>8. Registry'
  BY <1>1, <1>2, <1>7, SameRegistry
<1> QED  BY <1>2, <1>4, <1>5, <1>6, <1>7, <1>8 DEF TableInv, Unmoved

LEMMA AddStep ==
  ASSUME TableInv, NEW c \in Conns, add_client(c)
  PROVE  TableInv'
<1> DEFINE i == First(FreeSlots)
           new == [fd |-> fd[c], active |-> TRUE, username |-> NoName]
<1>1. TypeOK /\ FdInv /\ MainInv /\ Registry
  BY DEF TableInv
<1>2. /\ main = "add" /\ serving = c /\ FreeSlots # {}
      /\ clients' = [clients EXCEPT ![i] = new] /\ main' = "spawn" /\ sent' = {}
      /\ UNCHANGED <<clients_mutex, name_buf, fd, buffer, text, slot, heard, pc, serving>>
  BY DEF add_client, Silent, locals, loop
<1>3. i \in Slots /\ ~clients[i].active
  BY <1>2, FirstOfSlots DEF FreeSlots
<1>4. pc[c] = "accepted" /\ fd[c] \in Fds
  BY <1>1, <1>2 DEF TypeOK, MainInv, FdInv
<1>5. /\ new \in [fd : Fds \cup {NoFd}, active : BOOLEAN, username : Usernames \cup {NoName}]
      /\ new.fd = fd[c] /\ new.active = TRUE
  BY <1>4
<1> HIDE DEF i, new
<1>6. \A j \in Slots : clients'[j] = IF j = i THEN new ELSE clients[j]
  BY <1>1, <1>2, <1>3 DEF TypeOK
<1>7. TypeOK'
  BY <1>1, <1>2, <1>3, <1>5 DEF TypeOK
<1>8. FdInv' /\ MainInv'
  BY <1>1, <1>2, <1>4 DEF FdInv, MainInv
<1>9. Registered' = Registered \cup {c} /\ c \notin Registered
  BY <1>1, <1>2, <1>4 DEF MainInv, Registered
<1>10. \A d \in Registered : d \in Conns /\ fd[d] \in Fds /\ fd[d] # fd[c]
  BY <1>1, <1>4, <1>9, RegisteredFds, Numbers DEF FdInv
<1>11. \A j \in Slots : clients[j].fd # fd[c]
  <2> SUFFICES ASSUME NEW j \in Slots, clients[j].fd = fd[c] PROVE FALSE
    OBVIOUS
  <2>1. clients[j].fd = NoFd \/ \E d \in Registered : clients[j].fd = fd[d]
    BY <1>1 DEF Registry
  <2> QED  BY <1>4, <1>10, <2>1, Numbers
<1>12. clients[i].fd = NoFd
  BY <1>3, SlotOwners
<1>13. \A d \in Registered' : \E j \in Slots :
         {k \in Slots : clients'[k].fd = fd[d]} = {j} /\ clients'[j].active
  <2> SUFFICES ASSUME NEW d \in Registered'
               PROVE  \E j \in Slots :
                 {k \in Slots : clients'[k].fd = fd[d]} = {j} /\ clients'[j].active
    OBVIOUS
  <2>1. CASE d = c
    <3>1. {k \in Slots : clients'[k].fd = fd[c]} = {i}
      BY <1>3, <1>5, <1>6, <1>11
    <3> QED  BY <1>3, <1>5, <1>6, <2>1, <3>1
  <2>2. CASE d # c
    <3>1. d \in Registered
      BY <1>9, <2>2
    <3>2. PICK j \in Slots : SlotsWithFd(fd[d]) = {j} /\ clients[j].active
      BY <1>1, <3>1 DEF Registry
    <3>3. j # i
      BY <1>3, <3>2
    <3>4. {k \in Slots : clients'[k].fd = fd[d]} = {j}
      BY <1>5, <1>6, <1>10, <1>12, <3>1, <3>2, Numbers DEF SlotsWithFd
    <3> QED  BY <1>6, <3>2, <3>3, <3>4
  <2> QED  BY <2>1, <2>2
<1>14. \A j \in Slots : \/ \E d \in Registered' : clients'[j].fd = fd[d]
                        \/ ~clients'[j].active /\ clients'[j].fd = NoFd
  BY <1>1, <1>5, <1>6, <1>9 DEF Registry
<1>15. Registry'
  BY <1>2, <1>13, <1>14 DEF Registry, SlotsWithFd
<1> QED  BY <1>7, <1>8, <1>15 DEF TableInv

LEMMA ServerFullStep ==
  ASSUME TableInv, NEW c \in Conns, ServerFull(c)
  PROVE  TableInv' /\ Unmoved
<1>1. TypeOK /\ FdInv /\ MainInv /\ Registry
  BY DEF TableInv
<1>2. /\ main = "add" /\ serving = c /\ pc' = [pc EXCEPT ![c] = "gone"]
      /\ fd' = [fd EXCEPT ![c] = NoFd] /\ main' = "accept" /\ sent' = {}
      /\ UNCHANGED <<clients, clients_mutex, name_buf, buffer, text, slot, heard, serving>>
  BY DEF ServerFull, Silent, Goto, loop
<1>3. pc[c] = "accepted"
  BY <1>1, <1>2 DEF MainInv
<1>4. TypeOK'
  BY <1>1, <1>2 DEF TypeOK, Labels
<1>5. FdInv'
  BY <1>1, <1>2 DEF TypeOK, FdInv
<1>6. MainInv'
  BY <1>1, <1>2 DEF TypeOK, MainInv
<1>7. Registered' = Registered /\ \A d \in Registered : fd'[d] = fd[d]
  BY <1>1, <1>2, <1>3 DEF TypeOK, MainInv, Registered
<1>8. Registry'
  BY <1>1, <1>2, <1>7, SameRegistry
<1> QED  BY <1>2, <1>4, <1>5, <1>6, <1>7, <1>8 DEF TableInv, Unmoved

LEMMA SpawnStep ==
  ASSUME TableInv, NEW c \in Conns, Spawn(c) \/ SpawnFails(c)
  PROVE  TableInv' /\ Unmoved
<1>1. TypeOK /\ FdInv /\ MainInv /\ Registry
  BY DEF TableInv
<1>2. PICK l \in {"name", "remove"} :
        /\ main = "spawn" /\ serving = c /\ pc' = [pc EXCEPT ![c] = l]
        /\ main' \in {"accept", "unwind"} /\ sent' = {}
        /\ UNCHANGED <<clients, clients_mutex, name_buf, fd, buffer, text, slot, heard, serving>>
  BY DEF Spawn, SpawnFails, Silent, Goto, loop
<1>3. pc[c] = "accepted"
  BY <1>1, <1>2 DEF MainInv
<1>4. TypeOK'
  BY <1>1, <1>2 DEF TypeOK, Labels
<1>5. FdInv'
  BY <1>1, <1>2, <1>3 DEF TypeOK, FdInv
<1>6. MainInv'
  BY <1>1, <1>2 DEF TypeOK, MainInv
<1>7. Registered' = Registered
  BY <1>1, <1>2, <1>3 DEF TypeOK, MainInv, Registered
<1>8. Registry'
  BY <1>1, <1>2, <1>7, SameRegistry
<1> QED  BY <1>2, <1>4, <1>5, <1>6, <1>7, <1>8 DEF TableInv, Unmoved

LEMMA UnwoundStep ==
  ASSUME TableInv, Unwound
  PROVE  TableInv' /\ Unmoved
<1>1. TypeOK /\ FdInv /\ MainInv /\ Registry
  BY DEF TableInv
<1>2. /\ main = "unwind" /\ main' = "accept" /\ sent' = {}
      /\ UNCHANGED <<clients, clients_mutex, name_buf, fd, buffer, text, slot, heard, pc, serving>>
  BY DEF Unwound, Silent, locals, loop
<1>3. TypeOK' /\ FdInv' /\ MainInv'
  BY <1>1, <1>2 DEF TypeOK, FdInv, MainInv
<1>4. Registered' = Registered
  BY <1>1, <1>2 DEF MainInv, Registered
<1>5. Registry'
  BY <1>1, <1>2, <1>4, SameRegistry
<1> QED  BY <1>2, <1>3, <1>4, <1>5 DEF TableInv, Unmoved

-----------------------------------------------------------------------------
(* The steps of a handler *)

(* A step from one registered control point to another that leaves the       *)
(* descriptors, and the array but for user names, alone.                     *)
LEMMA StaysRegistered ==
  ASSUME TableInv, NEW c \in Conns, NEW l \in InChat,
         pc[c] \in InChat, pc' = [pc EXCEPT ![c] = l],
         UNCHANGED <<fd, main, serving>>,
         \A i \in Slots : /\ clients'[i].fd = clients[i].fd
                          /\ clients'[i].active = clients[i].active
  PROVE  FdInv' /\ MainInv' /\ Registry' /\ Registered' = Registered /\ c \in Registered
<1>1. TypeOK /\ FdInv /\ MainInv /\ Registry
  BY DEF TableInv
<1>2. FdInv'
  BY <1>1 DEF TypeOK, FdInv, InChat
<1>3. MainInv'
  BY <1>1 DEF TypeOK, MainInv, InChat
<1>4. Registered' = Registered /\ c \in Registered
  BY <1>1 DEF TypeOK, Registered, InChat
<1>5. Registry'
  BY <1>1, <1>4, SameRegistry
<1> QED  BY <1>2, <1>3, <1>4, <1>5

(* A registered handler has a descriptor.                                    *)
LEMMA HandlerFd ==
  ASSUME TypeOK, FdInv, NEW c \in Conns, pc[c] \in InChat
  PROVE  fd[c] \in Fds
BY DEF TypeOK, FdInv, InChat

(* Whoever a broadcast or a private message is sent to has a descriptor.     *)
LEMMA ActiveFds ==
  ASSUME TableInv, NEW i \in Slots, clients[i].active
  PROVE  clients[i].fd \in Fds /\ clients[i].username \in Usernames \cup {NoName}
<1>1. \E c \in Registered : clients[i].fd = fd[c]
  BY SlotOwners
<1>2. clients[i].fd \in Fds
  BY <1>1, RegisteredFds DEF TableInv
<1>3. clients[i].username \in Usernames \cup {NoName}
  BY DEF TableInv, TypeOK
<1> QED  BY <1>2, <1>3

Lines == [to : Fds, as : Names, by : Conns,
          kind : {"joined", "message", "left", "pm", "confirm", "not found", "user"}]

(* The name get_username() returns is one of those a buffer may hold.        *)
LEMMA NameIsName ==
  ASSUME TypeOK, NEW c \in Conns
  PROVE  Name(c) \in Names
<1>1. CASE SlotsWithFd(fd[c]) = {}
  BY <1>1 DEF Name, Names
<1>2. CASE SlotsWithFd(fd[c]) # {}
  <2>1. First(SlotsWithFd(fd[c])) \in Slots
    BY <1>2, FirstOfSlots DEF SlotsWithFd
  <2>2. clients[First(SlotsWithFd(fd[c]))].username \in Usernames \cup {NoName}
    BY <2>1 DEF TypeOK
  <2> QED  BY <1>2, <2>2 DEF Name, Names
<1> QED  BY <1>1, <1>2

(* Every step of a handler between pthread_create() and remove_client() but  *)
(* set_username(): it leaves the array and the descriptors alone.            *)
Talk(c) ==
  \/ \E u \in Usernames : RecvName(c, u) \/ RecvPrivate(c, u)
  \/ NoUsername(c) \/ username_exists(c) \/ get_username(c) \/ Copied(c) \/ Format(c)
  \/ BroadcastLock(c) \/ BroadcastSend(c) \/ BroadcastUnlock(c)
  \/ send_private(c) \/ send_user_list(c) \/ HangUp(c)

LEMMA TalkFrame ==
  ASSUME TypeOK, NEW c \in Conns, Talk(c)
  PROVE  /\ UNCHANGED <<clients, fd, main, serving>>
         /\ pc[c] \in InChat /\ \E l \in InChat : pc' = [pc EXCEPT ![c] = l]
<1> USE DEF At, Locked, Goto, InChat, Labels
<1>1. CASE \E u \in Usernames : RecvName(c, u) \/ RecvPrivate(c, u)
  BY <1>1 DEF RecvName, RecvPrivate
<1>2. CASE NoUsername(c)
  BY <1>2 DEF NoUsername
<1>3. CASE username_exists(c)
  <2> DEFINE l == IF SlotsNamed(buffer[c]) # {} THEN "remove" ELSE "set"
  <2>1. pc[c] = "check" /\ pc' = [pc EXCEPT ![c] = l] /\ UNCHANGED <<clients, fd, main, serving>>
    BY <1>3 DEF username_exists
  <2>2. l \in {"remove", "set"}
    OBVIOUS
  <2> HIDE DEF l
  <2> QED  BY <2>1, <2>2
<1>4. CASE get_username(c)
  BY <1>4 DEF get_username
<1>5. CASE Copied(c)
  BY <1>5 DEF Copied
<1>6. CASE Format(c)
  BY <1>6 DEF Format
<1>7. CASE BroadcastLock(c) \/ BroadcastSend(c) \/ BroadcastUnlock(c)
  <2>1. CASE BroadcastLock(c)
    BY <2>1 DEF BroadcastLock, BroadcastCall, Sending
  <2>2. CASE BroadcastSend(c)
    <3>1. pc' = [pc EXCEPT ![c] = pc[c]]
      BY <2>2 DEF BroadcastSend, TypeOK
    <3> QED  BY <2>2, <3>1 DEF BroadcastSend, Sending
  <2>3. CASE BroadcastUnlock(c)
    <3>1. Return[pc[c]] \in InChat /\ pc[c] \in InChat
      BY <2>3 DEF BroadcastUnlock, Return, Sending
    <3> QED  BY <2>3, <3>1 DEF BroadcastUnlock
  <2> QED  BY <1>7, <2>1, <2>2, <2>3
<1>8. CASE send_private(c)
  BY <1>8 DEF send_private
<1>9. CASE send_user_list(c)
  BY <1>9 DEF send_user_list
<1>10. CASE HangUp(c)
  BY <1>10 DEF HangUp
<1> QED
  BY <1>1, <1>2, <1>3, <1>4, <1>5, <1>6, <1>7, <1>8, <1>9, <1>10 DEF Talk

(* A line is a descriptor, one of the seven kinds, a name and a client.      *)
LEMMA LineType ==
  ASSUME NEW a \in Fds, NEW b \in Names, NEW d \in Conns,
         NEW k \in {"joined", "message", "left", "pm", "confirm", "not found", "user"}
  PROVE  [to |-> a, kind |-> k, as |-> b, by |-> d] \in Lines
BY DEF Lines

(* The lines a step of a handler sends go to descriptors, in some name.      *)
LEMMA TalkLines ==
  ASSUME TableInv, NEW c \in Conns, Talk(c)
  PROVE  sent' \subseteq Lines
<1>1. /\ TypeOK /\ text \in [Conns -> Names] /\ name_buf \in Names
      /\ buffer \in [Conns -> Usernames \cup {NoName}]
  BY DEF TableInv, TypeOK
<1>2. fd[c] \in Fds
  BY TalkFrame, HandlerFd DEF TableInv
<1>3. CASE BroadcastSend(c)
  <2> DEFINE client == clients[slot[c]]
  <2>1. \/ sent' = {}
        \/ /\ client.active
           /\ sent' = {[to |-> client.fd, kind |-> Kind[pc[c]], as |-> text[c], by |-> c]}
    BY <1>3 DEF BroadcastSend, Silent
  <2>2. slot[c] \in Slots
    <3>1. slot[c] \in 0 .. MAX_CLIENTS /\ slot[c] < MAX_CLIENTS
      BY <1>1, <1>3 DEF BroadcastSend, TypeOK
    <3> QED  BY <3>1, CSAssumption DEF Slots
  <2>3. client.active => client.fd \in Fds
    BY <2>2, ActiveFds
  <2>4. Kind[pc[c]] \in {"joined", "message", "left"} /\ text[c] \in Names
    BY <1>1, <1>3 DEF BroadcastSend, Kind, Sending
  <2> HIDE DEF client
  <2>5. client.active =>
          [to |-> client.fd, kind |-> Kind[pc[c]], as |-> text[c], by |-> c] \in Lines
    BY <2>3, <2>4, LineType
  <2> QED  BY <2>1, <2>5
<1>5. CASE send_private(c)
  <2> DEFINE S == SlotsNamed(buffer[c])
  <2>1. buffer[c] \in Names /\ name_buf \in Names
    BY <1>1 DEF Names
  <2>2. S # {} => First(S) \in S
    BY FirstOfSlots DEF SlotsNamed
  <2>3. S # {} => clients[First(S)].fd \in Fds
    BY <2>2, ActiveFds DEF SlotsNamed
  <2>4. sent' = IF S = {}
                THEN {[to |-> fd[c], kind |-> "not found", as |-> buffer[c], by |-> c]}
                ELSE {[to |-> clients[First(S)].fd, kind |-> "pm", as |-> name_buf, by |-> c],
                      [to |-> fd[c], kind |-> "confirm", as |-> buffer[c], by |-> c]}
    BY <1>5 DEF send_private
  <2> HIDE DEF S
  <2>5. /\ [to |-> fd[c], kind |-> "not found", as |-> buffer[c], by |-> c] \in Lines
        /\ [to |-> fd[c], kind |-> "confirm", as |-> buffer[c], by |-> c] \in Lines
    BY <1>2, <2>1, LineType
  <2>6. S # {} => [to |-> clients[First(S)].fd, kind |-> "pm", as |-> name_buf, by |-> c] \in Lines
    BY <2>1, <2>3, LineType
  <2> QED  BY <2>4, <2>5, <2>6
<1>6. CASE send_user_list(c)
  <2>1. sent' = {[to |-> fd[c], kind |-> "user", as |-> clients[i].username, by |-> c] :
                   i \in {j \in Slots : clients[j].active /\ clients[j].username # NoName}}
    BY <1>6 DEF send_user_list
  <2>2. \A i \in Slots : clients[i].active => clients[i].username \in Names
    BY ActiveFds DEF Names
  <2>3. \A i \in Slots : clients[i].active /\ clients[i].username # NoName =>
          [to |-> fd[c], kind |-> "user", as |-> clients[i].username, by |-> c] \in Lines
    BY <1>2, <2>2, LineType
  <2> QED  BY <2>1, <2>3
<1>7. sent' = {} \/ BroadcastSend(c) \/ send_private(c) \/ send_user_list(c)
  BY DEF Talk, RecvName, RecvPrivate, NoUsername, username_exists, get_username, Copied,
         Format, BroadcastLock, BroadcastUnlock, HangUp, Silent
<1> QED  BY <1>3, <1>5, <1>6, <1>7

LEMMA TalkStep ==
  ASSUME TableInv, NEW c \in Conns, Talk(c)
  PROVE  TableInv' /\ Unmoved /\ c \in Registered
<1>1. PICK l \in InChat :
        /\ pc[c] \in InChat /\ pc' = [pc EXCEPT ![c] = l]
        /\ UNCHANGED <<clients, fd, main, serving>>
  BY TalkFrame DEF TableInv
<1>2. FdInv' /\ MainInv' /\ Registry' /\ Registered' = Registered /\ c \in Registered
  BY <1>1, StaysRegistered
<1>3. sent' \subseteq Lines
  BY TalkLines
<1>4. clients_mutex' \in Conns \cup {Nobody}
  BY DEF Talk, RecvName, RecvPrivate, NoUsername, username_exists, get_username, Copied,
         Format, BroadcastLock, BroadcastSend, BroadcastUnlock, send_private,
         send_user_list, HangUp, Locked, TableInv, TypeOK
<1>5. name_buf' \in Names
  <2>1. name_buf \in Names /\ Torn \in Names /\ Name(c) \in Names
    BY NameIsName DEF TableInv, TypeOK, Names
  <2> QED
    BY <2>1
    DEF Talk, RecvName, RecvPrivate, NoUsername, username_exists, get_username, Copied,
        Format, BroadcastLock, BroadcastSend, BroadcastUnlock, send_private,
         send_user_list, HangUp
<1>6. buffer' \in [Conns -> Usernames \cup {NoName}]
  <2>1. buffer \in [Conns -> Usernames \cup {NoName}]
    BY DEF TableInv, TypeOK
  <2>2. buffer' = buffer \/ \E u \in Usernames : buffer' = [buffer EXCEPT ![c] = u]
    BY DEF Talk, RecvName, RecvPrivate, NoUsername, username_exists, get_username, Copied,
           Format, BroadcastLock, BroadcastSend, BroadcastUnlock, send_private,
         send_user_list, HangUp
  <2> QED  BY <2>1, <2>2
<1>7. text' \in [Conns -> Names]
  <2>1. text \in [Conns -> Names] /\ name_buf \in Names
    BY DEF TableInv, TypeOK
  <2>2. text' = text \/ text' = [text EXCEPT ![c] = name_buf]
    BY DEF Talk, RecvName, RecvPrivate, NoUsername, username_exists, get_username, Copied,
           Format, BroadcastLock, BroadcastSend, BroadcastUnlock, send_private,
         send_user_list, HangUp
  <2> QED  BY <2>1, <2>2
<1>8. slot' \in [Conns -> 0 .. MAX_CLIENTS] /\ heard' \in [Conns -> SUBSET (Conns \cup {Nobody})]
  <2>1. /\ slot \in [Conns -> 0 .. MAX_CLIENTS]
        /\ heard \in [Conns -> SUBSET (Conns \cup {Nobody})]
    BY DEF TableInv, TypeOK
  <2>2. \A f : Receiver(f) \in Conns \cup {Nobody}
    BY DEF Receiver, OpenFds
  <2>3. CASE BroadcastSend(c)
    <3>1. heard' = heard \/ \E f : heard' = [heard EXCEPT ![c] = @ \cup {Receiver(f)}]
      BY <2>3 DEF BroadcastSend
    <3>2. slot' = [slot EXCEPT ![c] = @ + 1] /\ slot[c] < MAX_CLIENTS
      BY <2>3 DEF BroadcastSend
    <3>3. slot' \in [Conns -> 0 .. MAX_CLIENTS]
      BY <2>1, <3>2, CSAssumption
    <3>4. heard' \in [Conns -> SUBSET (Conns \cup {Nobody})]
      BY <2>1, <2>2, <3>1
    <3> QED  BY <3>3, <3>4
  <2>4. CASE BroadcastUnlock(c)
    BY <2>1, <2>4, CSAssumption DEF BroadcastUnlock
  <2>5. CASE UNCHANGED loop
    BY <2>1, <2>5 DEF loop
  <2>6. BroadcastSend(c) \/ BroadcastUnlock(c) \/ UNCHANGED loop
    BY DEF Talk, RecvName, RecvPrivate, NoUsername, username_exists, get_username, Copied,
           Format, BroadcastLock, send_private, send_user_list, HangUp
  <2> QED  BY <2>3, <2>4, <2>5, <2>6
<1>9. TypeOK'
  BY <1>1, <1>3, <1>4, <1>5, <1>6, <1>7, <1>8 DEF TableInv, TypeOK, Lines, InChat
<1> QED  BY <1>1, <1>2, <1>9 DEF TableInv, Unmoved

LEMMA SetUsernameStep ==
  ASSUME TableInv, NEW c \in Conns, set_username(c)
  PROVE  TableInv'
<1>1. TypeOK /\ FdInv /\ MainInv /\ Registry
  BY DEF TableInv
<1>2. /\ pc[c] = "set" /\ pc' = [pc EXCEPT ![c] = "get"] /\ sent' = {}
      /\ UNCHANGED <<clients_mutex, name_buf, fd, buffer, text, slot, heard, main, serving>>
  BY DEF set_username, Locked, At, Goto, Silent, loop
<1> DEFINE i == First(SlotsWithFd(fd[c]))
<1>3. c \in Registered
  BY <1>2 DEF Registered
<1>4. i \in Slots /\ SlotsWithFd(fd[c]) = {i}
  BY <1>3, OwnSlot
<1>5. clients' = [clients EXCEPT ![i].username = buffer[c]]
  BY <1>4 DEF set_username
<1> HIDE DEF i
<1>6. buffer[c] \in Usernames \cup {NoName}
  BY <1>1 DEF TypeOK
<1>7. /\ clients' \in [Slots -> [fd : Fds \cup {NoFd}, active : BOOLEAN,
                                 username : Usernames \cup {NoName}]]
      /\ \A j \in Slots : /\ clients'[j].fd = clients[j].fd
                          /\ clients'[j].active = clients[j].active
  BY <1>1, <1>4, <1>5, <1>6 DEF TypeOK
<1>8. "get" \in InChat /\ "set" \in InChat
  BY DEF InChat, Labels
<1>9. FdInv' /\ MainInv' /\ Registry'
  BY <1>2, <1>7, <1>8, StaysRegistered
<1>10. TypeOK'
  BY <1>1, <1>2, <1>7, <1>8 DEF TypeOK, InChat
<1> QED  BY <1>9, <1>10 DEF TableInv

LEMMA RemoveStep ==
  ASSUME TableInv, NEW c \in Conns, remove_client(c)
  PROVE  TableInv'
<1>1. TypeOK /\ FdInv /\ MainInv /\ Registry
  BY DEF TableInv
<1>2. /\ pc[c] = "remove" /\ pc' = [pc EXCEPT ![c] = "close"] /\ sent' = {}
      /\ UNCHANGED <<clients_mutex, name_buf, fd, buffer, text, slot, heard, main, serving>>
  BY DEF remove_client, Locked, At, Goto, Silent, loop
<1> DEFINE i == First(SlotsWithFd(fd[c]))
           empty == [fd |-> NoFd, active |-> FALSE, username |-> NoName]
<1>3. c \in Registered
  BY <1>2 DEF Registered
<1>4. i \in Slots /\ SlotsWithFd(fd[c]) = {i} /\ clients[i].fd = fd[c]
  BY <1>3, OwnSlot
<1>5. clients' = [clients EXCEPT ![i] = empty]
  BY <1>4 DEF remove_client
<1>6. /\ empty \in [fd : Fds \cup {NoFd}, active : BOOLEAN, username : Usernames \cup {NoName}]
      /\ empty.fd = NoFd /\ empty.active = FALSE
  OBVIOUS
<1> HIDE DEF i, empty
<1>7. \A j \in Slots : clients'[j] = IF j = i THEN empty ELSE clients[j]
  BY <1>1, <1>4, <1>5 DEF TypeOK
<1>8. TypeOK'
  BY <1>1, <1>2, <1>4, <1>5, <1>6 DEF TypeOK, Labels
<1>9. FdInv' /\ MainInv'
  BY <1>1, <1>2 DEF TypeOK, FdInv, MainInv
<1>10. Registered' = Registered \ {c}
  BY <1>1, <1>2 DEF TypeOK, Registered
<1>11. \A d \in Registered : fd[d] \in Fds /\ (d # c => fd[d] # fd[c])
  BY <1>1, <1>3, RegisteredFds
<1>12. \A d \in Registered' : \E j \in Slots :
         {k \in Slots : clients'[k].fd = fd[d]} = {j} /\ clients'[j].active
  <2> SUFFICES ASSUME NEW d \in Registered'
               PROVE  \E j \in Slots :
                 {k \in Slots : clients'[k].fd = fd[d]} = {j} /\ clients'[j].active
    OBVIOUS
  <2>1. d \in Registered /\ d # c
    BY <1>10
  <2>2. PICK j \in Slots : SlotsWithFd(fd[d]) = {j} /\ clients[j].active
    BY <1>1, <2>1 DEF Registry
  <2>3. j # i
    BY <1>4, <1>11, <2>1, <2>2 DEF SlotsWithFd
  <2>4. {k \in Slots : clients'[k].fd = fd[d]} = {j}
    BY <1>6, <1>7, <1>11, <2>1, <2>2, <2>3, Numbers DEF SlotsWithFd
  <2> QED  BY <1>7, <2>2, <2>3, <2>4
<1>13. \A j \in Slots : \/ \E d \in Registered' : clients'[j].fd = fd[d]
                        \/ ~clients'[j].active /\ clients'[j].fd = NoFd
  <2> SUFFICES ASSUME NEW j \in Slots, j # i
               PROVE  \/ \E d \in Registered' : clients'[j].fd = fd[d]
                      \/ ~clients'[j].active /\ clients'[j].fd = NoFd
    BY <1>6, <1>7
  <2>1. clients'[j] = clients[j]
    BY <1>7
  <2>2. clients[j].fd # fd[c]
    BY <1>4 DEF SlotsWithFd
  <2> QED  BY <1>1, <1>10, <2>1, <2>2 DEF Registry
<1>14. Registry'
  BY <1>2, <1>12, <1>13 DEF Registry, SlotsWithFd
<1> QED  BY <1>8, <1>9, <1>14 DEF TableInv

LEMMA CloseStep ==
  ASSUME TableInv, NEW c \in Conns, Close(c)
  PROVE  TableInv' /\ Unmoved
<1>1. TypeOK /\ FdInv /\ MainInv /\ Registry
  BY DEF TableInv
<1>2. /\ pc[c] = "close" /\ pc' = [pc EXCEPT ![c] = "gone"]
      /\ fd' = [fd EXCEPT ![c] = NoFd] /\ sent' = {}
      /\ UNCHANGED <<clients, clients_mutex, name_buf, buffer, text, slot, heard, main, serving>>
  BY DEF Close, At, Goto, Silent, loop
<1>3. TypeOK'
  BY <1>1, <1>2 DEF TypeOK, Labels
<1>4. FdInv' /\ MainInv'
  BY <1>1, <1>2 DEF TypeOK, FdInv, MainInv
<1>5. Registered' = Registered /\ \A d \in Registered : fd'[d] = fd[d]
  BY <1>1, <1>2 DEF TypeOK, Registered
<1>6. Registry'
  BY <1>1, <1>2, <1>5, SameRegistry
<1> QED  BY <1>2, <1>3, <1>4, <1>5, <1>6 DEF TableInv, Unmoved

(* A step of the server is a step of main(), a handler that talks, or one    *)
(* that changes the array or its descriptor.                                 *)
LEMMA Steps ==
  ASSUME [Next]_vars
  PROVE  \/ \E c \in Conns : Talk(c)
         \/ \E c \in Conns : Accept(c) \/ add_client(c) \/ ServerFull(c) \/ Spawn(c)
                               \/ SpawnFails(c) \/ set_username(c) \/ remove_client(c)
                               \/ Close(c)
         \/ Unwound
         \/ UNCHANGED vars
BY DEF Next, MainStep, HandlerStep, ClientStep, Blocked, Talk

LEMMA TableStep == TableInv /\ [Next]_vars => TableInv'
<1> SUFFICES ASSUME TableInv, [Next]_vars PROVE TableInv'
  OBVIOUS
<1>1. CASE \E c \in Conns : Talk(c)
  BY <1>1, TalkStep
<1>2. CASE \E c \in Conns : Accept(c) \/ add_client(c) \/ ServerFull(c) \/ Spawn(c)
                              \/ SpawnFails(c) \/ set_username(c) \/ remove_client(c)
                              \/ Close(c)
  BY <1>2, AcceptStep, AddStep, ServerFullStep, SpawnStep, SetUsernameStep, RemoveStep,
     CloseStep
<1>3. CASE Unwound
  BY <1>3, UnwoundStep
<1>4. CASE UNCHANGED vars
  <2>1. UNCHANGED <<clients, clients_mutex, name_buf, fd, buffer, text, slot, heard, pc, main, serving, sent>>
    BY <1>4 DEF vars, locals, loop
  <2>2. TypeOK' /\ FdInv' /\ MainInv'
    BY <2>1 DEF TableInv, TypeOK, FdInv, MainInv
  <2>3. Registered' = Registered
    BY <2>1 DEF Registered
  <2>4. Registry'
    BY <2>1, <2>3, SameRegistry DEF TableInv
  <2> QED  BY <2>2, <2>4 DEF TableInv
<1> QED  BY <1>1, <1>2, <1>3, <1>4, Steps

-----------------------------------------------------------------------------
(* The mutex and the loop of broadcast() *)

(* The steps of connection c that neither take nor release the mutex.        *)
Quiet(c) ==
  \/ Accept(c) \/ add_client(c) \/ ServerFull(c) \/ Spawn(c) \/ SpawnFails(c)
  \/ \E u \in Usernames : RecvName(c, u) \/ RecvPrivate(c, u)
  \/ NoUsername(c) \/ username_exists(c) \/ set_username(c) \/ Format(c)
  \/ send_private(c) \/ send_user_list(c) \/ HangUp(c) \/ remove_client(c) \/ Close(c)

LEMMA QuietFrame ==
  ASSUME TableInv, NEW c \in Conns, Quiet(c)
  PROVE  /\ UNCHANGED <<clients_mutex, slot, heard>>
         /\ \A d \in Conns : pc[d] \in Holding \/ pc'[d] \in Holding => pc'[d] = pc[d]
<1> USE DEF At, Locked, Goto, Holding, Sending, loop, locals
<1>1. pc \in [Conns -> Labels]
  BY DEF TableInv, TypeOK
<1>2. CASE Accept(c) \/ add_client(c) \/ ServerFull(c) \/ Spawn(c) \/ SpawnFails(c)
  <2>1. main \in {"add", "spawn"} => pc[serving] = "accepted"
    BY DEF TableInv, MainInv
  <2> QED
    BY <1>1, <1>2, <2>1 DEF Accept, add_client, ServerFull, Spawn, SpawnFails
<1>3. CASE \E u \in Usernames : RecvName(c, u) \/ RecvPrivate(c, u)
  BY <1>1, <1>3 DEF RecvName, RecvPrivate
<1>4. CASE username_exists(c)
  <2>1. PICK l \in {"remove", "set"} : pc' = [pc EXCEPT ![c] = l]
    BY <1>4 DEF username_exists
  <2> QED  BY <1>1, <1>4, <2>1 DEF username_exists
<1>5. CASE NoUsername(c) \/ set_username(c) \/ Format(c)
  BY <1>1, <1>5 DEF NoUsername, set_username, Format
<1>6. CASE send_private(c) \/ send_user_list(c) \/ HangUp(c)
  BY <1>1, <1>6 DEF send_private, send_user_list, HangUp
<1>7. CASE remove_client(c) \/ Close(c)
  BY <1>1, <1>7 DEF remove_client, Close
<1> QED  BY <1>2, <1>3, <1>4, <1>5, <1>6, <1>7 DEF Quiet

LEMMA MutexSteps ==
  ASSUME [Next]_vars
  PROVE  \/ \E c \in Conns : \/ Quiet(c) \/ get_username(c) \/ Copied(c)
                             \/ BroadcastLock(c) \/ BroadcastSend(c) \/ BroadcastUnlock(c)
         \/ Unwound
         \/ UNCHANGED vars
BY DEF Next, MainStep, HandlerStep, ClientStep, Blocked, Quiet

LEMMA MutexStep ==
  ASSUME TableInv, MutexInv, [Next]_vars
  PROVE  MutexInv'
<1>1. pc \in [Conns -> Labels] /\ clients_mutex \in Conns \cup {Nobody} /\ Nobody \notin Conns
  BY Numbers DEF TableInv, TypeOK
<1> USE DEF At, Goto, Holding, Sending, MutexInv
<1>2. CASE \E c \in Conns : Quiet(c)
  BY <1>2, QuietFrame
<1>3. ASSUME NEW c \in Conns, get_username(c) PROVE MutexInv'
  BY <1>1, <1>3 DEF get_username
<1>4. ASSUME NEW c \in Conns, Copied(c) PROVE MutexInv'
  BY <1>1, <1>4 DEF Copied
<1>5. ASSUME NEW c \in Conns, BroadcastLock(c) PROVE MutexInv'
  BY <1>1, <1>5 DEF BroadcastLock, BroadcastCall
<1>6. ASSUME NEW c \in Conns, BroadcastSend(c) PROVE MutexInv'
  BY <1>6 DEF BroadcastSend
<1>7. ASSUME NEW c \in Conns, BroadcastUnlock(c) PROVE MutexInv'
  <2>1. pc[c] \in Sending /\ pc' = [pc EXCEPT ![c] = Return[pc[c]]] /\ clients_mutex' = Nobody
    BY <1>7 DEF BroadcastUnlock
  <2>2. Return[pc[c]] \in {"chat", "remove"}
    BY <2>1 DEF Return
  <2> QED  BY <1>1, <2>1, <2>2
<1>8. CASE Unwound
  BY <1>8 DEF Unwound, locals
<1>9. CASE UNCHANGED vars
  BY <1>9 DEF vars, locals
<1> QED  BY <1>2, <1>3, <1>4, <1>5, <1>6, <1>7, <1>8, <1>9, MutexSteps

(* While a handler is in the loop of broadcast() nobody changes the array:   *)
(* add_client(), set_username() and remove_client() wait for the mutex.      *)
LEMMA NobodySends ==
  ASSUME MutexInv, clients_mutex = Nobody
  PROVE  \A c \in Conns : pc[c] \notin Sending
BY Numbers DEF MutexInv, Holding

LEMMA SameLoops ==
  ASSUME LoopInv, Unmoved, UNCHANGED <<slot, heard>>,
         \A c \in Conns : pc[c] \in Sending <=> pc'[c] \in Sending
  PROVE  LoopInv'
<1>1. \A c \in Conns : Reached(c)' = Reached(c)
  BY DEF Reached, Unmoved
<1> QED  BY <1>1 DEF LoopInv

(* The line for a slot goes to the one connection the slot belongs to.       *)
LEMMA ReceiverOfSlot ==
  ASSUME TableInv, NEW i \in Slots, clients[i].active
  PROVE  /\ Receiver(clients[i].fd) \in Registered
         /\ \A d \in Registered : clients[i].fd = fd[d] <=> d = Receiver(clients[i].fd)
<1>1. PICK d \in Registered : clients[i].fd = fd[d]
  BY SlotOwners
<1>2. d \in Conns /\ fd[d] \in Fds /\ fd[d] # NoFd
  BY <1>1, RegisteredFds, Numbers DEF TableInv
<1>3. \A e \in Conns : fd[e] = fd[d] => e = d
  BY <1>2 DEF TableInv, FdInv
<1>4. Receiver(clients[i].fd) = d
  BY <1>1, <1>2, <1>3 DEF Receiver, OpenFds
<1> QED  BY <1>1, <1>3, <1>4 DEF Registered

LEMMA BroadcastLockStep ==
  ASSUME TableInv, MutexInv, LoopInv, NEW c \in Conns, BroadcastLock(c)
  PROVE  LoopInv'
<1>1. \A d \in Conns : pc[d] \notin Sending /\ slot[d] = 0 /\ heard[d] = {}
  BY NobodySends DEF BroadcastLock, LoopInv
<1>2. UNCHANGED <<slot, heard>>
  BY DEF BroadcastLock, loop
<1>3. \A d \in Conns : Reached(d)' = {}
  BY <1>1, <1>2, Numbers DEF Reached
<1> QED  BY <1>1, <1>2, <1>3 DEF LoopInv

LEMMA BroadcastSendStep ==
  ASSUME TableInv, MutexInv, LoopInv, NEW c \in Conns, BroadcastSend(c)
  PROVE  LoopInv'
<1> DEFINE i == slot[c]
<1>1. /\ slot \in [Conns -> 0 .. MAX_CLIENTS] /\ heard \in [Conns -> SUBSET (Conns \cup {Nobody})]
      /\ MAX_CLIENTS \in Nat
  BY CSAssumption DEF TableInv, TypeOK
<1>2. /\ pc[c] \in Sending /\ i < MAX_CLIENTS /\ slot' = [slot EXCEPT ![c] = i + 1]
      /\ UNCHANGED <<clients, fd, pc, main, serving>>
  BY DEF BroadcastSend
<1>3. i \in Slots
  BY <1>1, <1>2 DEF Slots
<1>4. \A d \in Conns \ {c} : pc[d] \notin Sending
  BY <1>2 DEF MutexInv, Holding
<1>5. Registered' = Registered
  BY <1>2 DEF Registered
<1>6. Reached(c)' = Reached(c) \cup {d \in Registered \ {c} : clients[i].fd = fd[d]}
  <2>1. \A j \in Slots : j < slot'[c] <=> j < slot[c] \/ j = i
    BY <1>1, <1>2, <1>3, Numbers DEF Slots
  <2> QED  BY <1>2, <1>3, <1>5, <2>1 DEF Reached
<1>7. heard[c] = Reached(c)
  BY <1>2 DEF LoopInv
<1>8. heard'[c] = Reached(c)'
  <2>1. CASE clients[i].active /\ clients[i].fd # fd[c]
    <3>1. heard'[c] = heard[c] \cup {Receiver(clients[i].fd)}
      BY <1>1, <2>1 DEF BroadcastSend
    <3>2. {d \in Registered \ {c} : clients[i].fd = fd[d]} = {Receiver(clients[i].fd)}
      BY <1>3, <2>1, ReceiverOfSlot
    <3> QED  BY <1>6, <1>7, <3>1, <3>2
  <2>2. CASE ~(clients[i].active /\ clients[i].fd # fd[c])
    <3>1. heard' = heard
      BY <2>2 DEF BroadcastSend
    <3>2. \A d \in Registered \ {c} : clients[i].fd # fd[d]
      <4> SUFFICES ASSUME NEW d \in Registered \ {c}, clients[i].fd = fd[d] PROVE FALSE
        OBVIOUS
      <4>1. clients[i].fd \in Fds
        BY RegisteredFds DEF TableInv
      <4>2. clients[i].active
        BY <1>3, <4>1, SlotOwners, Numbers
      <4>3. c \in Registered
        BY <1>2 DEF Registered, Sending
      <4> QED  BY <2>2, <4>2, <4>3, RegisteredFds DEF TableInv
    <3> QED  BY <1>6, <1>7, <3>1, <3>2
  <2> QED  BY <2>1, <2>2
<1>9. \A d \in Conns \ {c} : slot'[d] = slot[d] /\ heard'[d] = heard[d]
  BY <1>1, <1>2 DEF BroadcastSend
<1> QED  BY <1>2, <1>4, <1>8, <1>9 DEF LoopInv

LEMMA BroadcastUnlockStep ==
  ASSUME TableInv, MutexInv, LoopInv, NEW c \in Conns, BroadcastUnlock(c)
  PROVE  /\ LoopInv'
         /\ heard[c] = Registered \ {c}
         /\ \A d \in Conns \ {c} : pc[d] \notin Sending
<1>1. /\ slot \in [Conns -> 0 .. MAX_CLIENTS] /\ heard \in [Conns -> SUBSET (Conns \cup {Nobody})]
      /\ pc \in [Conns -> Labels] /\ MAX_CLIENTS \in Nat
  BY CSAssumption DEF TableInv, TypeOK
<1>2. /\ pc[c] \in Sending /\ slot[c] = MAX_CLIENTS /\ pc' = [pc EXCEPT ![c] = Return[pc[c]]]
      /\ slot' = [slot EXCEPT ![c] = 0] /\ heard' = [heard EXCEPT ![c] = {}]
  BY DEF BroadcastUnlock, Goto
<1>3. Return[pc[c]] \notin Sending
  BY <1>2 DEF Return, Sending
<1>4. \A d \in Conns \ {c} : pc[d] \notin Sending
  BY <1>2 DEF MutexInv, Holding
<1>5. \A d \in Conns : pc'[d] \notin Sending /\ slot'[d] = 0 /\ heard'[d] = {}
  BY <1>1, <1>2, <1>3, <1>4 DEF LoopInv
<1>6. \A j \in Slots : j < slot[c]
  BY <1>1, <1>2 DEF Slots
<1>7. \A d \in Registered : \E j \in Slots : clients[j].fd = fd[d]
  BY OwnSlot
<1>8. Reached(c) = Registered \ {c}
  BY <1>6, <1>7 DEF Reached
<1> QED  BY <1>2, <1>4, <1>5, <1>8 DEF LoopInv

LEMMA LoopStep ==
  ASSUME TableInv, MutexInv, LoopInv, [Next]_vars
  PROVE  LoopInv'
<1> USE DEF At, Goto, loop, locals
<1>1. ASSUME NEW c \in Conns, Quiet(c) PROVE LoopInv'
  <2>1. UNCHANGED <<slot, heard>> /\ \A d \in Conns : pc[d] \in Sending <=> pc'[d] \in Sending
    BY <1>1, QuietFrame DEF Holding
  <2>2. CASE add_client(c) \/ set_username(c) \/ remove_client(c)
    <3>1. clients_mutex = Nobody
      BY <2>2 DEF add_client, set_username, remove_client, Locked
    <3> QED  BY <2>1, <3>1, NobodySends DEF LoopInv
  <2>3. Unmoved \/ add_client(c) \/ set_username(c) \/ remove_client(c)
    BY <1>1, AcceptStep, ServerFullStep, SpawnStep, CloseStep, TalkStep DEF Quiet, Talk
  <2> QED  BY <2>1, <2>2, <2>3, SameLoops
<1>2. ASSUME NEW c \in Conns, get_username(c) \/ Copied(c) PROVE LoopInv'
  <2>1. Unmoved
    BY <1>2, TalkStep DEF Talk
  <2>2. pc \in [Conns -> Labels]
    BY DEF TableInv, TypeOK
  <2>3. UNCHANGED <<slot, heard>> /\ \A d \in Conns : pc[d] \in Sending <=> pc'[d] \in Sending
    BY <1>2, <2>2 DEF get_username, Copied, Sending
  <2> QED  BY <2>1, <2>3, SameLoops
<1>3. CASE \E c \in Conns : BroadcastLock(c) \/ BroadcastSend(c) \/ BroadcastUnlock(c)
  BY <1>3, BroadcastLockStep, BroadcastSendStep, BroadcastUnlockStep
<1>4. CASE Unwound
  <2>1. Unmoved
    BY <1>4, UnwoundStep
  <2> QED  BY <1>4, <2>1, SameLoops DEF Unwound
<1>5. CASE UNCHANGED vars
  <2>1. UNCHANGED <<clients, fd, pc, main, serving, slot, heard>>
    BY <1>5 DEF vars
  <2>2. Unmoved
    BY <2>1 DEF Unmoved, Registered
  <2> QED  BY <2>1, <2>2, SameLoops
<1> QED  BY <1>1, <1>2, <1>3, <1>4, <1>5, MutexSteps

-----------------------------------------------------------------------------
(* Who receives what *)

(* A private message goes to the connection of the slot that was found.      *)
LEMMA PrivateLines ==
  ASSUME TableInv, NEW c \in Conns, send_private(c)
  PROVE  PrivateStaysPrivate'
<1> DEFINE S == SlotsNamed(buffer[c])
           i == First(S)
           pm == [to |-> clients[i].fd, kind |-> "pm", as |-> name_buf, by |-> c]
           confirm == [to |-> fd[c], kind |-> "confirm", as |-> buffer[c], by |-> c]
           unknown == [to |-> fd[c], kind |-> "not found", as |-> buffer[c], by |-> c]
<1>1. Talk(c)
  BY DEF Talk
<1>2. Registered' = Registered /\ UNCHANGED <<fd, clients, buffer>>
  BY <1>1, TalkStep DEF send_private, Unmoved
<1>3. sent' = IF S = {} THEN {unknown} ELSE {pm, confirm}
  BY DEF send_private
<1>4. /\ pm.kind = "pm" /\ pm.to = clients[i].fd /\ pm.by = c
      /\ confirm.kind = "confirm" /\ confirm.to = fd[c] /\ confirm.by = c
      /\ unknown.kind = "not found" /\ unknown.to = fd[c] /\ unknown.by = c
  OBVIOUS
<1>5. S # {} => \E d \in Registered : fd[d] = clients[i].fd /\ Name(d) = buffer[c]
  <2> SUFFICES ASSUME S # {}
               PROVE  \E d \in Registered : fd[d] = clients[i].fd /\ Name(d) = buffer[c]
    OBVIOUS
  <2>1. i \in Slots /\ clients[i].active /\ clients[i].username = buffer[c]
    BY FirstOfSlots DEF SlotsNamed
  <2>2. PICK d \in Registered : clients[i].fd = fd[d]
    BY <2>1, SlotOwners
  <2>3. SlotsWithFd(fd[d]) = {First(SlotsWithFd(fd[d]))} /\ i \in SlotsWithFd(fd[d])
    BY <2>1, <2>2, OwnSlot DEF SlotsWithFd
  <2>4. First(SlotsWithFd(fd[d])) = i /\ SlotsWithFd(fd[d]) # {}
    BY <2>3
  <2>5. Name(d) = buffer[c]
    BY <2>1, <2>4 DEF Name
  <2> QED  BY <2>2, <2>5
<1> HIDE DEF S, i, pm, confirm, unknown
<1>6. \A d \in Conns : Name(d)' = Name(d)
  BY <1>2 DEF Name, SlotsWithFd
<1>7. \A d \in Registered : d \in Conns
  BY DEF Registered
<1> QED  BY <1>2, <1>3, <1>4, <1>5, <1>6, <1>7 DEF PrivateStaysPrivate

LEMMA UserLines ==
  ASSUME NEW c \in Conns, send_user_list(c)
  PROVE  PrivateStaysPrivate'
<1>1. sent' = {[to |-> fd[c], kind |-> "user", as |-> clients[i].username, by |-> c] :
                 i \in {j \in Slots : clients[j].active /\ clients[j].username # NoName}}
  BY DEF send_user_list
<1>2. \A n \in sent' : n.kind = "user" /\ n.to = fd[c] /\ n.by = c
  BY <1>1
<1>3. fd' = fd
  BY DEF send_user_list
<1> QED  BY <1>2, <1>3 DEF PrivateStaysPrivate

(* What a broadcast sends is none of the lines that concern two clients.     *)
LEMMA BroadcastLines ==
  ASSUME NEW c \in Conns, BroadcastSend(c)
  PROVE  PrivateStaysPrivate'
<1>1. pc[c] \in Sending /\ \A n \in sent' : n.kind = Kind[pc[c]]
  BY DEF BroadcastSend, Silent
<1>2. Kind[pc[c]] \in {"joined", "message", "left"}
  BY <1>1 DEF Kind, Sending
<1> QED  BY <1>1, <1>2 DEF PrivateStaysPrivate

LEMMA InvStep == IInv /\ [Next]_vars => IInv'
<1> SUFFICES ASSUME IInv, [Next]_vars PROVE IInv'
  OBVIOUS
<1>1. TableInv' /\ MutexInv' /\ LoopInv'
  BY TableStep, MutexStep, LoopStep DEF IInv
<1>2. \/ sent' = {}
      \/ \E c \in Conns : BroadcastSend(c) \/ send_private(c) \/ send_user_list(c)
      \/ UNCHANGED vars
  BY Steps DEF Talk, RecvName, RecvPrivate, NoUsername, username_exists, get_username,
       Copied, Format, BroadcastLock, BroadcastUnlock, HangUp, Accept, add_client,
       ServerFull, Spawn, SpawnFails, set_username, remove_client, Close, Unwound, Silent
<1>3. CASE sent' = {}
  BY <1>1, <1>3 DEF IInv, PrivateStaysPrivate
<1>4. CASE \E c \in Conns : BroadcastSend(c) \/ send_private(c) \/ send_user_list(c)
  BY <1>1, <1>4, BroadcastLines, PrivateLines, UserLines DEF IInv
<1>5. CASE UNCHANGED vars
  <2>1. UNCHANGED <<clients, fd, buffer, pc, main, serving, sent>>
    BY <1>5 DEF vars, locals
  <2>2. Registered' = Registered
    BY <2>1 DEF Registered
  <2>3. \A d \in Registered : Name(d)' = Name(d)
    BY <2>1 DEF Name, SlotsWithFd
  <2>4. PrivateStaysPrivate'
    BY <2>1, <2>2, <2>3 DEF IInv, PrivateStaysPrivate
  <2> QED  BY <1>1, <2>4 DEF IInv
<1> QED  BY <1>2, <1>3, <1>4, <1>5

LEMMA Invariance == Spec => []IInv
BY InvInit, InvStep, PTL DEF Spec

(* The shared state of chat_server_pm.c stays in range: no slot, descriptor  *)
(* or name is used that does not exist.                                      *)
THEOREM TypeCorrect == Spec => []TypeOK
<1>1. IInv => TypeOK
  BY DEF IInv, TableInv
<1> QED  BY <1>1, Invariance, PTL

(* clients[] and the handler threads agree at every step, although accept()  *)
(* gives a descriptor out again as soon as close() has freed it.             *)
THEOREM RegistryCorrect == Spec => []Registry
<1>1. IInv => Registry
  BY DEF IInv, TableInv
<1> QED  BY <1>1, Invariance, PTL

(* A handler leaves broadcast() by its unlock alone.                         *)
LEMMA LeavesByUnlock ==
  ASSUME TableInv, MutexInv, LoopInv, [Next]_vars,
         NEW c \in Conns, pc[c] \in Sending, pc'[c] \notin Sending
  PROVE  BroadcastUnlock(c)
<1> USE DEF At, Goto, Holding, Sending
<1>1. pc \in [Conns -> Labels]
  BY DEF TableInv, TypeOK
<1>2. ASSUME NEW d \in Conns, Quiet(d) PROVE FALSE
  BY <1>2, QuietFrame
<1>3. ASSUME NEW d \in Conns, get_username(d) \/ Copied(d) PROVE FALSE
  BY <1>1, <1>3 DEF get_username, Copied
<1>4. ASSUME NEW d \in Conns, BroadcastLock(d) PROVE FALSE
  BY <1>1, <1>4 DEF BroadcastLock, BroadcastCall
<1>5. ASSUME NEW d \in Conns, BroadcastSend(d) PROVE FALSE
  BY <1>5 DEF BroadcastSend
<1>6. ASSUME NEW d \in Conns, BroadcastUnlock(d) PROVE BroadcastUnlock(c)
  BY <1>6, BroadcastUnlockStep
<1>7. ASSUME Unwound \/ UNCHANGED vars PROVE FALSE
  BY <1>7 DEF Unwound, vars, locals
<1> QED  BY <1>2, <1>3, <1>4, <1>5, <1>6, <1>7, MutexSteps

(* The line given to broadcast() has gone to every other registered          *)
(* connection, and to nobody else, when broadcast() returns.                 *)
THEOREM BroadcastCorrect == Spec => BroadcastReachesOthers
<1>1. ASSUME IInv, [Next]_vars
      PROVE  [\A c \in Conns : pc[c] \in Sending /\ pc'[c] \notin Sending =>
                heard[c] = Registered' \ {c}]_vars
  <2> SUFFICES ASSUME NEW c \in Conns, pc[c] \in Sending, pc'[c] \notin Sending
               PROVE  heard[c] = Registered' \ {c}
    OBVIOUS
  <2>1. BroadcastUnlock(c) /\ heard[c] = Registered \ {c}
    BY <1>1, LeavesByUnlock, BroadcastUnlockStep DEF IInv
  <2>2. Registered' = Registered
    BY <1>1, <2>1, TalkStep DEF IInv, Talk, Unmoved
  <2> QED  BY <2>1, <2>2
<1> QED  BY <1>1, Invariance, PTL DEF Spec, BroadcastReachesOthers

(* send_private() tells nobody but one client of that name, and its          *)
(* confirmation or refusal nobody but the sender.                            *)
THEOREM PrivacyCorrect == Spec => []PrivateStaysPrivate
<1>1. IInv => PrivateStaysPrivate
  BY DEF IInv
<1> QED  BY <1>1, Invariance, PTL

=============================================================================
