---------------------------- MODULE ServerProofs ----------------------------
(***************************************************************************)
(* Proofs about the two programs of the suite that serve others: the       *)
(* select() chat server, for any number of slots and connections, and the  *)
(* task queue, for any number of workers, tasks and runs.  With what the    *)
(* modules it extends prove, every variable of the suite has its type.      *)
(***************************************************************************)
EXTENDS GameProofs, InterprocessProofs, Integers, Sequences, FiniteSets,
        Functions, FiniteSetTheorems, WellFoundedInduction, TLAPS

-----------------------------------------------------------------------------
(* Least and greatest *)

Below == {p \in Nat \X Nat : p[1] < p[2]}

LEMMA BelowIsWellFounded == IsWellFoundedOn(Below, Nat)
BY NatLessThanWellFounded DEF OpToRel, Below

(* Every set of natural numbers that is not empty has a least element.       *)
LEMMA LeastExists ==
  ASSUME NEW S \in SUBSET Nat, S # {}
  PROVE  \E x \in S : \A y \in S : x <= y
<1>1. PICK x \in S : \A y \in S : ~(<<y, x>> \in Below)
  BY BelowIsWellFounded, WFMin
<1>2. \A y \in S : ~(y < x)
  BY <1>1 DEF Below
<1> QED  BY <1>2

LEMMA MinIsLeast ==
  ASSUME NEW S \in SUBSET Nat, S # {}
  PROVE  CR!Min(S) \in S /\ \A y \in S : CR!Min(S) <= y
BY LeastExists DEF CR!Min

LEMMA MaxOfTwo ==
  ASSUME NEW a \in Nat, NEW b \in Nat
  PROVE  CR!Max({a, b}) \in Nat /\ CR!Max({a, b}) >= a /\ CR!Max({a, b}) >= b
<1>1. \E x \in {a, b} : \A y \in {a, b} : x >= y
  OBVIOUS
<1> QED  BY <1>1 DEF CR!Max

LEMMA CardinalityIsShared == ASSUME NEW S PROVE CR!Cardinality(S) = Cardinality(S)
BY DEF CR!Cardinality, Cardinality

-----------------------------------------------------------------------------
(* The chat server: the inductive invariant *)

Running == srv \notin {"stopped", "killed"}

(* clients[] is an array of its records, besides what TypeOK says of them.   *)
ShapeInv == clients \in [CR!Slots -> [socket : Nat, nickname : CR!Lines]]

(* Connections have descriptors of their own, not the listener's.            *)
FdInv ==
  /\ \A c \in CR!Conns : fd[c] # CR!Listener
  /\ \A c, d \in CR!Conns : fd[c] = fd[d] /\ fd[c] # CR!NoFd => c = d

(* Slots in use and accepted connections are paired by the descriptor.       *)
PairInv ==
  /\ \A c \in CR!Conns :
       fd[c] # CR!NoFd => \E s \in CR!Slots : clients[s].socket = fd[c]
  /\ \A s \in CR!Slots :
       CR!Active(s) => \E c \in CR!Conns : fd[c] = clients[s].socket
  /\ \A s, t \in CR!Slots :
       CR!Active(s) /\ clients[s].socket = clients[t].socket => s = t

(* select() is asked about them all.                                         *)
WatchInv ==
  \A s \in CR!Slots :
    CR!Active(s) => clients[s].socket \in master_fds /\ clients[s].socket <= max_fd

ChatInv ==
  /\ CR!TypeOK /\ ShapeInv
  /\ Running => FdInv /\ PairInv /\ WatchInv

-----------------------------------------------------------------------------
(* The chat server: descriptors *)

(* accept() finds a descriptor that is not in use: there are at most as many *)
(* as connections, and the listener.                                         *)
LEMMA FreshDescriptor ==
  ASSUME CR!TypeOK
  PROVE  CR!Lowest \in Nat /\ CR!Lowest # CR!NoFd /\ CR!Lowest \notin CR!Open
<1> DEFINE n == Cardinality(CR!Conns)
           R == {fd[c] : c \in CR!Conns}
<1>1. NumConns \in Nat /\ CR!Conns = 1 .. NumConns
  BY ChatAssumed DEF CR!ChatAssumption, CR!Conns
<1>2. n = NumConns
  BY <1>1, FS_Interval
<1>3. fd \in Surjection(1 .. NumConns, R)
  BY <1>1 DEF CR!TypeOK, Surjection
<1>4. IsFiniteSet(1 .. NumConns)
  BY <1>1, FS_Interval
<1>5. IsFiniteSet(R) /\ Cardinality(R) <= NumConns /\ Cardinality(R) \in Nat
  <2>1. IsFiniteSet(R) /\ Cardinality(R) <= Cardinality(1 .. NumConns)
    BY <1>3, <1>4, FS_Surjection
  <2> QED  BY <1>1, <1>2, <2>1, FS_CardinalityType
<1> HIDE DEF R, n
<1>6. IsFiniteSet(R \cup {CR!Listener})
      /\ Cardinality(R \cup {CR!Listener}) <= NumConns + 1
      /\ Cardinality(R \cup {CR!Listener}) \in Nat
  <2>1. IsFiniteSet(R \cup {CR!Listener})
        /\ Cardinality(R \cup {CR!Listener})
             = IF CR!Listener \in R THEN Cardinality(R) ELSE Cardinality(R) + 1
    BY <1>5, FS_AddElement
  <2> QED  BY <1>1, <1>5, <2>1
<1>7. CR!Open \subseteq R \cup {CR!Listener}
  BY DEF CR!Open, R
<1>8. (1 .. n + 2) \ CR!Open # {}
  <2> SUFFICES ASSUME 1 .. n + 2 \subseteq CR!Open PROVE FALSE
    OBVIOUS
  <2>1. Cardinality(1 .. n + 2) <= Cardinality(R \cup {CR!Listener})
    BY <1>6, <1>7, FS_Subset
  <2>2. Cardinality(1 .. n + 2) = n + 2
    BY <1>1, <1>2, FS_Interval
  <2> QED  BY <1>1, <1>2, <1>6, <2>1, <2>2
<1>9. CR!Lowest = CR!Min((1 .. n + 2) \ CR!Open)
  BY CardinalityIsShared DEF CR!Lowest, n
<1>10. CR!Lowest \in (1 .. n + 2) \ CR!Open
  <2> DEFINE S == (1 .. n + 2) \ CR!Open
  <2>1. S \in SUBSET Nat /\ S # {}
    BY <1>1, <1>2, <1>8
  <2>2. CR!Min(S) \in S
    BY <2>1, MinIsLeast
  <2> QED  BY <1>9, <2>2
<1> QED  BY <1>1, <1>2, <1>10 DEF CR!NoFd

(* Every slot in use has a connection.                                       *)
LEMMA SlotsHaveConns ==
  ASSUME PairInv, NEW s \in CR!Slots, CR!Active(s)
  PROVE  CR!ConnOf(s) \in CR!Conns /\ fd[CR!ConnOf(s)] = clients[s].socket
BY DEF PairInv, CR!ConnOf

-----------------------------------------------------------------------------
(* The chat server: initial states and steps *)

LEMMA ChatInit == CR!Init => ChatInv
<1> SUFFICES ASSUME CR!Init PROVE ChatInv
  OBVIOUS
<1>1. CR!Empty \in CR!Lines
  BY DEF CR!Lines
<1>2. CR!Vacant \in [socket : Nat, nickname : CR!Lines]
  BY <1>1 DEF CR!Vacant, CR!NoFd
<1>3. clients = [s \in CR!Slots |-> CR!Vacant]
  BY DEF CR!Init
<1>4. ShapeInv
  BY <1>2, <1>3 DEF ShapeInv
<1>5. CR!TypeOK
  BY <1>4, ChatAssumed
  DEF CR!Init, CR!TypeOK, CR!NoLine, CR!NoFd, CR!Listener, ShapeInv,
      CR!ChatAssumption
<1>6. \A s \in CR!Slots : ~CR!Active(s)
  BY <1>3 DEF CR!Active, CR!Vacant, CR!NoFd
<1>7. FdInv /\ PairInv /\ WatchInv
  BY <1>6 DEF CR!Init, FdInv, PairInv, WatchInv, CR!NoFd, CR!Listener
<1> QED  BY <1>4, <1>5, <1>7 DEF ChatInv

(* A step that leaves the array, the descriptors and the set alone.          *)
LEMMA OthersKeep ==
  ASSUME ChatInv, UNCHANGED <<clients, master_fds, max_fd, fd>>,
         Running' => Running, CR!TypeOK'
  PROVE  ChatInv'
BY DEF ChatInv, ShapeInv, FdInv, PairInv, WatchInv, CR!Active

LEMMA ClientsStep ==
  ASSUME ChatInv, NEW c \in CR!Conns,
         CR!Connect(c) \/ CR!Type(c) \/ CR!HangUp(c)
  PROVE  ChatInv'
<1>1. CR!TypeOK'
  <2>1. CASE CR!Connect(c) \/ CR!HangUp(c)
    <3>1. conn' \in [CR!Conns -> {"new", "up", "down", "closed"}]
      BY <2>1 DEF ChatInv, CR!TypeOK, CR!Connect, CR!HangUp
    <3> QED
      BY <2>1, <3>1 DEF ChatInv, CR!TypeOK, CR!Connect, CR!HangUp, CR!serverVars,
         CR!setVars, CR!inputVars
  <2>2. CASE CR!Type(c)
    <3>1. line' \in [CR!Conns -> CR!Lines \cup {CR!NoLine}]
      BY <2>2 DEF ChatInv, CR!TypeOK, CR!Type
    <3>2. typed' \in 0 .. MaxLines
      BY <2>2, ChatAssumed DEF ChatInv, CR!TypeOK, CR!Type, CR!ChatAssumption
    <3> QED
      BY <2>2, <3>1, <3>2 DEF ChatInv, CR!TypeOK, CR!Type, CR!serverVars,
         CR!setVars, CR!kernelVars
  <2> QED  BY <2>1, <2>2
<1> QED
  BY <1>1, OthersKeep DEF CR!Connect, CR!Type, CR!HangUp, CR!serverVars,
     CR!setVars, CR!kernelVars, Running

LEMMA ExitStep ==
  ASSUME ChatInv, NEW how \in {"stopped", "killed"}, CR!Exit(how)
  PROVE  ChatInv'
<1>1. CR!Vacant \in [socket : Nat, nickname : CR!Lines]
  BY DEF CR!Vacant, CR!NoFd, CR!Lines
<1>2. ShapeInv'
  BY <1>1 DEF CR!Exit, ShapeInv
<1>3. CR!TypeOK'
  BY <1>2, ChatAssumed
  DEF ChatInv, CR!Exit, CR!TypeOK, CR!NoLine, CR!NoFd, ShapeInv, CR!ChatAssumption
<1>4. ~Running'
  BY DEF Running, CR!Exit
<1> QED  BY <1>2, <1>3, <1>4 DEF ChatInv

LEMMA RoundStep == ASSUME ChatInv, CR!Select \/ CR!EndRound PROVE ChatInv'
<1>1. CASE CR!Select /\ ~CR!Exit("stopped")
  <2>1. CR!TypeOK'
    <3>1. read_fds' \subseteq master_fds /\ srv' \in {"accept", "clients"}
      BY <1>1 DEF CR!Select, CR!Watched
    <3> QED
      BY <1>1, <3>1 DEF ChatInv, CR!TypeOK, CR!Select, CR!setVars, CR!kernelVars,
         CR!inputVars
  <2> QED
    BY <1>1, <2>1, OthersKeep DEF CR!Select, CR!setVars, CR!kernelVars, Running
<1>2. CASE CR!Select /\ CR!Exit("stopped")
  BY <1>2, ExitStep
<1>3. CASE CR!EndRound
  <2>1. CR!TypeOK'
    BY <1>3, ChatAssumed DEF ChatInv, CR!TypeOK, CR!EndRound, CR!setVars,
       CR!kernelVars, CR!inputVars, CR!ChatAssumption
  <2> QED
    BY <1>3, <2>1, OthersKeep DEF CR!EndRound, CR!setVars, CR!kernelVars, Running
<1> QED  BY <1>1, <1>2, <1>3

LEMMA DiesStep == ASSUME ChatInv, NEW to, CR!Dies(to) PROVE ChatInv'
BY ExitStep DEF CR!Dies

(* A connection gets a free slot and a fresh descriptor.                     *)
LEMMA Accepting ==
  ASSUME ChatInv, NEW c \in CR!Conns, CR!Accept(c)
  PROVE  ChatInv'
<1>1. CASE CR!Dies({c})
  BY <1>1, DiesStep
<1>2. CASE ~CR!Dies({c}) /\ CR!FreeSlots = {}
  <2>1. CR!TypeOK'
    <3>1. conn' \in [CR!Conns -> {"new", "up", "down", "closed"}]
      BY <1>2 DEF ChatInv, CR!TypeOK, CR!Accept
    <3> QED
      BY <1>2, <3>1 DEF ChatInv, CR!TypeOK, CR!Accept, CR!setVars, CR!inputVars
  <2> QED
    BY <1>2, <2>1, OthersKeep DEF CR!Accept, CR!setVars, Running
<1>3. CASE ~CR!Dies({c}) /\ CR!FreeSlots # {}
  <2> DEFINE new == CR!Lowest
             slot == CR!Min(CR!FreeSlots)
  <2>1. new \in Nat /\ new # CR!NoFd /\ new # CR!Listener
        /\ \A d \in CR!Conns : fd[d] # new
    BY FreshDescriptor DEF ChatInv, CR!Open
  <2>2. slot \in CR!Slots /\ ~CR!Active(slot)
    <3>1. CR!FreeSlots \in SUBSET Nat
      BY ChatAssumed DEF CR!FreeSlots, CR!Slots, CR!ChatAssumption
    <3>2. slot \in CR!FreeSlots
      BY <1>3, <3>1, MinIsLeast
    <3> QED  BY <3>2 DEF CR!FreeSlots
  <2>3. /\ srv = "accept" /\ srv' = "clients" /\ fd[c] = CR!NoFd
        /\ clients' = [clients EXCEPT ![slot].socket = new]
        /\ fd' = [fd EXCEPT ![c] = new]
        /\ master_fds' = master_fds \cup {new}
        /\ max_fd' = CR!Max({max_fd, new})
        /\ UNCHANGED <<next, read_fds, conn, line, typed>>
    <3>1. CR!Backlog # {} /\ c = CR!Min(CR!Backlog)
      BY <1>3 DEF CR!Accept, CR!Oldest
    <3>2. CR!Backlog \in SUBSET Nat
      BY ChatAssumed DEF CR!Backlog, CR!Conns, CR!ChatAssumption
    <3>3. c \in CR!Backlog
      BY <3>1, <3>2, MinIsLeast
    <3> QED  BY <1>3, <3>3 DEF CR!Accept, CR!Backlog, CR!inputVars
  <2> HIDE DEF new, slot
  <2>4. Running /\ FdInv /\ PairInv /\ WatchInv /\ CR!TypeOK /\ ShapeInv
    BY <2>3 DEF ChatInv, Running
  <2>5. max_fd' \in Nat /\ max_fd' >= max_fd /\ max_fd' >= new
    BY <2>1, <2>3, <2>4, MaxOfTwo DEF CR!TypeOK
  <2>6. ShapeInv' /\ fd' \in [CR!Conns -> Nat]
    BY <2>1, <2>2, <2>3, <2>4 DEF ShapeInv, CR!TypeOK
  <2>7. CR!TypeOK'
    BY <2>1, <2>3, <2>4, <2>5, <2>6 DEF CR!TypeOK, ShapeInv
  <2>8. /\ \A d \in CR!Conns : fd'[d] = IF d = c THEN new ELSE fd[d]
        /\ \A s \in CR!Slots :
             clients'[s].socket = IF s = slot THEN new ELSE clients[s].socket
    BY <2>2, <2>3, <2>4 DEF ShapeInv, CR!TypeOK
  <2>9. FdInv'
    BY <2>1, <2>4, <2>8 DEF FdInv
  <2>10. /\ \A s \in CR!Slots : CR!Active(s)' <=> (s = slot \/ CR!Active(s))
         /\ \A s \in CR!Slots : CR!Active(s) => clients[s].socket # new
    BY <2>1, <2>4, <2>8 DEF CR!Active, PairInv
  <2>11. PairInv'
    BY <2>1, <2>2, <2>3, <2>4, <2>8, <2>10 DEF PairInv, CR!Active
  <2>12. WatchInv'
    <3>1. \A s \in CR!Slots : clients[s].socket \in Nat
      BY <2>4 DEF ShapeInv
    <3> QED
      BY <2>2, <2>3, <2>4, <2>5, <2>8, <2>10, <3>1 DEF WatchInv, CR!TypeOK
  <2> QED  BY <2>6, <2>7, <2>9, <2>11, <2>12 DEF ChatInv
<1> QED  BY <1>1, <1>2, <1>3

(* remove_client() frees the slot and the descriptor; the set keeps it.      *)
LEMMA Removing ==
  ASSUME ChatInv, Running, NEW s \in CR!Slots, CR!Active(s), CR!remove_client(s),
         UNCHANGED srv
  PROVE  /\ FdInv' /\ PairInv' /\ WatchInv' /\ ShapeInv' /\ fd' \in [CR!Conns -> Nat]
         /\ conn' \in [CR!Conns -> {"new", "up", "down", "closed"}]
         /\ UNCHANGED <<master_fds, max_fd>>
<1> DEFINE c == CR!ConnOf(s)
<1>1. FdInv /\ PairInv /\ WatchInv /\ CR!TypeOK /\ ShapeInv
  BY DEF ChatInv
<1>2. c \in CR!Conns /\ fd[c] = clients[s].socket /\ fd[c] # CR!NoFd
  BY <1>1, SlotsHaveConns DEF CR!Active
<1>3. /\ fd' = [fd EXCEPT ![c] = CR!NoFd]
      /\ conn' = [conn EXCEPT ![c] = "closed"]
      /\ clients' = [clients EXCEPT ![s] = CR!Vacant]
      /\ UNCHANGED <<master_fds, max_fd>>
  BY DEF CR!remove_client, CR!setVars
<1> HIDE DEF c
<1>4. CR!Vacant \in [socket : Nat, nickname : CR!Lines] /\ CR!Vacant.socket = CR!NoFd
      /\ CR!NoFd = 0 /\ CR!Listener = 1
  BY DEF CR!Vacant, CR!NoFd, CR!Lines, CR!Listener
<1>5. ShapeInv' /\ fd' \in [CR!Conns -> Nat]
      /\ conn' \in [CR!Conns -> {"new", "up", "down", "closed"}]
  BY <1>1, <1>2, <1>3, <1>4 DEF ShapeInv, CR!TypeOK
<1>6. /\ \A d \in CR!Conns : fd'[d] = IF d = c THEN CR!NoFd ELSE fd[d]
      /\ \A t \in CR!Slots :
           clients'[t].socket = IF t = s THEN CR!NoFd ELSE clients[t].socket
  BY <1>1, <1>2, <1>3, <1>4 DEF ShapeInv, CR!TypeOK
<1>7. FdInv'
  BY <1>1, <1>4, <1>6 DEF FdInv
<1>8. PairInv'
  BY <1>1, <1>2, <1>4, <1>6 DEF PairInv, FdInv, CR!Active
<1>9. WatchInv'
  BY <1>1, <1>3, <1>4, <1>6 DEF WatchInv, CR!Active
<1> QED  BY <1>3, <1>5, <1>7, <1>8, <1>9

(* The slot the loop has come to is in use.                                  *)
LEMMA TurnsAreActive ==
  ASSUME CR!TypeOK, NEW s, CR!Turn(s)
  PROVE  s \in CR!Slots /\ CR!Active(s) /\ srv = "clients"
         /\ s + 1 \in 1 .. MAX_CLIENTS + 1
<1>1. MAX_CLIENTS \in Nat /\ next \in 1 .. MAX_CLIENTS + 1
  BY ChatAssumed DEF CR!ChatAssumption, CR!TypeOK
<1>2. CR!Ahead \in SUBSET Nat /\ CR!Ahead # {}
  BY <1>1 DEF CR!Ahead, CR!Turn
<1>3. s \in CR!Ahead
  BY <1>2, MinIsLeast DEF CR!Turn
<1> QED  BY <1>1, <1>3 DEF CR!Ahead, CR!Served, CR!Slots, CR!Turn

LEMMA Disconnecting ==
  ASSUME ChatInv, NEW s \in CR!Slots, CR!Disconnect(s)
  PROVE  ChatInv'
<1>1. CASE CR!Dies({CR!ConnOf(t) : t \in CR!Farewell(s)})
  BY <1>1, DiesStep
<1>2. CASE CR!remove_client(s) /\ CR!Proceed(s) /\ UNCHANGED CR!inputVars
  <2>1. CR!Turn(s) /\ CR!TypeOK
    BY DEF CR!Disconnect, ChatInv
  <2>2. CR!Active(s) /\ s + 1 \in 1 .. MAX_CLIENTS + 1 /\ Running /\ UNCHANGED srv
    BY <1>2, <2>1, TurnsAreActive DEF Running, CR!Proceed
  <2>3. /\ FdInv' /\ PairInv' /\ WatchInv' /\ ShapeInv' /\ fd' \in [CR!Conns -> Nat]
        /\ conn' \in [CR!Conns -> {"new", "up", "down", "closed"}]
        /\ UNCHANGED <<master_fds, max_fd>>
    BY <1>2, <2>2, Removing
  <2>4. CR!TypeOK'
    BY <1>2, <2>1, <2>2, <2>3 DEF CR!TypeOK, CR!Proceed, CR!inputVars, ShapeInv
  <2> QED  BY <2>3, <2>4 DEF ChatInv
<1> QED  BY <1>1, <1>2 DEF CR!Disconnect

LEMMA Receiving ==
  ASSUME ChatInv, NEW s \in CR!Slots, CR!Receive(s)
  PROVE  ChatInv'
<1> DEFINE c == CR!ConnOf(s)
           l == line[c]
<1>1. CASE CR!Dies({CR!ConnOf(t) : t \in CR!Recipients(s, l)})
  BY <1>1, DiesStep
<1>2. CASE ~CR!Dies({CR!ConnOf(t) : t \in CR!Recipients(s, l)})
  <2>1. CR!Turn(s) /\ CR!TypeOK /\ ShapeInv
    BY DEF CR!Receive, ChatInv
  <2>2. CR!Active(s) /\ s + 1 \in 1 .. MAX_CLIENTS + 1 /\ Running
    BY <2>1, TurnsAreActive DEF Running
  <2>3. FdInv /\ PairInv /\ WatchInv
    BY <2>2 DEF ChatInv
  <2>4. c \in CR!Conns
    BY <2>2, <2>3, SlotsHaveConns
  <2>5. l \in CR!Lines
    BY <2>1, <2>4 DEF CR!TypeOK, CR!Receive
  <2>6. /\ line' = [line EXCEPT ![c] = CR!NoLine]
        /\ next' = s + 1 /\ UNCHANGED <<srv, read_fds, typed>>
        /\ \/ clients' = [clients EXCEPT ![s].nickname = l]
              /\ UNCHANGED <<master_fds, max_fd, fd, conn>>
           \/ CR!remove_client(s)
           \/ UNCHANGED <<clients, master_fds, max_fd, fd, conn>>
    BY <1>2 DEF CR!Receive, CR!Proceed, CR!setVars, CR!kernelVars
  <2> HIDE DEF l, c
  <2>7. line' \in [CR!Conns -> CR!Lines \cup {CR!NoLine}]
    BY <2>1, <2>4, <2>6 DEF CR!TypeOK
  <2>8. CASE CR!remove_client(s)
    <3>1. /\ FdInv' /\ PairInv' /\ WatchInv' /\ ShapeInv'
          /\ fd' \in [CR!Conns -> Nat]
          /\ conn' \in [CR!Conns -> {"new", "up", "down", "closed"}]
          /\ UNCHANGED <<master_fds, max_fd>>
      BY <2>2, <2>6, <2>8, Removing
    <3>2. CR!TypeOK'
      BY <2>1, <2>2, <2>6, <2>7, <3>1 DEF CR!TypeOK, ShapeInv
    <3> QED  BY <3>1, <3>2 DEF ChatInv
  <2>9. CASE UNCHANGED <<clients, master_fds, max_fd, fd, conn>>
    <3>1. CR!TypeOK'
      BY <2>1, <2>2, <2>6, <2>7, <2>9 DEF CR!TypeOK
    <3> QED  BY <2>6, <2>9, <3>1, OthersKeep DEF Running
  <2>10. CASE clients' = [clients EXCEPT ![s].nickname = l]
              /\ UNCHANGED <<master_fds, max_fd, fd, conn>>
    <3>1. ShapeInv' /\ \A t \in CR!Slots : clients'[t].socket = clients[t].socket
      BY <2>1, <2>5, <2>10 DEF ShapeInv
    <3>2. CR!TypeOK'
      BY <2>1, <2>2, <2>6, <2>7, <2>10, <3>1 DEF CR!TypeOK, ShapeInv
    <3>3. FdInv' /\ PairInv' /\ WatchInv'
      BY <2>3, <2>10, <3>1 DEF FdInv, PairInv, WatchInv, CR!Active
    <3> QED  BY <3>1, <3>2, <3>3 DEF ChatInv
  <2> QED  BY <2>6, <2>8, <2>9, <2>10
<1> QED  BY <1>1, <1>2

LEMMA ChatStep == ChatInv /\ [CR!Next]_(CR!vars) => ChatInv'
<1> SUFFICES ASSUME ChatInv, [CR!Next]_(CR!vars) PROVE ChatInv'
  OBVIOUS
<1>1. CASE UNCHANGED CR!vars
  <2>1. CR!TypeOK' /\ UNCHANGED <<clients, master_fds, max_fd, fd>> /\ (Running' => Running)
    BY <1>1 DEF ChatInv, CR!TypeOK, CR!vars, CR!serverVars, CR!setVars,
       CR!kernelVars, CR!inputVars, Running
  <2> QED  BY <2>1, OthersKeep
<1> QED
  BY <1>1, ClientsStep, RoundStep, Accepting, Disconnecting, Receiving
  DEF CR!Next, CR!ServerStep, CR!Blocked

-----------------------------------------------------------------------------
(* The chat server: theorems *)

LEMMA ChatInvariance == CR!Spec => []ChatInv
BY ChatInit, ChatStep, PTL DEF CR!Spec

LEMMA SuiteRunsChat == Spec => CR!Spec
<1>1. Init => CR!Init
  BY DEF Init
<1>2. [Next]_vars => [CR!Next]_(CR!vars)
  BY DEF Next, vars, chatVars, CR!vars, CR!serverVars, CR!setVars,
         CR!kernelVars, CR!inputVars
<1> QED  BY <1>1, <1>2, PTL DEF Spec, CR!Spec

(* socket_exercise5_solution.c: whoever connects, talks, leaves or resets,   *)
(* and in whatever order the server sees it, clients[] holds exactly the     *)
(* accepted connections, each under its own descriptor, all of them watched. *)
THEOREM ClientsFollowConnections == Spec => []ClientsAreOpen
<1>1. ChatInv => ClientsAreOpen
  <2> SUFFICES ASSUME ChatInv, Running PROVE CR!ClientsAreOpen
    BY DEF Running, ClientsAreOpen, CR!ClientsAreOpen
  <2>1. FdInv /\ PairInv /\ WatchInv
    BY DEF ChatInv
  <2>2. {clients[s].socket : s \in CR!Everyone} = CR!Open \ {CR!Listener}
    BY <2>1 DEF FdInv, PairInv, CR!Open, CR!Everyone, CR!Active, CR!NoFd, CR!Listener
  <2>3. \A s, t \in CR!Everyone :
          clients[s].socket = clients[t].socket => s = t
    BY <2>1 DEF PairInv, CR!Everyone
  <2>4. \A s \in CR!Everyone : clients[s].socket \in CR!Watched
    BY <2>1 DEF WatchInv, CR!Everyone, CR!Watched
  <2> QED  BY <2>2, <2>3, <2>4 DEF CR!ClientsAreOpen
<1> QED  BY <1>1, SuiteRunsChat, ChatInvariance, PTL

-----------------------------------------------------------------------------
(* Sequences *)

Distinct(s) == \A m, n \in 1 .. Len(s) : s[m] = s[n] => m = n

LEMMA ElementsByIndex ==
  ASSUME NEW T, NEW s \in Seq(T)
  PROVE  /\ TQ!ToSet(s) \subseteq T
         /\ \A x : x \in TQ!ToSet(s) <=> \E k \in 1 .. Len(s) : s[k] = x
BY DEF TQ!ToSet

LEMMA AppendFacts ==
  ASSUME NEW T, NEW s \in Seq(T), NEW x \in T
  PROVE  /\ Append(s, x) \in Seq(T) /\ Len(Append(s, x)) = Len(s) + 1
         /\ Append(s, x) # <<>>
         /\ \A k \in 1 .. Len(s) : Append(s, x)[k] = s[k]
         /\ Append(s, x)[Len(s) + 1] = x
         /\ TQ!Last(Append(s, x)) = x
         /\ TQ!ToSet(Append(s, x)) = TQ!ToSet(s) \cup {x}
         /\ Distinct(s) /\ x \notin TQ!ToSet(s) => Distinct(Append(s, x))
<1> DEFINE a == Append(s, x)
<1>1. /\ a \in Seq(T) /\ Len(a) = Len(s) + 1 /\ Len(s) \in Nat
      /\ \A k \in 1 .. Len(s) : a[k] = s[k]
      /\ a[Len(s) + 1] = x
  OBVIOUS
<1> HIDE DEF a
<1>2. TQ!Last(a) = x
  BY <1>1 DEF TQ!Last
<1>3. ASSUME NEW y PROVE y \in TQ!ToSet(a) <=> y \in TQ!ToSet(s) \cup {x}
  <2>1. y \in TQ!ToSet(a) <=> \E k \in 1 .. Len(s) + 1 : a[k] = y
    BY <1>1, ElementsByIndex
  <2>2. y \in TQ!ToSet(s) <=> \E k \in 1 .. Len(s) : s[k] = y
    BY ElementsByIndex
  <2>3. \A k \in 1 .. Len(s) + 1 : k \in 1 .. Len(s) \/ k = Len(s) + 1
    BY <1>1
  <2>4. \A k \in 1 .. Len(s) : k \in 1 .. Len(s) + 1
    BY <1>1
  <2>5. Len(s) + 1 \in 1 .. Len(s) + 1
    BY <1>1
  <2> QED  BY <1>1, <2>1, <2>2, <2>3, <2>4, <2>5
<1>4. ASSUME Distinct(s), x \notin TQ!ToSet(s) PROVE Distinct(a)
  BY <1>1, <1>4, ElementsByIndex DEF Distinct
<1>5. a # <<>>
  BY <1>1
<1> QED  BY <1>1, <1>2, <1>3, <1>4, <1>5 DEF a

LEMMA TailFacts ==
  ASSUME NEW T, NEW s \in Seq(T), s # <<>>
  PROVE  /\ Tail(s) \in Seq(T) /\ Len(Tail(s)) = Len(s) - 1 /\ Len(s) \in Nat \ {0}
         /\ \A k \in 1 .. Len(s) - 1 : Tail(s)[k] = s[k + 1]
         /\ Head(s) = s[1] /\ Head(s) \in T /\ Head(s) \in TQ!ToSet(s)
         /\ TQ!ToSet(s) = TQ!ToSet(Tail(s)) \cup {Head(s)}
         /\ Distinct(s) => Distinct(Tail(s)) /\ Head(s) \notin TQ!ToSet(Tail(s))
<1> DEFINE r == Tail(s)
<1>1. /\ r \in Seq(T) /\ Len(r) = Len(s) - 1 /\ Len(s) \in Nat \ {0}
      /\ \A k \in 1 .. Len(s) - 1 : r[k] = s[k + 1]
      /\ Head(s) = s[1] /\ Head(s) \in T
  OBVIOUS
<1> HIDE DEF r
<1>2. 1 \in 1 .. Len(s)
  BY <1>1
<1>3. Head(s) \in TQ!ToSet(s)
  BY <1>1, <1>2, ElementsByIndex
<1>4. ASSUME NEW y PROVE y \in TQ!ToSet(s) <=> y \in TQ!ToSet(r) \cup {Head(s)}
  <2>1. y \in TQ!ToSet(r) <=> \E k \in 1 .. Len(s) - 1 : r[k] = y
    BY <1>1, ElementsByIndex
  <2>2. y \in TQ!ToSet(s) <=> \E k \in 1 .. Len(s) : s[k] = y
    BY ElementsByIndex
  <2>3. \A k \in 1 .. Len(s) : k = 1 \/ (k - 1 \in 1 .. Len(s) - 1 /\ (k - 1) + 1 = k)
    BY <1>1
  <2>4. \A k \in 1 .. Len(s) - 1 : k + 1 \in 1 .. Len(s)
    BY <1>1
  <2>5. ASSUME y \in TQ!ToSet(s) PROVE y \in TQ!ToSet(r) \cup {Head(s)}
    <3>1. PICK k \in 1 .. Len(s) : s[k] = y
      BY <2>2, <2>5
    <3>2. CASE k = 1
      BY <1>1, <3>1, <3>2
    <3>3. CASE k # 1
      <4> DEFINE j == k - 1
      <4>1. j \in 1 .. Len(s) - 1 /\ j + 1 = k
        BY <2>3, <3>3
      <4> HIDE DEF j
      <4>2. r[j] = y
        BY <1>1, <3>1, <4>1
      <4> QED  BY <2>1, <4>1, <4>2
    <3> QED  BY <3>2, <3>3
  <2>6. ASSUME y \in TQ!ToSet(r) \cup {Head(s)} PROVE y \in TQ!ToSet(s)
    BY <1>1, <1>3, <2>1, <2>2, <2>4, <2>6
  <2> QED  BY <2>5, <2>6
<1>5. ASSUME Distinct(s) PROVE Distinct(r) /\ Head(s) \notin TQ!ToSet(r)
  <2>1. \A m, n \in 1 .. Len(s) - 1 : r[m] = r[n] => m = n
    <3> TAKE m, n \in 1 .. Len(s) - 1
    <3> HAVE r[m] = r[n]
    <3>1. m + 1 \in 1 .. Len(s) /\ n + 1 \in 1 .. Len(s)
      BY <1>1
    <3>2. s[m + 1] = s[n + 1]
      BY <1>1
    <3>3. m + 1 = n + 1
      BY <1>5, <3>1, <3>2 DEF Distinct
    <3> QED  BY <1>1, <3>3
  <2>2. ASSUME NEW k \in 1 .. Len(s) - 1 PROVE r[k] # s[1]
    <3>1. k + 1 \in 1 .. Len(s) /\ k + 1 # 1
      BY <1>1
    <3> QED  BY <1>1, <1>2, <1>5, <3>1 DEF Distinct
  <2> QED  BY <1>1, <2>1, <2>2, ElementsByIndex DEF Distinct
<1> QED  BY <1>1, <1>3, <1>4, <1>5 DEF r

LEMMA EmptyFacts ==
  /\ Len(<<>>) = 0 /\ TQ!ToSet(<<>>) = {} /\ Distinct(<<>>)
  /\ \A T : <<>> \in Seq(T)
BY DEF TQ!ToSet, Distinct

(* The last element of a sequence is one of them.                            *)
LEMMA LastFacts ==
  ASSUME NEW T, NEW s \in Seq(T), s # <<>>
  PROVE  TQ!Last(s) \in T /\ TQ!Last(s) \in TQ!ToSet(s)
<1>1. Len(s) \in 1 .. Len(s)
  OBVIOUS
<1> QED  BY <1>1, ElementsByIndex DEF TQ!Last

-----------------------------------------------------------------------------
(* The task queue: the inductive invariant *)

(* The order in which the tasks are sent.                                    *)
Earlier(t, u) == t[1] < u[1] \/ (t[1] = u[1] /\ t[2] < u[2])

(* No run after this one has sent anything, and this one stops in time.      *)
RunInv ==
  /\ \A r \in 1 .. MaxRuns : r > run => sent[r] = 0
  /\ dist \in {"send", "collect", "remove", "done"} => run \in 1 .. MaxRuns
  /\ dist = "send" => sent[run] < NumTasks /\ got = <<>>
  /\ dist = "collect" => Len(got) < NumTasks

(* A worker goes on as long as it has not done its share.                    *)
ShareInv ==
  \A w \in Workers :
    wpc[w] \in {"none", "recv", "work"} => wdone[w] < TasksPerWorker

(* What is in the queue, or was, has been sent, in the order of the queue.   *)
SentInv ==
  /\ \A t \in TQ!Tasks :
       t \in TQ!ToSet(tasks) \/ TQ!Gone(t) => t[2] <= sent[t[1]]
  /\ \A m, n \in 1 .. Len(tasks) : m < n => Earlier(tasks[m], tasks[n])

(* A task is handed out once.                                                *)
HandedInv ==
  /\ \A w \in Workers : Distinct(wtask[w])
  /\ \A v, w \in Workers : \A t \in TQ!Tasks :
       t \in TQ!ToSet(wtask[v]) /\ t \in TQ!ToSet(wtask[w]) => v = w
  /\ \A t \in TQ!ToSet(tasks) : ~TQ!Gone(t)

(* It is answered once, and its answer collected once.                       *)
AnsweredInv ==
  /\ Distinct(results)
  /\ \A t \in TQ!ToSet(results) : TQ!Gone(t) /\ t \notin collected
  /\ \A t \in collected : TQ!Gone(t)
  /\ \A w \in Workers :
       wpc[w] = "work" => /\ wtask[w] # <<>>
                          /\ TQ!Last(wtask[w]) \notin TQ!ToSet(results)
                          /\ TQ!Last(wtask[w]) \notin collected

InRun == dist \in {"send", "collect", "remove"}

(* A run has a queue, which is marked if the run is killed; no queue, no     *)
(* messages.                                                                 *)
KeyInv ==
  /\ InRun => key # 0
  /\ dist = "killed" => key \in crashed
  /\ key = 0 => tasks = <<>> /\ results = <<>>
  /\ \A w \in Workers : wpc[w] = "work" => wq[w] # 0

(* On a queue no distributor was killed on nothing is left between its runs, *)
(* and during one everything belongs to it.                                  *)
CleanInv ==
  key \notin crashed =>
    /\ ~InRun => /\ tasks = <<>> /\ results = <<>>
                 /\ \A w \in Workers : wpc[w] = "work" => wq[w] # key
    /\ \A t \in TQ!ToSet(tasks) \cup TQ!ToSet(results) : t[1] = run
    /\ InRun => /\ \A t \in TQ!ToSet(got) : t[1] = run /\ t \in collected
                /\ Distinct(got)
    /\ \A w \in Workers :
         wpc[w] = "work" /\ wq[w] = key => TQ!Last(wtask[w])[1] = run
    /\ dist = "remove" => Len(got) = NumTasks

QueueInv ==
  /\ TQ!TypeOK /\ RunInv /\ ShareInv /\ SentInv /\ HandedInv /\ AnsweredInv
  /\ KeyInv /\ CleanInv

-----------------------------------------------------------------------------
(* The task queue: initial states and steps *)

LEMMA QueueBounds ==
  /\ NumTasks \in Nat \ {0} /\ TasksPerWorker \in Nat \ {0}
  /\ MaxRuns \in Nat \ {0} /\ 0 \notin Workers
BY QueueAssumed DEF TQ!QueueAssumption

LEMMA QueueInit == TQ!Init => QueueInv
<1> SUFFICES ASSUME TQ!Init PROVE QueueInv
  OBVIOUS
<1> USE QueueBounds, EmptyFacts DEF TQ!Init
<1>1. TQ!TypeOK
  <2>1. sent \in [1 .. MaxRuns -> 0 .. NumTasks]
    OBVIOUS
  <2>2. /\ wpc \in [Workers -> {"none", "recv", "work", "done", "failed", "lost"}]
        /\ wq \in [Workers -> 0 .. queues]
        /\ wtask \in [Workers -> Seq(TQ!Tasks)]
        /\ wdone \in [Workers -> 0 .. TasksPerWorker]
    OBVIOUS
  <2>3. /\ key \in 0 .. queues /\ queues \in Nat /\ run \in 0 .. MaxRuns
        /\ dist \in {"none", "send", "collect", "remove", "done", "killed"}
        /\ tasks \in Seq(TQ!Tasks) /\ results \in Seq(TQ!Tasks)
        /\ got \in Seq(TQ!Tasks) /\ Len(got) <= NumTasks
    OBVIOUS
  <2>4. collected \subseteq TQ!Tasks /\ crashed \subseteq 1 .. queues
    BY Zenon
  <2> HIDE DEF TQ!Init
  <2> QED  BY <2>1, <2>2, <2>3, <2>4, Zenon DEF TQ!TypeOK
<1>2. RunInv /\ ShareInv
  BY DEF RunInv, ShareInv
<1>3. \A t : ~TQ!Gone(t)
  BY DEF TQ!Gone
<1>4. SentInv /\ HandedInv /\ AnsweredInv /\ CleanInv
  BY <1>3 DEF SentInv, HandedInv, AnsweredInv, CleanInv, InRun
<1>5. KeyInv
  BY DEF KeyInv, InRun
<1> QED  BY <1>1, <1>2, <1>4, <1>5 DEF QueueInv

(* msgget() opens the queue or creates an empty one.                         *)
LEMMA Opening ==
  ASSUME TQ!TypeOK, TQ!msgget
  PROVE  /\ queues' \in Nat /\ queues \in Nat /\ queues <= queues'
         /\ key' \in 1 .. queues' /\ wq \in [Workers -> 0 .. queues']
         /\ crashed \subseteq 1 .. queues'
         /\ key # 0 => key' = key
         /\ key = 0 => key' \notin crashed /\ \A w \in Workers : wq[w] # key'
         /\ UNCHANGED <<tasks, results>>
<1>1. /\ queues' \in Nat /\ queues \in Nat /\ queues <= queues'
      /\ key' \in 1 .. queues' /\ UNCHANGED <<tasks, results>>
      /\ crashed \subseteq 1 .. queues'
      /\ key # 0 => key' = key
      /\ key = 0 => key' \notin crashed /\ \A w \in Workers : wq[w] # key'
  BY DEF TQ!TypeOK, TQ!msgget
<1>2. wq \in [Workers -> 0 .. queues']
  BY <1>1 DEF TQ!TypeOK
<1> QED  BY <1>1, <1>2

LEMMA Starting == ASSUME QueueInv, TQ!Start PROVE QueueInv'
<1> USE DEF QueueInv
<1>1. TQ!TypeOK'
  <2>1. /\ TQ!msgget /\ dist' = "send" /\ run' = run + 1 /\ run < MaxRuns /\ got' = <<>>
        /\ UNCHANGED <<sent, collected, crashed, wpc, wq, wtask, wdone>>
    BY DEF TQ!Start, TQ!workerVars
  <2>2. /\ queues' \in Nat /\ key' \in 0 .. queues' /\ UNCHANGED <<tasks, results>>
        /\ wq \in [Workers -> 0 .. queues'] /\ crashed \subseteq 1 .. queues'
    BY <2>1, Opening
  <2>3. run' \in 0 .. MaxRuns /\ got' \in Seq(TQ!Tasks) /\ Len(got') <= NumTasks
    BY <2>1, QueueBounds, EmptyFacts DEF TQ!TypeOK
  <2> QED  BY <2>1, <2>2, <2>3 DEF TQ!TypeOK
<1>2. RunInv'
  BY Opening, QueueBounds, EmptyFacts
  DEF TQ!Start, TQ!GotoWorker, TQ!queueVars, TQ!distVars, TQ!workerVars,
      RunInv, TQ!TypeOK
<1>3. ShareInv'
  BY Opening, QueueBounds, EmptyFacts
  DEF TQ!Start, TQ!GotoWorker, TQ!queueVars, TQ!distVars, TQ!workerVars,
      ShareInv, TQ!TypeOK
<1>4. SentInv'
  BY Opening, QueueBounds, EmptyFacts
  DEF TQ!Start, TQ!GotoWorker, TQ!queueVars, TQ!distVars, TQ!workerVars,
      SentInv, TQ!Gone, TQ!TypeOK
<1>5. HandedInv'
  BY Opening, QueueBounds, EmptyFacts
  DEF TQ!Start, TQ!GotoWorker, TQ!queueVars, TQ!distVars, TQ!workerVars,
      HandedInv, TQ!Gone, TQ!TypeOK
<1>6. AnsweredInv'
  BY Opening, QueueBounds, EmptyFacts
  DEF TQ!Start, TQ!GotoWorker, TQ!queueVars, TQ!distVars, TQ!workerVars,
      AnsweredInv, TQ!Gone, TQ!TypeOK
<1>7. KeyInv'
  BY Opening, QueueBounds, EmptyFacts
  DEF TQ!Start, TQ!GotoWorker, TQ!queueVars, TQ!distVars, TQ!workerVars,
      KeyInv, InRun, TQ!TypeOK
<1>8. CleanInv'
  BY Opening, QueueBounds, EmptyFacts
  DEF TQ!Start, TQ!GotoWorker, TQ!queueVars, TQ!distVars, TQ!workerVars,
      CleanInv, KeyInv, InRun, TQ!TypeOK
<1> QED  BY <1>1, <1>2, <1>3, <1>4, <1>5, <1>6, <1>7, <1>8 DEF QueueInv

(* The distributor sends its next task.                                      *)
LEMMA Sending == ASSUME QueueInv, TQ!Send PROVE QueueInv'
<1> USE DEF QueueInv
<1> DEFINE t == <<run, sent[run] + 1>>
<1>1. t \in TQ!Tasks /\ t[1] = run /\ t[2] = sent[run] + 1 /\ run \in 1 .. MaxRuns
      /\ sent[run] \in Nat /\ sent[run] < NumTasks
  BY QueueBounds DEF TQ!Send, RunInv, TQ!TypeOK, TQ!Tasks
<1>2. /\ sent' = [sent EXCEPT ![run] = sent[run] + 1] /\ sent'[run] = sent[run] + 1
      /\ tasks' = Append(tasks, t)
      /\ dist = "send" /\ dist' \in {"send", "collect"}
      /\ dist' = "send" => sent'[run] # NumTasks
      /\ UNCHANGED <<key, queues, results, run, got, collected, crashed,
                     wpc, wq, wtask, wdone>>
  BY <1>1 DEF TQ!Send, TQ!TypeOK, TQ!workerVars
<1>3. t \notin TQ!ToSet(tasks) /\ ~TQ!Gone(t)
  BY <1>1 DEF SentInv
<1> HIDE DEF t
<1>4. /\ tasks \in Seq(TQ!Tasks) /\ tasks' \in Seq(TQ!Tasks)
      /\ Len(tasks) \in Nat /\ Len(tasks') = Len(tasks) + 1
      /\ \A k \in 1 .. Len(tasks) : tasks'[k] = tasks[k] /\ tasks[k] \in TQ!ToSet(tasks)
      /\ tasks'[Len(tasks) + 1] = t
      /\ TQ!ToSet(tasks') = TQ!ToSet(tasks) \cup {t}
  BY <1>1, <1>2, AppendFacts, ElementsByIndex DEF TQ!TypeOK
<1>5. \A r \in 1 .. MaxRuns : sent'[r] = IF r = run THEN sent[run] + 1 ELSE sent[r]
  BY <1>1, <1>2 DEF TQ!TypeOK
<1>6. sent' \in [1 .. MaxRuns -> 0 .. NumTasks]
  <2>1. sent[run] + 1 \in 0 .. NumTasks
    BY <1>1, QueueBounds
  <2> QED  BY <1>1, <1>2, <2>1 DEF TQ!TypeOK
<1>7. TQ!TypeOK'
  BY <1>1, <1>2, <1>3, <1>4, <1>5, <1>6, QueueBounds
  DEF TQ!TypeOK
<1>8. RunInv'
  BY <1>1, <1>2, <1>3, <1>4, <1>5, <1>6, QueueBounds
  DEF RunInv, TQ!TypeOK
<1>9. ShareInv'
  BY <1>1, <1>2, <1>3, <1>4, <1>5, <1>6, QueueBounds
  DEF ShareInv, TQ!TypeOK
<1>10. SentInv'
  <2>1. \A u \in TQ!Tasks : TQ!Gone(u)' <=> TQ!Gone(u)
    BY <1>2 DEF TQ!Gone
  <2>2. \A u \in TQ!Tasks : u[1] \in 1 .. MaxRuns /\ u[2] \in Nat
    BY DEF TQ!Tasks
  <2>3. \A u \in TQ!Tasks : u[2] <= sent[u[1]] => u[2] <= sent'[u[1]]
    BY <1>1, <1>5, <2>2 DEF TQ!TypeOK
  <2>4. ASSUME NEW u \in TQ!Tasks, u \in TQ!ToSet(tasks') \/ TQ!Gone(u)'
        PROVE  u[2] <= sent'[u[1]]
    <3>1. CASE u = t
      BY <1>1, <1>2, <3>1
    <3>2. CASE u # t
      BY <1>4, <2>1, <2>3, <2>4, <3>2 DEF SentInv
    <3> QED  BY <3>1, <3>2
  <2>5. \A u \in TQ!ToSet(tasks) : Earlier(u, t)
    <3> TAKE u \in TQ!ToSet(tasks)
    <3>1. u \in TQ!Tasks /\ u[2] <= sent[u[1]] /\ u[1] \in 1 .. MaxRuns /\ u[2] \in 1 .. NumTasks
      BY <1>4, ElementsByIndex DEF SentInv, TQ!Tasks
    <3>2. u[1] <= run
      BY <1>1, <3>1, QueueBounds DEF RunInv
    <3>3. CASE u[1] = run
      BY <1>1, <3>1, <3>3, QueueBounds DEF Earlier
    <3>4. CASE u[1] # run
      BY <1>1, <3>1, <3>2, <3>4, QueueBounds DEF Earlier
    <3> QED  BY <3>3, <3>4
  <2>6. ASSUME NEW m \in 1 .. Len(tasks'), NEW n \in 1 .. Len(tasks'), m < n
        PROVE  Earlier(tasks'[m], tasks'[n])
    <3>1. m \in 1 .. Len(tasks)
      BY <1>4, <2>6
    <3>2. CASE n \in 1 .. Len(tasks)
      BY <1>4, <2>6, <3>1, <3>2 DEF SentInv
    <3>3. CASE n = Len(tasks) + 1
      BY <1>4, <2>5, <3>1, <3>3
    <3> QED  BY <1>4, <3>2, <3>3
  <2> QED  BY <2>4, <2>6 DEF SentInv
<1>11. HandedInv'
  BY <1>1, <1>2, <1>3, <1>4, <1>5, <1>6, QueueBounds
  DEF HandedInv, TQ!Gone, TQ!TypeOK
<1>12. AnsweredInv'
  BY <1>1, <1>2, <1>3, <1>4, <1>5, <1>6, QueueBounds
  DEF AnsweredInv, TQ!Gone, TQ!TypeOK
<1>13. KeyInv'
  BY <1>1, <1>2, <1>3, <1>4, <1>5, <1>6, QueueBounds
  DEF KeyInv, InRun, TQ!TypeOK
<1>14. CleanInv'
  BY <1>1, <1>2, <1>3, <1>4, <1>5, <1>6, QueueBounds
  DEF CleanInv, KeyInv, InRun, TQ!TypeOK
<1> QED  BY <1>7, <1>8, <1>9, <1>10, <1>11, <1>12, <1>13, <1>14 DEF QueueInv

(* It takes the next result, whosesoever task that was.                      *)
LEMMA Collecting == ASSUME QueueInv, TQ!Collect PROVE QueueInv'
<1> USE DEF QueueInv
<1> DEFINE t == Head(results)
<1>1. /\ dist = "collect" /\ results # <<>>
      /\ got' = Append(got, t) /\ results' = Tail(results)
      /\ collected' = collected \cup {t}
      /\ dist' = IF Len(got') = NumTasks THEN "remove" ELSE "collect"
      /\ UNCHANGED <<key, queues, tasks, run, sent, crashed, wpc, wq, wtask, wdone>>
  BY DEF TQ!Collect, TQ!workerVars
<1>2. results \in Seq(TQ!Tasks) /\ got \in Seq(TQ!Tasks) /\ Len(got) < NumTasks
  BY <1>1 DEF TQ!TypeOK, RunInv
<1>3. /\ t \in TQ!Tasks /\ t \in TQ!ToSet(results)
      /\ results' \in Seq(TQ!Tasks)
      /\ TQ!ToSet(results) = TQ!ToSet(results') \cup {t}
      /\ Distinct(results') /\ t \notin TQ!ToSet(results')
  BY <1>1, <1>2, TailFacts DEF AnsweredInv
<1>4. t \notin collected /\ TQ!Gone(t)
  BY <1>3 DEF AnsweredInv
<1> HIDE DEF t
<1>5. /\ got' \in Seq(TQ!Tasks) /\ Len(got') = Len(got) + 1 /\ Len(got) \in Nat
      /\ TQ!ToSet(got') = TQ!ToSet(got) \cup {t}
      /\ Distinct(got) /\ t \notin TQ!ToSet(got) => Distinct(got')
  BY <1>1, <1>2, <1>3, AppendFacts
<1>6. TQ!TypeOK'
  BY <1>1, <1>2, <1>3, <1>4, <1>5, QueueBounds
  DEF TQ!TypeOK
<1>7. RunInv'
  BY <1>1, <1>2, <1>3, <1>4, <1>5, QueueBounds
  DEF RunInv, TQ!TypeOK
<1>8. ShareInv'
  BY <1>1, <1>2, <1>3, <1>4, <1>5, QueueBounds
  DEF ShareInv, TQ!TypeOK
<1>9. SentInv'
  BY <1>1, <1>2, <1>3, <1>4, <1>5, QueueBounds
  DEF SentInv, TQ!Gone, TQ!TypeOK
<1>10. HandedInv'
  BY <1>1, <1>2, <1>3, <1>4, <1>5, QueueBounds
  DEF HandedInv, TQ!Gone, TQ!TypeOK
<1>11. AnsweredInv'
  BY <1>1, <1>2, <1>3, <1>4, <1>5, QueueBounds
  DEF AnsweredInv, TQ!Gone, TQ!TypeOK
<1>12. KeyInv'
  BY <1>1, <1>2, <1>3, <1>4, <1>5, QueueBounds
  DEF KeyInv, InRun, TQ!TypeOK
<1>13. CleanInv'
  BY <1>1, <1>2, <1>3, <1>4, <1>5, QueueBounds
  DEF CleanInv, KeyInv, InRun, TQ!TypeOK
<1> QED  BY <1>6, <1>7, <1>8, <1>9, <1>10, <1>11, <1>12, <1>13 DEF QueueInv

LEMMA OneToOne ==
  ASSUME NEW S, NEW T, NEW f \in [S -> T], \A a, b \in S : f[a] = f[b] => a = b,
         \A y \in T : \E x \in S : f[x] = y
  PROVE  f \in Bijection(S, T)
BY DEF Bijection, Injection, Surjection, IsInjective

(* With all the results of a run in its hands the distributor has those of   *)
(* its own tasks, if none was cut short on this queue.                       *)
LEMMA AllAreCollected ==
  ASSUME TQ!TypeOK, RunInv, HandedInv, AnsweredInv, CleanInv, key \notin crashed, InRun,
         run \in 1 .. MaxRuns, Len(got) = NumTasks
  PROVE  TQ!ToSet(got) = {run} \X (1 .. NumTasks)
<1> DEFINE all == {run} \X (1 .. NumTasks)
           nth == [k \in 1 .. NumTasks |-> <<run, k>>]
<1>1. NumTasks \in Nat /\ IsFiniteSet(1 .. NumTasks) /\ Cardinality(1 .. NumTasks) = NumTasks
  BY QueueBounds, FS_Interval
<1>2. got \in Seq(TQ!Tasks) /\ DOMAIN got = 1 .. NumTasks
  BY DEF TQ!TypeOK
<1>3. TQ!ToSet(got) \subseteq all
  <2> SUFFICES ASSUME NEW t \in TQ!ToSet(got) PROVE t \in all
    OBVIOUS
  <2>1. t \in TQ!Tasks /\ t[1] = run
    BY <1>2, ElementsByIndex DEF CleanInv
  <2> QED  BY <2>1 DEF TQ!Tasks
<1>4. IsFiniteSet(all) /\ Cardinality(all) = NumTasks
  <2>1. nth \in Bijection(1 .. NumTasks, all)
    <3>1. nth \in [1 .. NumTasks -> all] /\ \A k \in 1 .. NumTasks : nth[k] = <<run, k>>
      OBVIOUS
    <3>2. \A x \in all : x[2] \in 1 .. NumTasks /\ x = <<run, x[2]>>
      OBVIOUS
    <3>3. \A m, n \in 1 .. NumTasks : nth[m] = nth[n] => m = n
      OBVIOUS
    <3> HIDE DEF nth, all
    <3>4. \A x \in all : \E k \in 1 .. NumTasks : nth[k] = x
      BY <3>1, <3>2
    <3> QED  BY <3>1, <3>3, <3>4, OneToOne
  <2> HIDE DEF nth, all
  <2> QED  BY <1>1, <2>1, FS_Bijection DEF ExistsBijection
<1>5. Cardinality(TQ!ToSet(got)) = NumTasks
  <2> DEFINE set == TQ!ToSet(got)
  <2>1. \A k \in 1 .. NumTasks : got[k] \in set
    BY <1>2, ElementsByIndex
  <2>2. \A x \in set : \E k \in 1 .. NumTasks : got[k] = x
    BY <1>2, ElementsByIndex
  <2>3. \A m, n \in 1 .. NumTasks : got[m] = got[n] => m = n
    BY DEF CleanInv, Distinct
  <2>4. got = [k \in 1 .. NumTasks |-> got[k]]
    BY <1>2
  <2> HIDE DEF set
  <2>5. got \in [1 .. NumTasks -> set]
    BY <2>1, <2>4
  <2>6. got \in Bijection(1 .. NumTasks, set)
    BY <2>2, <2>3, <2>5, OneToOne
  <2>7. Cardinality(set) = NumTasks
    BY <1>1, <2>6, FS_Bijection DEF ExistsBijection
  <2> QED  BY <2>7 DEF set
<1> HIDE DEF all
<1>6. all = TQ!ToSet(got)
  BY <1>3, <1>4, <1>5, FS_Subset
<1> QED  BY <1>6 DEF all

(* So no worker is still at one of them.                                     *)
LEMMA NobodyWorks ==
  ASSUME TQ!TypeOK, RunInv, HandedInv, AnsweredInv, CleanInv, key \notin crashed, InRun,
         run \in 1 .. MaxRuns, Len(got) = NumTasks, NEW w \in Workers, wq[w] = key
  PROVE  wpc[w] # "work"
<1> SUFFICES ASSUME wpc[w] = "work" PROVE FALSE
  OBVIOUS
<1> DEFINE t == TQ!Last(wtask[w])
<1>1. t[1] = run /\ t \notin collected /\ wtask[w] # <<>>
  BY DEF CleanInv, AnsweredInv
<1>2. wtask[w] \in Seq(TQ!Tasks)
  BY DEF TQ!TypeOK
<1>3. t \in TQ!Tasks
  BY <1>1, <1>2, LastFacts
<1> HIDE DEF t
<1>4. t \in {run} \X (1 .. NumTasks)
  BY <1>1, <1>3 DEF TQ!Tasks
<1>5. t \in TQ!ToSet(got)
  BY <1>4, AllAreCollected
<1> QED  BY <1>1, <1>5 DEF CleanInv

LEMMA RemovingQueue == ASSUME QueueInv, TQ!RemoveQueue PROVE QueueInv'
<1> USE DEF QueueInv
<1>1. 0 \notin crashed
  BY DEF TQ!TypeOK
<1>2. TQ!TypeOK'
  BY <1>1, EmptyFacts
  DEF TQ!RemoveQueue, TQ!GotoWorker, TQ!queueVars, TQ!distVars, TQ!workerVars,
      TQ!TypeOK
<1>3. RunInv'
  BY <1>1, EmptyFacts
  DEF TQ!RemoveQueue, TQ!GotoWorker, TQ!queueVars, TQ!distVars, TQ!workerVars,
      RunInv, TQ!TypeOK
<1>4. ShareInv'
  BY <1>1, EmptyFacts
  DEF TQ!RemoveQueue, TQ!GotoWorker, TQ!queueVars, TQ!distVars, TQ!workerVars,
      ShareInv, TQ!TypeOK
<1>5. SentInv'
  BY <1>1, EmptyFacts
  DEF TQ!RemoveQueue, TQ!GotoWorker, TQ!queueVars, TQ!distVars, TQ!workerVars,
      SentInv, TQ!Gone, TQ!TypeOK
<1>6. HandedInv'
  BY <1>1, EmptyFacts
  DEF TQ!RemoveQueue, TQ!GotoWorker, TQ!queueVars, TQ!distVars, TQ!workerVars,
      HandedInv, TQ!Gone, TQ!TypeOK
<1>7. AnsweredInv'
  BY <1>1, EmptyFacts
  DEF TQ!RemoveQueue, TQ!GotoWorker, TQ!queueVars, TQ!distVars, TQ!workerVars,
      AnsweredInv, TQ!Gone, TQ!TypeOK
<1>8. KeyInv'
  BY <1>1, EmptyFacts
  DEF TQ!RemoveQueue, TQ!GotoWorker, TQ!queueVars, TQ!distVars, TQ!workerVars,
      KeyInv, InRun, TQ!TypeOK
<1>9. CleanInv'
  BY <1>1, EmptyFacts
  DEF TQ!RemoveQueue, TQ!GotoWorker, TQ!queueVars, TQ!distVars, TQ!workerVars,
      CleanInv, KeyInv, InRun, TQ!TypeOK
<1> QED  BY <1>2, <1>3, <1>4, <1>5, <1>6, <1>7, <1>8, <1>9 DEF QueueInv

LEMMA Killing == ASSUME QueueInv, TQ!KillDistributor PROVE QueueInv'
<1> USE DEF QueueInv
<1>1. TQ!TypeOK'
  <2>1. key \in 1 .. queues
    BY DEF TQ!KillDistributor, TQ!TypeOK, KeyInv, InRun
  <2> QED
    BY <2>1 DEF TQ!KillDistributor, TQ!queueVars, TQ!workerVars, TQ!TypeOK
<1>2. RunInv'
  BY EmptyFacts
  DEF TQ!KillDistributor, TQ!GotoWorker, TQ!queueVars, TQ!distVars,
      TQ!workerVars, RunInv, TQ!TypeOK
<1>3. ShareInv'
  BY EmptyFacts
  DEF TQ!KillDistributor, TQ!GotoWorker, TQ!queueVars, TQ!distVars,
      TQ!workerVars, ShareInv, TQ!TypeOK
<1>4. SentInv'
  BY EmptyFacts
  DEF TQ!KillDistributor, TQ!GotoWorker, TQ!queueVars, TQ!distVars,
      TQ!workerVars, SentInv, TQ!Gone, TQ!TypeOK
<1>5. HandedInv'
  BY EmptyFacts
  DEF TQ!KillDistributor, TQ!GotoWorker, TQ!queueVars, TQ!distVars,
      TQ!workerVars, HandedInv, TQ!Gone, TQ!TypeOK
<1>6. AnsweredInv'
  BY EmptyFacts
  DEF TQ!KillDistributor, TQ!GotoWorker, TQ!queueVars, TQ!distVars,
      TQ!workerVars, AnsweredInv, TQ!Gone, TQ!TypeOK
<1>7. KeyInv'
  BY EmptyFacts
  DEF TQ!KillDistributor, TQ!GotoWorker, TQ!queueVars, TQ!distVars,
      TQ!workerVars, KeyInv, InRun, TQ!TypeOK
<1>8. CleanInv'
  BY EmptyFacts
  DEF TQ!KillDistributor, TQ!GotoWorker, TQ!queueVars, TQ!distVars,
      TQ!workerVars, CleanInv, KeyInv, InRun, TQ!TypeOK
<1> QED  BY <1>1, <1>2, <1>3, <1>4, <1>5, <1>6, <1>7, <1>8 DEF QueueInv

LEMMA Launching == ASSUME QueueInv, NEW w \in Workers, TQ!Launch(w) PROVE QueueInv'
<1> USE DEF QueueInv
<1>1. TQ!TypeOK'
  BY Opening, EmptyFacts
  DEF TQ!Launch, TQ!GotoWorker, TQ!queueVars, TQ!distVars, TQ!workerVars,
      TQ!TypeOK
<1>2. RunInv'
  BY Opening, EmptyFacts
  DEF TQ!Launch, TQ!GotoWorker, TQ!queueVars, TQ!distVars, TQ!workerVars,
      RunInv, TQ!TypeOK
<1>3. ShareInv'
  BY Opening, EmptyFacts
  DEF TQ!Launch, TQ!GotoWorker, TQ!queueVars, TQ!distVars, TQ!workerVars,
      ShareInv, TQ!TypeOK
<1>4. SentInv'
  BY Opening, EmptyFacts
  DEF TQ!Launch, TQ!GotoWorker, TQ!queueVars, TQ!distVars, TQ!workerVars,
      SentInv, TQ!Gone, TQ!TypeOK
<1>5. HandedInv'
  BY Opening, EmptyFacts
  DEF TQ!Launch, TQ!GotoWorker, TQ!queueVars, TQ!distVars, TQ!workerVars,
      HandedInv, TQ!Gone, TQ!TypeOK
<1>6. AnsweredInv'
  BY Opening, EmptyFacts
  DEF TQ!Launch, TQ!GotoWorker, TQ!queueVars, TQ!distVars, TQ!workerVars,
      AnsweredInv, TQ!Gone, TQ!TypeOK
<1>7. KeyInv'
  BY Opening, EmptyFacts
  DEF TQ!Launch, TQ!GotoWorker, TQ!queueVars, TQ!distVars, TQ!workerVars,
      KeyInv, InRun, TQ!TypeOK
<1>8. CleanInv'
  BY Opening, EmptyFacts
  DEF TQ!Launch, TQ!GotoWorker, TQ!queueVars, TQ!distVars, TQ!workerVars,
      CleanInv, KeyInv, InRun, TQ!TypeOK
<1> QED  BY <1>1, <1>2, <1>3, <1>4, <1>5, <1>6, <1>7, <1>8 DEF QueueInv

(* A worker takes the oldest task.                                           *)
LEMMA Taking == ASSUME QueueInv, NEW w \in Workers, TQ!Take(w) PROVE QueueInv'
<1> USE DEF QueueInv
<1> DEFINE t == Head(tasks)
           mine == Append(wtask[w], t)
<1>1. /\ wpc[w] = "recv" /\ wq[w] = key /\ tasks # <<>>
      /\ wtask' = [wtask EXCEPT ![w] = mine] /\ tasks' = Tail(tasks)
      /\ wpc' = [wpc EXCEPT ![w] = "work"]
      /\ UNCHANGED <<key, queues, results, dist, run, sent, got, collected,
                     crashed, wq, wdone>>
  BY DEF TQ!Take, TQ!GotoWorker, TQ!distVars
<1>2. tasks \in Seq(TQ!Tasks) /\ wtask[w] \in Seq(TQ!Tasks)
  BY DEF TQ!TypeOK
<1>3. Distinct(tasks)
  <2> SUFFICES ASSUME NEW m \in 1 .. Len(tasks), NEW n \in 1 .. Len(tasks), m # n
               PROVE  tasks[m] # tasks[n]
    BY DEF Distinct
  <2>1. tasks[m] \in TQ!Tasks /\ tasks[n] \in TQ!Tasks
    BY <1>2
  <2>2. \A u \in TQ!Tasks : ~Earlier(u, u)
    BY DEF Earlier, TQ!Tasks
  <2>3. CASE m < n
    BY <2>1, <2>2, <2>3 DEF SentInv
  <2>4. CASE n < m
    BY <2>1, <2>2, <2>4 DEF SentInv
  <2> QED  BY <1>2, <2>3, <2>4
<1>4. /\ t \in TQ!Tasks /\ t \in TQ!ToSet(tasks)
      /\ tasks' \in Seq(TQ!Tasks) /\ Len(tasks') = Len(tasks) - 1
      /\ Len(tasks) \in Nat \ {0}
      /\ \A k \in 1 .. Len(tasks) - 1 : tasks'[k] = tasks[k + 1]
      /\ TQ!ToSet(tasks) = TQ!ToSet(tasks') \cup {t} /\ t \notin TQ!ToSet(tasks')
  BY <1>1, <1>2, <1>3, TailFacts
<1>5. ~TQ!Gone(t)
  BY <1>4 DEF HandedInv
<1>6. t \notin TQ!ToSet(results) /\ t \notin collected
  BY <1>5 DEF AnsweredInv
<1> HIDE DEF t
<1>7. /\ mine \in Seq(TQ!Tasks) /\ mine # <<>> /\ TQ!Last(mine) = t
      /\ TQ!ToSet(mine) = TQ!ToSet(wtask[w]) \cup {t}
      /\ Distinct(mine)
  <2>1. Distinct(wtask[w]) /\ t \notin TQ!ToSet(wtask[w])
    BY <1>5 DEF HandedInv, TQ!Gone
  <2> QED  BY <1>2, <1>4, <2>1, AppendFacts
<1> HIDE DEF mine
<1>8. /\ wtask' \in [Workers -> Seq(TQ!Tasks)]
      /\ \A v \in Workers : wtask'[v] = IF v = w THEN mine ELSE wtask[v]
      /\ wpc' \in [Workers -> {"none", "recv", "work", "done", "failed", "lost"}]
      /\ \A v \in Workers : wpc'[v] = IF v = w THEN "work" ELSE wpc[v]
  BY <1>1, <1>7 DEF TQ!TypeOK
<1>9. \A u : TQ!Gone(u)' <=> TQ!Gone(u) \/ u = t
  BY <1>7, <1>8 DEF TQ!Gone
<1>10. TQ!TypeOK'
  BY <1>1, <1>2, <1>4, <1>5, <1>6, <1>7, <1>8, <1>9, QueueBounds
  DEF TQ!TypeOK
<1>11. RunInv'
  BY <1>1, <1>2, <1>4, <1>5, <1>6, <1>7, <1>8, <1>9, QueueBounds
  DEF RunInv, TQ!TypeOK
<1>12. ShareInv'
  BY <1>1, <1>2, <1>4, <1>5, <1>6, <1>7, <1>8, <1>9, QueueBounds
  DEF ShareInv, TQ!TypeOK
<1>13. SentInv'
  <2>1. t[2] <= sent[t[1]]
    BY <1>4 DEF SentInv
  <2>2. \A u \in TQ!Tasks : u \in TQ!ToSet(tasks') \/ TQ!Gone(u)' => u[2] <= sent'[u[1]]
    BY <1>1, <1>4, <1>9, <2>1 DEF SentInv
  <2>3. ASSUME NEW m \in 1 .. Len(tasks'), NEW n \in 1 .. Len(tasks'), m < n
        PROVE  Earlier(tasks'[m], tasks'[n])
    <3>1. m + 1 \in 1 .. Len(tasks) /\ n + 1 \in 1 .. Len(tasks) /\ m + 1 < n + 1
      BY <1>4, <2>3
    <3>2. tasks'[m] = tasks[m + 1] /\ tasks'[n] = tasks[n + 1]
      BY <1>4
    <3> QED  BY <3>1, <3>2 DEF SentInv
  <2> QED  BY <2>2, <2>3 DEF SentInv
<1>14. HandedInv'
  <2>1. \A v \in Workers : Distinct(wtask'[v])
    BY <1>7, <1>8 DEF HandedInv
  <2>2. \A v \in Workers : t \notin TQ!ToSet(wtask[v])
    BY <1>5 DEF TQ!Gone
  <2>3. \A u, v \in Workers : \A x \in TQ!Tasks :
          x \in TQ!ToSet(wtask'[u]) /\ x \in TQ!ToSet(wtask'[v]) => u = v
    BY <1>7, <1>8, <2>2 DEF HandedInv
  <2>4. \A x \in TQ!ToSet(tasks') : ~TQ!Gone(x)'
    BY <1>4, <1>9 DEF HandedInv
  <2> QED  BY <2>1, <2>3, <2>4 DEF HandedInv
<1>15. AnsweredInv'
  BY <1>1, <1>2, <1>4, <1>5, <1>6, <1>7, <1>8, <1>9, QueueBounds
  DEF AnsweredInv, TQ!TypeOK
<1>16. KeyInv'
  BY <1>1, <1>2, <1>4, <1>5, <1>6, <1>7, <1>8, <1>9, QueueBounds
  DEF KeyInv, InRun, TQ!TypeOK
<1>17. CleanInv'
  BY <1>1, <1>2, <1>4, <1>5, <1>6, <1>7, <1>8, <1>9, QueueBounds
  DEF CleanInv, KeyInv, InRun, TQ!TypeOK
<1> QED  BY <1>10, <1>11, <1>12, <1>13, <1>14, <1>15, <1>16, <1>17 DEF QueueInv

(* It answers the task it has.                                               *)
LEMMA Replying == ASSUME QueueInv, NEW w \in Workers, TQ!Reply(w) PROVE QueueInv'
<1> USE DEF QueueInv
<1> DEFINE t == TQ!Last(wtask[w])
           where == IF wdone'[w] = TasksPerWorker THEN "done" ELSE "recv"
<1>1. /\ wpc[w] = "work" /\ wq[w] = key /\ wdone' = [wdone EXCEPT ![w] = wdone[w] + 1]
      /\ results' = Append(results, t) /\ wpc' = [wpc EXCEPT ![w] = where]
      /\ UNCHANGED <<key, queues, tasks, dist, run, sent, got, collected,
                     crashed, wq, wtask>>
  BY DEF TQ!Reply, TQ!GotoWorker, TQ!distVars
<1>2. wtask[w] \in Seq(TQ!Tasks) /\ results \in Seq(TQ!Tasks)
  BY DEF TQ!TypeOK
<1>3. wtask[w] # <<>> /\ t \notin TQ!ToSet(results) /\ t \notin collected
  BY <1>1 DEF AnsweredInv
<1>4. t \in TQ!Tasks /\ t \in TQ!ToSet(wtask[w])
  BY <1>2, <1>3, LastFacts
<1>5. key \notin crashed => t[1] = run
  BY <1>1 DEF CleanInv
<1>6. \A v \in Workers :
        wpc[v] = "work" /\ v # w => TQ!Last(wtask[v]) # t
  <2> TAKE v \in Workers
  <2> HAVE wpc[v] = "work" /\ v # w
  <2>1. wtask[v] \in Seq(TQ!Tasks) /\ wtask[v] # <<>>
    BY DEF TQ!TypeOK, AnsweredInv
  <2>2. TQ!Last(wtask[v]) \in TQ!ToSet(wtask[v])
    BY <2>1, LastFacts
  <2> QED  BY <1>4, <2>2 DEF HandedInv
<1> HIDE DEF t
<1>7. /\ results' \in Seq(TQ!Tasks) /\ Distinct(results')
      /\ TQ!ToSet(results') = TQ!ToSet(results) \cup {t}
  BY <1>1, <1>2, <1>3, <1>4, AppendFacts DEF AnsweredInv
<1>8. /\ wdone[w] \in Nat /\ wdone[w] < TasksPerWorker /\ wdone'[w] = wdone[w] + 1
      /\ wdone' \in [Workers -> 0 .. TasksPerWorker]
      /\ \A v \in Workers : v # w => wdone'[v] = wdone[v]
  BY <1>1, QueueBounds DEF TQ!TypeOK, ShareInv
<1>9. /\ where \in {"done", "recv"}
      /\ where = "recv" => wdone'[w] # TasksPerWorker
  OBVIOUS
<1> HIDE DEF where
<1>10. /\ wpc' \in [Workers -> {"none", "recv", "work", "done", "failed", "lost"}]
       /\ \A v \in Workers : wpc'[v] = IF v = w THEN where ELSE wpc[v]
  BY <1>1, <1>9 DEF TQ!TypeOK
<1>11. \A u : TQ!Gone(u)' <=> TQ!Gone(u)
  BY <1>1 DEF TQ!Gone
<1>12. TQ!Gone(t)
  BY <1>4 DEF TQ!Gone
<1>13. TQ!TypeOK'
  BY <1>1, <1>2, <1>3, <1>4, <1>5, <1>6, <1>7, <1>8, <1>9, <1>10, <1>11, <1>12, QueueBounds
  DEF TQ!TypeOK
<1>14. RunInv'
  BY <1>1, <1>2, <1>3, <1>4, <1>5, <1>6, <1>7, <1>8, <1>9, <1>10, <1>11, <1>12, QueueBounds
  DEF RunInv, TQ!TypeOK
<1>15. ShareInv'
  BY <1>1, <1>2, <1>3, <1>4, <1>5, <1>6, <1>7, <1>8, <1>9, <1>10, <1>11, <1>12, QueueBounds
  DEF ShareInv, TQ!TypeOK
<1>16. SentInv'
  BY <1>1, <1>2, <1>3, <1>4, <1>5, <1>6, <1>7, <1>8, <1>9, <1>10, <1>11, <1>12, QueueBounds
  DEF SentInv, TQ!TypeOK
<1>17. HandedInv'
  BY <1>1, <1>2, <1>3, <1>4, <1>5, <1>6, <1>7, <1>8, <1>9, <1>10, <1>11, <1>12, QueueBounds
  DEF HandedInv, TQ!TypeOK
<1>18. AnsweredInv'
  BY <1>1, <1>2, <1>3, <1>4, <1>5, <1>6, <1>7, <1>8, <1>9, <1>10, <1>11, <1>12, QueueBounds
  DEF AnsweredInv, TQ!TypeOK
<1>19. KeyInv'
  BY <1>1, <1>2, <1>3, <1>4, <1>5, <1>6, <1>7, <1>8, <1>9, <1>10, <1>11, <1>12, QueueBounds
  DEF KeyInv, InRun, TQ!TypeOK
<1>20. CleanInv'
  BY <1>1, <1>2, <1>3, <1>4, <1>5, <1>6, <1>7, <1>8, <1>9, <1>10, <1>11, <1>12, QueueBounds
  DEF CleanInv, KeyInv, InRun, TQ!TypeOK
<1> QED  BY <1>13, <1>14, <1>15, <1>16, <1>17, <1>18, <1>19, <1>20 DEF QueueInv

(* A worker that ends without an answer loses the task it has.               *)
LEMMA Losing ==
  ASSUME QueueInv, NEW w \in Workers, TQ!QueueGone(w) \/ TQ!KillWorker(w)
  PROVE  QueueInv'
<1> USE DEF QueueInv
<1>1. TQ!TypeOK'
  BY EmptyFacts
  DEF TQ!QueueGone, TQ!KillWorker, TQ!GotoWorker, TQ!queueVars, TQ!distVars,
      TQ!workerVars, TQ!TypeOK
<1>2. RunInv'
  BY EmptyFacts
  DEF TQ!QueueGone, TQ!KillWorker, TQ!GotoWorker, TQ!queueVars, TQ!distVars,
      TQ!workerVars, RunInv, TQ!TypeOK
<1>3. ShareInv'
  BY EmptyFacts
  DEF TQ!QueueGone, TQ!KillWorker, TQ!GotoWorker, TQ!queueVars, TQ!distVars,
      TQ!workerVars, ShareInv, TQ!TypeOK
<1>4. SentInv'
  BY EmptyFacts
  DEF TQ!QueueGone, TQ!KillWorker, TQ!GotoWorker, TQ!queueVars, TQ!distVars,
      TQ!workerVars, SentInv, TQ!Gone, TQ!TypeOK
<1>5. HandedInv'
  BY EmptyFacts
  DEF TQ!QueueGone, TQ!KillWorker, TQ!GotoWorker, TQ!queueVars, TQ!distVars,
      TQ!workerVars, HandedInv, TQ!Gone, TQ!TypeOK
<1>6. AnsweredInv'
  BY EmptyFacts
  DEF TQ!QueueGone, TQ!KillWorker, TQ!GotoWorker, TQ!queueVars, TQ!distVars,
      TQ!workerVars, AnsweredInv, TQ!Gone, TQ!TypeOK
<1>7. KeyInv'
  BY EmptyFacts
  DEF TQ!QueueGone, TQ!KillWorker, TQ!GotoWorker, TQ!queueVars, TQ!distVars,
      TQ!workerVars, KeyInv, InRun, TQ!TypeOK
<1>8. CleanInv'
  BY EmptyFacts
  DEF TQ!QueueGone, TQ!KillWorker, TQ!GotoWorker, TQ!queueVars, TQ!distVars,
      TQ!workerVars, CleanInv, KeyInv, InRun, TQ!TypeOK
<1> QED  BY <1>1, <1>2, <1>3, <1>4, <1>5, <1>6, <1>7, <1>8 DEF QueueInv

LEMMA Waiting == ASSUME QueueInv, UNCHANGED TQ!vars PROVE QueueInv'
<1> USE DEF QueueInv
<1>1. TQ!TypeOK'
  BY EmptyFacts
  DEF TQ!vars, TQ!GotoWorker, TQ!queueVars, TQ!distVars, TQ!workerVars,
      TQ!TypeOK
<1>2. RunInv'
  BY EmptyFacts
  DEF TQ!vars, TQ!GotoWorker, TQ!queueVars, TQ!distVars, TQ!workerVars, RunInv,
      TQ!TypeOK
<1>3. ShareInv'
  BY EmptyFacts
  DEF TQ!vars, TQ!GotoWorker, TQ!queueVars, TQ!distVars, TQ!workerVars,
      ShareInv, TQ!TypeOK
<1>4. SentInv'
  BY EmptyFacts
  DEF TQ!vars, TQ!GotoWorker, TQ!queueVars, TQ!distVars, TQ!workerVars,
      SentInv, TQ!Gone, TQ!TypeOK
<1>5. HandedInv'
  BY EmptyFacts
  DEF TQ!vars, TQ!GotoWorker, TQ!queueVars, TQ!distVars, TQ!workerVars,
      HandedInv, TQ!Gone, TQ!TypeOK
<1>6. AnsweredInv'
  BY EmptyFacts
  DEF TQ!vars, TQ!GotoWorker, TQ!queueVars, TQ!distVars, TQ!workerVars,
      AnsweredInv, TQ!Gone, TQ!TypeOK
<1>7. KeyInv'
  BY EmptyFacts
  DEF TQ!vars, TQ!GotoWorker, TQ!queueVars, TQ!distVars, TQ!workerVars,
      KeyInv, InRun, TQ!TypeOK
<1>8. CleanInv'
  BY EmptyFacts
  DEF TQ!vars, TQ!GotoWorker, TQ!queueVars, TQ!distVars, TQ!workerVars,
      CleanInv, KeyInv, InRun, TQ!TypeOK
<1> QED  BY <1>1, <1>2, <1>3, <1>4, <1>5, <1>6, <1>7, <1>8 DEF QueueInv

LEMMA QueueStep == QueueInv /\ [TQ!Next]_(TQ!vars) => QueueInv'
BY Starting, Sending, Collecting, RemovingQueue, Killing, Launching, Taking,
   Replying, Losing, Waiting
DEF TQ!Next, TQ!DistributorStep, TQ!WorkerStep, TQ!Quiet

-----------------------------------------------------------------------------
(* The task queue: theorems *)

LEMMA QueueInvariance == TQ!Spec => []QueueInv
BY QueueInit, QueueStep, PTL DEF TQ!Spec

LEMMA SuiteRunsQueue == Spec => TQ!Spec
<1>1. Init => TQ!Init
  BY DEF Init
<1>2. [Next]_vars => [TQ!Next]_(TQ!vars)
  BY DEF Next, vars, queueVars, TQ!vars, TQ!queueVars, TQ!distVars, TQ!workerVars
<1> QED  BY <1>1, <1>2, PTL DEF Spec, TQ!Spec

(* task_distributor.c and worker.c: although the distributor only counts the *)
(* results, those it has counted are the results of its own tasks, and no    *)
(* worker of the queue is at a task when it is removed, if no distributor    *)
(* was killed on that queue, whatever happened on earlier ones.              *)
THEOREM ResultsAreOfThisRun == Spec => []RunsAreComplete
<1>1. QueueInv => RunsAreComplete
  <2> SUFFICES ASSUME QueueInv, key \notin crashed, dist = "remove"
               PROVE  /\ TQ!ToSet(got) = {run} \X (1 .. NumTasks)
                      /\ \A w \in Workers : wpc[w] = "work" => wq[w] # key
    BY DEF RunsAreComplete, TQ!RunsAreComplete
  <2> USE DEF QueueInv
  <2>1. Len(got) = NumTasks /\ run \in 1 .. MaxRuns /\ InRun
    BY DEF CleanInv, RunInv, InRun
  <2> QED  BY <2>1, AllAreCollected, NobodyWorks
<1> QED  BY <1>1, SuiteRunsQueue, QueueInvariance, PTL

-----------------------------------------------------------------------------
(* The task queue implements the pool *)

(* A worker is at the task.                                                  *)
AtWork(t) == \E w \in Workers : TQ!Held(w) /\ TQ!Last(wtask[w]) = t

places == [t \in TQ!Tasks |-> TQ!Place(t)]
receivers == [t \in TQ!Tasks |-> TQ!Receiver(t)]

LEMMA PlaceIs ==
  ASSUME NEW t
  PROVE  TQ!Place(t) = IF t \in collected THEN "collected"
                       ELSE IF t \in TQ!ToSet(tasks) THEN "queued"
                       ELSE IF t \in TQ!ToSet(results) THEN "answered"
                       ELSE IF AtWork(t) THEN "held"
                       ELSE IF t[2] <= sent[t[1]] THEN "lost" ELSE "new"
BY DEF TQ!Place, AtWork

(* A task is in one place only.                                              *)
LEMMA OnePlace ==
  ASSUME QueueInv, NEW t \in TQ!Tasks
  PROVE  /\ t \in TQ!ToSet(tasks) => ~TQ!Gone(t)
         /\ AtWork(t) => /\ TQ!Gone(t) /\ t \notin TQ!ToSet(results)
                         /\ t \notin collected
         /\ t \in TQ!ToSet(results) => TQ!Gone(t) /\ t \notin collected
         /\ t \in collected => TQ!Gone(t)
         /\ TQ!Gone(t) \/ t \in TQ!ToSet(tasks) => t[2] <= sent[t[1]]
<1>1. ASSUME NEW w \in Workers, TQ!Held(w)
      PROVE  TQ!Last(wtask[w]) \in TQ!ToSet(wtask[w]) /\ wpc[w] = "work"
  <2>1. wtask[w] \in Seq(TQ!Tasks) /\ wtask[w] # <<>> /\ wpc[w] = "work"
    BY <1>1 DEF TQ!Held, QueueInv, TQ!TypeOK
  <2> QED  BY <2>1, LastFacts
<1>2. AtWork(t) => /\ TQ!Gone(t) /\ t \notin TQ!ToSet(results)
                   /\ t \notin collected
  BY <1>1 DEF AtWork, TQ!Gone, QueueInv, AnsweredInv
<1> QED  BY <1>2 DEF QueueInv, HandedInv, AnsweredInv, SentInv

(* Who received a task, it is the only one.                                  *)
LEMMA ReceiverIs ==
  ASSUME HandedInv, NEW t \in TQ!Tasks
  PROVE  /\ \A w \in Workers : t \in TQ!ToSet(wtask[w]) => TQ!Receiver(t) = w
         /\ ~TQ!Gone(t) => TQ!Receiver(t) = 0
         /\ TQ!Gone(t) => TQ!Receiver(t) \in Workers
                          /\ t \in TQ!ToSet(wtask[TQ!Receiver(t)])
BY DEF HandedInv, TQ!Receiver, TQ!Gone

LEMMA SameReceiver ==
  ASSUME HandedInv, HandedInv', NEW t \in TQ!Tasks,
         \A w \in Workers :
           t \in TQ!ToSet(wtask[w])' <=> t \in TQ!ToSet(wtask[w])
  PROVE  TQ!Receiver(t)' = TQ!Receiver(t)
<1>1. CASE TQ!Gone(t)
  <2>1. PICK w \in Workers : t \in TQ!ToSet(wtask[w])
    BY <1>1 DEF TQ!Gone
  <2>2. TQ!Receiver(t) = w
    BY <2>1, ReceiverIs
  <2>3. \A v \in Workers : t \in TQ!ToSet(wtask'[v]) => TQ!Receiver(t)' = v
    BY DEF HandedInv, TQ!Receiver, TQ!Gone
  <2> QED  BY <2>1, <2>2, <2>3
<1>2. CASE ~TQ!Gone(t)
  <2>1. ~TQ!Gone(t)'
    BY <1>2 DEF TQ!Gone
  <2> QED  BY <1>2, <2>1 DEF TQ!Receiver
<1> QED  BY <1>1, <1>2

(* The place of a task changes only with what places it.                     *)
LEMMA SamePlace ==
  ASSUME NEW t,
         (t \in collected)' <=> t \in collected,
         (t \in TQ!ToSet(tasks))' <=> t \in TQ!ToSet(tasks),
         (t \in TQ!ToSet(results))' <=> t \in TQ!ToSet(results),
         AtWork(t)' <=> AtWork(t),
         (t[2] <= sent[t[1]])' <=> t[2] <= sent[t[1]]
  PROVE  TQ!Place(t)' = TQ!Place(t)
<1>1. TQ!Place(t)' = IF t \in collected' THEN "collected"
                     ELSE IF t \in TQ!ToSet(tasks') THEN "queued"
                     ELSE IF t \in TQ!ToSet(results') THEN "answered"
                     ELSE IF AtWork(t)' THEN "held"
                     ELSE IF t[2] <= sent'[t[1]] THEN "lost" ELSE "new"
  BY DEF TQ!Place, AtWork
<1> QED  BY <1>1, PlaceIs

LEMMA PlacePrimed ==
  ASSUME NEW t
  PROVE  TQ!Place(t)' = IF t \in collected' THEN "collected"
                        ELSE IF t \in TQ!ToSet(tasks') THEN "queued"
                        ELSE IF t \in TQ!ToSet(results') THEN "answered"
                        ELSE IF AtWork(t)' THEN "held"
                        ELSE IF t[2] <= sent'[t[1]] THEN "lost" ELSE "new"
BY DEF TQ!Place, AtWork

(* One task goes from one place to another.                                  *)
LEMMA OneMoves ==
  ASSUME NEW t \in TQ!Tasks, NEW from, NEW to,
         TQ!Place(t) = from, TQ!Place(t)' = to,
         \A u \in TQ!Tasks : u # t => TQ!Place(u)' = TQ!Place(u)
  PROVE  TQ!Pool!Move(t, from, to)
<1>1. places' = [places EXCEPT ![t] = to]
  BY DEF places
<1> QED  BY <1>1 DEF places, TQ!Pool!Move

LEMMA NoneReceived ==
  ASSUME \A u \in TQ!Tasks : TQ!Receiver(u)' = TQ!Receiver(u)
  PROVE  receivers' = receivers
BY DEF receivers

LEMMA NoneMoves ==
  ASSUME \A u \in TQ!Tasks : TQ!Place(u)' = TQ!Place(u)
  PROVE  places' = places
BY DEF places

-----------------------------------------------------------------------------
(* The steps of the pool *)

PoolSteps == TQ!Pool!Next \/ UNCHANGED <<places, receivers>>

LEMMA QuietQueueSteps ==
  ASSUME QueueInv, QueueInv',
         \/ TQ!Start \/ TQ!KillDistributor \/ UNCHANGED TQ!vars
         \/ \E w \in Workers :
              \/ TQ!Launch(w)
              \/ (TQ!QueueGone(w) \/ TQ!KillWorker(w)) /\ wpc[w] # "work"
  PROVE  UNCHANGED <<places, receivers>>
<1>1. UNCHANGED <<tasks, results, collected, sent, wtask>>
  BY Opening DEF QueueInv, TQ!Start, TQ!KillDistributor, TQ!Launch, TQ!QueueGone,
     TQ!KillWorker, TQ!vars, TQ!queueVars, TQ!distVars, TQ!workerVars
<1>2. \A w \in Workers : wpc'[w] = "work" <=> wpc[w] = "work"
  BY DEF QueueInv, TQ!TypeOK, TQ!Start, TQ!KillDistributor, TQ!Launch,
     TQ!QueueGone, TQ!KillWorker, TQ!GotoWorker, TQ!vars, TQ!queueVars,
     TQ!distVars, TQ!workerVars
<1>3. \A t : AtWork(t)' <=> AtWork(t)
  BY <1>1, <1>2 DEF AtWork, TQ!Held
<1>4. \A u \in TQ!Tasks : TQ!Place(u)' = TQ!Place(u)
  BY <1>1, <1>3, SamePlace
<1>5. \A u \in TQ!Tasks : TQ!Receiver(u)' = TQ!Receiver(u)
  BY <1>1, SameReceiver DEF QueueInv
<1> QED  BY <1>4, <1>5, NoneMoves, NoneReceived

LEMMA SendSubmits ==
  ASSUME QueueInv, QueueInv', TQ!Send
  PROVE  PoolSteps
<1> USE DEF QueueInv
<1>0. PICK t : t = <<run, sent[run] + 1>>
  OBVIOUS
<1> USE <1>0
<1>1. t \in TQ!Tasks /\ t[1] = run /\ t[2] = sent[run] + 1 /\ run \in 1 .. MaxRuns
      /\ sent[run] \in Nat /\ ~(t[2] <= sent[t[1]])
  BY QueueBounds DEF TQ!Send, RunInv, TQ!TypeOK, TQ!Tasks
<1>2. /\ sent' = [sent EXCEPT ![run] = sent[run] + 1] /\ sent'[run] = sent[run] + 1
      /\ tasks' = Append(tasks, t)
      /\ UNCHANGED <<results, collected, wpc, wtask>>
  BY <1>1 DEF TQ!Send, TQ!TypeOK, TQ!workerVars
<1>3. \A u \in TQ!Tasks : u # t =>
        ((u[2] <= sent'[u[1]]) <=> u[2] <= sent[u[1]])
  <2> TAKE u \in TQ!Tasks
  <2> HAVE u # t
  <2>1. u[1] \in 1 .. MaxRuns /\ u[2] \in Nat /\ u = <<u[1], u[2]>>
    BY DEF TQ!Tasks
  <2>2. CASE u[1] = run
    BY <1>1, <1>2, <2>1, <2>2
  <2>3. CASE u[1] # run
    BY <1>2, <2>1, <2>3 DEF TQ!TypeOK
  <2> QED  BY <2>2, <2>3
<1> HIDE <1>0
<1>4. TQ!ToSet(tasks') = TQ!ToSet(tasks) \cup {t}
  BY <1>1, <1>2, AppendFacts DEF TQ!TypeOK
<1>5. t \notin TQ!ToSet(tasks) /\ ~TQ!Gone(t)
  BY <1>1, OnePlace
<1>6. t \notin collected /\ t \notin TQ!ToSet(results) /\ ~AtWork(t)
  BY <1>1, <1>5, OnePlace
<1>7. \A u : AtWork(u)' <=> AtWork(u)
  BY <1>2 DEF AtWork, TQ!Held
<1>8. TQ!Place(t) = "new" /\ TQ!Place(t)' = "queued"
  BY <1>1, <1>2, <1>4, <1>5, <1>6, PlaceIs, PlacePrimed
<1>9. \A u \in TQ!Tasks : u # t => TQ!Place(u)' = TQ!Place(u)
  BY <1>2, <1>3, <1>4, <1>7, SamePlace
<1>10. TQ!Pool!Move(t, "new", "queued")
  BY <1>1, <1>8, <1>9, OneMoves
<1>11. \A u \in TQ!Tasks : TQ!Place(u) = "queued" => TQ!Pool!Older(u, t)
  <2> TAKE u \in TQ!Tasks
  <2> HAVE TQ!Place(u) = "queued"
  <2>1. u \in TQ!ToSet(tasks)
    BY PlaceIs
  <2>2. u[2] <= sent[u[1]] /\ u[1] \in 1 .. MaxRuns /\ u[2] \in 1 .. NumTasks
    BY <2>1 DEF SentInv, TQ!Tasks
  <2>3. u[1] <= run
    BY <1>1, <2>2, QueueBounds DEF RunInv
  <2> QED  BY <1>1, <2>2, <2>3, QueueBounds DEF TQ!Pool!Older
<1>12. \A u \in TQ!Tasks : TQ!Receiver(u)' = TQ!Receiver(u)
  BY <1>2, SameReceiver
<1>13. TQ!Pool!Submit(t)
  BY <1>10, <1>11, <1>12, NoneReceived DEF TQ!Pool!Submit, receivers
<1> QED  BY <1>1, <1>13 DEF PoolSteps, TQ!Pool!Next

LEMMA CollectCollects ==
  ASSUME QueueInv, QueueInv', TQ!Collect
  PROVE  PoolSteps
<1> USE DEF QueueInv
<1>0. PICK t : t = Head(results)
  OBVIOUS
<1> USE <1>0
<1>1. /\ results # <<>> /\ results' = Tail(results)
      /\ collected' = collected \cup {t}
      /\ UNCHANGED <<tasks, sent, wpc, wtask>>
  BY DEF TQ!Collect, TQ!workerVars
<1>2. /\ t \in TQ!Tasks /\ t \in TQ!ToSet(results)
      /\ TQ!ToSet(results) = TQ!ToSet(results') \cup {t}
  BY <1>1, TailFacts DEF TQ!TypeOK
<1> HIDE <1>0
<1>3. t \notin collected /\ t \notin TQ!ToSet(tasks)
  BY <1>2, OnePlace
<1>4. \A u : AtWork(u)' <=> AtWork(u)
  BY <1>1 DEF AtWork, TQ!Held
<1>5. TQ!Place(t) = "answered" /\ TQ!Place(t)' = "collected"
  BY <1>1, <1>2, <1>3, PlaceIs, PlacePrimed
<1>6. \A u \in TQ!Tasks : u # t => TQ!Place(u)' = TQ!Place(u)
  BY <1>1, <1>2, <1>4, SamePlace
<1>7. TQ!Pool!Move(t, "answered", "collected")
  BY <1>2, <1>5, <1>6, OneMoves
<1>8. \A u \in TQ!Tasks : TQ!Receiver(u)' = TQ!Receiver(u)
  BY <1>1, SameReceiver
<1>9. TQ!Pool!Collect(t)
  BY <1>7, <1>8, NoneReceived DEF TQ!Pool!Collect, receivers
<1> QED  BY <1>2, <1>9 DEF PoolSteps, TQ!Pool!Next

LEMMA RemoveDiscards ==
  ASSUME QueueInv, QueueInv', TQ!RemoveQueue
  PROVE  PoolSteps
<1> USE DEF QueueInv
<1>1. /\ tasks' = <<>> /\ results' = <<>>
      /\ UNCHANGED <<collected, sent, wpc, wtask>>
  BY DEF TQ!RemoveQueue, TQ!workerVars
<1>2. TQ!ToSet(tasks') = {} /\ TQ!ToSet(results') = {}
  BY <1>1, EmptyFacts
<1>3. \A u : AtWork(u)' <=> AtWork(u)
  BY <1>1 DEF AtWork, TQ!Held
<1>4. \A u \in TQ!Tasks :
        TQ!Place(u)' = IF TQ!Place(u) \in {"queued", "answered"}
                       THEN "lost" ELSE TQ!Place(u)
  BY <1>1, <1>2, <1>3, OnePlace, PlaceIs, PlacePrimed
<1>5. \A u \in TQ!Tasks : TQ!Receiver(u)' = TQ!Receiver(u)
  BY <1>1, SameReceiver
<1>6. TQ!Pool!Discard
  BY <1>4, <1>5, NoneReceived DEF TQ!Pool!Discard, receivers
<1> QED  BY <1>6 DEF PoolSteps, TQ!Pool!Next

LEMMA TakeTakes ==
  ASSUME QueueInv, QueueInv', NEW w \in Workers, TQ!Take(w)
  PROVE  PoolSteps
<1> USE DEF QueueInv
<1>0. PICK t : t = Head(tasks)
  OBVIOUS
<1> USE <1>0
<1> DEFINE mine == Append(wtask[w], t)
<1>1. /\ wpc[w] = "recv" /\ wq[w] = key /\ tasks # <<>>
      /\ wtask' = [wtask EXCEPT ![w] = mine] /\ tasks' = Tail(tasks)
      /\ wpc' = [wpc EXCEPT ![w] = "work"]
      /\ UNCHANGED <<results, sent, collected>>
  BY DEF TQ!Take, TQ!GotoWorker, TQ!distVars
<1>2. tasks \in Seq(TQ!Tasks) /\ wtask[w] \in Seq(TQ!Tasks)
  BY DEF TQ!TypeOK
<1>3. /\ t \in TQ!Tasks /\ t \in TQ!ToSet(tasks) /\ t = tasks[1]
      /\ TQ!ToSet(tasks) = TQ!ToSet(tasks') \cup {t}
      /\ Len(tasks) \in Nat \ {0}
  BY <1>1, <1>2, TailFacts
<1>4. ~TQ!Gone(t) /\ ~AtWork(t) /\ t \notin collected /\ t \notin TQ!ToSet(results)
  BY <1>3, OnePlace
<1> HIDE <1>0
<1>5. /\ mine # <<>> /\ TQ!Last(mine) = t
      /\ TQ!ToSet(mine) = TQ!ToSet(wtask[w]) \cup {t}
  BY <1>2, <1>3, AppendFacts
<1> HIDE DEF mine
<1>6. /\ \A v \in Workers : wtask'[v] = IF v = w THEN mine ELSE wtask[v]
      /\ \A v \in Workers : wpc'[v] = IF v = w THEN "work" ELSE wpc[v]
  BY <1>1 DEF TQ!TypeOK
<1>7. \A u : AtWork(u)' <=> AtWork(u) \/ u = t
  BY <1>1, <1>5, <1>6 DEF AtWork, TQ!Held
<1>8. t \notin TQ!ToSet(tasks')
  <2>1. TQ!Gone(t)'
    BY <1>5, <1>6 DEF TQ!Gone
  <2> QED  BY <2>1 DEF HandedInv
<1>9. TQ!Place(t) = "queued" /\ TQ!Place(t)' = "held"
  BY <1>1, <1>3, <1>4, <1>7, <1>8, PlaceIs, PlacePrimed
<1>10. \A u \in TQ!Tasks : u # t => TQ!Place(u)' = TQ!Place(u)
  BY <1>1, <1>3, <1>7, SamePlace
<1>11. TQ!Pool!Move(t, "queued", "held")
  BY <1>3, <1>9, <1>10, OneMoves
<1>12. \A u \in TQ!Tasks \ {t} : TQ!Place(u) = "queued" => TQ!Pool!Older(t, u)
  <2> TAKE u \in TQ!Tasks \ {t}
  <2> HAVE TQ!Place(u) = "queued"
  <2>1. u \in TQ!ToSet(tasks)
    BY PlaceIs
  <2>2. PICK k \in 1 .. Len(tasks) : tasks[k] = u
    BY <1>2, <2>1, ElementsByIndex
  <2>3. 1 \in 1 .. Len(tasks) /\ 1 < k
    BY <1>3, <2>2
  <2>4. Earlier(t, u)
    BY <1>3, <2>2, <2>3 DEF SentInv
  <2> QED  BY <2>4 DEF Earlier, TQ!Pool!Older
<1>13. \A u \in TQ!Tasks : ~(TQ!Place(u) = "held" /\ TQ!Receiver(u) = w)
  <2> SUFFICES ASSUME NEW u \in TQ!Tasks, TQ!Place(u) = "held" PROVE TQ!Receiver(u) # w
    OBVIOUS
  <2>1. AtWork(u)
    BY PlaceIs
  <2>2. PICK v \in Workers : TQ!Held(v) /\ TQ!Last(wtask[v]) = u
    BY <2>1 DEF AtWork
  <2>3. wtask[v] \in Seq(TQ!Tasks) /\ wtask[v] # <<>> /\ v # w
    BY <1>1, <2>2 DEF TQ!Held, TQ!TypeOK
  <2>4. TQ!Receiver(u) = v
    BY <2>2, <2>3, LastFacts, ReceiverIs
  <2> QED  BY <2>3, <2>4
<1>14. /\ TQ!Receiver(t)' = w
       /\ \A u \in TQ!Tasks : u # t => TQ!Receiver(u)' = TQ!Receiver(u)
  <2>1. TQ!Receiver(t)' = w
    <3>1. t \in TQ!ToSet(wtask'[w])
      BY <1>5, <1>6
    <3>2. \A v \in Workers : t \in TQ!ToSet(wtask'[v]) => TQ!Receiver(t)' = v
      BY <1>3 DEF HandedInv, TQ!Receiver, TQ!Gone
    <3> QED  BY <3>1, <3>2
  <2>2. \A u \in TQ!Tasks : u # t =>
          \A v \in Workers : u \in TQ!ToSet(wtask'[v]) <=> u \in TQ!ToSet(wtask[v])
    BY <1>5, <1>6
  <2> QED  BY <2>1, <2>2, SameReceiver
<1>15. receivers' = [receivers EXCEPT ![t] = w]
  BY <1>3, <1>14 DEF receivers
<1>16. TQ!Pool!Take(t, w)
  BY <1>11, <1>12, <1>13, <1>15 DEF TQ!Pool!Take, receivers
<1> QED  BY <1>3, <1>16 DEF PoolSteps, TQ!Pool!Next

(* Two workers are never at the same task.                                   *)
LEMMA OneAtWork ==
  ASSUME QueueInv, NEW v \in Workers, NEW w \in Workers, TQ!Held(v), TQ!Held(w),
         TQ!Last(wtask[v]) = TQ!Last(wtask[w])
  PROVE  v = w
<1>1. /\ wtask[v] \in Seq(TQ!Tasks) /\ wtask[v] # <<>>
      /\ wtask[w] \in Seq(TQ!Tasks) /\ wtask[w] # <<>>
  BY DEF QueueInv, TQ!TypeOK, TQ!Held
<1>0. PICK t : t = TQ!Last(wtask[w])
  OBVIOUS
<1> USE <1>0
<1>2. t \in TQ!Tasks /\ t \in TQ!ToSet(wtask[v]) /\ t \in TQ!ToSet(wtask[w])
  BY <1>1, LastFacts
<1> QED  BY <1>2 DEF QueueInv, HandedInv

LEMMA LeavingWork ==
  ASSUME QueueInv, NEW w \in Workers, TQ!Held(w), NEW where, where # "work",
         wpc' = [wpc EXCEPT ![w] = where], UNCHANGED wtask
  PROVE  \A u : AtWork(u)' <=> AtWork(u) /\ u # TQ!Last(wtask[w])
<1>1. \A v \in Workers : TQ!Held(v)' <=> TQ!Held(v) /\ v # w
  BY DEF QueueInv, TQ!TypeOK, TQ!Held
<1> QED  BY <1>1, OneAtWork DEF AtWork

LEMMA ReplyAnswers ==
  ASSUME QueueInv, QueueInv', NEW w \in Workers, TQ!Reply(w)
  PROVE  PoolSteps
<1> USE DEF QueueInv
<1>0. PICK t : t = TQ!Last(wtask[w])
  OBVIOUS
<1> USE <1>0
<1> DEFINE where == IF wdone'[w] = TasksPerWorker THEN "done" ELSE "recv"
<1>1. /\ wpc[w] = "work" /\ results' = Append(results, t)
      /\ wpc' = [wpc EXCEPT ![w] = where] /\ where # "work"
      /\ UNCHANGED <<tasks, sent, collected, wtask>>
  BY DEF TQ!Reply, TQ!GotoWorker, TQ!distVars
<1>2. TQ!Held(w) /\ wtask[w] \in Seq(TQ!Tasks) /\ wtask[w] # <<>>
  BY <1>1 DEF AnsweredInv, TQ!Held, TQ!TypeOK
<1>3. t \in TQ!Tasks /\ AtWork(t)
  BY <1>2, LastFacts DEF AtWork
<1>4. \A u : AtWork(u)' <=> AtWork(u) /\ u # t
  BY <1>1, <1>2, LeavingWork
<1>5. TQ!ToSet(results') = TQ!ToSet(results) \cup {t}
  BY <1>1, <1>3, AppendFacts DEF TQ!TypeOK
<1> HIDE <1>0 DEF where
<1>6. t \notin collected /\ t \notin TQ!ToSet(results) /\ t \notin TQ!ToSet(tasks)
  BY <1>3, OnePlace
<1>7. TQ!Place(t) = "held" /\ TQ!Place(t)' = "answered"
  BY <1>1, <1>3, <1>5, <1>6, PlaceIs, PlacePrimed
<1>8. \A u \in TQ!Tasks : u # t => TQ!Place(u)' = TQ!Place(u)
  BY <1>1, <1>4, <1>5, SamePlace
<1>9. TQ!Pool!Move(t, "held", "answered")
  BY <1>3, <1>7, <1>8, OneMoves
<1>10. \A u \in TQ!Tasks : TQ!Receiver(u)' = TQ!Receiver(u)
  BY <1>1, SameReceiver
<1>11. TQ!Pool!Answer(t)
  BY <1>9, <1>10, NoneReceived DEF TQ!Pool!Answer, receivers
<1> QED  BY <1>3, <1>11 DEF PoolSteps, TQ!Pool!Next

LEMMA LossLoses ==
  ASSUME QueueInv, QueueInv', NEW w \in Workers, wpc[w] = "work",
         TQ!QueueGone(w) \/ TQ!KillWorker(w)
  PROVE  PoolSteps
<1> USE DEF QueueInv
<1>0. PICK t : t = TQ!Last(wtask[w])
  OBVIOUS
<1> USE <1>0
<1>1. /\ wpc' = [wpc EXCEPT ![w] = "lost"]
      /\ UNCHANGED <<tasks, results, sent, collected, wtask>>
  BY DEF TQ!QueueGone, TQ!KillWorker, TQ!GotoWorker, TQ!distVars, TQ!queueVars
<1>2. TQ!Held(w) /\ wtask[w] \in Seq(TQ!Tasks) /\ wtask[w] # <<>>
  BY DEF AnsweredInv, TQ!Held, TQ!TypeOK
<1>3. t \in TQ!Tasks /\ AtWork(t)
  BY <1>2, LastFacts DEF AtWork
<1>4. \A u : AtWork(u)' <=> AtWork(u) /\ u # t
  BY <1>1, <1>2, LeavingWork
<1> HIDE <1>0
<1>5. t \notin collected /\ t \notin TQ!ToSet(results) /\ t \notin TQ!ToSet(tasks)
      /\ t[2] <= sent[t[1]]
  BY <1>3, OnePlace
<1>6. TQ!Place(t) = "held" /\ TQ!Place(t)' = "lost"
  BY <1>1, <1>3, <1>4, <1>5, PlaceIs, PlacePrimed
<1>7. \A u \in TQ!Tasks : u # t => TQ!Place(u)' = TQ!Place(u)
  BY <1>1, <1>4, SamePlace
<1>8. TQ!Pool!Move(t, "held", "lost")
  BY <1>3, <1>6, <1>7, OneMoves
<1>9. \A u \in TQ!Tasks : TQ!Receiver(u)' = TQ!Receiver(u)
  BY <1>1, SameReceiver
<1>10. TQ!Pool!LoseHeld(t)
  BY <1>8, <1>9, NoneReceived DEF TQ!Pool!LoseHeld, receivers
<1> QED  BY <1>3, <1>10 DEF PoolSteps, TQ!Pool!Next

LEMMA PoolStep ==
  QueueInv /\ QueueInv' /\ [TQ!Next]_(TQ!vars) => PoolSteps
<1> SUFFICES ASSUME QueueInv, QueueInv', [TQ!Next]_(TQ!vars) PROVE PoolSteps
  OBVIOUS
<1>1. CASE \E w \in Workers : TQ!QueueGone(w) \/ TQ!KillWorker(w)
  BY <1>1, LossLoses, QuietQueueSteps DEF PoolSteps
<1>2. CASE \/ TQ!Start \/ TQ!KillDistributor \/ UNCHANGED TQ!vars
           \/ \E w \in Workers : TQ!Launch(w)
  BY <1>2, QuietQueueSteps DEF PoolSteps
<1> QED
  BY <1>1, <1>2, SendSubmits, CollectCollects, RemoveDiscards, TakeTakes,
     ReplyAnswers
  DEF TQ!Next, TQ!DistributorStep, TQ!WorkerStep, TQ!Quiet

LEMMA PoolInit == TQ!Init => TQ!Pool!Init
<1> SUFFICES ASSUME TQ!Init PROVE TQ!Pool!Init
  OBVIOUS
<1>1. /\ collected = {} /\ tasks = <<>> /\ results = <<>>
      /\ \A w \in Workers : wtask[w] = <<>>
      /\ \A r \in 1 .. MaxRuns : sent[r] = 0
  BY DEF TQ!Init
<1>2. \A t : ~TQ!Gone(t) /\ ~AtWork(t)
  BY <1>1, EmptyFacts DEF TQ!Gone, AtWork, TQ!Held
<1>3. ASSUME NEW t \in TQ!Tasks PROVE TQ!Place(t) = "new" /\ TQ!Receiver(t) = 0
  <2>1. ~(t[2] <= sent[t[1]])
    BY <1>1 DEF TQ!Tasks
  <2> QED  BY <1>1, <1>2, <2>1, EmptyFacts, PlaceIs DEF TQ!Receiver
<1> QED  BY <1>3 DEF TQ!Pool!Init

(* task_distributor.c and worker.c: whoever is killed and whenever, each     *)
(* task is handed to one worker, the oldest first, answered at most once and *)
(* collected at most once, as the abstract pool says.                        *)
THEOREM QueueIsAPool == Spec => ImplementsWorkPool
<1>1. QueueInv /\ QueueInv' /\ [TQ!Next]_(TQ!vars)
        => [TQ!Pool!Next]_<<places, receivers>>
  BY PoolStep DEF PoolSteps
<1> QED
  BY <1>1, PoolInit, SuiteRunsQueue, QueueInvariance, PTL
  DEF ImplementsWorkPool, TQ!ImplementsWorkPool, TQ!Pool!Spec, TQ!Spec, places,
      receivers

-----------------------------------------------------------------------------
(* The suite *)

LEMMA SystemsStay == Spec => [](system \in Systems)
<1>1. Init => system \in Systems
  BY DEF Init
<1>2. system \in Systems /\ [Next]_vars => (system \in Systems)'
  BY DEF Next, vars
<1> QED  BY <1>1, <1>2, PTL DEF Spec

(* Every variable of every program has its type, whatever the constants are. *)
THEOREM SuiteTypes == Spec => []TypeOK
<1>1. /\ GameInv => IG!TypeOK
      /\ QueueInv => TQ!TypeOK
      /\ ChannelInv => SC!TypeOK
      /\ SignalInv => SG!TypeOK
      /\ ChatInv => CR!TypeOK
  BY DEF GameInv, QueueInv, ChannelInv, SignalInv, ChatInv
<1> QED
  BY <1>1, SystemsStay, SuiteRunsGame, SuiteRunsQueue, SuiteRunsChannel,
     SuiteRunsSignals, SuiteRunsChat, GameInvariance, QueueInvariance,
     ChannelInvariance, SignalInvariance, ChatInvariance, PTL
  DEF TypeOK

=============================================================================
