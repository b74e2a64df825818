------------------------------ MODULE SelectChat ------------------------------
(***************************************************************************)
(* The chat room server of                                                 *)
(*   concurrency-tutorial/exercises/solutions/socket_exercise5_solution.c  *)
(* one process that waits in select() for its clients and serves them one  *)
(* after the other.  Clients connect, send lines and hang up at any time.  *)
(***************************************************************************)
EXTENDS Naturals, FiniteSets, FiniteSetsExt

CONSTANTS
  NumConns,      \* bound: connections clients make
  MAX_CLIENTS,   \* slots of clients[], 10
  Names,         \* words clients send
  MaxLines       \* bound: lines the clients send

ChatAssumption ==
  /\ NumConns \in Nat
  /\ MAX_CLIENTS \in Nat \ {0}
  /\ MaxLines \in Nat

VARIABLES
  srv,           \* control point of main()
  next,          \* the slot the loop over clients[] has come to
  clients,       \* clients[]: socket and nickname
  master_fds,    \* the descriptors select() is asked about
  read_fds,      \* those it reported
  max_fd,        \* the highest descriptor select() looks at
  fd,            \* the server's descriptor of each connection, NoFd if none
  conn,          \* what the kernel knows of each connection
  line,          \* the line of each client the server has not read
  typed          \* lines sent so far

serverVars == <<srv, next, read_fds>>
setVars == <<master_fds, max_fd>>
kernelVars == <<fd, conn>>
inputVars == <<line, typed>>
vars == <<serverVars, clients, setVars, kernelVars, inputVars>>

Conns == 1 .. NumConns     \* numbered as they are established
Slots == 1 .. MAX_CLIENTS
NoFd == 0
Listener == 1                                    \* server_socket

Empty == [kind |-> "empty"]
Word(n) == [kind |-> "word", name |-> n]

(* "reply" stands for every command that only its sender gets an answer to.  *)
Lines == {Empty, [kind |-> "reply"], [kind |-> "quit"]}
         \cup [kind : {"word", "msg"}, name : Names]
NoLine == [kind |-> "none"]
Vacant == [socket |-> NoFd, nickname |-> Empty]

Init ==
  /\ srv = "select" /\ next = 1 /\ read_fds = {}
  /\ clients = [s \in Slots |-> Vacant]
  /\ master_fds = {Listener} /\ max_fd = Listener
  /\ fd = [c \in Conns |-> NoFd]
  /\ conn = [c \in Conns |-> "new"]
  /\ line = [c \in Conns |-> NoLine]
  /\ typed = 0

Active(s) == clients[s].socket # NoFd
Open == {Listener} \cup ({fd[c] : c \in Conns} \ {NoFd})
ConnOf(s) == CHOOSE c \in Conns : fd[c] = clients[s].socket
Lowest == Min((1 .. Cardinality(Conns) + 2) \ Open)

-----------------------------------------------------------------------------
(* Clients *)

Connect(c) ==
  /\ conn[c] = "new" /\ \A d \in 1 .. c - 1 : conn[d] # "new"
  /\ conn' = [conn EXCEPT ![c] = "up"]
  /\ UNCHANGED <<serverVars, clients, setVars, fd, inputVars>>

Type(c) ==
  /\ conn[c] = "up" /\ line[c] = NoLine /\ typed < MaxLines
  /\ \E l \in Lines : line' = [line EXCEPT ![c] = l]
  /\ typed' = typed + 1
  /\ UNCHANGED <<serverVars, clients, setVars, kernelVars>>

HangUp(c) ==
  /\ conn[c] = "up"
  /\ conn' = [conn EXCEPT ![c] = "down"]
  /\ UNCHANGED <<serverVars, clients, setVars, fd, inputVars>>

-----------------------------------------------------------------------------
(* main() *)

(* The connections that are established and not accepted.                    *)
Backlog == {c \in Conns : conn[c] \in {"up", "down"} /\ fd[c] = NoFd}
Oldest(c) == Backlog # {} /\ c = Min(Backlog)

Ready ==
  {Listener : c \in Backlog}
  \cup {fd[c] : c \in {d \in Conns : line[d] # NoLine \/ conn[d] = "down"}}

Watched == {f \in master_fds : f <= max_fd}

(* The process ends: its connections are closed, its memory is gone.         *)
Exit(how) ==
  /\ srv' = how /\ next' = 1 /\ read_fds' = {}
  /\ clients' = [s \in Slots |-> Vacant]
  /\ master_fds' = {} /\ max_fd' = NoFd
  /\ fd' = [c \in Conns |-> NoFd]
  /\ conn' = [c \in Conns |-> "closed"]
  /\ line' = [c \in Conns |-> NoLine]
  /\ UNCHANGED typed

(* select() reports what is ready of the descriptors it is asked about, and  *)
(* fails when one of them is closed; main() then leaves its loop.            *)
Select ==
  /\ srv = "select"
  /\ \/ /\ Watched \subseteq Open
        /\ read_fds' = Watched \cap Ready
        /\ read_fds' # {}
        /\ srv' = IF Listener \in read_fds' THEN "accept" ELSE "clients"
        /\ UNCHANGED <<next, clients, setVars, kernelVars, inputVars>>
     \/ /\ ~(Watched \subseteq Open)
        /\ Exit("stopped")

Everyone == {t \in Slots : Active(t)}
Others(s) == Everyone \ {s}

(* send() to a client that has hung up may raise SIGPIPE, which is fatal.    *)
Dies(to) == (\E c \in to : conn[c] = "down") /\ Exit("killed")

(* add_client() *)
FreeSlots == {s \in Slots : ~Active(s)}

(* Fault: the new socket is not watched.                                     *)
AcceptUnwatched(c) ==
  /\ srv = "accept" /\ Oldest(c)
  /\ IF FreeSlots # {}
     THEN /\ clients' = [clients EXCEPT ![Min(FreeSlots)].socket = Lowest]
          /\ fd' = [fd EXCEPT ![c] = Lowest]
          /\ UNCHANGED <<setVars, conn>>
     ELSE /\ conn' = [conn EXCEPT ![c] = "closed"]
          /\ UNCHANGED <<clients, setVars, fd>>
  /\ srv' = "clients"
  /\ UNCHANGED <<next, read_fds, inputVars>>

(* Fault: a refused connection is not closed.                                *)
AcceptLeaks(c) ==
  /\ srv = "accept" /\ Oldest(c)
  /\ fd' = [fd EXCEPT ![c] = Lowest]
  /\ IF FreeSlots # {}
     THEN /\ clients' = [clients EXCEPT ![Min(FreeSlots)].socket = Lowest]
          /\ master_fds' = master_fds \cup {Lowest}
          /\ max_fd' = Max({max_fd, Lowest})
     ELSE UNCHANGED <<clients, setVars>>
  /\ srv' = "clients"
  /\ UNCHANGED <<next, read_fds, conn, inputVars>>

(* accept() takes the oldest connection; one that finds no slot is told so   *)
(* and closed.                                                               *)
Accept(c) ==
  /\ srv = "accept" /\ Oldest(c)
  /\ \/ /\ IF FreeSlots # {}
           THEN /\ clients' = [clients EXCEPT ![Min(FreeSlots)].socket = Lowest]
                /\ fd' = [fd EXCEPT ![c] = Lowest]
                /\ master_fds' = master_fds \cup {Lowest}
                /\ max_fd' = Max({max_fd, Lowest})
                /\ UNCHANGED conn
           ELSE /\ conn' = [conn EXCEPT ![c] = "closed"]
                /\ UNCHANGED <<clients, setVars, fd>>
        /\ srv' = "clients"
        /\ UNCHANGED <<next, read_fds, inputVars>>
     \/ Dies({c})

Served(s) == Active(s) /\ clients[s].socket \in read_fds
Ahead == {s \in next .. MAX_CLIENTS : Served(s)}

(* The loop over clients[] passes by the slots it need not serve.            *)
Turn(s) == srv = "clients" /\ Ahead # {} /\ s = Min(Ahead)
Proceed(s) == next' = s + 1 /\ UNCHANGED <<srv, read_fds>>

EndRound ==
  /\ srv = "clients" /\ Ahead = {}
  /\ srv' = "select" /\ next' = 1 /\ read_fds' = {}
  /\ UNCHANGED <<clients, setVars, kernelVars, inputVars>>

(* remove_client(): the leave is announced to all, the leaver included, if   *)
(* it had a nickname.  FD_CLR() then gets the socket that is -1 by now, and  *)
(* master_fds stays as it is.                                                *)
remove_client(s) ==
  /\ fd' = [fd EXCEPT ![ConnOf(s)] = NoFd]
  /\ conn' = [conn EXCEPT ![ConnOf(s)] = "closed"]
  /\ clients' = [clients EXCEPT ![s] = Vacant]
  /\ UNCHANGED setVars

Farewell(s) == IF clients[s].nickname = Empty THEN {} ELSE Everyone

Disconnect(s) ==
  /\ Turn(s)
  /\ line[ConnOf(s)] = NoLine
  /\ \/ /\ remove_client(s)
        /\ Proceed(s)
        /\ UNCHANGED inputVars
     \/ Dies({ConnOf(t) : t \in Farewell(s)})

(* Who gets something for the line l of the client in slot s: the nickname   *)
(* comes first, whatever the line is; then commands and messages.            *)
Named(l) == {t \in Slots : Active(t) /\ clients[t].nickname = Word(l.name)}

Recipients(s, l) ==
  IF clients[s].nickname = Empty THEN Everyone
  ELSE IF l.kind \in {"word", "empty"} THEN Others(s)
  ELSE IF l.kind = "msg" /\ Named(l) # {} THEN {s, Min(Named(l))}
  ELSE IF l.kind = "quit" THEN Everyone
  ELSE {s}

(* Fault: the line of a client whose slot comes last is not read.            *)
ReceiveButLast(s) ==
  LET c == ConnOf(s)
      l == line[c]
  IN  /\ Turn(s)
      /\ l # NoLine
      /\ line' = IF s = MAX_CLIENTS THEN line ELSE [line EXCEPT ![c] = NoLine]
      /\ Proceed(s)
      /\ UNCHANGED <<typed, clients, setVars, kernelVars>>

(* handle_client_message() with a line.                                      *)
Receive(s) ==
  LET c == ConnOf(s)
      l == line[c]
  IN  /\ Turn(s)
      /\ l # NoLine
      /\ \/ /\ line' = [line EXCEPT ![c] = NoLine]
            /\ IF clients[s].nickname = Empty
               THEN /\ clients' = [clients EXCEPT ![s].nickname = l]
                    /\ UNCHANGED <<setVars, kernelVars>>
               ELSE IF l.kind = "quit" THEN remove_client(s)
               ELSE UNCHANGED <<clients, setVars, kernelVars>>
            /\ Proceed(s)
            /\ UNCHANGED typed
         \/ Dies({ConnOf(t) : t \in Recipients(s, l)})

ServerStep ==
  \/ Select \/ EndRound
  \/ \E c \in Conns : Accept(c)
  \/ \E s \in Slots : Disconnect(s) \/ Receive(s)

(* The server waits in select(), or has ended.                               *)
Blocked ==
  /\ \/ srv \in {"stopped", "killed"}
     \/ srv = "select" /\ Watched \subseteq Open /\ Watched \cap Ready = {}
  /\ UNCHANGED vars

Next ==
  \/ ServerStep
  \/ \E c \in Conns : Connect(c) \/ Type(c) \/ HangUp(c)
  \/ Blocked

Spec == Init /\ [][Next]_vars

(* The server runs; clients do as they like.                                 *)
FairSpec ==
  /\ Spec
  /\ WF_vars(ServerStep)

-----------------------------------------------------------------------------
(* Properties *)

TypeOK ==
  /\ srv \in {"select", "accept", "clients", "stopped", "killed"}
  /\ next \in 1 .. MAX_CLIENTS + 1
  /\ \A s \in Slots : /\ clients[s].socket \in Nat
                      /\ clients[s].nickname \in Lines
  /\ master_fds \subseteq Nat /\ read_fds \subseteq master_fds
  /\ max_fd \in Nat
  /\ fd \in [Conns -> Nat]
  /\ conn \in [Conns -> {"new", "up", "down", "closed"}]
  /\ line \in [Conns -> Lines \cup {NoLine}]
  /\ typed \in 0 .. MaxLines

(* The clients of the array are exactly the open connections, each with a    *)
(* descriptor of its own that select() is asked about.                       *)
ClientsAreOpen ==
  srv \notin {"stopped", "killed"} =>
    /\ {clients[s].socket : s \in Everyone} = Open \ {Listener}
    /\ \A s, t \in Everyone :
         clients[s].socket = clients[t].socket => s = t
    /\ \A s \in Everyone : clients[s].socket \in Watched

(* As long as the server runs it reads every line of every client it has     *)
(* accepted, and notices every one that hangs up.                            *)
EveryLineIsRead ==
  \A c \in Conns :
    (fd[c] # NoFd /\ (line[c] # NoLine \/ conn[c] = "down")) ~>
      (line[c] = NoLine \/ conn[c] = "closed")

(* "If client was removed, update fd_set": select() is asked only about      *)
(* descriptors that are open.                                                *)
WatchedAreOpen == srv = "select" => Watched \subseteq Open

=============================================================================
