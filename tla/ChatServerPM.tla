---------------------------- MODULE ChatServerPM ----------------------------
(***************************************************************************)
(* socket-examples/chat_server_pm.c: a chat server with one thread per     *)
(* connection, user names and private messages.                            *)
(*                                                                         *)
(* A connection stands for the client at the other end and for the handler *)
(* thread that serves it; the lines it sends are chosen freely.  A region  *)
(* between pthread_mutex_lock() and pthread_mutex_unlock() is one step, but *)
(* for two: get_username(), whose destination is read without the mutex    *)
(* (while the copy lasts the buffer holds Torn), and broadcast(), which    *)
(* blocks in send() for one client after another while clients come and go.*)
(***************************************************************************)
EXTENDS Integers, FiniteSets

CONSTANTS
  Conns,         \* the connections clients make, each of them once
  Usernames,     \* the names clients ask for
  MAX_CLIENTS,
  Nobody         \* the owner of a free clients_mutex

NoName  == ""          \* username[0] = '\0'
Unknown == "Unknown"
Torn    == "torn"      \* a half-copied name
NoFd    == -1

ASSUME CSAssumption ==
  /\ IsFiniteSet(Conns) /\ Nobody \notin Conns
  /\ Usernames \cap {NoName, Unknown, Torn} = {}
  /\ MAX_CLIENTS \in Nat \ {0}

Slots == 0 .. MAX_CLIENTS - 1
Fds   == 1 .. Cardinality(Conns)

VARIABLES
  clients,         \* the shared array: fd, active and username of each slot
  clients_mutex,   \* the owner of the mutex
  name_buf,        \* the static buffer of get_username()
  fd,              \* the socket of each connection, NoFd before and after
  buffer,          \* the name asked for, then the addressee of a private message
  text,            \* the user name in the line a handler has formatted
  slot,            \* the index i of a handler's loop in broadcast()
  heard,           \* history: whose sockets that loop has sent its line to
  pc,              \* control point of each handler
  main,            \* control point of main()
  serving,         \* the connection main() is busy with
  sent             \* the lines the last step sent

loop == <<slot, heard>>
locals == <<fd, buffer, text, pc, loop>>
vars == <<clients, clients_mutex, name_buf, locals, main, serving, sent>>

Init ==
  /\ clients = [i \in Slots |-> [fd |-> NoFd, active |-> FALSE, username |-> NoName]]
  /\ clients_mutex = Nobody
  /\ name_buf = NoName
  /\ fd = [c \in Conns |-> NoFd]
  /\ buffer = [c \in Conns |-> NoName]
  /\ text = [c \in Conns |-> NoName]
  /\ slot = [c \in Conns |-> 0]
  /\ heard = [c \in Conns |-> {}]
  /\ pc = [c \in Conns |-> "idle"]
  /\ main = "accept"
  /\ serving = Nobody
  /\ sent = {}

-----------------------------------------------------------------------------
(* Helpers *)

(* The first slot a loop over the array stops at.                            *)
First(S) == CHOOSE i \in S : \A j \in S : i <= j

FreeSlots == {i \in Slots : ~clients[i].active}
SlotsWithFd(f) == {i \in Slots : clients[i].fd = f}
SlotsNamed(u) == {i \in Slots : clients[i].active /\ clients[i].username = u}

OpenFds == {fd[c] : c \in Conns} \ {NoFd}

Goto(c, label) == pc' = [pc EXCEPT ![c] = label]

(* An uncontended stretch of c's code, from one label to the next.           *)
At(c, from, to) == pc[c] = from /\ Goto(c, to)

(* A critical section: c takes the mutex at from and has released it at to.  *)
Locked(c, from, to) ==
  /\ At(c, from, to)
  /\ clients_mutex = Nobody
  /\ UNCHANGED clients_mutex

Silent == sent' = {}

-----------------------------------------------------------------------------
(* main() *)

(* accept() returns the lowest free descriptor.                              *)
Accept(c) ==
  /\ main = "accept"
  /\ At(c, "idle", "accepted")
  /\ fd' = [fd EXCEPT ![c] = First(Fds \ OpenFds)]
  /\ main' = "add"
  /\ serving' = c
  /\ Silent
  /\ UNCHANGED <<clients, clients_mutex, name_buf, buffer, text, loop>>

add_client(c) ==
  /\ main = "add"
  /\ serving = c
  /\ clients_mutex = Nobody
  /\ FreeSlots # {}
  /\ clients' = [clients EXCEPT ![First(FreeSlots)] =
                   [fd |-> fd[c], active |-> TRUE, username |-> NoName]]
  /\ main' = "spawn"
  /\ Silent
  /\ UNCHANGED <<clients_mutex, name_buf, locals, serving>>

(* add_client() returns -1: "Server full. Try again later."                  *)
ServerFull(c) ==
  /\ main = "add"
  /\ serving = c
  /\ clients_mutex = Nobody
  /\ FreeSlots = {}
  /\ Goto(c, "gone")
  /\ fd' = [fd EXCEPT ![c] = NoFd]
  /\ main' = "accept"
  /\ Silent
  /\ UNCHANGED <<clients, clients_mutex, name_buf, buffer, text, loop, serving>>

Spawn(c) ==
  /\ main = "spawn"
  /\ serving = c
  /\ Goto(c, "name")
  /\ main' = "accept"
  /\ Silent
  /\ UNCHANGED <<clients, clients_mutex, name_buf, fd, buffer, text, loop, serving>>

(* pthread_create() fails: main() itself removes the client and closes it.   *)
SpawnFails(c) ==
  /\ main = "spawn"
  /\ serving = c
  /\ Goto(c, "remove")
  /\ main' = "unwind"
  /\ Silent
  /\ UNCHANGED <<clients, clients_mutex, name_buf, fd, buffer, text, loop, serving>>

Unwound ==
  /\ main = "unwind"
  /\ pc[serving] = "gone"
  /\ main' = "accept"
  /\ Silent
  /\ UNCHANGED <<clients, clients_mutex, name_buf, locals, serving>>

-----------------------------------------------------------------------------
(* handle_client(): logging in *)

RecvName(c, u) ==
  /\ At(c, "name", "check")
  /\ buffer' = [buffer EXCEPT ![c] = u]
  /\ Silent
  /\ UNCHANGED <<clients, clients_mutex, name_buf, fd, text, loop, main, serving>>

(* recv() fails, the client hangs up, or the trimmed name is empty.          *)
NoUsername(c) ==
  /\ At(c, "name", "remove")
  /\ Silent
  /\ UNCHANGED <<clients, clients_mutex, name_buf, fd, buffer, text, loop, main, serving>>

username_exists(c) ==
  /\ Locked(c, "check", IF SlotsNamed(buffer[c]) # {} THEN "remove" ELSE "set")
  /\ Silent
  /\ UNCHANGED <<clients, name_buf, fd, buffer, text, loop, main, serving>>

set_username(c) ==
  /\ Locked(c, "set", "get")
  /\ clients' = IF SlotsWithFd(fd[c]) = {} THEN clients
                ELSE [clients EXCEPT ![First(SlotsWithFd(fd[c]))].username = buffer[c]]
  /\ Silent
  /\ UNCHANGED <<name_buf, fd, buffer, text, loop, main, serving>>

(* get_username() takes the mutex and starts to overwrite the static buffer; *)
(* it is called after set_username() and again when the client leaves.       *)
get_username(c) ==
  /\ \/ At(c, "get", "copy")
     \/ At(c, "get_again", "copy_again")
  /\ clients_mutex = Nobody
  /\ clients_mutex' = c
  /\ name_buf' = Torn
  /\ Silent
  /\ UNCHANGED <<clients, fd, buffer, text, loop, main, serving>>

(* The name get_username() returns.                                          *)
Name(c) ==
  IF SlotsWithFd(fd[c]) = {} THEN Unknown ELSE clients[First(SlotsWithFd(fd[c]))].username

(* Fault: the early return leaves the mutex locked.                          *)
CopiedWithoutUnlock(c) ==
  /\ \/ At(c, "copy", "join")
     \/ At(c, "copy_again", "part")
  /\ name_buf' = Name(c)
  /\ Silent
  /\ UNCHANGED <<clients, clients_mutex, fd, buffer, text, loop, main, serving>>

Copied(c) ==
  /\ \/ At(c, "copy", "join")
     \/ At(c, "copy_again", "part")
  /\ name_buf' = Name(c)
  /\ clients_mutex' = Nobody
  /\ Silent
  /\ UNCHANGED <<clients, fd, buffer, text, loop, main, serving>>

(* snprintf() of a line that names its sender through the pointer            *)
(* get_username() returned: the announcement that it joined, a message, the  *)
(* announcement that it left.                                                *)
Format(c) ==
  /\ \/ At(c, "join", "send_join")
     \/ At(c, "chat", "send_message")
     \/ At(c, "part", "send_left")
  /\ text' = [text EXCEPT ![c] = name_buf]
  /\ Silent
  /\ UNCHANGED <<clients, clients_mutex, name_buf, fd, buffer, loop, main, serving>>

(* broadcast(): the control points of its loop, what it sends and where it   *)
(* returns to.                                                               *)
Sending == {"sending_join", "sending_message", "sending_left"}
Kind    == [sending_join |-> "joined", sending_message |-> "message", sending_left |-> "left"]
Return  == [sending_join |-> "chat", sending_message |-> "chat", sending_left |-> "remove"]

BroadcastCall(c) ==
  \/ At(c, "send_join", "sending_join")
  \/ At(c, "send_message", "sending_message")
  \/ At(c, "send_left", "sending_left")

(* Fault: the loop runs without the mutex.                                   *)
BroadcastUnlocked(c) ==
  /\ BroadcastCall(c)
  /\ Silent
  /\ UNCHANGED <<clients, clients_mutex, name_buf, fd, buffer, text, loop, main, serving>>

BroadcastLock(c) ==
  /\ BroadcastCall(c)
  /\ clients_mutex = Nobody
  /\ clients_mutex' = c
  /\ Silent
  /\ UNCHANGED <<clients, name_buf, fd, buffer, text, loop, main, serving>>

(* The socket f belongs to.                                                  *)
Receiver(f) == IF f \in OpenFds THEN CHOOSE d \in Conns : fd[d] = f ELSE Nobody

(* Fault: the loop breaks after the first client, as in send_private().      *)
BroadcastSendOne(c) ==
  LET client == clients[slot[c]]
  IN  /\ pc[c] \in Sending
      /\ slot[c] < MAX_CLIENTS
      /\ \/ /\ client.active /\ client.fd # fd[c]
            /\ slot' = [slot EXCEPT ![c] = MAX_CLIENTS]
            /\ sent' = {[to |-> client.fd, kind |-> Kind[pc[c]], as |-> text[c], by |-> c]}
            /\ heard' = [heard EXCEPT ![c] = @ \cup {Receiver(client.fd)}]
         \/ /\ ~(client.active /\ client.fd # fd[c])
            /\ slot' = [slot EXCEPT ![c] = @ + 1]
            /\ Silent
            /\ UNCHANGED heard
      /\ UNCHANGED <<clients, clients_mutex, name_buf, fd, buffer, text, pc, main, serving>>

(* One round of the loop.                                                    *)
BroadcastSend(c) ==
  LET client == clients[slot[c]]
  IN  /\ pc[c] \in Sending
      /\ slot[c] < MAX_CLIENTS
      /\ slot' = [slot EXCEPT ![c] = @ + 1]
      /\ \/ /\ client.active /\ client.fd # fd[c]
            /\ sent' = {[to |-> client.fd, kind |-> Kind[pc[c]], as |-> text[c], by |-> c]}
            /\ heard' = [heard EXCEPT ![c] = @ \cup {Receiver(client.fd)}]
         \/ /\ ~(client.active /\ client.fd # fd[c])
            /\ Silent
            /\ UNCHANGED heard
      /\ UNCHANGED <<clients, clients_mutex, name_buf, fd, buffer, text, pc, main, serving>>

BroadcastUnlock(c) ==
  /\ pc[c] \in Sending
  /\ slot[c] = MAX_CLIENTS
  /\ Goto(c, Return[pc[c]])
  /\ slot' = [slot EXCEPT ![c] = 0]
  /\ heard' = [heard EXCEPT ![c] = {}]
  /\ clients_mutex' = Nobody
  /\ Silent
  /\ UNCHANGED <<clients, name_buf, fd, buffer, text, main, serving>>

-----------------------------------------------------------------------------
(* handle_client(): commands; an empty line and a malformed @ do nothing     *)

RecvPrivate(c, u) ==
  /\ At(c, "chat", "private")
  /\ buffer' = [buffer EXCEPT ![c] = u]
  /\ Silent
  /\ UNCHANGED <<clients, clients_mutex, name_buf, fd, text, loop, main, serving>>

(* Fault: the addressee is looked up among the names of all slots.           *)
send_privateToAnyone(c) ==
  /\ Locked(c, "private", "chat")
  /\ sent' = {[to |-> clients[i].fd, kind |-> "pm", as |-> name_buf, by |-> c] :
                i \in {j \in Slots : clients[j].active}}
  /\ UNCHANGED <<clients, name_buf, fd, buffer, text, loop, main, serving>>

(* The message to the first slot of that name and the confirmation to the    *)
(* sender, or "User not found" to the sender.                                *)
send_private(c) ==
  LET S == SlotsNamed(buffer[c])
      line(f, kind, name) == [to |-> f, kind |-> kind, as |-> name, by |-> c]
  IN  /\ Locked(c, "private", "chat")
      /\ sent' = IF S = {} THEN {line(fd[c], "not found", buffer[c])}
                 ELSE {line(clients[First(S)].fd, "pm", name_buf),
                       line(fd[c], "confirm", buffer[c])}
      /\ UNCHANGED <<clients, name_buf, fd, buffer, text, loop, main, serving>>

(* /who                                                                      *)
send_user_list(c) ==
  /\ Locked(c, "chat", "chat")
  /\ sent' = {[to |-> fd[c], kind |-> "user", as |-> clients[i].username, by |-> c] :
                i \in {j \in Slots : clients[j].active /\ clients[j].username # NoName}}
  /\ UNCHANGED <<clients, name_buf, fd, buffer, text, loop, main, serving>>

-----------------------------------------------------------------------------
(* handle_client(): leaving *)

(* /quit, the end of the stream, or an error of recv().                      *)
HangUp(c) ==
  /\ At(c, "chat", "get_again")
  /\ Silent
  /\ UNCHANGED <<clients, clients_mutex, name_buf, fd, buffer, text, loop, main, serving>>

(* Fault: the descriptor stays in the slot.                                  *)
remove_clientKeepingFd(c) ==
  /\ Locked(c, "remove", "close")
  /\ clients' = IF SlotsWithFd(fd[c]) = {} THEN clients
                ELSE [clients EXCEPT ![First(SlotsWithFd(fd[c]))].active = FALSE]
  /\ Silent
  /\ UNCHANGED <<name_buf, fd, buffer, text, loop, main, serving>>

(* Fault: the slot stays active.                                             *)
remove_clientKeepingActive(c) ==
  /\ Locked(c, "remove", "close")
  /\ clients' = IF SlotsWithFd(fd[c]) = {} THEN clients
                ELSE [clients EXCEPT ![First(SlotsWithFd(fd[c]))].fd = NoFd]
  /\ Silent
  /\ UNCHANGED <<name_buf, fd, buffer, text, loop, main, serving>>

remove_client(c) ==
  /\ Locked(c, "remove", "close")
  /\ clients' = IF SlotsWithFd(fd[c]) = {} THEN clients
                ELSE [clients EXCEPT ![First(SlotsWithFd(fd[c]))] =
                        [fd |-> NoFd, active |-> FALSE, username |-> NoName]]
  /\ Silent
  /\ UNCHANGED <<name_buf, fd, buffer, text, loop, main, serving>>

Close(c) ==
  /\ At(c, "close", "gone")
  /\ fd' = [fd EXCEPT ![c] = NoFd]
  /\ Silent
  /\ UNCHANGED <<clients, clients_mutex, name_buf, buffer, text, loop, main, serving>>

-----------------------------------------------------------------------------
MainStep ==
  \/ \E c \in Conns : add_client(c) \/ ServerFull(c) \/ Spawn(c) \/ SpawnFails(c)
  \/ Unwound

(* What a handler does whatever its client sends.                            *)
HandlerStep(c) ==
  \/ username_exists(c) \/ set_username(c) \/ get_username(c) \/ Copied(c)
  \/ Format(c) \/ BroadcastLock(c) \/ BroadcastSend(c) \/ BroadcastUnlock(c)
  \/ send_private(c)
  \/ remove_client(c) \/ Close(c)

(* recv() returned what the client sent, or found it gone.                   *)
ClientStep(c) ==
  \/ \E u \in Usernames : RecvName(c, u) \/ RecvPrivate(c, u)
  \/ NoUsername(c) \/ send_user_list(c) \/ HangUp(c)

(* Nobody connects any more: accept() blocks.                                *)
Blocked == main = "accept" /\ (\A c \in Conns : pc[c] = "gone") /\ UNCHANGED vars

Next ==
  \/ MainStep
  \/ \E c \in Conns : Accept(c) \/ HandlerStep(c) \/ ClientStep(c)
  \/ Blocked

Spec == Init /\ [][Next]_vars

(* The steps a handler takes on its own, a message being formatted apart:    *)
(* that one needs a line from the client.                                    *)
OwnStep(c) == HandlerStep(c) /\ pc[c] # "chat"

(* Threads are scheduled and get the mutex if it is released again and       *)
(* again.  Clients are not obliged to connect, to send or to hang up.        *)
Fairness == SF_vars(MainStep) /\ \A c \in Conns : SF_vars(OwnStep(c))

FairSpec == Spec /\ Fairness

-----------------------------------------------------------------------------
(* Properties *)

Labels == {"idle", "accepted", "name", "check", "set", "get", "copy", "join", "send_join",
           "chat", "send_message", "private", "get_again", "copy_again", "part",
           "send_left", "remove", "close", "gone"} \cup Sending

Names == Usernames \cup {NoName, Unknown, Torn}

(* The ranges of the shared state.                                           *)
TypeOK ==
  /\ clients \in [Slots -> [fd : Fds \cup {NoFd}, active : BOOLEAN,
                            username : Usernames \cup {NoName}]]
  /\ clients_mutex \in Conns \cup {Nobody}
  /\ name_buf \in Names
  /\ fd \in [Conns -> Fds \cup {NoFd}]
  /\ buffer \in [Conns -> Usernames \cup {NoName}]
  /\ text \in [Conns -> Names]
  /\ slot \in [Conns -> 0 .. MAX_CLIENTS]
  /\ heard \in [Conns -> SUBSET (Conns \cup {Nobody})]
  /\ pc \in [Conns -> Labels]
  /\ main \in {"accept", "add", "spawn", "unwind"}
  /\ serving \in Conns \cup {Nobody}
  /\ sent \subseteq [to : Fds, as : Names, by : Conns,
                     kind : {"joined", "message", "left", "pm", "confirm", "not found", "user"}]

(* The connections main() has added and nobody has removed.                  *)
Registered ==
  {c \in Conns : \/ pc[c] = "accepted" /\ serving = c /\ main = "spawn"
                 \/ pc[c] \notin {"idle", "accepted", "close", "gone"}}

(* The array and the threads agree, although descriptors are reused as soon  *)
(* as they are closed: a registered connection has one slot, which is        *)
(* active, and the other slots are inactive and name no descriptor.          *)
Registry ==
  /\ \A c \in Registered : \E i \in Slots : SlotsWithFd(fd[c]) = {i} /\ clients[i].active
  /\ \A i \in Slots :
       \/ \E c \in Registered : clients[i].fd = fd[c]
       \/ ~clients[i].active /\ clients[i].fd = NoFd

(* When broadcast() returns, the line it was given has gone to every other   *)
(* connection then registered and to nothing else (no client that has left,  *)
(* no closed descriptor), whoever comes and goes while it sends.             *)
BroadcastReachesOthers ==
  [][\A c \in Conns : pc[c] \in Sending /\ pc'[c] \notin Sending =>
       heard[c] = Registered' \ {c}]_vars

(* A private message goes to one client of that name, and what confirms it   *)
(* or says that there is none goes to the sender alone.                      *)
PrivateStaysPrivate ==
  \A m \in sent :
    /\ m.kind = "pm" =>
         /\ \A n \in sent : n.kind = "pm" => n = m
         /\ \E c \in Registered : fd[c] = m.to /\ Name(c) = buffer[m.by]
    /\ m.kind \in {"confirm", "not found", "user"} => m.to = fd[m.by]

(* "This prevents impersonation and confusion": no two clients in the chat   *)
(* have the same user name.                                                  *)
UniqueUsernames ==
  \A i, j \in Slots :
    clients[i].active /\ clients[j].active /\ clients[i].username = clients[j].username
      => i = j \/ clients[i].username = NoName

(* "This works in this code because we immediately use the result" of        *)
(* get_username(): a chat message names the user that sent it.               *)
SentInOwnName == \A m \in sent : m.kind \in {"message", "pm"} => m.as = Name(m.by)

(* A connection that ends, in whatever state of the login or the chat, gives *)
(* its slot and its descriptor back, and no handler hangs on the mutex.      *)
EndsCleanly ==
  \A c \in Conns : pc[c] \in {"check", "get_again", "remove"} ~> pc[c] \in {"chat", "gone"}

=============================================================================
