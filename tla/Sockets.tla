-------------------------------- MODULE Sockets --------------------------------
(***************************************************************************)
(* utility::socket (socket.hpp, socket.cpp): the sockets of the viewer and *)
(* of its consoles, with the descriptors they use and the threads they     *)
(* run.  A TCP server accepts connections, each a socket with a receiver   *)
(* of its own; a UDP server and the clients have one receiver each.        *)
(*                                                                         *)
(* An owner makes a socket, uses it, waits for its thread with join and    *)
(* lets go of it; the receiver keeps the object alive meanwhile, and the   *)
(* server keeps every connection it has accepted.  close does not forget   *)
(* the descriptor, so that it may be applied to a number that the kernel   *)
(* has given to somebody else by then: the logger, say, which opens and    *)
(* closes its file at will.                                                *)
(***************************************************************************)
EXTENDS Naturals, FiniteSets, FiniteSetsExt

CONSTANTS
  TCPSockets, UDPSockets,   \* clients
  UDPServers,
  Connections,              \* what the TCP server may accept
  Server,                   \* the TCP server
  File,                     \* a descriptor of somebody else
  Free,                     \* nobody
  Numbers,                  \* the descriptors
  MaxObjects                \* bound: objects made in a behaviour

VARIABLES
  holder,      \* the kernel's table: who was given each number
  sock,        \* the number that each object remembers, 0 before there is one
  exitReady,   \* stopRequested() of each object
  task,        \* the thread of each object
  owner,       \* how far the owner of each object is with it
  stolen       \* history: a close has hit a number of somebody else

sockVars == <<holder, sock, exitReady, task, owner, stolen>>

Streams == TCPSockets \cup Connections
Objects == Streams \cup UDPSockets \cup UDPServers \cup {Server}

Init ==
  /\ holder = [n \in Numbers |-> Free]
  /\ sock = [s \in Objects |-> 0]
  /\ exitReady = [s \in Objects |-> FALSE]
  /\ task = [s \in Objects |-> "none"]
  /\ owner = [s \in Objects |-> "unmade"]
  /\ stolen = FALSE

--------------------------------------------------------------------------------
(* Descriptors: the kernel gives out the least free number. *)

FreeNumbers == {n \in Numbers : holder[n] = Free}

MayMake == Cardinality({s \in Objects : owner[s] # "unmade"}) < MaxObjects

Opens(who) ==
  /\ FreeNumbers # {}
  /\ holder' = [holder EXCEPT ![Min(FreeNumbers)] = who]

\* Socket::close: the number is closed, whoever has it now.
close(s) ==
  /\ exitReady' = [exitReady EXCEPT ![s] = TRUE]
  /\ holder' = [holder EXCEPT ![sock[s]] = Free]
  /\ stolen' = (stolen \/ holder[sock[s]] \notin {s, Free})

FileOpens == Opens(File) /\ File \notin {holder[n] : n \in Numbers}
             /\ UNCHANGED <<sock, exitReady, task, owner, stolen>>

FileCloses ==
  /\ \E n \in Numbers : holder[n] = File /\ holder' = [holder EXCEPT ![n] = Free]
  /\ UNCHANGED <<sock, exitReady, task, owner, stolen>>

--------------------------------------------------------------------------------
(* The owner. *)

Goes(s, here, next) == owner[s] = here /\ owner' = [owner EXCEPT ![s] = next]
Runs(s, here, next) == task[s] = here /\ task' = [task EXCEPT ![s] = next]

\* The constructor: socket().
Socket(s) ==
  /\ s \notin Connections /\ MayMake
  /\ Goes(s, "unmade", "made")
  /\ Opens(s)
  /\ sock' = [sock EXCEPT ![s] = Min(FreeNumbers)]
  /\ UNCHANGED <<exitReady, task, stolen>>

\* connect starts the receiver of a TCPSocket; a UDPSocket has it started before, and a
\* UDPServer with receiveFrom.  The thread of the server is that of accept.
receive(s) ==
  /\ s \notin Connections
  /\ Goes(s, "made", "used")
  /\ Runs(s, "none", "poll")
  /\ UNCHANGED <<holder, sock, exitReady, stolen>>

\* connect throws: a TCPSocket is left without a receiver.  Its owner lets go of it; one
\* that goes on to send is ended by SIGPIPE, which is Console's matter.
ConnectThrows(s) ==
  /\ s \in TCPSockets
  /\ Goes(s, "made", "unconnected")
  /\ UNCHANGED <<holder, sock, exitReady, task, stolen>>

\* destroyViewServer closes a server before it joins it.
CloseServer(s) ==
  /\ s \in UDPServers \cup {Server}
  /\ Goes(s, "used", "join")
  /\ close(s)
  /\ UNCHANGED <<sock, task>>

\* A client is joined once it has asked to be disconnected.
JoinClient(s) ==
  /\ s \in TCPSockets \cup UDPSockets
  /\ Goes(s, "used", "join")
  /\ UNCHANGED <<holder, sock, exitReady, task, stolen>>

join(s) ==
  /\ Goes(s, "join", "joined")
  /\ task[s] \in {"none", "done"} /\ exitReady[s]
  /\ UNCHANGED <<holder, sock, exitReady, task, stolen>>

\* The owner lets go of the object.
Destroy(s) ==
  /\ Goes(s, "joined", "gone") \/ Goes(s, "unconnected", "gone")
  /\ close(s)
  /\ UNCHANGED <<sock, task>>

--------------------------------------------------------------------------------
(* The threads. *)

\* A descriptor that was taken away is polled in vain.
Has(s) == sock[s] # 0 /\ holder[sock[s]] = s

\* doReceive and doReceiveFrom: the loop ends when a stop is requested ...
LoopEnds(s) ==
  /\ s # Server /\ exitReady[s]
  /\ Runs(s, "poll", IF s \in Streams THEN "close" ELSE "done")
  /\ UNCHANGED <<holder, sock, exitReady, owner, stolen>>

\* ... or when nothing can be received; UDP has no end of a stream.
RecvFails(s) ==
  /\ s # Server /\ ~exitReady[s] /\ Has(s)
  /\ Runs(s, "poll", IF s \in Streams THEN "close" ELSE "done")
  /\ UNCHANGED <<holder, sock, exitReady, owner, stolen>>

\* onMessage and onRawMessage: messages leave the loop as it is, but for the one in which
\* the server agrees to the end: the callback of a client then requests the stop.
onRawMessage(s) ==
  /\ s \in TCPSockets \cup UDPSockets /\ owner[s] = "join"
  /\ task[s] = "poll" /\ ~exitReady[s] /\ Has(s)
  /\ exitReady' = [exitReady EXCEPT ![s] = TRUE]
  /\ UNCHANGED <<holder, sock, task, owner, stolen>>

MutReceiverEnds(s) ==   \* the descriptor is left to the destructor
  /\ Runs(s, "close", "done")
  /\ UNCHANGED <<holder, sock, exitReady, owner, stolen>>

ReceiverEnds(s) ==
  /\ Runs(s, "close", "done")
  /\ close(s)
  /\ UNCHANGED <<sock, owner>>

\* TCPServer::accept: a connection is given a socket and a detached receiver ...
accept(c) ==
  /\ c \in Connections /\ MayMake
  /\ task[Server] = "poll" /\ Has(Server)
  /\ Goes(c, "unmade", "active")
  /\ Runs(c, "none", "poll")
  /\ Opens(c)
  /\ sock' = [sock EXCEPT ![c] = Min(FreeNumbers)]
  /\ UNCHANGED <<exitReady, stolen>>

\* ... until the server is closed; then all of them are asked to stop ...
AcceptEnds ==
  /\ ~Has(Server)
  /\ Runs(Server, "poll", "done")
  /\ exitReady' = [s \in Objects |-> exitReady[s] \/ owner[s] = "active"]
  /\ owner' = [s \in Objects |-> IF owner[s] = "active" THEN "released" ELSE owner[s]]
  /\ UNCHANGED <<holder, sock, stolen>>

\* ... and a connection goes when its receiver has ended too.
Release(c) ==
  /\ task[c] = "done"
  /\ Goes(c, "released", "gone")
  /\ close(c)
  /\ UNCHANGED <<sock, task>>

Own(s) == Socket(s) \/ receive(s) \/ ConnectThrows(s) \/ CloseServer(s) \/ JoinClient(s)
Run(s) == LoopEnds(s) \/ onRawMessage(s) \/ ReceiverEnds(s) \/ join(s) \/ Destroy(s) \/ Release(s)

\* What a theft of a number leads to is not followed.
Next ==
  /\ ~stolen
  /\ \/ \E s \in Objects :
          Own(s) \/ Run(s) \/ RecvFails(s) \/ accept(s)
     \/ AcceptEnds \/ FileOpens \/ FileCloses

\* The threads are scheduled, and a server that is asked to disconnect a client agrees.
Fairness ==
  /\ \A s \in Objects : WF_sockVars(~stolen /\ Run(s))
  /\ WF_sockVars(~stolen /\ AcceptEnds)

--------------------------------------------------------------------------------
\* A UDPSocket that could not receive has no thread and has not been asked to stop.
Orphan(s) == s \in UDPSockets /\ task[s] = "done" /\ ~exitReady[s]

\* Who joins a socket is not kept waiting, whatever its peer does, and what was joined or
\* released gives its descriptor back.  Exempt are UDP clients whose receiver has failed
\* before anybody asked them to stop, and what follows when the second close of an object has hit a
\* number that somebody else was given after the first.
SocketsComeToRest ==
  \A s \in Objects :
    owner[s] \in {"unconnected", "join", "released"} ~>
      \/ owner[s] = "gone" /\ s \notin {holder[n] : n \in Numbers}
      \/ Orphan(s) \/ stolen
================================================================================
