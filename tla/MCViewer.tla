-------------------------------- MODULE MCViewer --------------------------------
(***************************************************************************)
(* The three parts of the viewer: a session of a client, the service with  *)
(* its controller, and the sockets of both.  A behaviour is one of them,   *)
(* as part says; the other two rest in their initial states.               *)
(***************************************************************************)
EXTENDS ViewSession, FiniteSets

CONSTANTS
  Parts,
  MaxRestarts, MaxForwards,
  TCPSockets, UDPSockets, UDPServers, Connections, Server, File, Free, Numbers, MaxObjects

VARIABLES
  part,
  mayFail, state, isOngoing, inResetting, outputCompleted, perm, temp, dpc, dWaiting,
  upc, uop, uTarget, uOk, timer, peer, restarts, forwards,
  holder, sock, exitReady, task, owner, stolen

V == INSTANCE ViewService
K == INSTANCE Sockets

viewVars == <<mayFail, state, isOngoing, inResetting, outputCompleted, perm, temp, dpc, dWaiting,
              upc, uop, uTarget, uOk, timer, peer, restarts, forwards>>
sockVars == <<holder, sock, exitReady, task, owner, stolen>>
allVars == <<part, vars, viewVars, sockVars>>

PartInit ==
  /\ part \in Parts
  /\ Init /\ V!Init /\ K!Init
  /\ part # "session" => transport = (CHOOSE t \in Transports : TRUE)
                         /\ established = (CHOOSE e \in Modes : TRUE)
  /\ part # "service" => ~mayFail

PartNext ==
  /\ \/ part = "session" /\ Next /\ UNCHANGED <<viewVars, sockVars>>
     \/ part = "service" /\ V!Next /\ UNCHANGED <<vars, sockVars>>
     \/ part = "sockets" /\ K!Next /\ UNCHANGED <<vars, viewVars>>
  /\ UNCHANGED part

\* The fairness of the three specifications, each for its part.
PartSpec ==
  /\ PartInit
  /\ [][PartNext]_allVars
  /\ WF_vars(part = "session" /\ ConsoleStep) /\ WF_vars(part = "session" /\ ServerStep)
  /\ WF_vars(part = "session" /\ ReceiverStep) /\ WF_vars(part = "session" /\ ExpiryStep)
  /\ WF_viewVars(part = "service" /\ V!service) /\ WF_viewVars(part = "service" /\ V!Call)
  /\ WF_viewVars(part = "service" /\ V!feedbackWaitingState)
  /\ \A s \in K!Objects : WF_sockVars(part = "sockets" /\ ~stolen /\ K!Run(s))
  /\ WF_sockVars(part = "sockets" /\ ~stolen /\ K!AcceptEnds)

\* The properties of the service and of the sockets, which their modules explain.

\* The asserts of service(), and the servers behind "established".
EstablishedMeansServing == V!EstablishedMeansServing

\* startup, reload and shutdown return, apart from three known ways to hang, and while
\* nothing fails restarts succeed and shutdown leaves nothing behind.
ViewerRestartsAndStops ==
  part = "service" => V!CallsReturn /\ V!ViewerRestartsAndStops

\* join returns, and descriptors are given back.
SocketsComeToRest == part = "sockets" => K!SocketsComeToRest
=================================================================================
