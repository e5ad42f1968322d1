--------------------------- MODULE SessionProofs ----------------------------
(***************************************************************************)
(* Proofs about Session: who owns the socket, what is left behind, and     *)
(* what the daemon can crash on, for any number of daemons and clients;    *)
(* and about the picture one of the clients sends, of any size.            *)
(***************************************************************************)
EXTENDS SessionProperties, PictureSession, PictureProperties, TLAPS

USE DEF Gone, settings, daemon, client

-----------------------------------------------------------------------------
(* Types.                                                                  *)

\* The steps of a client keep the types.
LEMMA ClientTypes ==
  ASSUME TypeOK, NEW c \in Clients, ClientSteps(c) \/ Interrupt(c)
  PROVE  TypeOK'
<1>1. dpc' = dpc /\ cfd' = cfd /\ UNCHANGED <<settings, daemon, node, served>>
  BY DEF ClientSteps, NeedBuffer, FullImage, BadImage, ClearImage, Connected, Refused, Unconnected,
         srv_msg, Interrupt
<1>2. backlog' \in [Daemons -> Seq(Clients)]
  <2>1. CASE Connected(c)
    <3>1. Found(c) \in Daemons
      BY <2>1 DEF Connected, Reachable, Found, TypeOK, Path, ewd_sock_path
    <3> QED BY <2>1, <3>1 DEF Connected, TypeOK, DaemonType
  <2>2. CASE backlog' = backlog
    BY <2>2 DEF TypeOK, DaemonType
  <2> QED BY <2>1, <2>2 DEF ClientSteps, NeedBuffer, FullImage, BadImage, ClearImage, Refused,
         Unconnected, srv_msg, Interrupt
<1>3. ClientType'
  BY <1>1 DEF ClientSteps, NeedBuffer, FullImage, BadImage, ClearImage, Connected, Refused,
         Unconnected, srv_msg, Interrupt, TypeOK, ClientType
<1> QED BY <1>1, <1>2, <1>3 DEF TypeOK, DaemonType, ConnectionType

\* Where a step takes daemon d.
LEMMA Went ==
  ASSUME dpc \in [Daemons -> DaemonPlaces], NEW d \in Daemons, NEW next \in DaemonPlaces,
         Goto(d, next)
  PROVE  /\ dpc' \in [Daemons -> DaemonPlaces] /\ dpc'[d] = next
         /\ \A x \in Daemons \ {d} : dpc'[x] = dpc[x]
  BY DEF Goto

\* A step that opens and closes no connection takes a daemon to no place where
\* it would have to.
LEMMA WentElsewhere ==
  ASSUME TypeOK, NEW d \in Daemons, cfd' = cfd
  PROVE  \A next \in DaemonPlaces :
           /\ Goto(d, next)
           /\ next \in Gone \/ (next # "recv" /\ dpc[d] \notin Gone \cup {"recv"})
           => dpc' \in [Daemons -> DaemonPlaces] /\ \A x \in Daemons : ConnectionType(x)'
<1> TAKE next \in DaemonPlaces
<1> HAVE /\ Goto(d, next)
         /\ next \in Gone \/ (next # "recv" /\ dpc[d] \notin Gone \cup {"recv"})
<1>1. /\ dpc' \in [Daemons -> DaemonPlaces] /\ dpc'[d] = next
      /\ \A x \in Daemons \ {d} : dpc'[x] = dpc[x]
  BY Went DEF TypeOK, DaemonType
<1>2. ConnectionType(d)'
  BY <1>1 DEF TypeOK, ConnectionType
<1>3. \A x \in Daemons \ {d} : ConnectionType(x)'
  BY <1>1 DEF TypeOK, ConnectionType
<1> QED BY <1>1, <1>2, <1>3

\* So do those of a daemon, ...
LEMMA DaemonTypes ==
  ASSUME TypeOK, NEW d \in Daemons, DaemonSteps(d)
  PROVE  TypeOK'
<1>0. NoOne \notin Daemons \cup Clients
  BY SessionAssumption DEF SessionAssumption
<1> USE DEF TypeOK, DaemonType, ClientType
<1>b. DaemonPlaces =
        {"connect", "bind", "listen", "fork", "poll", "recv", "close", "exit"} \cup Gone
  BY DEF DaemonPlaces
<1>1. CASE Connect(d)
  <2>1. dpc' \in [Daemons -> DaemonPlaces] /\ \A x \in Daemons : ConnectionType(x)'
    <3>1. Goto(d, "bind") \/ Goto(d, "exit")
      BY <1>1 DEF Connect
    <3>2. cfd' = cfd /\ dpc[d] \notin Gone \cup {"recv"}
      BY <1>1 DEF Connect
    <3> QED BY <3>1, <3>2, <1>b, WentElsewhere
  <2> QED BY <1>1, <2>1 DEF Connect
<1>2. CASE Bind(d)
  <2>1. dpc' \in [Daemons -> DaemonPlaces] /\ \A x \in Daemons : ConnectionType(x)'
    <3>1. Goto(d, "listen") \/ Goto(d, "exit")
      BY <1>2 DEF Bind
    <3>2. cfd' = cfd /\ dpc[d] \notin Gone \cup {"recv"}
      BY <1>2 DEF Bind
    <3> QED BY <3>1, <3>2, <1>b, WentElsewhere
  <2>2. /\ node' \in [Dirs -> Daemons \cup {NoOne}]
        /\ sock_bound' \in [Daemons -> BOOLEAN]
    BY <1>2 DEF Bind
  <2> QED BY <1>2, <2>1, <2>2 DEF Bind
<1>3. CASE Listen(d)
  <2>1. dpc' \in [Daemons -> DaemonPlaces] /\ \A x \in Daemons : ConnectionType(x)'
    <3>1. Goto(d, "fork") \/ Goto(d, "exit")
      BY <1>3 DEF Listen
    <3>2. cfd' = cfd /\ dpc[d] \notin Gone \cup {"recv"}
      BY <1>3 DEF Listen
    <3> QED BY <3>1, <3>2, <1>b, WentElsewhere
  <2> QED BY <1>3, <2>1 DEF Listen
<1>4. CASE Fork(d)
  <2>1. dpc' \in [Daemons -> DaemonPlaces] /\ \A x \in Daemons : ConnectionType(x)'
    <3>1. Goto(d, "poll") \/ Goto(d, "exit")
      BY <1>4 DEF Fork
    <3>2. cfd' = cfd /\ dpc[d] \notin Gone \cup {"recv"}
      BY <1>4 DEF Fork
    <3> QED BY <3>1, <3>2, <1>b, WentElsewhere
  <2>2. /\ launched' \subseteq Daemons
        /\ stop' \in [Daemons -> {"no", "signal", "hangup"}]
    BY <1>4 DEF Fork
  <2> QED BY <1>4, <2>1, <2>2 DEF Fork
<1>5. CASE Leave(d)
  <2>1. dpc' \in [Daemons -> DaemonPlaces] /\ \A x \in Daemons : ConnectionType(x)'
    <3>1. Goto(d, "close") \/ Goto(d, "exit")
      BY <1>5 DEF Leave
    <3>2. cfd' = cfd /\ dpc[d] \notin Gone \cup {"recv"}
      BY <1>5 DEF Leave
    <3> QED BY <3>1, <3>2, <1>b, WentElsewhere
  <2> QED BY <1>5, <2>1 DEF Leave
<1>6. CASE Dispatch(d)
  BY <1>6 DEF Dispatch, ConnectionType
<1>7. CASE Accept(d)
  <2>1. CASE Goto(d, "recv") /\ cfd' = [cfd EXCEPT ![d] = Head(backlog[d])]
              /\ backlog' = [backlog EXCEPT ![d] = Tail(@)]
    <3>1. Head(backlog[d]) \in Clients /\ Tail(backlog[d]) \in Seq(Clients)
      BY <1>7 DEF Accept
    <3>2. /\ dpc' \in [Daemons -> DaemonPlaces] /\ dpc'[d] = "recv"
          /\ \A x \in Daemons \ {d} : dpc'[x] = dpc[x]
      BY <2>1, <1>b, Went
    <3>3. \A x \in Daemons : ConnectionType(x)'
      BY <2>1, <3>1, <3>2, <1>0 DEF ConnectionType
    <3>4. cfd' \in [Daemons -> Clients \cup {NoOne}] /\ backlog' \in [Daemons -> Seq(Clients)]
      BY <2>1, <3>1
    <3> QED BY <1>7, <3>2, <3>3, <3>4 DEF Accept
  <2>2. CASE UNCHANGED <<dpc, cfd, backlog>>
    BY <1>7, <2>2 DEF Accept, ConnectionType
  <2> QED BY <1>7, <2>1, <2>2 DEF Accept
<1>8. CASE Receive(d)
  <2>1. /\ dpc' \in [Daemons -> DaemonPlaces] /\ dpc'[d] = "poll"
        /\ \A x \in Daemons \ {d} : dpc'[x] = dpc[x]
    BY <1>8, <1>b, Went DEF Receive
  <2>2. \A x \in Daemons : ConnectionType(x)'
    BY <1>8, <2>1 DEF Receive, ConnectionType
  <2>3. served' \subseteq Clients /\ cfd' \in [Daemons -> Clients \cup {NoOne}]
    BY <1>8 DEF Receive
  <2> QED BY <1>8, <2>1, <2>2, <2>3 DEF Receive
<1>9. CASE ReceiveNothing(d)
  <2>1. dpc' \in [Daemons -> DaemonPlaces] /\ \A x \in Daemons : ConnectionType(x)'
    <3>1. Goto(d, "crashed") /\ cfd' = cfd
      BY <1>9 DEF ReceiveNothing
    <3>2. "crashed" \in DaemonPlaces /\ "crashed" \in Gone
      BY <1>b
    <3> QED BY <3>1, <3>2, WentElsewhere
  <2>2. backlog' \in [Daemons -> Seq(Clients)]
    BY <1>9 DEF ReceiveNothing
  <2> QED BY <1>9, <2>1, <2>2 DEF ReceiveNothing
<1>10. CASE CloseAll(d)
  <2>1. dpc' \in [Daemons -> DaemonPlaces] /\ \A x \in Daemons : ConnectionType(x)'
    BY <1>10, <1>b, WentElsewhere DEF CloseAll
  <2>2. backlog' \in [Daemons -> Seq(Clients)]
    BY <1>10 DEF CloseAll
  <2> QED BY <1>10, <2>1, <2>2 DEF CloseAll
<1>11. CASE cleanup(d)
  <2>1. dpc' \in [Daemons -> DaemonPlaces] /\ \A x \in Daemons : ConnectionType(x)'
    BY <1>11, <1>b, WentElsewhere DEF cleanup
  <2>2. backlog' \in [Daemons -> Seq(Clients)]
    BY <1>11 DEF cleanup
  <2>3. node' \in [Dirs -> Daemons \cup {NoOne}]
    BY <1>11 DEF cleanup
  <2> QED BY <1>11, <2>1, <2>2, <2>3 DEF cleanup
<1> QED BY <1>1, <1>2, <1>3, <1>4, <1>5, <1>6, <1>7, <1>8, <1>9, <1>10, <1>11 DEF DaemonSteps

\* ... and what happens to it.
LEMMA WorldTypes ==
  ASSUME TypeOK, NEW d \in Daemons, Signal(d) \/ Hangup(d) \/ Wake(d) \/ Kill(d)
  PROVE  TypeOK'
<1> USE DEF TypeOK, DaemonType, ClientType
<1>b. Gone \subseteq DaemonPlaces
  BY DEF DaemonPlaces
<1>1. CASE Signal(d)
  <2>1. dpc' \in [Daemons -> DaemonPlaces] /\ \A x \in Daemons : ConnectionType(x)'
    <3>1. CASE Goto(d, "killed")
      <4>1. cfd' = cfd /\ "killed" \in DaemonPlaces /\ "killed" \in Gone
        BY <1>1, <1>b DEF Signal
      <4> QED BY <3>1, <4>1, WentElsewhere
    <3>2. CASE dpc' = dpc
      BY <1>1, <3>2 DEF Signal, ConnectionType
    <3> QED BY <1>1, <3>1, <3>2 DEF Signal
  <2>2. stop' \in [Daemons -> {"no", "signal", "hangup"}]
    BY <1>1 DEF Signal
  <2> QED BY <1>1, <2>1, <2>2 DEF Signal
<1>2. CASE Hangup(d)
  <2>1. stop' \in [Daemons -> {"no", "signal", "hangup"}]
    BY <1>2 DEF Hangup
  <2> QED BY <1>2, <2>1 DEF Hangup, ConnectionType
<1>3. CASE Wake(d)
  <2>1. wakeups' \in 0..MaxWakeups /\ woken' \in [Daemons -> BOOLEAN]
    BY <1>3, SessionAssumption DEF Wake, SessionAssumption
  <2> QED BY <1>3, <2>1 DEF Wake, ConnectionType
<1>4. CASE Kill(d)
  <2>1. dpc' \in [Daemons -> DaemonPlaces] /\ \A x \in Daemons : ConnectionType(x)'
    <3>1. Goto(d, "killed") /\ cfd' = cfd
      BY <1>4 DEF Kill
    <3>2. "killed" \in DaemonPlaces /\ "killed" \in Gone
      BY <1>b
    <3> QED BY <3>1, <3>2, WentElsewhere
  <2>2. backlog' \in [Daemons -> Seq(Clients)]
    BY <1>4 DEF Kill
  <2> QED BY <1>4, <2>1, <2>2 DEF Kill
<1> QED BY <1>1, <1>2, <1>3, <1>4

\* The types hold at first ...
LEMMA TypeInit == Init => TypeOK
  BY SessionAssumption DEF Init, DaemonPlaces, TypeOK, DaemonType, ClientType, ConnectionType,
     SessionAssumption

\* ... and every step keeps them.
LEMMA TypeKept == TypeOK /\ [Next]_vars => TypeOK'
<1> SUFFICES ASSUME TypeOK, [Next]_vars PROVE TypeOK'
  OBVIOUS
<1>1. CASE Next
  BY <1>1, ClientTypes, DaemonTypes, WorldTypes DEF Next
<1>2. CASE UNCHANGED vars
  BY <1>2 DEF vars, TypeOK, DaemonType, ClientType, ConnectionType
<1> QED BY <1>1, <1>2

\* Types of all variables, for any number of daemons and clients; and a
\* running daemon has a connection open exactly while it serves one.
THEOREM TypeCorrect == Spec => []TypeOK
<1> QED BY TypeInit, TypeKept, PTL DEF Spec

-----------------------------------------------------------------------------
(***************************************************************************)
(* The socket.  Only bind and cleanup touch it, and a daemon that is gone  *)
(* stays gone.                                                             *)
(***************************************************************************)
OffSocket ==
  /\ UNCHANGED <<env, node, sock_bound>> /\ launched \subseteq launched'
  /\ \A x \in Daemons :
       \/ dpc'[x] = dpc[x]
       \/ dpc[x] \notin Gone /\ dpc'[x] # "exited"

\* Steps of daemon d that move it but end it only by a crash or a signal.
LEMMA MovesOff ==
  ASSUME TypeOK, NEW d \in Daemons, NEW next \in DaemonPlaces \ {"exited"}, Goto(d, next),
         dpc[d] \notin Gone, UNCHANGED <<env, node, sock_bound>>, launched \subseteq launched'
  PROVE  OffSocket
<1>1. dpc'[d] = next /\ \A x \in Daemons \ {d} : dpc'[x] = dpc[x]
  BY Went DEF TypeOK, DaemonType
<1> QED BY <1>1 DEF OffSocket

\* Only Bind and cleanup have to do with the socket file.
LEMMA SocketSteps ==
  ASSUME TypeOK, [Next]_vars
  PROVE  OffSocket \/ \E d \in Daemons : Bind(d) \/ cleanup(d)
<1>b. DaemonPlaces =
        {"connect", "bind", "listen", "fork", "poll", "recv", "close", "exit"} \cup Gone
  BY DEF DaemonPlaces
<1>1. CASE UNCHANGED vars
  BY <1>1 DEF vars, OffSocket
<1>2. ASSUME NEW d \in Daemons, DaemonSteps(d), ~Bind(d), ~cleanup(d) PROVE OffSocket
  <2>1. CASE Connect(d) \/ Listen(d) \/ Fork(d) \/ Leave(d)
    <3>1. \E next \in {"bind", "exit", "fork", "poll", "close"} : Goto(d, next)
      BY <2>1 DEF Connect, Listen, Fork, Leave
    <3>2. dpc[d] \notin Gone /\ UNCHANGED <<env, node, sock_bound>> /\ launched \subseteq launched'
      BY <2>1 DEF Connect, Listen, Fork, Leave
    <3> QED BY <3>1, <3>2, <1>b, MovesOff
  <2>2. CASE Dispatch(d)
    BY <2>2 DEF Dispatch, OffSocket
  <2>3. CASE Accept(d) /\ ~UNCHANGED dpc
    <3>1. Goto(d, "recv") /\ dpc[d] \notin Gone /\ UNCHANGED <<env, node, sock_bound, launched>>
      BY <2>3 DEF Accept
    <3> QED BY <3>1, <1>b, MovesOff
  <2>4. CASE Accept(d) /\ UNCHANGED dpc
    BY <2>4 DEF Accept, OffSocket
  <2>5. CASE Receive(d) \/ ReceiveNothing(d) \/ CloseAll(d)
    <3>1. \E next \in {"poll", "crashed", "exit"} : Goto(d, next)
      BY <2>5 DEF Receive, ReceiveNothing, CloseAll
    <3>2. dpc[d] \notin Gone /\ UNCHANGED <<env, node, sock_bound, launched>>
      BY <2>5 DEF Receive, ReceiveNothing, CloseAll
    <3> QED BY <3>1, <3>2, <1>b, MovesOff
  <2> QED BY <1>2, <2>1, <2>2, <2>3, <2>4, <2>5 DEF DaemonSteps
<1>3. ASSUME NEW d \in Daemons, Signal(d) \/ Hangup(d) \/ Wake(d) \/ Kill(d) PROVE OffSocket
  <2>1. CASE Goto(d, "killed") /\ (Signal(d) \/ Kill(d))
    <3>1. dpc[d] \notin Gone /\ UNCHANGED <<env, node, sock_bound, launched>>
      BY <2>1 DEF Signal, Kill
    <3> QED BY <2>1, <3>1, <1>b, MovesOff
  <2>2. CASE UNCHANGED <<env, node, sock_bound, launched, dpc>>
    BY <2>2 DEF OffSocket
  <2> QED BY <1>3, <2>1, <2>2 DEF Signal, Hangup, Wake, Kill
<1>4. ASSUME NEW c \in Clients, ClientSteps(c) \/ Interrupt(c) PROVE OffSocket
  BY <1>4 DEF ClientSteps, NeedBuffer, FullImage, BadImage, ClearImage, Connected, Refused,
     Unconnected, srv_msg, Interrupt, OffSocket
<1> QED BY <1>1, <1>2, <1>3, <1>4 DEF Next

\* The inductive invariant: whoever is named by the file has bound it, at the
\* path its environment names.
SocketInv ==
  /\ TypeOK /\ OwnSocket /\ SocketLeft
  /\ \A dir \in Dirs : node[dir] # NoOne => sock_bound[node[dir]] /\ Path(node[dir]) = dir

\* Every step keeps the socket of a running daemon its own ...
LEMMA SocketKept ==
  ASSUME SocketInv, [Next]_vars
  PROVE  SocketInv'
<1>0. NoOne \notin Daemons /\ NoPath \notin Dirs
  BY SessionAssumption DEF SessionAssumption
<1>1. TypeOK /\ TypeOK'
  BY TypeKept DEF SocketInv
<1>2. node \in [Dirs -> Daemons \cup {NoOne}] /\ sock_bound \in [Daemons -> BOOLEAN]
  BY <1>1 DEF TypeOK, DaemonType
<1>3. CASE OffSocket
  <2>1. \A x \in Daemons : Path(x)' = Path(x)
    BY <1>3 DEF OffSocket, Path
  <2>2. OwnSocket'
    BY <1>3, <2>1 DEF SocketInv, OwnSocket, OffSocket, Alive
  <2>3. SocketLeft'
    BY <1>2, <1>3, <2>1 DEF SocketInv, SocketLeft, OffSocket, Alive
  <2> QED BY <1>1, <1>2, <1>3, <2>1, <2>2, <2>3 DEF SocketInv, OffSocket
<1>4. ASSUME NEW d \in Daemons, Bind(d) PROVE SocketInv'
  <2>1. \A x \in Daemons : Path(x)' = Path(x)
    BY <1>4 DEF Bind, Path
  <2>2. CASE Path(d) \in Free /\ node' = [node EXCEPT ![Path(d)] = d]
             /\ sock_bound' = [sock_bound EXCEPT ![d] = TRUE] /\ Goto(d, "listen")
    <3>1. /\ dpc[d] = "bind" /\ dpc'[d] = "listen"
          /\ \A x \in Daemons \ {d} : dpc'[x] = dpc[x]
      BY <1>1, <1>4, <2>2 DEF Bind, Goto, TypeOK, DaemonType
    <3>2. Path(d) \in Dirs /\ node[Path(d)] = NoOne
      BY <2>2 DEF Free
    <3>3. OwnSocket'
      BY <1>0, <1>2, <2>1, <2>2, <3>1, <3>2 DEF SocketInv, OwnSocket, Alive
    <3>4. SocketLeft'
      BY <1>0, <1>2, <1>4, <2>1, <2>2, <3>1, <3>2 DEF SocketInv, SocketLeft, Alive, Bind
    <3> QED BY <1>0, <1>1, <1>2, <2>1, <2>2, <3>2, <3>3, <3>4 DEF SocketInv
  <2>3. CASE UNCHANGED <<node, sock_bound>> /\ Goto(d, "exit")
    <3>1. /\ dpc[d] = "bind" /\ dpc'[d] = "exit" /\ launched' = launched
          /\ \A x \in Daemons \ {d} : dpc'[x] = dpc[x]
      BY <1>1, <1>4, <2>3 DEF Bind, Goto, TypeOK, DaemonType
    <3>2. OwnSocket' /\ SocketLeft'
      BY <1>2, <2>1, <2>3, <3>1 DEF SocketInv, OwnSocket, SocketLeft, Alive
    <3> QED BY <1>1, <1>2, <2>1, <2>3, <3>2 DEF SocketInv
  <2> QED BY <1>4, <2>2, <2>3 DEF Bind
<1>5. ASSUME NEW d \in Daemons, cleanup(d) PROVE SocketInv'
  <2>1. \A x \in Daemons : Path(x)' = Path(x)
    BY <1>5 DEF cleanup, Path
  <2>2. /\ dpc[d] = "exit" /\ dpc'[d] = "exited"
        /\ \A x \in Daemons \ {d} : dpc'[x] = dpc[x]
    BY <1>1, <1>5 DEF cleanup, Goto, TypeOK, DaemonType
  <2>3. UNCHANGED <<sock_bound, launched>>
    BY <1>5 DEF cleanup
  <2>4. /\ \A dir \in Dirs \ Unlinked(d) : node'[dir] = node[dir]
        /\ \A dir \in Dirs \cap Unlinked(d) : node'[dir] = NoOne
    BY <1>5 DEF cleanup
  <2>5. \A dir \in Dirs \cap Unlinked(d) : node[dir] = d
    BY <1>2, <2>2 DEF Unlinked, SocketInv, OwnSocket, Alive
  <2>6. ASSUME NEW x \in Daemons, sock_bound'[x], Alive(x)'
        PROVE  Path(x)' # NoPath /\ node'[Path(x)'] = x
    <3>1. x # d /\ sock_bound[x] /\ Alive(x)
      BY <2>2, <2>3, <2>6 DEF Alive
    <3>2. Path(x) # NoPath /\ node[Path(x)] = x
      BY <3>1 DEF SocketInv, OwnSocket
    <3>3. Path(x) \in Dirs
      BY <3>2 DEF Path, ewd_sock_path
    <3> QED BY <2>1, <2>4, <2>5, <3>1, <3>2, <3>3
  <2>7. OwnSocket'
    BY <2>6 DEF OwnSocket
  <2>8. SocketLeft'
    <3> SUFFICES ASSUME NEW dir \in Dirs, node'[dir] # NoOne, ~Alive(node[dir])'
                 PROVE  \/ dpc'[node'[dir]] \in {"killed", "crashed"}
                        \/ dir \in Relative /\ node'[dir] \in launched'
      BY DEF SocketLeft, Alive
    <3>1. dir \notin Unlinked(d) /\ node'[dir] = node[dir]
      BY <2>4
    <3>2. node[dir] \in Daemons /\ sock_bound[node[dir]] /\ Path(node[dir]) = dir
      BY <1>2, <3>1 DEF SocketInv
    <3>3. CASE node[dir] = d
      BY <2>3, <3>1, <3>2, <3>3 DEF Unlinked
    <3>4. CASE node[dir] # d
      BY <2>2, <2>3, <3>1, <3>2, <3>4 DEF SocketInv, SocketLeft, Alive
    <3> QED BY <3>3, <3>4
  <2> QED BY <1>1, <1>2, <2>1, <2>3, <2>4, <2>7, <2>8 DEF SocketInv
<1> QED BY <1>3, <1>4, <1>5, SocketSteps DEF SocketInv

\* ... so it is, always.
LEMMA SocketInvariant == Spec => []SocketInv
<1>1. Init => SocketInv
  BY TypeInit DEF Init, SocketInv, OwnSocket, SocketLeft, Alive
<1> QED BY <1>1, SocketKept, PTL DEF Spec

\* The socket is the daemon's own as long as it runs, whoever else starts.
THEOREM SocketOwned == Spec => []OwnSocket
<1>1. SocketInv => OwnSocket
  BY DEF SocketInv
<1> QED BY <1>1, SocketInvariant, PTL

\* A socket nobody listens on is left behind only by a crash, by a signal, or
\* by a relative path that no longer leads to it.
THEOREM SocketsLeft == Spec => []SocketLeft
<1>1. SocketInv => SocketLeft
  BY DEF SocketInv
<1> QED BY <1>1, SocketInvariant, PTL

-----------------------------------------------------------------------------
(***************************************************************************)
(* The command ewd.  What it promises when it returns: a daemon beyond     *)
(* listen has bound its socket, and the command only returns from there.   *)
(***************************************************************************)
Starting == {"connect", "bind", "listen", "fork"}

ServingInv ==
  /\ SocketInv
  /\ \A d \in Daemons :
       /\ dpc[d] \in Listening \cup {"listen", "close"} => sock_bound[d]
       /\ d \in launched => dpc[d] \notin Starting

\* A daemon that binds nothing and does not fork gets to no new place where it
\* would have to be bound, and back to none where it is only starting.
GoesOn ==
  /\ UNCHANGED <<sock_bound, launched>>
  /\ \A d \in Daemons :
       /\ dpc'[d] \in Listening \cup {"listen", "close"} =>
            dpc[d] \in Listening \cup {"listen", "close"}
       /\ dpc'[d] \in Starting => dpc[d] \in Starting

\* Steps of a daemon other than Bind and Fork leave the serving daemons at their sockets.
LEMMA DaemonsGoOn ==
  ASSUME TypeOK, NEW d \in Daemons,
         DaemonSteps(d) \/ Signal(d) \/ Hangup(d) \/ Wake(d) \/ Kill(d), ~Bind(d), ~Fork(d)
  PROVE  GoesOn
<1>b. DaemonPlaces =
        {"connect", "bind", "listen", "fork", "poll", "recv", "close", "exit"} \cup Gone
  BY DEF DaemonPlaces
<1>1. CASE UNCHANGED <<dpc, sock_bound, launched>>
  BY <1>1 DEF GoesOn
<1>2. ASSUME NEW next \in DaemonPlaces, Goto(d, next), UNCHANGED <<sock_bound, launched>>,
             next \in Listening \cup {"listen", "close"} =>
               dpc[d] \in Listening \cup {"listen", "close"},
             next \in Starting => dpc[d] \in Starting
      PROVE  GoesOn
  <2>1. dpc'[d] = next /\ \A x \in Daemons \ {d} : dpc'[x] = dpc[x]
    BY <1>2, Went DEF TypeOK, DaemonType
  <2> QED BY <1>2, <2>1 DEF GoesOn
<1>3. CASE Connect(d) \/ Listen(d) \/ Leave(d) \/ CloseAll(d) \/ cleanup(d) \/ Receive(d)
           \/ ReceiveNothing(d) \/ Kill(d)
  <2>1. PICK next \in DaemonPlaces : Goto(d, next) /\
          \/ dpc[d] = "connect" /\ next \in {"bind", "exit"}
          \/ dpc[d] = "listen" /\ next \in {"fork", "exit"}
          \/ dpc[d] = "poll" /\ next \in {"close", "exit"}
          \/ dpc[d] = "close" /\ next = "exit"
          \/ dpc[d] = "exit" /\ next = "exited"
          \/ dpc[d] = "recv" /\ next \in {"poll", "crashed"}
          \/ next = "killed"
    BY <1>3, <1>b DEF Connect, Listen, Leave, CloseAll, cleanup, Receive, ReceiveNothing, Kill
  <2>2. UNCHANGED <<sock_bound, launched>>
    BY <1>3 DEF Connect, Listen, Leave, CloseAll, cleanup, Receive, ReceiveNothing, Kill
  <2> QED BY <1>2, <2>1, <2>2 DEF Listening, Starting
<1>4. CASE Accept(d) \/ Signal(d)
  <2>1. CASE dpc' = dpc
    BY <1>1, <1>4, <2>1 DEF Accept, Signal
  <2>2. CASE Goto(d, "recv") /\ dpc[d] = "poll"
    BY <1>2, <1>4, <1>b, <2>2 DEF Accept, Signal, Listening, Starting
  <2>3. CASE Goto(d, "killed")
    BY <1>2, <1>4, <1>b, <2>3 DEF Accept, Signal, Listening, Starting
  <2> QED BY <1>4, <2>1, <2>2, <2>3 DEF Accept, Signal
<1> QED BY <1>1, <1>3, <1>4 DEF DaemonSteps, Dispatch, Hangup, Wake

\* Every step keeps the socket reachable behind a daemon that has been launched ...
LEMMA ServingKept ==
  ASSUME ServingInv, [Next]_vars
  PROVE  ServingInv'
<1>1. TypeOK /\ SocketInv'
  BY SocketKept DEF ServingInv, SocketInv
<1>2. CASE GoesOn
  BY <1>1, <1>2 DEF ServingInv, GoesOn
<1>3. ASSUME NEW d \in Daemons, Bind(d) PROVE ServingInv'
  <2>1. /\ dpc[d] = "bind" /\ launched' = launched
        /\ \A x \in Daemons \ {d} : dpc'[x] = dpc[x] /\ sock_bound'[x] = sock_bound[x]
        /\ \/ dpc'[d] = "listen" /\ sock_bound'[d] = TRUE
           \/ dpc'[d] = "exit"
    BY <1>1, <1>3 DEF Bind, Goto, TypeOK, DaemonType
  <2>2. d \notin launched
    BY <2>1 DEF ServingInv, Starting
  <2> QED BY <1>1, <2>1, <2>2 DEF ServingInv, Listening
<1>4. ASSUME NEW d \in Daemons, Fork(d) PROVE ServingInv'
  <2>1. /\ dpc[d] = "fork" /\ sock_bound' = sock_bound /\ dpc'[d] \in {"poll", "exit"}
        /\ \A x \in Daemons \ {d} : dpc'[x] = dpc[x]
        /\ launched' \subseteq launched \cup {d}
    BY <1>1, <1>4 DEF Fork, Goto, TypeOK, DaemonType
  <2>2. sock_bound[d]
    BY <2>1 DEF ServingInv, Listening
  <2> QED BY <1>1, <2>1, <2>2 DEF ServingInv, Listening, Starting
<1>5. CASE UNCHANGED <<dpc, sock_bound, launched>>
  BY <1>2, <1>5 DEF GoesOn
<1>6. ASSUME NEW c \in Clients, ClientSteps(c) \/ Interrupt(c)
      PROVE  UNCHANGED <<dpc, sock_bound, launched>>
  BY <1>6 DEF ClientSteps, NeedBuffer, FullImage, BadImage, ClearImage, Connected, Refused,
     Unconnected, srv_msg, Interrupt
<1> QED BY <1>1, <1>2, <1>3, <1>4, <1>5, <1>6, DaemonsGoOn DEF Next, vars

\* ... so it is, always.
LEMMA ServingInvariant == Spec => []ServingInv
<1>1. Init => ServingInv
  <2> SUFFICES ASSUME Init PROVE ServingInv
    OBVIOUS
  <2>1. SocketInv
    BY TypeInit DEF Init, SocketInv, OwnSocket, SocketLeft, Alive
  <2> QED BY <2>1 DEF Init, ServingInv, Listening
<1> QED BY <1>1, ServingKept, PTL DEF Spec

\* No client is turned away from a daemon whose command has returned and that
\* is still in its loop: such a daemon has bound the socket, still owns it, and
\* listens, whatever other daemons did in the meantime.
THEOREM LaunchedReached == Spec => LaunchedReachable
<1>1. ASSUME ServingInv, NEW c \in Clients, cpc[c] = "connect", Refused(c),
             NEW d \in launched, Path(d) = Path(c), dpc[d] \notin Gone \cup {"close", "exit"}
      PROVE  FALSE
  <2>1. d \in Daemons /\ dpc[d] \in DaemonPlaces
    BY <1>1 DEF ServingInv, SocketInv, TypeOK, DaemonType
  <2>2. dpc[d] \in {"poll", "recv"}
    BY <1>1, <2>1 DEF ServingInv, Starting, DaemonPlaces
  <2>3. Path(d) # NoPath /\ node[Path(d)] = d
    BY <1>1, <2>1, <2>2 DEF ServingInv, SocketInv, OwnSocket, Listening, Alive
  <2>4. Found(c) = d
    BY <1>1, <2>3 DEF Found
  <2>5. d # NoOne
    BY <2>1, SessionAssumption DEF SessionAssumption
  <2> QED BY <1>1, <2>2, <2>4, <2>5 DEF Refused, Reachable, Listening
<1>2. ASSUME TypeOK, [Next]_vars, NEW c \in Clients, cpc[c] = "connect", cpc'[c] = "failed"
      PROVE  Refused(c)
  <2>1. PICK x \in Clients : ClientSteps(x) \/ Interrupt(x)
    <3>1. cpc' # cpc
      BY <1>2
    <3>2. \A d \in Daemons : ~(DaemonSteps(d) \/ Signal(d) \/ Hangup(d) \/ Wake(d) \/ Kill(d))
      BY <3>1 DEF DaemonSteps, Connect, Bind, Listen, Fork, Leave, Dispatch, Accept, Receive,
         ReceiveNothing, CloseAll, cleanup, Signal, Hangup, Wake, Kill
    <3> QED BY <1>2, <3>1, <3>2 DEF Next, vars
  <2>2. x = c
    BY <1>2, <2>1 DEF ClientSteps, NeedBuffer, FullImage, BadImage, ClearImage, Connected, Refused,
       Unconnected, srv_msg, Interrupt, TypeOK, ClientType
  <2> QED BY <1>2, <2>1, <2>2 DEF ClientSteps, NeedBuffer, FullImage, BadImage, ClearImage,
       Connected, Unconnected, srv_msg, Interrupt, Decoding, TypeOK, ClientType
<1>3. ServingInv /\ [Next]_vars =>
        [\A c \in Clients : cpc[c] = "connect" /\ cpc'[c] = "failed" =>
           ~\E d \in launched : Path(d) = Path(c) /\ dpc[d] \notin Gone \cup {"close", "exit"}]_vars
  BY <1>1, <1>2 DEF ServingInv, SocketInv
<1> QED BY <1>3, ServingInvariant, PTL DEF Spec, LaunchedReachable

-----------------------------------------------------------------------------
(***************************************************************************)
(* Crashes.  A connection a daemon holds is that of a client that is about *)
(* to send, has sent, has been killed, or has failed to send.              *)
(***************************************************************************)
HeldClients ==
  \A d \in Daemons, c \in Clients : Holds(d, c) =>
    cpc[c] \in {"send", "done", "killed", "error"} /\ (cpc[c] = "done" => c \in sent)

Senders == \A c \in sent : cpc[c] = "done"

CrashInv == TypeOK /\ HeldClients /\ Senders /\ CrashCause

\* No daemon gets hold of another connection, and none crashes.
HoldsLess ==
  /\ UNCHANGED <<cpc, sent>>
  /\ \A d \in Daemons, c \in Clients : Holds(d, c)' => Holds(d, c)
  /\ \A d \in Daemons : dpc'[d] = "crashed" => dpc[d] = "crashed" /\ cfd'[d] = cfd[d]

\* It does not when only daemon d goes on, taking none but the connections it has.
LEMMA LessHeld ==
  ASSUME TypeOK, NEW d \in Daemons, UNCHANGED <<cpc, sent>>,
         dpc[d] \notin Gone, dpc'[d] # "crashed",
         \A x \in Daemons \ {d} : dpc'[x] = dpc[x] /\ cfd'[x] = cfd[x] /\ backlog'[x] = backlog[x],
         \A c \in Clients : Holds(d, c)' => Holds(d, c)
  PROVE  HoldsLess
<1>1. ASSUME NEW x \in Daemons, NEW c \in Clients, Holds(x, c)' PROVE Holds(x, c)
  <2>1. CASE x = d
    BY <1>1, <2>1
  <2>2. CASE x # d
    BY <1>1, <2>2 DEF Holds
  <2> QED BY <2>1, <2>2
<1>2. \A x \in Daemons : dpc'[x] = "crashed" => dpc[x] = "crashed" /\ cfd'[x] = cfd[x]
  OBVIOUS
<1> QED BY <1>1, <1>2 DEF HoldsLess

\* No step of a daemon but the crash itself takes up more clients that are about to crash one.
LEMMA DaemonsHold ==
  ASSUME TypeOK, NEW d \in Daemons,
         DaemonSteps(d) \/ Signal(d) \/ Hangup(d) \/ Wake(d) \/ Kill(d), ~ReceiveNothing(d)
  PROVE  HoldsLess
<1> USE DEF TypeOK, DaemonType
<1>0. NoOne \notin Clients
  BY SessionAssumption DEF SessionAssumption
<1>1. CASE UNCHANGED <<dpc, cfd, backlog, cpc, sent>>
  BY <1>1 DEF HoldsLess, Holds
<1>2. CASE Connect(d) \/ Bind(d) \/ Listen(d) \/ Fork(d) \/ Leave(d)
  <2>1. /\ dpc[d] \notin Gone /\ dpc'[d] # "crashed" /\ UNCHANGED <<cfd, backlog, cpc, sent>>
        /\ \A x \in Daemons \ {d} : dpc'[x] = dpc[x]
    BY <1>2 DEF Connect, Bind, Listen, Fork, Leave, Goto
  <2>2. \A c \in Clients : Holds(d, c)' => Holds(d, c)
    BY <2>1 DEF Holds
  <2> QED BY <2>1, <2>2, LessHeld
<1>3. CASE Accept(d) /\ ~UNCHANGED <<dpc, cfd, backlog>>
  <2>1. /\ dpc[d] = "poll" /\ dpc'[d] = "recv" /\ UNCHANGED <<cpc, sent>>
        /\ backlog[d] # <<>> /\ cfd'[d] = Head(backlog[d]) /\ backlog'[d] = Tail(backlog[d])
        /\ \A x \in Daemons \ {d} : dpc'[x] = dpc[x] /\ cfd'[x] = cfd[x] /\ backlog'[x] = backlog[x]
    BY <1>3 DEF Accept, Goto
  <2>2. ASSUME NEW c \in Clients, Holds(d, c)' PROVE Holds(d, c)
    <3>1. backlog[d] \in Seq(Clients) /\ Len(backlog[d]) \in 1..Len(backlog[d])
      BY <2>1
    <3>2. CASE cfd'[d] = c
      <4>1. 1 \in 1..Len(backlog[d]) /\ backlog[d][1] = c
        BY <2>1, <3>1, <3>2
      <4> QED BY <2>1, <4>1 DEF Holds
    <3>3. CASE \E k \in 1..Len(backlog'[d]) : backlog'[d][k] = c
      <4>1. PICK k \in 1..Len(Tail(backlog[d])) : Tail(backlog[d])[k] = c
        BY <2>1, <3>3
      <4>2. k + 1 \in 1..Len(backlog[d]) /\ backlog[d][k + 1] = c
        BY <2>1, <3>1, <4>1
      <4> QED BY <2>1, <4>2 DEF Holds
    <3> QED BY <2>2, <3>2, <3>3 DEF Holds
  <2> QED BY <2>1, <2>2, LessHeld
<1>4. CASE Receive(d)
  <2>1. /\ dpc[d] = "recv" /\ dpc'[d] = "poll" /\ UNCHANGED <<backlog, cpc, sent>>
        /\ cfd'[d] = NoOne
        /\ \A x \in Daemons \ {d} : dpc'[x] = dpc[x] /\ cfd'[x] = cfd[x]
    BY <1>4 DEF Receive, Goto
  <2>2. \A c \in Clients : Holds(d, c)' => Holds(d, c)
    BY <1>0, <2>1 DEF Holds
  <2> QED BY <2>1, <2>2, LessHeld
<1>5. CASE CloseAll(d) \/ cleanup(d) \/ Kill(d)
  <2>1. /\ dpc[d] \notin Gone /\ dpc'[d] # "crashed" /\ UNCHANGED <<cfd, cpc, sent>>
        /\ backlog'[d] = <<>>
        /\ \A x \in Daemons \ {d} : dpc'[x] = dpc[x] /\ backlog'[x] = backlog[x]
    BY <1>5 DEF CloseAll, cleanup, Kill, Goto
  <2>2. \A c \in Clients : Holds(d, c)' => Holds(d, c)
    BY <2>1 DEF Holds
  <2> QED BY <2>1, <2>2, LessHeld
<1>6. CASE Signal(d) /\ ~UNCHANGED dpc
  <2>1. /\ dpc[d] = "connect" /\ dpc'[d] = "killed" /\ UNCHANGED <<cfd, backlog, cpc, sent>>
        /\ \A x \in Daemons \ {d} : dpc'[x] = dpc[x]
    BY <1>6 DEF Signal, Goto
  <2>2. \A c \in Clients : Holds(d, c)' => Holds(d, c)
    BY <2>1 DEF Holds
  <2> QED BY <2>1, <2>2, LessHeld
<1>7. CASE Dispatch(d) \/ Hangup(d) \/ Wake(d) \/ (Signal(d) /\ UNCHANGED dpc)
  BY <1>1, <1>7 DEF Dispatch, Hangup, Wake, Signal
<1>8. CASE Accept(d) /\ UNCHANGED <<dpc, cfd, backlog>>
  BY <1>1, <1>8 DEF Accept
<1> QED BY <1>2, <1>3, <1>4, <1>5, <1>6, <1>7, <1>8 DEF DaemonSteps

\* Every step keeps account of the client that a daemon would crash on.
LEMMA CrashKept ==
  ASSUME CrashInv, [Next]_vars
  PROVE  CrashInv'
<1>0. NoOne \notin Clients
  BY SessionAssumption DEF SessionAssumption
<1>1. TypeOK /\ TypeOK'
  BY TypeKept DEF CrashInv
<1>2. CASE HoldsLess
  <2>1. UNCHANGED <<cpc, sent>> /\ \A d \in Daemons, c \in Clients : Holds(d, c)' => Holds(d, c)
    BY <1>2 DEF HoldsLess
  <2>2. HeldClients' /\ Senders'
    BY <2>1 DEF CrashInv, HeldClients, Senders
  <2> QED BY <1>1, <1>2, <2>2 DEF CrashInv, CrashCause, HoldsLess
<1>3. ASSUME NEW d \in Daemons, ReceiveNothing(d) PROVE CrashInv'
  <2>1. /\ dpc[d] = "recv" /\ dpc'[d] = "crashed" /\ UNCHANGED <<cfd, cpc, sent>>
        /\ \A x \in Daemons \ {d} : dpc'[x] = dpc[x] /\ backlog'[x] = backlog[x]
    BY <1>1, <1>3 DEF ReceiveNothing, Goto, TypeOK, DaemonType
  <2>2. cfd[d] \in Clients /\ Holds(d, cfd[d])
    BY <1>1, <2>1 DEF TypeOK, DaemonType, ConnectionType, Holds
  <2>3. cpc[cfd[d]] \in {"killed", "error"} /\ cfd[d] \notin sent
    BY <1>3, <2>2 DEF ReceiveNothing, CrashInv, HeldClients
  <2>4. CrashCause'
    BY <2>1, <2>2, <2>3 DEF CrashInv, CrashCause
  <2>5. \A x \in Daemons, c \in Clients : Holds(x, c)' => Holds(x, c)
    BY <2>1 DEF Holds
  <2> QED BY <1>1, <2>1, <2>4, <2>5 DEF CrashInv, HeldClients, Senders
<1>4. ASSUME NEW c \in Clients, ClientSteps(c) \/ Interrupt(c) PROVE CrashInv'
  <2>1. /\ UNCHANGED <<dpc, cfd>> /\ cpc[c] \in {"decode", "connect", "send"}
        /\ \A x \in Clients \ {c} : cpc'[x] = cpc[x]
        /\ sent \subseteq sent' /\ sent' \subseteq sent \cup {c}
        /\ c \in sent' \ sent => cpc'[c] = "done"
    BY <1>1, <1>4 DEF ClientSteps, NeedBuffer, FullImage, BadImage, ClearImage, Connected, Refused,
       Unconnected, srv_msg, Interrupt, Decoding, TypeOK, ClientType
  <2>2. CrashCause' /\ Senders'
    BY <1>1, <2>1 DEF CrashInv, CrashCause, Senders, TypeOK, ClientType
  <2>3. CASE Connected(c)
    <3>1. Found(c) \in Daemons
      BY <1>1, <2>3 DEF Connected, Reachable, Found, TypeOK, Path, ewd_sock_path
    <3>2. /\ cpc' = [cpc EXCEPT ![c] = "send"] /\ cpc[c] = "connect" /\ sent' = sent
          /\ backlog' = [backlog EXCEPT ![Found(c)] = Append(@, c)]
      BY <2>3 DEF Connected
    <3>3. ASSUME NEW d \in Daemons, NEW x \in Clients, Holds(d, x)' PROVE x = c \/ Holds(d, x)
      <4>1. CASE d = Found(c)
        BY <1>1, <2>1, <3>2, <3>3, <4>1 DEF Holds, TypeOK, DaemonType
      <4>2. CASE d # Found(c)
        BY <2>1, <3>2, <3>3, <4>2 DEF Holds
      <4> QED BY <4>1, <4>2
    <3>4. cpc'[c] = "send"
      BY <1>1, <3>2 DEF TypeOK, ClientType
    <3> QED BY <1>1, <2>1, <2>2, <3>2, <3>3, <3>4 DEF CrashInv, HeldClients
  <2>4. CASE backlog' = backlog
    <3>1. \A d \in Daemons, x \in Clients : Holds(d, x)' => Holds(d, x)
      BY <2>1, <2>4 DEF Holds
    <3>2. ASSUME NEW d \in Daemons, Holds(d, c)
          PROVE  cpc'[c] \in {"done", "killed", "error"} /\ (cpc'[c] = "done" => c \in sent')
      <4>1. cpc[c] = "send"
        BY <2>1, <3>2 DEF CrashInv, HeldClients
      <4>2. srv_msg(c) \/ Interrupt(c)
        BY <1>4, <4>1 DEF ClientSteps, NeedBuffer, FullImage, BadImage, ClearImage, Connected,
           Refused, Unconnected, Decoding
      <4> QED BY <1>1, <3>2, <4>2 DEF srv_msg, Interrupt, TypeOK, ClientType
    <3> QED BY <1>1, <2>1, <2>2, <3>1, <3>2 DEF CrashInv, HeldClients
  <2> QED BY <1>4, <2>3, <2>4 DEF ClientSteps, NeedBuffer, FullImage, BadImage, ClearImage,
         Refused, Unconnected, srv_msg, Interrupt
<1>5. CASE UNCHANGED vars
  BY <1>1, <1>5 DEF vars, CrashInv, HeldClients, Senders, CrashCause, Holds, client, daemon
<1> QED BY <1>2, <1>3, <1>4, <1>5, <1>1, DaemonsHold DEF Next

\* A daemon crashes on nothing but a client that was killed, or whose sendmsg failed,
\* between connecting and sending: whatever the clients decode and whoever else connects.
THEOREM CrashesCaused == Spec => []CrashCause
<1>1. Init => CrashInv
  <2> SUFFICES ASSUME Init PROVE CrashInv
    OBVIOUS
  <2>1. \A d \in Daemons, c \in Clients : ~Holds(d, c)
    BY SessionAssumption DEF SessionAssumption, Init, Holds
  <2> QED BY <2>1, TypeInit DEF Init, CrashInv, HeldClients, Senders, CrashCause
<1>2. CrashInv => CrashCause
  BY DEF CrashInv
<1> QED BY <1>1, <1>2, CrashKept, PTL DEF Spec

-----------------------------------------------------------------------------
(***************************************************************************)
(* The picture.  How much of it scale shows.                               *)
(***************************************************************************)
\* A quotient is known by its bounds.
LEMMA Quotient ==
  ASSUME NEW a \in Nat, NEW b \in Nat \ {0}
  PROVE  /\ a \div b \in Nat
         /\ b * (a \div b) <= a /\ a < (b * (a \div b)) + b
         /\ \A q \in Nat : b * q <= a /\ a < (b * q) + b => a \div b = q
<1> DEFINE r == a \div b
<1>1. r \in Nat /\ b * r <= a /\ a < (b * r) + b
  OBVIOUS
<1>2. ASSUME NEW q \in Nat, b * q <= a, a < (b * q) + b PROVE r = q
  <2> HIDE DEF r
  <2>1. ASSUME NEW x \in Nat, NEW y \in Nat, x < y PROVE (b * x) + b <= b * y
    <3>1. PICK z \in Nat : y = x + 1 + z BY <2>1, (y - x) - 1 \in Nat
    <3>2. b * y = (b * x) + b + (b * z) BY <3>1
    <3>3. b * z \in Nat OBVIOUS
    <3> QED BY <3>2, <3>3
  <2>2. ~(r < q) /\ ~(q < r)
    <3>1. b * r \in Nat /\ b * q \in Nat BY <1>1
    <3> QED BY <1>1, <1>2, <2>1, <3>1
  <2> QED BY <1>1, <2>2
<1> QED BY <1>1, <1>2

\* What row v of the screen shows of a picture that is made larger by den / num, and
\* whether D rows of it are enough to show row k.
Row(v, num, den) == ((2 * v + 1) * num) \div (2 * den)
Reach(D, num, den, k) == 2 * (den * k) <= ((2 * D) - 1) * num

\* When a picture is not made smaller every one of its rows is looked at: row k by row v
\* of the screen.
LEMMA RowSeen ==
  ASSUME NEW n \in Nat \ {0}, NEW d \in Nat, n <= d, NEW k \in Nat,
         NEW D \in Nat \ {0}, Reach(D, n, d, k)
  PROVE  \E v \in 0 .. D - 1 : Row(v, n, d) = k
<1> DEFINE a == 2 * (d * k) + (n - 1)  v == a \div (2 * n)
<1>0. 2 * (d * k) <= ((2 * D) - 1) * n
  BY DEF Reach
<1>1. d * k \in Nat /\ a \in Nat /\ 2 * n \in Nat \ {0} /\ 2 * d \in Nat \ {0}
  OBVIOUS
<1>2. v \in Nat /\ (2 * n) * v <= a /\ a < ((2 * n) * v) + (2 * n)
  BY <1>1, Quotient
<1> DEFINE m == n * v
<1>3. m \in Nat /\ (2 * n) * v = 2 * m /\ (2 * v + 1) * n = 2 * m + n
  <2> HIDE DEF v
  <2> QED BY <1>2
<1>4. 2 * m + n < 2 * (d * k) + 2 * n /\ 2 * (d * k) <= 2 * m + n
  <2> HIDE DEF v
  <2> QED BY <1>1, <1>2, <1>3
<1>5. (2 * d) * k = 2 * (d * k)
  OBVIOUS
<1>6. ((2 * v + 1) * n) \div (2 * d) = k
  <2>1. (2 * d) * k <= 2 * m + n /\ 2 * m + n < ((2 * d) * k) + (2 * d)
    <3> HIDE DEF v, m
    <3> QED BY <1>1, <1>3, <1>4, <1>5
  <2>2. 2 * m + n \in Nat
    <3> HIDE DEF v, m
    <3> QED BY <1>3
  <2> HIDE DEF v, m
  <2> QED BY <2>1, <2>2, <1>1, <1>3, Quotient
<1>7. v < D
  <2> SUFFICES ASSUME D <= v PROVE FALSE
    BY <1>2
  <2>1. PICK z \in Nat : v = D + z
    <3> HIDE DEF v
    <3> QED BY <1>2, v - D \in Nat
  <2>2. m = (n * D) + (n * z) /\ n * z \in Nat /\ n * D \in Nat
    <3> HIDE DEF v
    <3> QED BY <2>1
  <2>3. ((2 * D) - 1) * n = 2 * (n * D) - n
    OBVIOUS
  <2> HIDE DEF v, m
  <2> QED BY <1>0, <1>1, <1>3, <1>4, <2>2, <2>3
<1>8. Row(v, n, d) = k
  BY <1>6 DEF Row
<1>9. v \in 0 .. D - 1
  <2> HIDE DEF v
  <2> QED BY <1>2, <1>7
<1> HIDE DEF v, m, a
<1> QED BY <1>8, <1>9

Dims == (Nat \ {0}) \X (Nat \ {0})

\* How much scale makes of a picture: by num / den, as far as the wider side allows.
LEMMA Ratio ==
  ASSUME NEW src \in Dims, NEW dst \in Dims
  PROVE  \E num \in Nat \ {0}, den \in Nat \ {0} :
           /\ scale(dst, src) =
                LET At(v) == ((2 * (v + num \div den) + 1) * num) \div (2 * den)
                IN [p \in Pixels(dst) |->
                     IF At(p[1]) < src[1] /\ At(p[2]) < src[2] THEN <<At(p[1]), At(p[2])>>
                     ELSE Nowhere]
           /\ \E i \in {1, 2} : num = src[i] /\ den = dst[i]
           /\ \A i \in {1, 2} : src[i] * den <= num * dst[i]
<1> DEFINE wide == src[1] * dst[2] >= src[2] * dst[1]
           num == IF wide THEN src[1] ELSE src[2]
           den == IF wide THEN dst[1] ELSE dst[2]
<1>1. src[1] \in Nat \ {0} /\ src[2] \in Nat \ {0} /\ dst[1] \in Nat \ {0} /\ dst[2] \in Nat \ {0}
  BY DEF Dims
<1>2. num \in Nat \ {0} /\ den \in Nat \ {0}
  BY <1>1
<1>3. \E i \in {1, 2} : num = src[i] /\ den = dst[i]
  OBVIOUS
<1>4. src[1] * den <= num * dst[1] /\ src[2] * den <= num * dst[2]
  <2>1. src[1] * dst[2] \in Nat /\ src[2] * dst[1] \in Nat
    BY <1>1
  <2>2. CASE wide
    <3>1. num = src[1] /\ den = dst[1] BY <2>2
    <3> HIDE DEF num, den
    <3> QED BY <1>1, <2>1, <2>2, <3>1
  <2>3. CASE ~wide
    <3>1. num = src[2] /\ den = dst[2] BY <2>3
    <3> HIDE DEF num, den
    <3> QED BY <1>1, <2>1, <2>3, <3>1
  <2> QED BY <2>2, <2>3
<1>5. \A i \in {1, 2} : src[i] * den <= num * dst[i]
  BY <1>4
<1>6. scale(dst, src) =
        LET At(v) == ((2 * (v + num \div den) + 1) * num) \div (2 * den)
        IN [p \in Pixels(dst) |->
             IF At(p[1]) < src[1] /\ At(p[2]) < src[2] THEN <<At(p[1]), At(p[2])>>
             ELSE Nowhere]
  BY DEF scale
<1> HIDE DEF num, den
<1> QED BY <1>2, <1>3, <1>5, <1>6

\* What is seen of a picture is in it.
LEMMA ScaleInside ==
  ASSUME NEW src \in Dims, NEW dst \in Dims, NEW p \in Pixels(dst), scale(dst, src)[p] # Nowhere
  PROVE  LET q == scale(dst, src)[p] IN q[1] \in 0 .. src[1] - 1 /\ q[2] \in 0 .. src[2] - 1
<1>1. PICK num \in Nat \ {0}, den \in Nat \ {0} :
        /\ scale(dst, src) =
             LET At(v) == ((2 * (v + num \div den) + 1) * num) \div (2 * den)
             IN [r \in Pixels(dst) |->
                  IF At(r[1]) < src[1] /\ At(r[2]) < src[2] THEN <<At(r[1]), At(r[2])>>
                  ELSE Nowhere]
        /\ \E i \in {1, 2} : num = src[i] /\ den = dst[i]
        /\ \A i \in {1, 2} : src[i] * den <= num * dst[i]
  BY Ratio
<1> DEFINE At(v) == ((2 * (v + num \div den) + 1) * num) \div (2 * den)
<1>2. /\ At(p[1]) < src[1] /\ At(p[2]) < src[2]
      /\ scale(dst, src)[p] = <<At(p[1]), At(p[2])>>
  <2> HIDE DEF At
  <2>1. scale(dst, src)[p] =
          IF At(p[1]) < src[1] /\ At(p[2]) < src[2] THEN <<At(p[1]), At(p[2])>> ELSE Nowhere
    BY <1>1 DEF At
  <2> QED BY <2>1
<1>3. \A v \in Nat : At(v) \in Nat
  <2>1. num \div den \in Nat BY Quotient
  <2>2. ASSUME NEW v \in Nat, NEW r \in Nat PROVE (2 * (v + r) + 1) * num \in Nat OBVIOUS
  <2> QED BY <2>1, <2>2, Quotient
<1>4. p[1] \in Nat /\ p[2] \in Nat
  BY DEF Pixels, Dims
<1> HIDE DEF At
<1> QED BY <1>2, <1>3, <1>4 DEF Dims

\* A picture that is not larger than the screen is seen but for the rows it is moved by.
LEMMA ScaleFits ==
  ASSUME NEW src \in Dims, NEW dst \in Dims, src[1] <= dst[1], src[2] <= dst[2]
  PROVE  LET first == IF src[1] < dst[1] /\ src[2] < dst[2] THEN 0 ELSE 1
         IN  {scale(dst, src)[p] : p \in Pixels(dst)} \ {Nowhere} =
               (first .. src[1] - 1) \X (first .. src[2] - 1)
<1>1. PICK num \in Nat \ {0}, den \in Nat \ {0} :
        /\ scale(dst, src) =
             LET At(v) == ((2 * (v + num \div den) + 1) * num) \div (2 * den)
             IN [p \in Pixels(dst) |->
                  IF At(p[1]) < src[1] /\ At(p[2]) < src[2] THEN <<At(p[1]), At(p[2])>>
                  ELSE Nowhere]
        /\ \E i \in {1, 2} : num = src[i] /\ den = dst[i]
        /\ \A i \in {1, 2} : src[i] * den <= num * dst[i]
  BY Ratio
<1> DEFINE At(v) == ((2 * (v + num \div den) + 1) * num) \div (2 * den)
           first == IF src[1] < dst[1] /\ src[2] < dst[2] THEN 0 ELSE 1
           Sees(i) == {At(v) : v \in 0 .. dst[i] - 1} \cap (0 .. src[i] - 1)
<1>2. /\ src[1] \in Nat \ {0} /\ src[2] \in Nat \ {0} /\ dst[1] \in Nat \ {0} /\ dst[2] \in Nat \ {0}
      /\ num <= den /\ num \in Nat \ {0} /\ den \in Nat \ {0}
  BY <1>1 DEF Dims
<1>3. \A v \in Nat : At(v) \in Nat
  <2>1. num \div den \in Nat BY <1>2, Quotient
  <2>2. ASSUME NEW v \in Nat, NEW q \in Nat PROVE (2 * (v + q) + 1) * num \in Nat BY <1>2
  <2> QED BY <2>1, <2>2, <1>2, Quotient
<1>4. \A i \in {1, 2} : Sees(i) = first .. src[i] - 1
  <2>1. CASE num < den
    <3>1. num \div den = 0
      <4>1. den * 0 <= num /\ num < (den * 0) + den BY <2>1, <1>2
      <4> QED BY <4>1, <1>2, Quotient
    <3>2. first = 0
      <4> SUFFICES ASSUME NEW i \in {1, 2}, src[i] = dst[i] PROVE FALSE
        BY <1>2
      <4>1. src[i] * den <= num * src[i] /\ src[i] \in Nat \ {0} BY <1>1, <1>2
      <4>2. PICK z \in Nat : den = num + 1 + z BY <2>1, <1>2, (den - num) - 1 \in Nat
      <4>3. src[i] * den = (num * src[i]) + src[i] + (src[i] * z) BY <4>1, <4>2, <1>2
      <4>4. src[i] * z \in Nat /\ num * src[i] \in Nat BY <4>1, <1>2
      <4> QED BY <4>1, <4>3, <4>4
    <3>3. ASSUME NEW i \in {1, 2}, NEW k \in 0 .. src[i] - 1
          PROVE  \E v \in 0 .. dst[i] - 1 : Row(v, num, den) = k
      <4>1. src[i] \in Nat \ {0} /\ dst[i] \in Nat \ {0} /\ k \in Nat /\ k + 1 <= src[i]
        BY <1>2
      <4>2. den * k + den <= num * dst[i]
        <5>1. PICK z \in Nat : src[i] = k + 1 + z BY <4>1, (src[i] - k) - 1 \in Nat
        <5>2. src[i] * den = (den * k) + den + (den * z) BY <5>1, <4>1, <1>2
        <5>3. den * z \in Nat /\ den * k \in Nat /\ num * dst[i] \in Nat BY <4>1, <1>2
        <5> QED BY <5>2, <5>3, <1>1, <1>2
      <4>3. 2 * (den * k) <= ((2 * dst[i]) - 1) * num
        <5>1. ((2 * dst[i]) - 1) * num = 2 * (num * dst[i]) - num BY <4>1, <1>2
        <5>2. den * k \in Nat /\ num * dst[i] \in Nat BY <4>1, <1>2
        <5> QED BY <5>1, <5>2, <4>2, <1>2
      <4>4. PICK D \in Nat \ {0} : D = dst[i] BY <4>1
      <4>5. Reach(D, num, den, k) BY <4>3, <4>4 DEF Reach
      <4>6. \E v \in 0 .. D - 1 : Row(v, num, den) = k
        <5>1. num \in Nat \ {0} /\ den \in Nat /\ num <= den /\ k \in Nat BY <4>1, <1>2
        <5> QED BY ONLY <5>1, <4>5, D \in Nat \ {0}, RowSeen
      <4> QED BY <4>4, <4>6
    <3>4. \A v \in Nat : At(v) = Row(v, num, den)
      BY <3>1 DEF Row
    <3> HIDE DEF At, first
    <3>5. ASSUME NEW i \in {1, 2} PROVE Sees(i) = 0 .. src[i] - 1
      <4>1. dst[i] \in Nat BY <1>2
      <4>2. \A k \in 0 .. src[i] - 1 : \E v \in 0 .. dst[i] - 1 : At(v) = k
        BY <3>3, <3>4, <4>1
      <4> QED BY <4>2
    <3> QED BY <3>2, <3>5
  <2>2. CASE num = den
    <3>1. num \div den = 1
      <4>1. den * 1 <= num /\ num < (den * 1) + den BY <2>2, <1>2
      <4> QED BY <4>1, <1>2, Quotient
    <3>2. first = 1
      <4>1. PICK i \in {1, 2} : num = src[i] /\ den = dst[i] BY <1>1
      <4>2. ~(src[1] < dst[1] /\ src[2] < dst[2])
        <5>1. src[i] = dst[i] BY <2>2, <4>1
        <5> QED BY <5>1, <1>2
      <4> QED BY <4>2
    <3>3. \A v \in Nat : At(v) = v + 1
      <4> SUFFICES ASSUME NEW v \in Nat PROVE ((2 * (v + 1) + 1) * num) \div (2 * num) = v + 1
        BY <3>1, <2>2
      <4>1. (2 * (v + 1) + 1) * num = ((2 * num) * (v + 1)) + num BY <1>2
      <4>2. (2 * num) * (v + 1) \in Nat /\ 2 * num \in Nat \ {0} BY <1>2
      <4>3. (2 * (v + 1) + 1) * num \in Nat BY <4>1, <4>2, <1>2
      <4>4. /\ (2 * num) * (v + 1) <= (2 * (v + 1) + 1) * num
            /\ (2 * (v + 1) + 1) * num < ((2 * num) * (v + 1)) + (2 * num)
        BY <4>1, <4>2, <1>2
      <4> QED BY <4>2, <4>3, <4>4, v + 1 \in Nat, Quotient
    <3>4. ASSUME NEW i \in {1, 2} PROVE Sees(i) = 1 .. src[i] - 1
      <4> HIDE DEF At
      <4>1. src[i] \in Nat \ {0} /\ dst[i] \in Nat /\ src[i] <= dst[i] BY <1>2
      <4>2. ASSUME NEW k \in 1 .. src[i] - 1 PROVE k \in Sees(i)
        <5>1. k - 1 \in 0 .. dst[i] - 1 /\ k - 1 \in Nat BY <4>1
        <5>2. At(k - 1) = k BY <5>1, <3>3
        <5> QED BY <5>1, <5>2, <4>1
      <4>3. ASSUME NEW k \in Sees(i) PROVE k \in 1 .. src[i] - 1
        <5>1. PICK v \in 0 .. dst[i] - 1 : k = At(v) BY <4>3
        <5> QED BY <5>1, <3>3, <4>1, <4>3
      <4> QED BY <4>2, <4>3
    <3> QED BY <3>2, <3>4
  <2> QED BY <2>1, <2>2, <1>2
<1>5. {scale(dst, src)[p] : p \in Pixels(dst)} \ {Nowhere} = Sees(1) \X Sees(2)
  <2> DEFINE f == [p \in Pixels(dst) |->
                    IF At(p[1]) < src[1] /\ At(p[2]) < src[2] THEN <<At(p[1]), At(p[2])>>
                    ELSE Nowhere]
  <2>1. scale(dst, src) = f
    BY <1>1
  <2> HIDE DEF At
  <2>2. ASSUME NEW p \in Pixels(dst), f[p] # Nowhere PROVE f[p] \in Sees(1) \X Sees(2)
    <3>1. p[1] \in 0 .. dst[1] - 1 /\ p[2] \in 0 .. dst[2] - 1 /\ p[1] \in Nat /\ p[2] \in Nat
      BY <1>2 DEF Pixels
    <3>2. At(p[1]) < src[1] /\ At(p[2]) < src[2] /\ f[p] = <<At(p[1]), At(p[2])>>
      BY <2>2
    <3> QED BY <3>1, <3>2, <1>2, <1>3
  <2>3. ASSUME NEW x \in Sees(1), NEW y \in Sees(2)
        PROVE  \E p \in Pixels(dst) : f[p] = <<x, y>> /\ f[p] # Nowhere
    <3>1. PICK v \in 0 .. dst[1] - 1 : x = At(v) OBVIOUS
    <3>2. PICK w \in 0 .. dst[2] - 1 : y = At(w) OBVIOUS
    <3>3. <<v, w>> \in Pixels(dst) BY DEF Pixels
    <3>4. x < src[1] /\ y < src[2] /\ x \in Nat BY <1>2
    <3>5. f[<<v, w>>] = <<x, y>> BY <3>1, <3>2, <3>3, <3>4
    <3>6. <<x, y>> # Nowhere BY <3>4 DEF Nowhere
    <3> QED BY <3>3, <3>5, <3>6
  <2> HIDE DEF f
  <2> QED BY <2>1, <2>2, <2>3
<1> HIDE DEF At, Sees
<1> QED BY <1>4, <1>5

-----------------------------------------------------------------------------
(***************************************************************************)
(* The picture in step with its client and its daemon.                     *)
(***************************************************************************)

\* The file is read before it is decoded; what has been sent has been converted, and is
\* neither decoded nor converted again; what is shown came from what was sent.
FileInv ==
  /\ len \in Nat /\ eof \in BOOLEAN /\ (eof => len = FileSize)
  /\ pix # NoPicture => eof

PixelInv ==
  /\ pix \in Pictures \cup {NoPicture} /\ swapped \in Nat /\ swapped <= Area(pix)
  /\ dec[Painter] # "image" => pix = NoPicture
  /\ cpc[Painter] = "decode" => dec[Painter] # "image" /\ Painter \notin sent
  /\ cpc[Painter] \in {"connect", "send"} => Painter \notin sent
  /\ Painter \in sent => swapped = Area(pix)
  /\ Painter \in served => Painter \in sent

ShownInv ==
  shown # NotShown =>
    /\ Painter \in served /\ shown.dim \in Screens /\ pix \in Pictures
    /\ shown.view = scale(shown.dim, pix) /\ shown.ordered = Area(pix)

PictureInv == TypeOK /\ FileInv /\ PixelInv /\ ShownInv

\* The composition takes steps of Session only, or leaves Session alone.
LEMMA StepsOfSession == [PictureNext]_vars_all => [Next]_vars
BY PainterAssumption DEF PictureNext, PainterSteps, ServeSteps, Disturbances, Plain, Next, vars_all,
   PainterAssumption

\* What the painter is doing changes by its own steps ...
LEMMA OthersPaint ==
  ASSUME TypeOK, NEW c \in Clients \ {Painter}, ClientSteps(c)
  PROVE  /\ cpc'[Painter] = cpc[Painter] /\ dec'[Painter] = dec[Painter]
         /\ (Painter \in sent' <=> Painter \in sent) /\ served' = served
BY PainterAssumption DEF TypeOK, ClientType, ClientSteps, NeedBuffer, FullImage, BadImage, ClearImage,
   Connected, Refused, Unconnected, srv_msg, PainterAssumption

\* ... or when it is interrupted, and a daemon receives what has been sent only.
LEMMA DaemonsPaint ==
  ASSUME TypeOK, NEW d \in Daemons, DaemonSteps(d)
  PROVE  /\ UNCHANGED <<cpc, dec, sent>>
         /\ Painter \in served => Painter \in served'
         /\ Painter \in served' => Painter \in served \/ Painter \in sent
BY DEF DaemonSteps, Connect, Bind, Listen, Fork, Leave, Dispatch, Accept, Receive, ReceiveNothing,
   CloseAll, cleanup

\* What happens to daemons and clients from outside may end the painter, no more.
LEMMA DisturbancesPaint ==
  ASSUME TypeOK, Disturbances
  PROVE  /\ UNCHANGED <<dec, sent, served>>
         /\ cpc'[Painter] \in {cpc[Painter], "killed"}
<1>1. CASE \E d \in Daemons : Signal(d) \/ Hangup(d) \/ Wake(d) \/ Kill(d)
  BY <1>1 DEF Signal, Hangup, Wake, Kill
<1>2. CASE \E c \in Clients : Interrupt(c)
  BY <1>2, PainterAssumption DEF Interrupt, TypeOK, ClientType, PainterAssumption
<1> QED BY <1>1, <1>2 DEF Disturbances

\* A step of the painter.
LEMMA PainterPaints ==
  ASSUME TypeOK, PixelInv, ClientSteps(Painter)
  PROVE  /\ served' = served
         /\ \/ cpc[Painter] = "decode" /\ cpc'[Painter] # "send" /\ UNCHANGED sent
            \/ cpc[Painter] = "connect" /\ cpc'[Painter] # "decode" /\ UNCHANGED <<dec, sent>>
            \/ /\ cpc[Painter] = "send" /\ UNCHANGED dec
               /\ cpc'[Painter] \in {"done", "failed", "error"}
               /\ Painter \in sent' => cpc'[Painter] = "done"
         /\ dec[Painter] # "image" /\ dec'[Painter] = "image" =>
              Decoding(Painter) /\ cpc'[Painter] = "connect"
         /\ cpc'[Painter] = "decode" => dec'[Painter] # "image" \/ dec[Painter] = "image"
         /\ dec[Painter] = "image" /\ cpc[Painter] # "decode" => dec' = dec
<1>1. Painter \in Clients
  BY PainterAssumption DEF PainterAssumption
<1>2. CASE NeedBuffer(Painter) \/ FullImage(Painter) \/ BadImage(Painter) \/ ClearImage(Painter)
  BY <1>1, <1>2 DEF NeedBuffer, FullImage, BadImage, ClearImage, Decoding, TypeOK, ClientType
<1>3. CASE Connected(Painter) \/ Refused(Painter) \/ Unconnected(Painter)
  BY <1>1, <1>3 DEF Connected, Refused, Unconnected, TypeOK, ClientType
<1>4. CASE srv_msg(Painter)
  BY <1>1, <1>4 DEF srv_msg, TypeOK, ClientType, PixelInv
<1> QED BY <1>2, <1>3, <1>4 DEF ClientSteps

\* Pixels have a number.
LEMMA AreaCounts ==
  /\ Area(NoPicture) = 0
  /\ \A dim \in Pictures : dim \in Dims /\ Area(dim) \in Nat \ {0} /\ dim # NoPicture
  /\ Screens \subseteq Dims
<1>1. ASSUME NEW w \in Nat \ {0}, NEW h \in Nat \ {0} PROVE w * h \in Nat \ {0}
  OBVIOUS
<1> QED BY <1>1, PictureAssumption DEF Area, NoPicture, Dims, PictureAssumption

\* At first there is no picture ...
LEMMA PictureStarts == PictureInit => PictureInv
<1> SUFFICES ASSUME PictureInit PROVE PictureInv
  OBVIOUS
<1>1. TypeOK
  BY TypeInit DEF PictureInit
<1>2. cpc[Painter] = "decode" /\ dec[Painter] = "nothing" /\ sent = {} /\ served = {}
  BY PainterAssumption DEF PictureInit, Init, PainterAssumption
<1>3. len = 0 /\ eof = FALSE /\ pix = NoPicture /\ swapped = 0 /\ shown = NotShown
  BY DEF PictureInit, Init_picture
<1>4. FileInv
  BY <1>3 DEF FileInv
<1>5. PixelInv
  BY <1>2, <1>3, AreaCounts DEF PixelInv
<1> QED BY <1>1, <1>3, <1>4, <1>5 DEF PictureInv, ShownInv

\* process reads the file while there is no picture yet.
LEMMA Reads ==
  ASSUME PictureInv, cpc[Painter] = "decode", process, UNCHANGED vars
  PROVE  PictureInv'
<1>1. TypeOK'
  BY TypeKept DEF PictureInv
<1>2. UNCHANGED <<pix, swapped, shown, dec, cpc, sent, served>>
  BY DEF vars, process
<1>3. FileInv'
  <2>1. FileSize \in Nat /\ Blksize \in Nat \ {0}
    BY PictureAssumption DEF PictureAssumption
  <2>2. PICK nr \in 0 .. Blksize :
          nr <= FileSize - len /\ (nr = 0 => len = FileSize) /\ len' = len + nr /\ eof' = (nr = 0)
    BY DEF process
  <2>3. pix = NoPicture
    BY DEF PictureInv, PixelInv
  <2> QED BY <1>2, <2>1, <2>2, <2>3 DEF PictureInv, FileInv
<1> QED BY <1>1, <1>2, <1>3 DEF PictureInv, PixelInv, ShownInv

\* abgr2argb does not go beyond the last pixel, and has nothing to do once all is sent.
LEMMA Orders ==
  ASSUME PictureInv, abgr2argb, UNCHANGED vars
  PROVE  PictureInv'
<1>1. TypeOK'
  BY TypeKept DEF PictureInv
<1>2. UNCHANGED <<len, eof, pix, shown, dec, cpc, sent, served>>
  BY DEF vars, abgr2argb
<1>3. swapped' \in Nat /\ swapped' <= Area(pix) /\ Painter \notin sent
  BY AreaCounts DEF abgr2argb, PictureInv, PixelInv
<1> QED BY <1>1, <1>2, <1>3 DEF PictureInv, FileInv, PixelInv, ShownInv

\* A step of the client that does not end the decoding ...
LEMMA GoesOnPlain ==
  ASSUME PictureInv, ClientSteps(Painter), cpc[Painter] = "send" => Converted,
         ~(dec[Painter] # "image" /\ dec'[Painter] = "image"), UNCHANGED vars_picture
  PROVE  PictureInv'
<1>1. TypeOK'
  BY TypeKept, PainterAssumption DEF PictureInv, Next, PainterAssumption
<1>2. UNCHANGED <<len, eof, pix, swapped, shown, served>>
  BY PainterPaints DEF vars_picture, PictureInv
<1>3. PixelInv'
  BY <1>2, PainterPaints DEF PictureInv, PixelInv, Converted
<1> QED BY <1>1, <1>2, <1>3 DEF PictureInv, FileInv, ShownInv

\* ... and the one that does: the picture is there.
LEMMA Decodes ==
  ASSUME PictureInv, ClientSteps(Painter), Decoding(Painter) => eof,
         dec[Painter] # "image", dec'[Painter] = "image", jxl_decode
  PROVE  PictureInv'
<1>1. TypeOK'
  BY TypeKept, PainterAssumption DEF PictureInv, Next, PainterAssumption
<1>2. UNCHANGED <<len, eof, swapped, shown, served>> /\ pix' \in Pictures /\ eof
  BY PainterPaints DEF jxl_decode, PictureInv
<1>3. /\ pix = NoPicture /\ Painter \notin sent /\ Painter \notin served
      /\ cpc[Painter] = "decode" /\ cpc'[Painter] = "connect"
  BY PainterPaints DEF PictureInv, PixelInv, Decoding
<1>4. swapped = 0 /\ Area(pix') \in Nat
  BY <1>2, <1>3, AreaCounts DEF PictureInv, PixelInv
<1>5. Painter \notin sent'
  BY <1>3, PainterPaints DEF PictureInv
<1> QED BY <1>1, <1>2, <1>3, <1>4, <1>5 DEF PictureInv, FileInv, PixelInv, ShownInv

\* The daemon receives the message and shows the picture, or does something else.
LEMMA Serves ==
  ASSUME PictureInv, NEW d \in Daemons, ServeSteps(d)
  PROVE  PictureInv'
<1>1. TypeOK'
  BY TypeKept DEF PictureInv, Next, ServeSteps
<1>2. /\ UNCHANGED <<cpc, dec, sent, len, eof, pix, swapped>>
      /\ Painter \in served => Painter \in served'
      /\ Painter \in served' => Painter \in sent
  BY DaemonsPaint DEF ServeSteps, Show, vars_picture, PictureInv, PixelInv
<1>3. FileInv' /\ PixelInv'
  BY <1>2 DEF PictureInv, FileInv, PixelInv
<1>4. CASE shown' = shown
  BY <1>1, <1>2, <1>3, <1>4 DEF PictureInv, ShownInv
<1>5. CASE shown' # shown
  <2>1. Painter \in served' /\ Show
    BY <1>5 DEF ServeSteps, vars_picture
  <2>2. Mapping # 0 /\ \E dim \in Screens :
          shown' = [dim |-> dim, view |-> scale(dim, pix), ordered |-> swapped]
    BY <1>5, <2>1 DEF Show
  <2>3. swapped = Area(pix)
    BY <1>2, <2>1 DEF PictureInv, PixelInv
  <2>4. pix # NoPicture
    <3>1. Word \in Nat \ {0} BY PictureAssumption DEF PictureAssumption
    <3>2. (0 % Word) * 4 = 0 BY <3>1
    <3> QED BY <2>2, <3>2, AreaCounts DEF Mapping, xrgb
  <2>5. pix \in Pictures
    BY <2>4 DEF PictureInv, PixelInv
  <2>6. ShownInv'
    BY <1>2, <2>1, <2>2, <2>3, <2>5 DEF ShownInv
  <2> QED BY <1>1, <1>3, <2>6 DEF PictureInv
<1> QED BY <1>4, <1>5

\* ... and every step keeps what is to be told of it.
LEMMA PictureKept == ASSUME PictureInv, [PictureNext]_vars_all PROVE PictureInv'
<1>0. TypeOK'
  BY TypeKept, StepsOfSession DEF PictureInv
<1>1. CASE PainterSteps
  BY <1>1, Reads, Orders, GoesOnPlain, Decodes DEF PainterSteps, Decoding
<1>2. CASE \E d \in Daemons : ServeSteps(d)
  BY <1>2, Serves
<1>3. CASE \E c \in Clients \ {Painter} : Plain(ClientSteps(c))
  BY <1>0, <1>3, OthersPaint DEF Plain, vars_picture, PictureInv, FileInv, PixelInv, ShownInv
<1>4. CASE Plain(Disturbances)
  <2>1. UNCHANGED <<len, eof, pix, swapped, shown, dec, sent, served>>
    BY <1>4, DisturbancesPaint DEF Plain, vars_picture, PictureInv
  <2>2. cpc'[Painter] \in {cpc[Painter], "killed"}
    BY <1>4, DisturbancesPaint DEF Plain, PictureInv
  <2>3. PixelInv'
    BY <2>1, <2>2 DEF PixelInv, PictureInv
  <2> QED BY <1>0, <2>1, <2>3 DEF PictureInv, FileInv, ShownInv
<1>5. CASE UNCHANGED vars_all
  BY <1>0, <1>5 DEF vars_all, vars, vars_picture, PictureInv, FileInv, PixelInv, ShownInv
<1> QED BY <1>1, <1>2, <1>3, <1>4, <1>5 DEF PictureNext

\* The file is read whole ...
LEMMA InvDecoded == PictureInv => DecodedWhole
BY DEF PictureInv, FileInv, DecodedWhole

\* ... what is shown of the picture is inside of it ...
LEMMA SeenInside ==
  ASSUME PictureInv, NEW q \in Seen
  PROVE  /\ shown # NotShown /\ pix \in Dims
         /\ q[1] \in 0 .. pix[1] - 1 /\ q[2] \in 0 .. pix[2] - 1
<1>1. shown # NotShown
  BY DEF Seen, NotShown, Pixels, NoPicture
<1>2. shown.dim \in Dims /\ pix \in Dims /\ shown.view = scale(shown.dim, pix)
  BY <1>1, AreaCounts DEF PictureInv, ShownInv
<1>3. PICK p \in Pixels(shown.dim) : q = scale(shown.dim, pix)[p] /\ q # Nowhere
  BY <1>2 DEF Seen
<1> QED BY <1>1, <1>2, <1>3, ScaleInside

\* ... so it is mapped, and was converted ...
LEMMA InvInOrder == PictureInv => SeenInOrder
<1> SUFFICES ASSUME PictureInv, NEW q \in Seen
             PROVE  /\ Area(pix) < Word => (Place(q) + 1) * xrgb <= Mapping
                    /\ Place(q) < shown.ordered
  BY DEF SeenInOrder
<1>1. /\ shown # NotShown /\ pix \in Dims
      /\ q[1] \in 0 .. pix[1] - 1 /\ q[2] \in 0 .. pix[2] - 1
  BY SeenInside
<1>2. Place(q) \in Nat /\ Place(q) + 1 <= Area(pix) /\ Area(pix) \in Nat
  <2>1. pix[1] \in Nat /\ pix[2] \in Nat /\ q[1] \in Nat /\ q[2] \in Nat /\ q[1] + 1 <= pix[1]
    BY <1>1 DEF Dims
  <2>2. PICK z \in Nat : pix[2] = q[2] + 1 + z
    BY <1>1, <2>1, (pix[2] - q[2]) - 1 \in Nat
  <2>3. pix[1] * pix[2] = (q[2] * pix[1]) + pix[1] + (pix[1] * z)
    BY <2>1, <2>2
  <2>4. q[2] * pix[1] \in Nat /\ pix[1] * z \in Nat
    BY <2>1
  <2> QED BY <2>1, <2>3, <2>4 DEF Place, Area
<1>3. shown.ordered = Area(pix)
  BY <1>1 DEF PictureInv, ShownInv
<1>4. ASSUME Area(pix) < Word PROVE Mapping = Area(pix) * 4
  <2>1. Word \in Nat \ {0} BY PictureAssumption DEF PictureAssumption
  <2>2. Area(pix) % Word = Area(pix) BY <1>2, <1>4, <2>1
  <2> QED BY <2>2 DEF Mapping, xrgb
<1> QED BY <1>2, <1>3, <1>4 DEF xrgb

\* ... and all of a picture that fits is.
LEMMA InvWhole == PictureInv => SeenWhole
<1> SUFFICES ASSUME PictureInv, shown # NotShown,
                    pix[1] <= shown.dim[1], pix[2] <= shown.dim[2]
             PROVE  LET first == IF pix[1] < shown.dim[1] /\ pix[2] < shown.dim[2] THEN 0 ELSE 1
                    IN  Seen = (first .. pix[1] - 1) \X (first .. pix[2] - 1)
  BY DEF SeenWhole
<1>1. shown.dim \in Dims /\ pix \in Dims /\ shown.view = scale(shown.dim, pix)
  BY AreaCounts DEF PictureInv, ShownInv
<1>2. Seen = {scale(shown.dim, pix)[p] : p \in Pixels(shown.dim)} \ {Nowhere}
  BY <1>1 DEF Seen
<1> QED BY <1>1, <1>2, ScaleFits

\* A picture comes as it is, whatever its size and that of the screen: ewctl has read all
\* of its file, and converted all of it before ewd looks; ewd reads what it has mapped, and
\* shows the whole of a picture that is smaller than the screen.
THEOREM PictureIsRight == PictureSpec => []PictureRight
<1>1. PictureInv /\ [PictureNext]_vars_all => PictureInv'
  BY PictureKept
<1>2. PictureInv => PictureRight
  BY InvDecoded, InvInOrder, InvWhole DEF PictureRight
<1> QED BY PictureStarts, <1>1, <1>2, PTL DEF PictureSpec
=============================================================================
