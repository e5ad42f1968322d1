------------------------- MODULE SessionProperties --------------------------
(***************************************************************************)
(* What is to hold of daemons and clients.                                 *)
(***************************************************************************)
EXTENDS Session

DaemonPlaces ==
  {"connect", "bind", "listen", "fork", "poll", "recv", "close", "exit"} \cup Gone

DaemonType ==
  /\ dpc \in [Daemons -> DaemonPlaces]
  /\ sock_bound \in [Daemons -> BOOLEAN] /\ stop \in [Daemons -> {"no", "signal", "hangup"}]
  /\ launched \subseteq Daemons /\ cfd \in [Daemons -> Clients \cup {NoOne}]
  /\ woken \in [Daemons -> BOOLEAN] /\ wakeups \in 0..MaxWakeups
  /\ backlog \in [Daemons -> Seq(Clients)]

ClientType ==
  /\ cpc \in [Clients -> {"decode", "connect", "send", "done", "failed", "error"} \cup Gone]
  /\ dec \in [Clients -> {"nothing", "buffer", "image"}]
  /\ sent \subseteq Clients /\ served \subseteq Clients

ConnectionType(d) == dpc[d] \notin Gone => (dpc[d] = "recv" <=> cfd[d] # NoOne)

\* Types of all variables; and a running daemon has a connection open exactly
\* while it serves one.
TypeOK ==
  /\ env \in [Daemons \cup Clients -> Environments]
  /\ fg \in [Daemons -> BOOLEAN] /\ clear \in [Clients -> BOOLEAN]
  /\ node \in [Dirs -> Daemons \cup {NoOne}]
  /\ DaemonType /\ ClientType
  /\ \A d \in Daemons : ConnectionType(d)

Alive(d) == dpc[d] \notin Gone

\* The socket is the daemon's own as long as it runs: a second daemon that
\* finds the path taken exits without unlinking the socket of the first.
OwnSocket == \A d \in Daemons : sock_bound[d] /\ Alive(d) => Path(d) # NoPath /\ node[Path(d)] = d

\* A socket nobody listens on, which keeps the next daemon from starting, is
\* left behind by a daemon that was killed or crashed, or went to / while its
\* path was a relative one - but never by one that could not start.
SocketLeft ==
  \A dir \in Dirs : node[dir] # NoOne /\ ~Alive(node[dir]) =>
    \/ dpc[node[dir]] \in {"killed", "crashed"}
    \/ dir \in Relative /\ node[dir] \in launched

\* The daemon crashes only on a client that had connected to it and ended before it
\* sent its message, because it was killed or because a call of its own failed.  Bad
\* images, refused connections and daemons that come and go crash nobody.
CrashCause ==
  \A d \in Daemons : dpc[d] = "crashed" =>
    cfd[d] \in Clients \ sent /\ cpc[cfd[d]] \in {"killed", "error"}

\* Once the command ewd has returned, clients reach the daemon it has started,
\* as long as it is in its loop and has not been told to stop.
LaunchedReachable ==
  [][\A c \in Clients : cpc[c] = "connect" /\ cpc'[c] = "failed" =>
       ~\E d \in launched : Path(d) = Path(c) /\ dpc[d] \notin Gone \cup {"close", "exit"}]_vars

\* A message that has been sent is received by the daemon that holds the
\* connection, unless that daemon ends or has been told to stop.
Delivered ==
  \A c \in Clients, d \in Daemons :
    (c \in sent /\ Holds(d, c)) ~> (c \in served \/ stop[d] # "no" \/ ~Alive(d))

\* ewd(1): the daemon can be shut down by a signal.
SignalEnds ==
  \A d \in Daemons : (stop[d] = "signal" /\ dpc[d] \in {"poll", "recv"}) ~> ~Alive(d)

=============================================================================
