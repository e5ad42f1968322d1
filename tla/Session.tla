------------------------------ MODULE Session -------------------------------
(***************************************************************************)
(* Daemons and clients around the socket: how ewd (src/ewd/main.c) takes   *)
(* the socket, serves one client after the other and gives it up again,    *)
(* and how ewctl (src/ewctl/main.c) decodes an image and sends it.  What   *)
(* ewd does with a message is in Ewd.  The kernel, the decoder, the        *)
(* compositor and whoever sends signals are external.  Name_Slip is Name   *)
(* with a mistake in it, used to see that the properties notice.           *)
(***************************************************************************)
EXTENDS Naturals, Sequences, FiniteSets

CONSTANTS
  Daemons, Clients,  \* runs of ewd and of ewctl
  Dirs,              \* directories the environment may name
  Long,              \* those whose name does not fit into sun_path
  Relative,          \* those named relative to the working directory
  Environments,      \* values of the environment variables
  NoOne,             \* neither a daemon nor a client
  Backlog,           \* SOCK_BACKLOG
  MaxWakeups,        \* bound: how often the compositor wakes a daemon
  Behaviours         \* what may go wrong

Unset == "unset"
Empty == ""
NoPath == "no path"

AllBehaviours ==
  {"kill",     \* a process is killed
   "errors",   \* system calls fail
   "bad_input"} \* ewctl is given something else than an image

ASSUME SessionAssumption ==
  /\ NoOne \notin Daemons \cup Clients /\ Daemons \cap Clients = {}
  /\ {Unset, Empty, NoPath} \cap Dirs = {} /\ Long \subseteq Dirs /\ Relative \subseteq Dirs
  /\ Environments \subseteq [EWD_SOCK_PATH : Dirs \cup {Unset, Empty},
                             XDG_RUNTIME_DIR : Dirs \cup {Unset, Empty}]
  /\ Backlog \in Nat \ {0} /\ MaxWakeups \in Nat
  /\ Behaviours \subseteq AllBehaviours

VARIABLES
  env,         \* env[p]: the environment of process p
  fg,          \* fg[d]: does daemon d stay in the foreground?
  dpc,         \* dpc[d]: where daemon d is
  sock_bound,  \* sock_bound[d]: as in the code
  stop,        \* stop[d]: the reason for d to leave its loop
  launched,    \* daemons whose command has returned
  backlog,     \* backlog[d]: connections waiting for accept
  cfd,         \* cfd[d]: the connection d is serving
  woken,       \* woken[d]: is there something from the compositor to read?
  wakeups,     \* how often there was
  node,        \* node[dir]: the daemon that bound the socket in dir
  clear,       \* clear[c]: is c to clear?
  cpc,         \* cpc[c]: where client c is; "error" when one of its calls has failed
  dec,         \* dec[c]: what c has of its image
  sent,        \* clients whose message has been sent
  served       \* clients whose message has been received

settings == <<env, fg, clear>>
daemon == <<dpc, sock_bound, stop, launched, cfd, woken, wakeups>>
client == <<cpc, dec, sent>>
vars == <<settings, daemon, client, backlog, node, served>>

\* ewd_sock_path: the directory of the socket, or none when the program dies.
ewd_sock_path(e) ==
  LET dir == IF e.EWD_SOCK_PATH \in {Unset, Empty} THEN e.XDG_RUNTIME_DIR
             ELSE e.EWD_SOCK_PATH
  IN  IF dir \in Dirs \ Long THEN dir ELSE NoPath

Path(p) == ewd_sock_path(env[p])

Gone == {"exited", "killed", "crashed"}
Listening == {"fork", "poll", "recv"}

\* Daemon d goes on at `next'.
Goto(d, next) == dpc' = [dpc EXCEPT ![d] = next]

-----------------------------------------------------------------------------
(* The daemon until its loop.                                              *)

\* main connects to the compositor; that may fail.
Connect(d) ==
  /\ dpc[d] = "connect"
  /\ Goto(d, "bind") \/ Goto(d, "exit")
  /\ UNCHANGED <<settings, sock_bound, stop, launched, cfd, woken, wakeups,
                 client, backlog, node, served>>

\* Directories without a socket: bind refuses a path that exists.
Free == {dir \in Dirs : node[dir] = NoOne}

\* Slip: the command returns before the daemon listens.
Bind_Launches(d) ==
  /\ dpc[d] = "bind" /\ Path(d) \in Free
  /\ node' = [node EXCEPT ![Path(d)] = d]
  /\ sock_bound' = [sock_bound EXCEPT ![d] = TRUE]
  /\ launched' = launched \cup {d}
  /\ Goto(d, "listen")
  /\ UNCHANGED <<settings, stop, cfd, woken, wakeups, client, backlog, served>>

Bind(d) ==
  /\ dpc[d] = "bind"
  /\ \/ /\ Path(d) \in Free
        /\ node' = [node EXCEPT ![Path(d)] = d]
        /\ sock_bound' = [sock_bound EXCEPT ![d] = TRUE]
        /\ Goto(d, "listen")
     \/ /\ Path(d) \notin Free \/ "errors" \in Behaviours
        /\ Goto(d, "exit")
        /\ UNCHANGED <<node, sock_bound>>
  /\ UNCHANGED <<settings, stop, launched, cfd, woken, wakeups, client, backlog, served>>

Listen(d) ==
  /\ dpc[d] = "listen"
  /\ \/ Goto(d, "fork")
     \/ "errors" \in Behaviours /\ Goto(d, "exit")
  /\ UNCHANGED <<settings, sock_bound, stop, launched, cfd, woken, wakeups,
                 client, backlog, node, served>>

\* daemon: the command returns and the child goes on, without the signals that
\* were pending for its parent.  daemon may fail in the parent or in the child.
Fork(d) ==
  /\ dpc[d] = "fork"
  /\ \/ fg[d] /\ Goto(d, "poll") /\ UNCHANGED <<launched, stop>>
     \/ /\ ~fg[d]
        /\ launched' = launched \cup {d} /\ stop' = [stop EXCEPT ![d] = "no"]
        /\ \/ Goto(d, "poll")
           \/ "errors" \in Behaviours /\ Goto(d, "exit")
     \/ /\ ~fg[d] /\ "errors" \in Behaviours
        /\ Goto(d, "exit") /\ UNCHANGED <<launched, stop>>
  /\ UNCHANGED <<settings, sock_bound, cfd, woken, wakeups, client, backlog, node, served>>

-----------------------------------------------------------------------------
(* The loop: signals first, then the compositor, then the socket.          *)

\* Slip: only the compositor ends the loop.
Leave_OnHangup(d) ==
  /\ dpc[d] = "poll" /\ stop[d] = "hangup"
  /\ Goto(d, "close")
  /\ UNCHANGED <<settings, sock_bound, stop, launched, cfd, woken, wakeups,
                 client, backlog, node, served>>

\* poll may fail, too.
Leave(d) ==
  /\ dpc[d] = "poll"
  /\ \/ stop[d] # "no" /\ Goto(d, "close")
     \/ "errors" \in Behaviours /\ Goto(d, "exit")
  /\ UNCHANGED <<settings, sock_bound, stop, launched, cfd, woken, wakeups,
                 client, backlog, node, served>>

\* wl_display_dispatch.
Dispatch(d) ==
  /\ dpc[d] = "poll" /\ stop[d] = "no" /\ woken[d]
  /\ woken' = [woken EXCEPT ![d] = FALSE]
  /\ UNCHANGED <<settings, dpc, sock_bound, stop, launched, cfd, wakeups,
                 client, backlog, node, served>>

Accept(d) ==
  /\ dpc[d] = "poll" /\ stop[d] = "no" /\ ~woken[d] /\ backlog[d] # <<>>
  /\ \/ /\ cfd' = [cfd EXCEPT ![d] = Head(backlog[d])]
        /\ backlog' = [backlog EXCEPT ![d] = Tail(@)]
        /\ Goto(d, "recv")
     \/ "errors" \in Behaviours /\ UNCHANGED <<dpc, cfd, backlog>>
  /\ UNCHANGED <<settings, sock_bound, stop, launched, woken, wakeups, client, node, served>>

\* Slip: does not leave the message behind.
Receive_Again(d) ==
  /\ dpc[d] = "recv" /\ cfd[d] \in sent
  /\ served' = served \cup {cfd[d]}
  /\ UNCHANGED <<settings, daemon, client, backlog, node>>

\* Slip: leaves the connection open.
Receive_Open(d) ==
  /\ dpc[d] = "recv" /\ cfd[d] \in sent
  /\ served' = served \cup {cfd[d]}
  /\ Goto(d, "poll")
  /\ UNCHANGED <<settings, sock_bound, stop, launched, cfd, woken, wakeups, client, backlog, node>>

\* recvmsg and readv: ewctl's message arrives as a whole, and the connection
\* is closed once it has been worked on.
Receive(d) ==
  /\ dpc[d] = "recv" /\ cfd[d] \in sent
  /\ served' \in {served \cup {cfd[d]}} \cup (IF "errors" \in Behaviours THEN {served} ELSE {})
  /\ cfd' = [cfd EXCEPT ![d] = NoOne] /\ Goto(d, "poll")
  /\ UNCHANGED <<settings, sock_bound, stop, launched, woken, wakeups, client, backlog, node>>

\* A client that went away without a word: recvmsg returns 0, there is no
\* control message, and CMSG_DATA of NULL is read.
ReceiveNothing(d) ==
  /\ dpc[d] = "recv" /\ cfd[d] \notin sent /\ cpc[cfd[d]] \in Gone \cup {"done", "failed", "error"}
  /\ Goto(d, "crashed") /\ backlog' = [backlog EXCEPT ![d] = <<>>]
  /\ UNCHANGED <<settings, sock_bound, stop, launched, cfd, woken, wakeups,
                 client, node, served>>

-----------------------------------------------------------------------------
(* The end of the daemon.                                                  *)

\* main closes the sockets, which resets the connections that wait.
CloseAll(d) ==
  /\ dpc[d] = "close"
  /\ Goto(d, "exit") /\ backlog' = [backlog EXCEPT ![d] = <<>>]
  /\ UNCHANGED <<settings, sock_bound, stop, launched, cfd, woken, wakeups,
                 client, node, served>>

\* Slips: whether or not the socket is its own; never.
Unlinked_Always(d) == {Path(d)}
Unlinked_Never(d) == {}

\* What cleanup unlinks.  After daemon() the working directory is /, and a
\* relative path no longer leads to the socket.
Unlinked(d) ==
  IF sock_bound[d] /\ (Path(d) \notin Relative \/ d \notin launched) THEN {Path(d)} ELSE {}

cleanup(d) ==
  /\ dpc[d] = "exit"
  /\ Goto(d, "exited")
  /\ node' = [dir \in Dirs |-> IF dir \in Unlinked(d) THEN NoOne ELSE node[dir]]
  /\ backlog' = [backlog EXCEPT ![d] = <<>>]
  /\ UNCHANGED <<settings, sock_bound, stop, launched, cfd, woken, wakeups,
                 client, served>>

\* SIGINT or SIGQUIT: it kills the daemon until main has blocked it.
Signal(d) ==
  /\ dpc[d] \notin Gone /\ stop[d] = "no"
  /\ IF dpc[d] = "connect"
     THEN Goto(d, "killed") /\ UNCHANGED stop
     ELSE stop' = [stop EXCEPT ![d] = "signal"] /\ UNCHANGED dpc
  /\ UNCHANGED <<settings, sock_bound, launched, cfd, woken, wakeups,
                 client, backlog, node, served>>

\* The compositor hangs up, or has something to say.
Hangup(d) ==
  /\ dpc[d] \in {"poll", "recv"} /\ stop[d] = "no"
  /\ stop' = [stop EXCEPT ![d] = "hangup"]
  /\ UNCHANGED <<settings, dpc, sock_bound, launched, cfd, woken, wakeups,
                 client, backlog, node, served>>

Wake(d) ==
  /\ dpc[d] \in {"poll", "recv"} /\ ~woken[d] /\ wakeups < MaxWakeups
  /\ woken' = [woken EXCEPT ![d] = TRUE] /\ wakeups' = wakeups + 1
  /\ UNCHANGED <<settings, dpc, sock_bound, stop, launched, cfd,
                 client, backlog, node, served>>

\* Any other signal.
Kill(d) ==
  /\ "kill" \in Behaviours /\ dpc[d] \notin Gone
  /\ Goto(d, "killed") /\ backlog' = [backlog EXCEPT ![d] = <<>>]
  /\ UNCHANGED <<settings, sock_bound, stop, launched, cfd, woken, wakeups,
                 client, node, served>>

-----------------------------------------------------------------------------
(***************************************************************************)
(* The client decodes its image before it connects.  The decoder says what *)
(* it needs next.                                                          *)
(***************************************************************************)
Decoding(c) == cpc[c] = "decode" /\ ~clear[c]

NeedBuffer(c) ==
  /\ Decoding(c) /\ dec[c] = "nothing"
  /\ \/ dec' = [dec EXCEPT ![c] = "buffer"] /\ UNCHANGED cpc
     \/ "errors" \in Behaviours /\ cpc' = [cpc EXCEPT ![c] = "error"] /\ UNCHANGED dec
  /\ UNCHANGED <<settings, daemon, sent, backlog, node, served>>

FullImage(c) ==
  /\ Decoding(c) /\ dec[c] = "buffer"
  /\ dec' = [dec EXCEPT ![c] = "image"] /\ cpc' = [cpc EXCEPT ![c] = "connect"]
  /\ UNCHANGED <<settings, daemon, sent, backlog, node, served>>

\* A truncated image, or none.  To tell which, the signature of the output is
\* checked: before a buffer exists that is an uninitialized pointer.
BadImage(c) ==
  /\ Decoding(c) /\ "bad_input" \in Behaviours
  /\ \/ cpc' = [cpc EXCEPT ![c] = "failed"]
     \/ dec[c] = "nothing" /\ cpc' = [cpc EXCEPT ![c] = "crashed"]
  /\ UNCHANGED <<settings, daemon, dec, sent, backlog, node, served>>

\* Nothing to decode.
ClearImage(c) ==
  /\ cpc[c] = "decode" /\ clear[c]
  /\ cpc' = [cpc EXCEPT ![c] = "connect"]
  /\ UNCHANGED <<settings, daemon, dec, sent, backlog, node, served>>

\* The daemon whose socket c finds, if any, and whether it listens.
Found(c) == IF Path(c) = NoPath THEN NoOne ELSE node[Path(c)]
Reachable(c) == Found(c) # NoOne /\ dpc[Found(c)] \in Listening \cup {"close"}

\* connect waits for room in the backlog.
Connected(c) ==
  /\ cpc[c] = "connect" /\ Reachable(c) /\ Len(backlog[Found(c)]) < Backlog
  /\ backlog' = [backlog EXCEPT ![Found(c)] = Append(@, c)]
  /\ cpc' = [cpc EXCEPT ![c] = "send"]
  /\ UNCHANGED <<settings, daemon, dec, sent, node, served>>

\* No path, no socket, or nobody behind it.
Refused(c) ==
  /\ cpc[c] = "connect" /\ ~Reachable(c)
  /\ cpc' = [cpc EXCEPT ![c] = "failed"]
  /\ UNCHANGED <<settings, daemon, dec, sent, backlog, node, served>>

\* There is a path, but socket or connect fails for another reason.
Unconnected(c) ==
  /\ "errors" \in Behaviours /\ cpc[c] = "connect" /\ Path(c) # NoPath
  /\ cpc' = [cpc EXCEPT ![c] = "error"]
  /\ UNCHANGED <<settings, daemon, dec, sent, backlog, node, served>>

\* Does daemon d have the other end of c's connection?
Holds(d, c) ==
  dpc[d] \notin Gone /\ (cfd[d] = c \/ \E k \in 1..Len(backlog[d]) : backlog[d][k] = c)

\* Slip: gives up after it has connected.
srv_msg_Quits(c) ==
  /\ cpc[c] = "send"
  /\ cpc' = [cpc EXCEPT ![c] = "failed"]
  /\ UNCHANGED <<settings, daemon, dec, sent, backlog, node, served>>

\* sendmsg: one message with its descriptor.  If the daemon has closed the
\* connection the client dies of SIGPIPE; sendmsg may fail for another reason.
srv_msg(c) ==
  /\ cpc[c] = "send"
  /\ \/ /\ \E d \in Daemons : Holds(d, c)
        /\ cpc' = [cpc EXCEPT ![c] = "done"] /\ sent' = sent \cup {c}
     \/ /\ ~\E d \in Daemons : Holds(d, c)
        /\ cpc' = [cpc EXCEPT ![c] = "failed"] /\ UNCHANGED sent
     \/ /\ "errors" \in Behaviours
        /\ cpc' = [cpc EXCEPT ![c] = "error"] /\ UNCHANGED sent
  /\ UNCHANGED <<settings, daemon, dec, backlog, node, served>>

\* The user interrupts the client.
Interrupt(c) ==
  /\ "kill" \in Behaviours /\ cpc[c] \in {"decode", "connect", "send"}
  /\ cpc' = [cpc EXCEPT ![c] = "killed"]
  /\ UNCHANGED <<settings, daemon, dec, sent, backlog, node, served>>

-----------------------------------------------------------------------------
Init ==
  /\ env \in [Daemons \cup Clients -> Environments]
  /\ fg \in [Daemons -> BOOLEAN] /\ clear \in [Clients -> BOOLEAN]
  /\ dpc = [d \in Daemons |-> "connect"] /\ sock_bound = [d \in Daemons |-> FALSE]
  /\ stop = [d \in Daemons |-> "no"] /\ launched = {}
  /\ backlog = [d \in Daemons |-> <<>>] /\ cfd = [d \in Daemons |-> NoOne]
  /\ woken = [d \in Daemons |-> FALSE] /\ wakeups = 0
  /\ node = [dir \in Dirs |-> NoOne]
  /\ cpc = [c \in Clients |-> "decode"] /\ dec = [c \in Clients |-> "nothing"]
  /\ sent = {} /\ served = {}

DaemonSteps(d) ==
  \/ Connect(d) \/ Bind(d) \/ Listen(d) \/ Fork(d)
  \/ Leave(d) \/ Dispatch(d) \/ Accept(d) \/ Receive(d) \/ ReceiveNothing(d)
  \/ CloseAll(d) \/ cleanup(d)

ClientSteps(c) ==
  \/ NeedBuffer(c) \/ FullImage(c) \/ BadImage(c) \/ ClearImage(c)
  \/ Connected(c) \/ Refused(c) \/ Unconnected(c) \/ srv_msg(c)

Next ==
  \/ \E d \in Daemons : DaemonSteps(d) \/ Signal(d) \/ Hangup(d) \/ Wake(d) \/ Kill(d)
  \/ \E c \in Clients : ClientSteps(c) \/ Interrupt(c)

Spec == Init /\ [][Next]_vars

\* The kernel schedules all of them, and suspends none for good.
FairSpec ==
  /\ Spec /\ \A d \in Daemons : WF_vars(DaemonSteps(d))
  /\ \A c \in Clients : WF_vars(ClientSteps(c))
=============================================================================
