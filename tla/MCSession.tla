----------------------------- MODULE MCSession ------------------------------
(* Values for the constants of Session that a configuration cannot write.  *)
EXTENDS SessionProperties

Env(path, runtime) ==
  [EWD_SOCK_PATH |-> path, XDG_RUNTIME_DIR |-> runtime]

\* Nothing but the runtime directory.
MCPlain == {Env(Unset, "run")}

\* Daemons and clients with different ideas of where the socket is: in the
\* runtime directory, in a relative one, or in one whose name is too long.
MCVaried == {Env(Empty, "run"), Env("here", Unset), Env(Unset, "deep")}
=============================================================================
