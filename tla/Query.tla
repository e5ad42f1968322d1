-------------------------------- MODULE Query --------------------------------
(***************************************************************************)
(* pcquery of cbs.h with what it calls: make asks pkg-config about one      *)
(* library after the other, and reads each answer through a pipe.  There    *)
(* are two processes and, between them, a pipe that holds little.  An       *)
(* answer is a sequence of words, blanks and a newline.  pkg-config and the *)
(* system are external.  Name_Slip is Name with a mistake in it, used to    *)
(* see that the properties notice.                                          *)
(***************************************************************************)
EXTENDS Integers, Sequences, SequencesExt

CONSTANTS
  Paths,    \* values of PATH: sequences of directories that are "with" or "without" pkg-config
  Texts,    \* what pkg-config may answer
  PipeSize, \* how much a pipe holds
  Blksize,  \* st_blksize of the pipe
  MaxLibs   \* bound: libraries that are asked for

Characters == UNION {Range(text) : text \in Texts}

ASSUME QueryAssumption == Texts \subseteq Seq(Characters) /\ Blksize \in Nat \ {0}

VARIABLES
  qpc,      \* where make is; "dead" when it has given up
  libs,     \* libraries that have been asked for
  errno,    \* errno of make, as far as it matters: "ENOENT" or something else
  cpc,      \* where the child is
  status,   \* its exit status, or 256 for a signal
  said,     \* what pkg-config answers, and what of it is left to be written
  left,
  writers,  \* processes that have the writing end of the pipe open
  pipe,     \* what is in the pipe
  buf,      \* *p of cmdexecb: what has been read
  vec       \* the words of the answers

parent == <<qpc, libs, errno, buf, vec>>
child_vars == <<cpc, status, said, left>>
vars_query == <<parent, child_vars, writers, pipe>>

-----------------------------------------------------------------------------
(* make.                                                                   *)

\* die and diex: make ends, and reports a failure.
die == qpc' = "dead"

\* access fails for each directory before the one that is found, and errno tells.
binexists ==
  /\ qpc = "start"
  /\ \E path \in Paths :
       /\ IF \E i \in DOMAIN path : path[i] = "with" THEN qpc' = "ask" ELSE die
       /\ errno' = IF path # <<>> /\ Head(path) = "without" THEN "ENOENT" ELSE errno
  /\ UNCHANGED <<libs, buf, vec, child_vars, writers, pipe>>

\* pipe and fork: both processes have both ends; the child has none but this
\* pipe to write to.
cmdexecb ==
  /\ qpc = "ask" /\ libs < MaxLibs
  /\ \/ /\ qpc' = "close" /\ libs' = libs + 1 /\ cpc' = "forked" /\ writers' = {"make", "child"}
        /\ buf' = <<>>
     \/ die /\ UNCHANGED <<libs, cpc, writers, buf>>
  /\ UNCHANGED <<errno, vec, status, said, left, pipe>>

\* Slip: make waits for the child first, and would read then.
close_write_Waits ==
  /\ qpc = "close" /\ qpc' = "wait" /\ writers' = writers \ {"make"}
  /\ UNCHANGED <<libs, errno, buf, vec, child_vars, pipe>>

close_write ==
  /\ qpc = "close" /\ qpc' = "read" /\ writers' = writers \ {"make"}
  /\ UNCHANGED <<libs, errno, buf, vec, child_vars, pipe>>

\* Slip: reads once.
read_Once ==
  /\ qpc = "read" /\ (pipe # <<>> \/ writers = {})
  /\ qpc' = "wait"
  /\ LET n == IF Len(pipe) < Blksize THEN Len(pipe) ELSE Blksize IN
     /\ buf' = buf \o SubSeq(pipe, 1, n)
     /\ pipe' = <<>>
  /\ UNCHANGED <<libs, errno, vec, child_vars, writers>>

\* read returns what is there, up to a block; at the end of file, which comes when
\* nobody can write any more, the pipe is closed.
read ==
  /\ qpc = "read" /\ (pipe # <<>> \/ writers = {})
  /\ qpc' = IF pipe = <<>> THEN "wait" ELSE "read"
  /\ LET n == IF Len(pipe) < Blksize THEN Len(pipe) ELSE Blksize IN
     /\ buf' = buf \o SubSeq(pipe, 1, n)
     /\ pipe' = SubSeq(pipe, n + 1, Len(pipe))
  /\ UNCHANGED <<libs, errno, vec, child_vars, writers>>

\* waitpid returns once the child has ended.
cmdwait ==
  /\ qpc = "wait" /\ cpc = "ended"
  /\ qpc' = "result" /\ cpc' = "none"
  /\ UNCHANGED <<libs, errno, buf, vec, status, said, left, writers, pipe>>

\* The words of a text, its last character excepted, which is taken for a newline.
wordexp(text) ==
  IF text = <<>> THEN <<>> ELSE SelectSeq(Front(text), LAMBDA ch : ch # " ")

\* The rest of pcquery.  False is returned, and not looked at, if errno says so,
\* whatever has set it.  wordexp refuses what a shell would do more with than split it.
pcquery_returns ==
  /\ qpc = "result"
  /\ IF status # 0
     THEN (IF errno = "ENOENT" THEN qpc' = "ask" ELSE die) /\ UNCHANGED vec
     ELSE IF "|" \in Range(buf) THEN die /\ UNCHANGED vec
     ELSE qpc' = "ask" /\ vec' = vec \o wordexp(buf)
  /\ UNCHANGED <<libs, errno, buf, child_vars, writers, pipe>>

\* All libraries have been asked for; strvfree.
strvfree ==
  /\ qpc = "ask" /\ libs = MaxLibs
  /\ qpc' = "done" /\ vec' = <<>>
  /\ UNCHANGED <<libs, errno, buf, child_vars, writers, pipe>>

-----------------------------------------------------------------------------
(* The child.                                                              *)

\* execvp, and pkg-config, which knows the library.
execvp ==
  /\ cpc = "forked" /\ cpc' = "writing"
  /\ \E text \in Texts : said' = text /\ left' = text
  /\ UNCHANGED <<parent, status, writers, pipe>>

\* A write waits until there is room.
Write_pipe ==
  /\ cpc = "writing" /\ left # <<>> /\ Len(pipe) < PipeSize
  /\ pipe' = Append(pipe, Head(left)) /\ left' = Tail(left)
  /\ UNCHANGED <<parent, cpc, status, said, writers>>

\* The child ends: with 0 when everything has been written, with 1 because there is
\* no pkg-config or no such library, or by a signal at any time.
Ends(s) ==
  /\ cpc \in {"forked", "writing"}
  /\ s = 0 => cpc = "writing" /\ left = <<>>
  /\ s = 1 => cpc = "forked"
  /\ cpc' = "ended" /\ status' = s /\ writers' = writers \ {"child"}
  /\ UNCHANGED <<parent, said, left, pipe>>

-----------------------------------------------------------------------------
Init_query ==
  /\ qpc = "start" /\ libs = 0 /\ errno \in {"other", "ENOENT"} /\ buf = <<>> /\ vec = <<>>
  /\ cpc = "none" /\ status = 0 /\ said = <<>> /\ left = <<>> /\ writers = {} /\ pipe = <<>>

\* What make does once it has been started.
ParentSteps ==
  \/ cmdexecb \/ close_write \/ read \/ cmdwait \/ pcquery_returns \/ strvfree

\* What the child does by itself.  Nobody need ever send it a signal: one that waits for
\* room in the pipe may wait for ever.
ChildSteps == execvp \/ Write_pipe \/ Ends(0) \/ Ends(1)
Signalled == Ends(256)

Next_query == binexists \/ ParentSteps \/ ChildSteps \/ Signalled

Spec_query == Init_query /\ [][Next_query]_vars_query
=============================================================================
