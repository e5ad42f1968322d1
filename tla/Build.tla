-------------------------------- MODULE Build --------------------------------
(***************************************************************************)
(* make.c with the helpers of cbs.h that run processes and compare dates:  *)
(* one user who edits files and starts make again and again.  The compiler, *)
(* the linker, pkg-config and the user are external.  Name_Slip is Name    *)
(* with a mistake in it, used to see that the properties notice.           *)
(*                                                                         *)
(* What is in a file is not modelled; instead, `stale' says of each file   *)
(* that make produces what has changed since it was read for it.           *)
(***************************************************************************)
EXTENDS Integers, Sequences, FiniteSets

CONSTANTS
  Sources,   \* the .c files
  Dir,       \* Dir[s]: the directory of source s
  Headers,   \* the .h files
  NSec,      \* how many ticks of the clock are a second
  Half,      \* how many seconds fit into an int
  MaxEdits, MaxRuns, MaxFaults, \* bounds: changes of files, runs of make, mishaps
  Behaviours \* what may go wrong

Parts == {"ewctl", "ewd"}
AllBehaviours ==
  {"coarse",  \* the clock may stand still while a process runs
   "kill",    \* make is interrupted, with the process it runs
   "fail",    \* a compiler reports an error
   "long",    \* DESTDIR and PREFIX make a path that is too long
   "missing"} \* pkg-config is missing, or does not know a library

\* What make.c passes to foutdated for an object, besides its source.
Listed(dir) == Headers \cap (IF dir = "ewd" THEN {"da.h", "types.h", "common.h"} ELSE {"common.h"})

ASSUME BuildAssumption ==
  /\ Dir \in [Sources -> {"common"} \cup Parts]
  /\ NSec \in Nat \ {0} /\ Half \in Nat /\ NSec <= Half
  /\ MaxEdits \in Nat /\ MaxRuns \in Nat /\ MaxFaults \in Nat
  /\ Behaviours \subseteq AllBehaviours

ctoo(s) == <<s, "o">>
Binary(p) == <<p, "binary">>
Installed(p) == <<p, "installed">>
Make == <<"make", "binary">>

Written == {<<s, "c">> : s \in Sources \cup {"make"}} \cup {<<h, "h">> : h \in Headers}
Objects == {ctoo(s) : s \in Sources}
Binaries == {Binary(p) : p \in Parts}
Targets == Objects \cup Binaries \cup {Make}
Directories == <<"directories", "installed">>
Copies == {Installed(p) : p \in Parts} \cup {Directories}
Files == Written \cup Targets

Nothing == <<"nothing", "nothing">>

VARIABLES
  now,      \* the clock, in ticks
  mtime,    \* mtime[f]: when f was last written; 0 if there is no f
  stale,    \* stale[t]: what has been written since it was read for t
  hidden,   \* hidden[t]: those of them that have the date of t, or an older one
  torn,     \* targets of which there is half a file only
  pc,       \* where make is
  goal, kflag, parts, \* what it has been asked for
  dirs,     \* the directories left
  todo,     \* the sources of this directory that have not been looked at
  flags,    \* has pkg-config told the flags of this directory?
  child,    \* the file the child process writes, if there is one
  since,    \* what has been written by the user since the run began
  missed,   \* what has been written since the child has begun to read
  edits, runs, faults

files == <<now, mtime, stale, hidden, torn>>
run == <<goal, kflag, parts>>
bounds == <<edits, runs, faults>>
vars == <<files, pc, run, dirs, todo, flags, child, since, missed, bounds>>

-----------------------------------------------------------------------------
(* Dates.                                                                  *)

\* A long that is returned as an int.
Narrow(x) == ((x + Half) % (2 * Half)) - Half

\* Slip: looks at the fraction of the second only.
fmdcmp_Fraction(l, r) == Narrow((l % NSec) - (r % NSec))

\* fmdcmp: seconds first, then the fraction of the second.
fmdcmp(l, r) ==
  IF l \div NSec = r \div NSec THEN Narrow((l % NSec) - (r % NSec))
  ELSE Narrow((l \div NSec) - (r \div NSec))

Exists(f) == mtime[f] # 0

\* Slip: every other date counts as newer.
foutdatedv_Differs(f, deps) == ~Exists(f) \/ \E d \in deps : fmdcmp(mtime[f], mtime[d]) # 0

\* Slip: looks at one dependency only.
foutdatedv_First(f, deps) ==
  ~Exists(f) \/ (deps # {} /\ fmdcmp(mtime[f], mtime[CHOOSE d \in deps : TRUE]) < 0)

foutdatedv(f, deps) == ~Exists(f) \/ \E d \in deps : fmdcmp(mtime[f], mtime[d]) < 0

Deps(s) == {<<s, "c">>} \cup {<<h, "h">> : h \in Listed(Dir[s])}

\* f gets the date `time', with `changes' since its inputs were read.
Date(f, time, changes) ==
  /\ now' = time /\ mtime' = [mtime EXCEPT ![f] = time]
  /\ stale' = [t \in Targets |-> IF t = f THEN changes ELSE stale[t] \cup {f}]
  /\ hidden' = [t \in Targets |-> IF t = f THEN changes
                                  ELSE IF mtime[t] = time THEN hidden[t] \cup {f}
                                  ELSE hidden[t] \ {f}]

\* f is written, as a whole or half of it.
Write(f, time, changes) == Date(f, time, changes) /\ torn' = torn \ {f}
Tear(f, time) == Date(f, time, {}) /\ torn' = torn \cup {f}

-----------------------------------------------------------------------------
(* The user.                                                               *)

\* A file is changed, also while make is running, also in the same tick as the
\* last file was written.
Edit(f) ==
  /\ edits < MaxEdits /\ edits' = edits + 1
  /\ \E time \in {now, now + 1} : Write(f, time, {})
  /\ since' = since \cup {f : c \in {pc} \ {"off"}}
  /\ missed' = missed \cup {f : c \in {child} \cap Targets}
  /\ UNCHANGED <<pc, run, dirs, todo, flags, child, runs, faults>>

\* cc -o make make.c, when a compiler that failed has removed make.
Bootstrap ==
  /\ pc = "off" /\ ~Exists(Make) /\ Write(Make, now + 1, {})
  /\ UNCHANGED <<pc, run, dirs, todo, flags, child, since, missed, bounds>>

\* make is started.
Start ==
  /\ pc = "off" /\ Exists(Make) /\ runs < MaxRuns /\ runs' = runs + 1
  /\ goal' \in {"build", "clean", "install", "usage"} /\ kflag' \in BOOLEAN
  /\ parts' \in IF goal' \in {"build", "install"} THEN {<<"ewctl">>, <<"ewd">>, <<"ewctl", "ewd">>}
               ELSE {<<>>}
  /\ dirs' = IF goal' = "build" THEN <<"common">> \o parts' ELSE parts'
  /\ pc' = "rebuild" /\ since' = {}
  /\ UNCHANGED <<files, todo, flags, child, missed, edits, faults>>

\* Something goes wrong that need not.
Mishap(kind) ==
  /\ kind \in Behaviours /\ faults < MaxFaults /\ faults' = faults + 1
  /\ UNCHANGED <<edits, runs>>

-----------------------------------------------------------------------------
(* Processes.                                                              *)

\* cmdexeca: make goes on at `next' when the child that writes f has ended.
Spawn(f, next) == child' = f /\ missed' = {} /\ pc' = next

\* What the child needs: the linker every object, and the libraries; cp
\* the binary.
CanWrite(f) ==
  CASE f \in Binaries ->
         /\ flags
         /\ \A s \in Sources : Dir[s] \in {Head(dirs), "common"} =>
              Exists(ctoo(s))
    [] \E p \in Parts : f = Installed(p) /\ ~Exists(Binary(p)) -> FALSE
    [] OTHER -> TRUE

\* cmdwait returns 0.
Succeeds ==
  /\ child # Nothing /\ CanWrite(child)
  /\ IF child \in Copies THEN UNCHANGED files
     ELSE \E time \in (IF "coarse" \in Behaviours THEN {now, now + 1} ELSE {now + 1}) :
            Write(child, time, missed)
  /\ child' = Nothing /\ missed' = {}
  /\ UNCHANGED <<pc, run, dirs, todo, flags, since, bounds>>

\* The file is not there any more.
Removed(f) ==
  /\ mtime' = [mtime EXCEPT ![f] = 0] /\ torn' = torn \ {f}
  /\ UNCHANGED <<now, stale, hidden>>

\* What a child leaves behind that reports an error: its file as it was, or none.
Gone == UNCHANGED files \/ (child \in Targets /\ Removed(child))

\* What a child leaves behind that is killed: that, or half of its file, with a date
\* that does not show it.  Half of make cannot be started, and goes as if it had been
\* removed.
Left == Gone \/ (child \in Objects \cup Binaries /\ Tear(child, now + 1))

\* Nothing stands in the child's way, such as half of an object that it links.
NoReason ==
  /\ CanWrite(child) /\ flags
  /\ child \in Binaries =>
       \A s \in Sources : Dir[s] \in {Head(dirs), "common"} => ctoo(s) \notin torn

\* Slip: goes on as with -k.
Fails_On ==
  /\ child # Nothing
  /\ IF NoReason THEN Mishap("fail") /\ Left ELSE UNCHANGED bounds /\ Gone
  /\ child' = Nothing /\ missed' = {}
  /\ UNCHANGED <<pc, run, dirs, todo, flags, since>>

\* cmdwait returns something else: an exit status or 256 for a signal.  cmdprc
\* goes on if it was given -k.
Fails ==
  /\ child # Nothing
  /\ IF NoReason THEN Mishap("fail") /\ Left ELSE UNCHANGED bounds /\ Gone
  /\ child' = Nothing /\ missed' = {}
  /\ pc' = IF kflag /\ child # Make THEN pc ELSE "failed"
  /\ UNCHANGED <<run, dirs, todo, flags, since>>

\* make is interrupted, with its child.
Kill ==
  /\ pc \notin {"off", "done", "failed"} /\ Mishap("kill")
  /\ Left
  /\ child' = Nothing /\ missed' = {} /\ pc' = "failed"
  /\ UNCHANGED <<run, dirs, todo, flags, since>>

-----------------------------------------------------------------------------
(* main.                                                                   *)

\* _rebuild: the build script compiles itself and starts anew.
Rebuild ==
  /\ pc = "rebuild" /\ child = Nothing
  /\ IF foutdatedv(Make, {<<"make", "c">>})
     THEN Spawn(Make, "rebuild")
     ELSE pc' = "begin" /\ UNCHANGED <<child, missed>>
  /\ UNCHANGED <<files, run, dirs, todo, flags, since, bounds>>

\* Everything but a build; arguments that make does not know; a build, which
\* binexists allows if it finds pkg-config.
Begin ==
  /\ pc = "begin"
  /\ \/ goal = "clean" /\ pc' = "clean" /\ UNCHANGED bounds
     \/ goal = "install" /\ pc' = "outpath" /\ UNCHANGED bounds
     \/ goal = "usage" /\ pc' = "failed" /\ UNCHANGED bounds
     \/ goal = "build" /\ pc' = "cflags" /\ UNCHANGED bounds
     \/ goal = "build" /\ pc' = "failed" /\ Mishap("missing")
  /\ UNCHANGED <<files, run, dirs, todo, flags, child, since, missed>>

\* find -delete removes one file after the other, in an order of its own.
Clean ==
  /\ pc = "clean"
  /\ LET found == {f \in Objects \cup Binaries : Exists(f)} IN
     \/ found # {} /\ Removed(CHOOSE f \in found : TRUE) /\ UNCHANGED <<pc, bounds>>
     \/ found = {} /\ pc' = "done" /\ UNCHANGED <<files, bounds>>
     \/ Mishap("fail") /\ pc' = (IF kflag THEN "done" ELSE "failed") /\ UNCHANGED files
  /\ UNCHANGED <<run, dirs, todo, flags, child, since, missed>>

\* The places to install to are put together, for mkdir to make them; strlcat
\* reports those that are too long.
_mkoutpath ==
  /\ pc = "outpath"
  /\ \/ Spawn(Directories, "install") /\ UNCHANGED bounds
     \/ Mishap("long") /\ pc' = "failed" /\ UNCHANGED <<child, missed>>
  /\ UNCHANGED <<files, run, dirs, todo, flags, since>>

\* One cp after the other; a part's program and its manual pages are one copy.
Install ==
  /\ pc = "install" /\ child = Nothing
  /\ IF dirs = <<>> THEN pc' = "done" /\ UNCHANGED <<child, missed, dirs>>
     ELSE Spawn(Installed(Head(dirs)), "install") /\ dirs' = Tail(dirs)
  /\ UNCHANGED <<files, run, todo, flags, since, bounds>>

\* pcquery, twice for each part: when pkg-config reports an error, errno tells
\* whether it was found, an errno that has been set by whatever failed last.  The
\* answer is not looked at.  Nothing is asked for src/common.
pcquery(next) ==
  \/ flags' = TRUE /\ pc' = next /\ UNCHANGED bounds
  \/ Head(dirs) # "common" /\ flags' = FALSE /\ pc' = next /\ Mishap("missing")
  \/ Head(dirs) # "common" /\ pc' = "failed" /\ UNCHANGED flags /\ Mishap("missing")

\* pkg-config --cflags, and glob for the sources.
Cflags ==
  /\ pc = "cflags"
  /\ pcquery("compile")
  /\ todo' = {s \in Sources : Dir[s] = Head(dirs)}
  /\ UNCHANGED <<files, run, dirs, child, since, missed>>

\* Slip: does not go on before this source has been compiled.
Compile_Retries(s) ==
  /\ pc = "compile" /\ child = Nothing /\ s \in todo
  /\ IF foutdatedv(ctoo(s), Deps(s)) THEN Spawn(ctoo(s), "compile") /\ UNCHANGED todo
     ELSE todo' = todo \ {s} /\ UNCHANGED <<pc, child, missed>>
  /\ UNCHANGED <<files, run, dirs, flags, since, bounds>>

\* Slip: compiles the object into the source.
Compile_Over(s) ==
  /\ pc = "compile" /\ child = Nothing /\ s \in todo
  /\ todo' = todo \ {s}
  /\ IF foutdatedv(ctoo(s), Deps(s)) THEN Spawn(<<s, "c">>, "compile")
     ELSE UNCHANGED <<pc, child, missed>>
  /\ UNCHANGED <<files, run, dirs, flags, since, bounds>>

\* An object that is outdated is compiled.
Compile(s) ==
  /\ pc = "compile" /\ child = Nothing /\ s \in todo
  /\ todo' = todo \ {s}
  /\ IF foutdatedv(ctoo(s), Deps(s)) THEN Spawn(ctoo(s), "compile")
     ELSE UNCHANGED <<pc, child, missed>>
  /\ UNCHANGED <<files, run, dirs, flags, since, bounds>>

\* pkg-config --libs; there is nothing to link in src/common.
Libs ==
  /\ pc = "compile" /\ child = Nothing /\ todo = {}
  /\ IF Head(dirs) = "common" THEN pc' = "next" /\ UNCHANGED <<flags, bounds>> ELSE pcquery("link")
  /\ UNCHANGED <<files, run, dirs, todo, child, since, missed>>

\* The objects glob finds in the directory; those of src/common are linked, but
\* not compared with the program.
Own(p) == {ctoo(s) : s \in {s \in Sources : Dir[s] = p /\ Exists(ctoo(s))}}

\* Slip: links what is there already.
Link_Never ==
  /\ pc = "link"
  /\ IF ~Exists(Binary(Head(dirs)))
     THEN Spawn(Binary(Head(dirs)), "next") ELSE pc' = "next" /\ UNCHANGED <<child, missed>>
  /\ UNCHANGED <<files, run, dirs, todo, flags, since, bounds>>

Link ==
  /\ pc = "link"
  /\ IF foutdatedv(Binary(Head(dirs)), Own(Head(dirs)))
     THEN Spawn(Binary(Head(dirs)), "next") ELSE pc' = "next" /\ UNCHANGED <<child, missed>>
  /\ UNCHANGED <<files, run, dirs, todo, flags, since, bounds>>

NextDir ==
  /\ pc = "next" /\ child = Nothing
  /\ dirs' = Tail(dirs) /\ pc' = IF Len(dirs) = 1 THEN "done" ELSE "cflags"
  /\ UNCHANGED <<files, run, todo, flags, child, since, missed, bounds>>

\* All that make had in its memory is gone.
Exit ==
  /\ pc \in {"done", "failed"} /\ pc' = "off"
  /\ goal' = "build" /\ kflag' = FALSE /\ parts' = <<>> /\ dirs' = <<>> /\ todo' = {}
  /\ flags' = TRUE /\ since' = {}
  /\ UNCHANGED <<files, child, missed, bounds>>

-----------------------------------------------------------------------------
\* What the user has unpacked, and a make that has been compiled by hand.
Init ==
  /\ now = 2
  /\ mtime = [f \in Files |-> IF f = Make THEN 2 ELSE IF f \in Written THEN 1 ELSE 0]
  /\ stale = [t \in Targets |-> {}] /\ hidden = stale /\ torn = {}
  /\ pc = "off" /\ goal = "build" /\ kflag = FALSE /\ parts = <<>> /\ dirs = <<>> /\ todo = {}
  /\ flags = TRUE /\ child = Nothing /\ since = {} /\ missed = {}
  /\ edits = 0 /\ runs = 0 /\ faults = 0

MakeSteps ==
  \/ Rebuild \/ Begin \/ Clean \/ _mkoutpath \/ Install \/ Cflags
  \/ \E s \in Sources : Compile(s)
  \/ Libs \/ Link \/ NextDir \/ Exit \/ Succeeds \/ Fails

Next == (\E f \in Written : Edit(f)) \/ Bootstrap \/ Start \/ Kill \/ MakeSteps

Spec == Init /\ [][Next]_vars

\* make and the processes it runs are scheduled, and those end.
FairSpec == Spec /\ WF_vars(MakeSteps)
=============================================================================
