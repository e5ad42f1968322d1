--------------------------- MODULE BuildProperties ---------------------------
(***************************************************************************)
(* What make.c promises to the one who runs it: after a build that went     *)
(* well nothing is old that dates show to be, but for one thing, and        *)
(* nothing is compiled for no reason.                                      *)
(***************************************************************************)
EXTENDS Build

\* Type invariant of make.c's state.
TypeOK ==
  /\ now \in Nat /\ mtime \in [Files -> Nat]
  /\ stale \in [Targets -> SUBSET Files] /\ hidden \in [Targets -> SUBSET Files]
  /\ torn \subseteq Targets
  /\ pc \in {"off", "rebuild", "begin", "clean", "outpath", "install", "cflags", "compile",
             "link", "next", "done", "failed"}
  /\ goal \in {"build", "clean", "install", "usage"} /\ kflag \in BOOLEAN
  /\ parts \in Seq(Parts) /\ dirs \in Seq({"common"} \cup Parts)
  /\ todo \subseteq Sources /\ flags \in BOOLEAN
  /\ child \in Targets \cup Copies \cup {Nothing} /\ since \subseteq Written /\ missed \subseteq Files
  /\ edits \in 0 .. MaxEdits /\ runs \in 0 .. MaxRuns /\ faults \in 0 .. MaxFaults

\* The dates of two files are less than Half seconds apart.
Comparable(l, r) == (l \div NSec) - (r \div NSec) \in (-Half) .. (Half - 1)

\* A file that has been written since t was made has a later date than t, and
\* fmdcmp says so - but for the files in hidden, which were written in the same
\* tick of the clock, or while t was being made of them.  Nothing else is said to
\* be newer.
TimesTell ==
  \A t \in Targets : \A f \in Files \ {t} :
    Exists(t) /\ Exists(f) /\ Comparable(mtime[t], mtime[f]) =>
      (fmdcmp(mtime[t], mtime[f]) < 0 <=> f \in stale[t] \ hidden[t])

-----------------------------------------------------------------------------
Common == {ctoo(s) : s \in {s \in Sources : Dir[s] = "common"}}

\* What t is made of: for an object the headers that make.c lists, for a program every
\* object that is linked.
Inputs(t) ==
  CASE t \in Objects -> Deps(t[1])
    [] t \in Binaries -> {ctoo(s) : s \in {s \in Sources : Dir[s] = t[1]}} \cup Common
    [] t = Make -> {<<"make", "c">>}

\* What t is compared with: a program not with the objects of src/common.
Compared(t) == IF t \in Binaries THEN Inputs(t) \ Common ELSE Inputs(t)

\* What dates do not show about t: changes in the same tick, or while t was being made;
\* and nothing at all if t is half a file that a killed process has left.
Unseen(t) == IF t \in torn THEN Files ELSE hidden[t]

\* A part that is up to date - but for what dates do not show and what has changed during
\* this run, and but for objects of src/common: one that is newer than the program has
\* been passed over, as long as no object of the part itself is newer still.
Current(p) ==
  /\ Exists(Binary(p))
  /\ \A o \in Inputs(Binary(p)) :
       /\ Exists(o)
       /\ stale[o] \cap Inputs(o) \subseteq Unseen(o) \cup since
       /\ o \in stale[Binary(p)] \ Unseen(Binary(p)) =>
            o \in Common /\ \A x \in Compared(Binary(p)) : mtime[x] < mtime[o]

\* A build without -k that ends well has left a program of every part it was asked for,
\* and no object of it, those of src/common included, is older than its source or a
\* listed header; nor is the program older than an object, unless that is one of
\* src/common, which is linked but not compared (make.c:232, 304).  What earlier runs,
\* interrupted or failed, have left behind does not matter, except half a file: it passes
\* for whole until something it is made of changes.
SuccessCurrent ==
  pc = "done" /\ goal = "build" /\ ~kflag => \A i \in 1 .. Len(parts) : Current(parts[i])

\* Nothing is made again unless one of the things it is compared with has really
\* changed since, or it is not there.
AllComparable ==
  \A t \in Targets : \A f \in Files :
    Exists(t) /\ Exists(f) => Comparable(mtime[t], mtime[f])
NothingTwice ==
  [][child' \in Targets /\ child' # child /\ Exists(child') /\ AllComparable =>
       stale[child'] \cap Compared(child') # {}]_vars

\* make ends, however often it compiles itself before, and whatever fails.
MakeEnds == pc # "off" ~> pc = "off"
=============================================================================
