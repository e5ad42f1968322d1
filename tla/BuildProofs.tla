----------------------------- MODULE BuildProofs -----------------------------
(***************************************************************************)
(* Proofs about make.c's builds, for any sources, headers, clock and number *)
(* of runs: dates tell what has changed, and nothing is made for nothing.  *)
(***************************************************************************)
EXTENDS BuildProperties, QueryProperties, SequenceTheorems, TLAPS

-----------------------------------------------------------------------------
(* fmdcmp.                                                                 *)

\* A remainder that is the number itself.
LEMMA SmallMod ==
  ASSUME NEW b \in Nat \ {0}, NEW a \in 0 .. (b - 1)
  PROVE  a % b = a
  OBVIOUS

\* A difference that fits into an int is returned as it is.
LEMMA NarrowSame ==
  ASSUME NEW x \in Int, -Half <= x, x < Half
  PROVE  Narrow(x) = x
  BY BuildAssumption, SmallMod DEF Narrow

\* A date is its second and its fraction.
LEMMA DateParts ==
  ASSUME NEW d \in Nat
  PROVE  /\ d \div NSec \in Nat
         /\ d % NSec \in 0 .. (NSec - 1)
         /\ d = (NSec * (d \div NSec)) + (d % NSec)
  BY BuildAssumption

\* Seconds decide before fractions do.
LEMMA SecondsFirst ==
  ASSUME NEW n \in Nat \ {0}, NEW p \in Nat, NEW q \in Nat, p < q,
         NEW e \in 0 .. (n - 1), NEW f \in 0 .. (n - 1)
  PROVE  (n * p) + e < (n * q) + f
<1>1. (n * p) + n <= n * q
  <2>1. PICK d \in Nat : q = p + 1 + d BY (q - p) - 1 \in Nat
  <2>2. n * q = (n * p) + n + (n * d) BY <2>1
  <2> QED BY <2>2
<1> QED BY <1>1

\* fmdcmp orders dates that are less than Half seconds apart.
THEOREM DatesCompare ==
  ASSUME NEW l \in Nat, NEW r \in Nat, Comparable(l, r)
  PROVE  fmdcmp(l, r) < 0 <=> l < r
<1> DEFINE p == l \div NSec  q == r \div NSec  e == l % NSec  f == r % NSec
<1>1. p \in Nat /\ q \in Nat /\ e \in 0 .. (NSec - 1) /\ f \in 0 .. (NSec - 1)
  BY DateParts
<1>2. l = (NSec * p) + e /\ r = (NSec * q) + f
  BY DateParts
<1>3. -Half <= p - q /\ p - q < Half
  BY <1>1, BuildAssumption DEF Comparable
<1>4. CASE p = q
  <2>1. fmdcmp(l, r) = Narrow(e - f) BY <1>4 DEF fmdcmp
  <2>2. Narrow(e - f) = e - f BY <1>1, NarrowSame, BuildAssumption
  <2>3. NSec * p = NSec * q /\ NSec * p \in Int BY <1>4, <1>1, BuildAssumption
  <2> HIDE DEF p, q, e, f
  <2> QED BY <2>1, <2>2, <2>3, <1>1, <1>2
<1>5. CASE p # q
  <2>1. fmdcmp(l, r) = Narrow(p - q) BY <1>5 DEF fmdcmp
  <2>2. Narrow(p - q) = p - q BY <1>1, <1>3, NarrowSame
  <2> HIDE DEF p, q, e, f
  <2>3. CASE p < q BY <2>1, <2>2, <2>3, <1>1, <1>2, SecondsFirst, BuildAssumption
  <2>4. CASE q < p
    <3>1. r < l BY <2>4, <1>1, <1>2, SecondsFirst, BuildAssumption
    <3> QED BY <3>1, <2>1, <2>2, <2>4, <1>1
  <2> QED BY <2>3, <2>4, <1>1, <1>5
<1> QED BY <1>4, <1>5

-----------------------------------------------------------------------------
(* Types.                                                                  *)

\* While a directory is worked on there is one, and what is linked or copied is
\* a program.
DirLeft ==
  /\ pc \in {"cflags", "compile", "link", "next"} => dirs # <<>>
  /\ pc \in {"rebuild", "begin"} /\ goal = "build" => dirs # <<>>
  /\ pc = "link" => Head(dirs) # "common"
  /\ goal # "build" => dirs \in Seq(Parts)
  /\ pc \in {"outpath", "install"} => goal = "install"

Typed == TypeOK /\ DirLeft

\* The files have their types after something has been written or removed.
FilesTyped ==
  /\ now \in Nat /\ mtime \in [Files -> Nat]
  /\ stale \in [Targets -> SUBSET Files] /\ hidden \in [Targets -> SUBSET Files]
  /\ torn \subseteq Targets

\* Writing a file, or half of a target, keeps the types of the files ...
LEMMA WriteTyped ==
  ASSUME FilesTyped, NEW f \in Files, NEW time \in Nat, NEW changes \in SUBSET Files,
         Write(f, time, changes) \/ (f \in Targets /\ Tear(f, time))
  PROVE  FilesTyped'
  BY DEF FilesTyped, Write, Tear, Date

\* ... and so does removing one.
LEMMA RemovedTyped ==
  ASSUME FilesTyped, NEW f \in Files, Removed(f)
  PROVE  FilesTyped'
  BY DEF FilesTyped, Removed

\* Which files sources, objects, programs and copies are among.
LEMMA FilesKnown ==
  /\ Targets \subseteq Files /\ Written \subseteq Files
  /\ \A s \in Sources : ctoo(s) \in Targets /\ <<s, "c">> \in Files
  /\ \A p \in Parts : Binary(p) \in Targets /\ Installed(p) \in Copies
  /\ Make \in Targets /\ Directories \in Copies
  BY DEF Files, Targets, Written, Objects, Binaries, Copies


\* Whatever happens to the child, its file has been written, removed or left.
LEMMA ChildTyped ==
  ASSUME Typed, Next
  PROVE  FilesTyped'
<1> USE DEF Typed, TypeOK
<1>1. FilesTyped BY DEF FilesTyped
<1>2. UNCHANGED files => FilesTyped' BY <1>1 DEF FilesTyped, files
<1>3. ASSUME NEW f \in Written, Edit(f) PROVE FilesTyped'
  <2>1. \A time \in {now, now + 1} : time \in Nat OBVIOUS
  <2> QED BY <1>1, <1>3, <2>1, WriteTyped, FilesKnown DEF Edit
<1>4. CASE Bootstrap
  <2>1. now + 1 \in Nat OBVIOUS
  <2> QED BY <1>1, <1>4, <2>1, WriteTyped, FilesKnown DEF Bootstrap
<1>5. ASSUME Left PROVE FilesTyped'
  <2>1. CASE child \in Targets /\ Removed(child) BY <1>1, <2>1, RemovedTyped, FilesKnown
  <2>2. CASE child \in Objects \cup Binaries /\ Tear(child, now + 1)
    <3>1. now + 1 \in Nat /\ child \in Files /\ child \in Targets BY <2>2, FilesKnown DEF Targets
    <3> QED BY <1>1, <2>2, <3>1, WriteTyped
  <2> QED BY <1>2, <1>5, <2>1, <2>2 DEF Left, Gone
<1>6. CASE Succeeds
  <2>1. CASE child \in Copies BY <1>6, <2>1, <1>2 DEF Succeeds
  <2>2. CASE child \notin Copies
    <3>1. child \in Targets BY <1>6, <2>2 DEF Succeeds
    <3>2. PICK time \in {now, now + 1} : Write(child, time, missed) BY <1>6, <2>2 DEF Succeeds
    <3>3. time \in Nat BY <3>2
    <3> QED BY <1>1, <3>1, <3>2, <3>3, WriteTyped, FilesKnown
  <2> QED BY <2>1, <2>2
<1>7. CASE Fails BY <1>5, <1>7 DEF Fails, Left
<1>8. CASE Kill BY <1>5, <1>8 DEF Kill
<1>9. CASE Clean
  <2> DEFINE found == {f \in Objects \cup Binaries : Exists(f)}
  <2>1. CASE UNCHANGED files BY <2>1, <1>2
  <2>2. CASE found # {} /\ Removed(CHOOSE f \in found : TRUE)
    <3>1. (CHOOSE f \in found : TRUE) \in Files BY <2>2, FilesKnown DEF Targets
    <3> HIDE DEF found
    <3> QED BY <1>1, <2>2, <3>1, RemovedTyped
  <2> QED BY <1>9, <2>1, <2>2 DEF Clean
<1>10. CASE Start \/ Rebuild \/ Begin \/ _mkoutpath \/ Install \/ Cflags \/ Libs \/ Link \/ NextDir \/ Exit
  BY <1>2, <1>10 DEF Start, Rebuild, Begin, _mkoutpath, Install, Cflags, Libs, Link, NextDir, Exit
<1>11. ASSUME NEW s \in Sources, Compile(s) PROVE FilesTyped'
  BY <1>2, <1>11 DEF Compile
<1> QED BY <1>3, <1>4, <1>6, <1>7, <1>8, <1>9, <1>10, <1>11 DEF Next, MakeSteps

\* The rest of TypeOK, split so that a step can leave parts alone.
BoundsTyped == edits \in 0 .. MaxEdits /\ runs \in 0 .. MaxRuns /\ faults \in 0 .. MaxFaults
ChildKnown == child \in Targets \cup Copies \cup {Nothing}
GhostsTyped == since \subseteq Written /\ missed \subseteq Files
PcTyped ==
  pc \in {"off", "rebuild", "begin", "clean", "outpath", "install", "cflags", "compile",
         "link", "next", "done", "failed"}
MemoryTyped ==
  /\ goal \in {"build", "clean", "install", "usage"} /\ kflag \in BOOLEAN
  /\ parts \in Seq(Parts) /\ dirs \in Seq({"common"} \cup Parts)
  /\ todo \subseteq Sources /\ flags \in BOOLEAN

\* The type invariant is the conjunction of these parts.
LEMMA TypeParts ==
  TypeOK <=> FilesTyped /\ BoundsTyped /\ ChildKnown /\ GhostsTyped /\ PcTyped /\ MemoryTyped
  BY DEF TypeOK, FilesTyped, BoundsTyped, ChildKnown, GhostsTyped, PcTyped, MemoryTyped

\* No step of make or of the user goes over a bound.
LEMMA BoundsStep ==
  ASSUME Typed, Next
  PROVE  BoundsTyped'
<1>1. BoundsTyped BY TypeParts DEF Typed
<1>2. ASSUME UNCHANGED bounds PROVE BoundsTyped' BY <1>1, <1>2 DEF BoundsTyped, bounds
<1>3. ASSUME NEW kind, Mishap(kind) PROVE BoundsTyped'
  BY <1>1, <1>3, BuildAssumption DEF BoundsTyped, Mishap
<1>4. ASSUME NEW f \in Written, Edit(f) PROVE BoundsTyped'
  BY <1>1, <1>4, BuildAssumption DEF BoundsTyped, Edit
<1>5. CASE Start BY <1>1, <1>5, BuildAssumption DEF BoundsTyped, Start
<1>6. CASE Fails BY <1>2, <1>3, <1>6 DEF Fails
<1>7. CASE Kill BY <1>3, <1>7 DEF Kill
<1>8. CASE Begin \/ _mkoutpath BY <1>2, <1>3, <1>8 DEF Begin, _mkoutpath
<1>9. CASE Clean BY <1>2, <1>3, <1>9 DEF Clean
<1>10. CASE Cflags BY <1>2, <1>3, <1>10 DEF Cflags, pcquery
<1>11. CASE Libs BY <1>2, <1>3, <1>11 DEF Libs, pcquery
<1>12. CASE Bootstrap \/ Succeeds \/ Rebuild \/ Install \/ Link \/ NextDir \/ Exit
  BY <1>2, <1>12 DEF Bootstrap, Succeeds, Rebuild, Install, Link, NextDir, Exit
<1>13. ASSUME NEW s \in Sources, Compile(s) PROVE BoundsTyped'
  BY <1>2, <1>13 DEF Compile
<1> QED BY <1>4, <1>5, <1>6, <1>7, <1>8, <1>9, <1>10, <1>11, <1>12, <1>13 DEF Next, MakeSteps

\* A directory, and what becomes of the list of them.
LEMMA DirsFacts ==
  ASSUME MemoryTyped
  PROVE  /\ dirs # <<>> => Head(dirs) \in {"common"} \cup Parts
         /\ dirs # <<>> => Tail(dirs) \in Seq({"common"} \cup Parts)
         /\ dirs # <<>> /\ Len(dirs) # 1 => Tail(dirs) # <<>>
         /\ dirs \in Seq(Parts) /\ dirs # <<>> => Head(dirs) \in Parts /\ Tail(dirs) \in Seq(Parts)
<1> DEFINE D == {"common"} \cup Parts
<1>1. dirs \in Seq(D) BY DEF MemoryTyped
<1> HIDE DEF D
<1>2. ASSUME dirs # <<>>
      PROVE  Head(dirs) \in D /\ Tail(dirs) \in Seq(D) /\ (Len(dirs) # 1 => Tail(dirs) # <<>>)
  <2>1. Len(Tail(dirs)) = Len(dirs) - 1 /\ Len(dirs) \in Nat
    BY <1>1, <1>2, HeadTailProperties, LenProperties
  <2>2. Len(dirs) # 1 => Tail(dirs) # <<>>
    <3>1. Tail(dirs) = <<>> => Len(Tail(dirs)) = 0 BY EmptySeq, Zenon
    <3> DEFINE n == Len(Tail(dirs))  m == Len(dirs)
    <3>2. m \in Nat /\ n = m - 1 BY <2>1
    <3> HIDE DEF n, m
    <3>3. m # 1 => n # 0 BY <3>2
    <3> QED BY <3>1, <3>3, Zenon DEF n, m
  <2> QED BY <1>1, <1>2, <2>2, HeadTailProperties
<1>3. dirs \in Seq(Parts) /\ dirs # <<>> => Head(dirs) \in Parts /\ Tail(dirs) \in Seq(Parts)
  BY HeadTailProperties
<1> QED BY <1>2, <1>3 DEF D

\* What make remembers keeps its type, and at each place there is a directory to work on.
LEMMA MemoryStep ==
  ASSUME Typed, Next
  PROVE  MemoryTyped' /\ PcTyped' /\ DirLeft'
<1>1. MemoryTyped /\ PcTyped /\ DirLeft BY TypeParts DEF Typed
<1>2. ASSUME UNCHANGED <<pc, run, dirs, todo, flags>> PROVE MemoryTyped' /\ PcTyped' /\ DirLeft'
  BY <1>1, <1>2 DEF MemoryTyped, PcTyped, DirLeft, run
<1>3. ASSUME NEW f \in Written, Edit(f) PROVE MemoryTyped' /\ PcTyped' /\ DirLeft'
  BY <1>2, <1>3 DEF Edit
<1>4. CASE Bootstrap \/ Succeeds BY <1>2, <1>4 DEF Bootstrap, Succeeds
<1>5. CASE Start
  <2> DEFINE P == {<<"ewctl">>, <<"ewd">>, <<"ewctl", "ewd">>, <<>>}
  <2>1. \A ps \in P : ps \in Seq(Parts)
    <3>1. <<"ewctl">> \in Seq(Parts) /\ <<"ewd">> \in Seq(Parts) BY DEF Parts
    <3>2. <<"ewctl", "ewd">> \in Seq(Parts) BY DEF Parts
    <3>3. <<>> \in Seq(Parts) OBVIOUS
    <3> QED BY <3>1, <3>2, <3>3
  <2>3. \A ps \in P : ps \in Seq({"common"} \cup Parts)
    BY <2>1, SeqMonotonic
  <2>4. \A ps \in P : /\ <<"common">> \o ps \in Seq({"common"} \cup Parts)
                      /\ <<"common">> \o ps # <<>>
    <3> HIDE DEF P
    <3>1. <<"common">> \in Seq({"common"} \cup Parts) /\ Len(<<"common">>) = 1 OBVIOUS
    <3> TAKE ps \in P
    <3>2. /\ <<"common">> \o ps \in Seq({"common"} \cup Parts)
          /\ Len(<<"common">> \o ps) = 1 + Len(ps) /\ Len(ps) \in Nat
      BY <2>3, <3>1, ConcatProperties, LenProperties
    <3>3. Len(<<"common">> \o ps) # 0 BY <3>2
    <3> QED BY <3>2, <3>3, EmptySeq
  <2>2. parts' \in P /\ goal' \in {"build", "clean", "install", "usage"} /\ kflag' \in BOOLEAN
        /\ dirs' = (IF goal' = "build" THEN <<"common">> \o parts' ELSE parts')
        /\ pc' = "rebuild" /\ UNCHANGED <<todo, flags>>
    BY <1>5 DEF Start
  <2> HIDE DEF P
  <2> QED BY <1>1, <2>1, <2>2, <2>3, <2>4 DEF MemoryTyped, PcTyped, DirLeft
<1>6. CASE Fails \/ Kill
  BY <1>1, <1>6 DEF Fails, Kill, MemoryTyped, PcTyped, DirLeft, run
<1>7. CASE Rebuild BY <1>1, <1>7 DEF Rebuild, Spawn, MemoryTyped, PcTyped, DirLeft, run
<1>8. CASE Begin \/ _mkoutpath
  BY <1>1, <1>8 DEF Begin, _mkoutpath, Spawn, MemoryTyped, PcTyped, DirLeft, run
<1>9. CASE Clean BY <1>1, <1>9 DEF Clean, MemoryTyped, PcTyped, DirLeft, run
<1>10. CASE Install BY <1>1, <1>10, DirsFacts DEF Install, Spawn, MemoryTyped, PcTyped, DirLeft, run
<1>11. CASE Cflags BY <1>1, <1>11 DEF Cflags, pcquery, MemoryTyped, PcTyped, DirLeft, run
<1>12. ASSUME NEW s \in Sources, Compile(s) PROVE MemoryTyped' /\ PcTyped' /\ DirLeft'
  BY <1>1, <1>12 DEF Compile, Spawn, MemoryTyped, PcTyped, DirLeft, run
<1>13. CASE Libs BY <1>1, <1>13 DEF Libs, pcquery, MemoryTyped, PcTyped, DirLeft, run
<1>14. CASE Link BY <1>1, <1>14 DEF Link, Spawn, MemoryTyped, PcTyped, DirLeft, run
<1>15. CASE NextDir
  <2>1. dirs # <<>> BY <1>1, <1>15 DEF NextDir, DirLeft
  <2>2. /\ dirs' \in Seq({"common"} \cup Parts) /\ (dirs \in Seq(Parts) => dirs' \in Seq(Parts))
        /\ (pc' = "cflags" => dirs' # <<>>) /\ pc' \in {"done", "cflags"} /\ UNCHANGED <<run, todo, flags>>
    BY <1>1, <1>15, <2>1, DirsFacts DEF NextDir
  <2> QED BY <1>1, <2>2 DEF MemoryTyped, PcTyped, DirLeft, run
<1>16. CASE Exit
  <2>1. <<>> \in Seq(Parts) /\ <<>> \in Seq({"common"} \cup Parts) BY EmptySeq
  <2> QED BY <1>1, <1>16, <2>1 DEF Exit, MemoryTyped, PcTyped, DirLeft
<1> QED BY <1>3, <1>4, <1>5, <1>6, <1>7, <1>8, <1>9, <1>10, <1>11, <1>12, <1>13, <1>14, <1>15, <1>16
     DEF Next, MakeSteps

\* What is started writes a file that make.c produces.
LEMMA ChildStep ==
  ASSUME Typed, Next
  PROVE  ChildKnown' /\ GhostsTyped'
<1>1. MemoryTyped /\ DirLeft /\ ChildKnown /\ GhostsTyped BY TypeParts DEF Typed
<1>2. ASSUME UNCHANGED child PROVE ChildKnown' BY <1>1, <1>2 DEF ChildKnown
<1>3. ASSUME child' = Nothing PROVE ChildKnown' BY <1>3 DEF ChildKnown
<1>4. ASSUME UNCHANGED <<since, missed>> PROVE GhostsTyped' BY <1>1, <1>4 DEF GhostsTyped
<1>5. ASSUME UNCHANGED since, missed' = {} PROVE GhostsTyped' BY <1>1, <1>5 DEF GhostsTyped
<1>6. ASSUME NEW f \in Written, Edit(f) PROVE ChildKnown' /\ GhostsTyped'
  <2>1. f \in Files BY FilesKnown
  <2>2. UNCHANGED child /\ since' \subseteq since \cup {f} /\ missed' \subseteq missed \cup {f}
    BY <1>6 DEF Edit
  <2> QED BY <1>1, <1>2, <2>1, <2>2 DEF GhostsTyped
<1>7. CASE Start BY <1>1, <1>2, <1>7 DEF Start, GhostsTyped
<1>8. CASE Bootstrap \/ Begin \/ Clean \/ Cflags \/ Libs \/ NextDir
  BY <1>2, <1>4, <1>8 DEF Bootstrap, Begin, Clean, Cflags, Libs, NextDir
<1>9. CASE Exit BY <1>1, <1>2, <1>9 DEF Exit, GhostsTyped
<1>10. CASE Succeeds \/ Fails \/ Kill BY <1>3, <1>5, <1>10 DEF Succeeds, Fails, Kill
<1>11. CASE Rebuild \/ _mkoutpath
  BY <1>2, <1>4, <1>5, <1>11, FilesKnown DEF Rebuild, _mkoutpath, Spawn, ChildKnown
<1>12. CASE Install
  <2>1. dirs # <<>> => Head(dirs) \in Parts BY <1>1, <1>12, DirsFacts DEF Install, DirLeft
  <2> QED BY <1>2, <1>4, <1>5, <1>12, <2>1, FilesKnown DEF Install, Spawn, ChildKnown
<1>13. ASSUME NEW s \in Sources, Compile(s) PROVE ChildKnown' /\ GhostsTyped'
  BY <1>2, <1>4, <1>5, <1>13, FilesKnown DEF Compile, Spawn, ChildKnown
<1>14. CASE Link
  <2>1. Head(dirs) \in Parts BY <1>1, <1>14, DirsFacts DEF Link, DirLeft
  <2> QED BY <1>2, <1>4, <1>5, <1>14, <2>1, FilesKnown DEF Link, Spawn, ChildKnown
<1> QED BY <1>6, <1>7, <1>8, <1>9, <1>10, <1>11, <1>12, <1>13, <1>14 DEF Next, MakeSteps

\* The types hold at first ...
LEMMA InitTyped == Init => Typed
<1> SUFFICES ASSUME Init PROVE Typed OBVIOUS
<1>1. FilesTyped BY DEF Init, FilesTyped
<1>2. BoundsTyped BY BuildAssumption DEF Init, BoundsTyped
<1>3. ChildKnown /\ GhostsTyped BY DEF Init, ChildKnown, GhostsTyped
<1>4. <<>> \in Seq(Parts) /\ <<>> \in Seq({"common"} \cup Parts) BY EmptySeq
<1>5. PcTyped /\ MemoryTyped /\ DirLeft BY <1>4 DEF Init, PcTyped, MemoryTyped, DirLeft
<1> QED BY <1>1, <1>2, <1>3, <1>5, TypeParts DEF Typed

\* ... and after every step.
LEMMA TypedStep == ASSUME Typed, [Next]_vars PROVE Typed'
<1>1. CASE Next
  <2>1. FilesTyped' /\ BoundsTyped' /\ ChildKnown' /\ GhostsTyped' /\ PcTyped' /\ MemoryTyped' /\ DirLeft'
    BY <1>1, ChildTyped, BoundsStep, ChildStep, MemoryStep
  <2>2. TypeOK'
    BY <2>1 DEF TypeOK, FilesTyped, BoundsTyped, ChildKnown, GhostsTyped, PcTyped, MemoryTyped
  <2> QED BY <2>1, <2>2 DEF Typed
<1>2. CASE UNCHANGED vars
  BY <1>2 DEF Typed, TypeOK, DirLeft, vars, files, run, bounds
<1> QED BY <1>1, <1>2

\* make.c's state has its type, whatever it is asked for.
THEOREM BuildTyped == Spec => []TypeOK
<1>1. Typed => TypeOK BY DEF Typed
<1> QED BY <1>1, InitTyped, TypedStep, PTL DEF Spec

-----------------------------------------------------------------------------
(* Dates and changes.                                                      *)

\* The clock is never behind a date; a file that exists is newer than a target
\* when it has changed since, but for what is hidden.
Dated ==
  /\ \A f \in Files : mtime[f] <= now
  /\ \A t \in Targets : \A f \in Files \ {t} :
       Exists(t) /\ Exists(f) => (mtime[t] < mtime[f] <=> f \in stale[t] \ hidden[t])

\* A file written now or later is not behind the clock, and shows or hides what changed.
LEMMA WriteDated ==
  ASSUME FilesTyped, Dated, NEW f \in Files, NEW time \in Nat, now <= time,
         NEW changes \in SUBSET Files, Date(f, time, changes)
  PROVE  Dated'
<1> USE DEF FilesTyped
<1>1. \A g \in Files : mtime'[g] = (IF g = f THEN time ELSE mtime[g]) BY DEF Date
<1>2. \A g \in Files : mtime[g] \in Nat /\ mtime[g] <= time BY DEF Dated
<1>3. \A g \in Files : mtime'[g] <= now' BY <1>1, <1>2 DEF Date
<1>4. ASSUME NEW t \in Targets, NEW g \in Files \ {t}, Exists(t)', Exists(g)'
      PROVE  mtime'[t] < mtime'[g] <=> g \in stale'[t] \ hidden'[t]
  <2>1. t \in Files BY FilesKnown
  <2>2. stale'[t] = (IF t = f THEN changes ELSE stale[t] \cup {f}) BY DEF Date
  <2>3. hidden'[t] = (IF t = f THEN changes
                     ELSE IF mtime[t] = time THEN hidden[t] \cup {f} ELSE hidden[t] \ {f})
    BY DEF Date
  <2>4. CASE t = f
    <3>1. mtime'[t] = time /\ mtime'[g] <= time BY <1>1, <1>2, <2>1, <2>4
    <3>2. mtime'[g] \in Nat BY <1>1, <1>2
    <3> QED BY <2>2, <2>3, <2>4, <3>1, <3>2
  <2>5. CASE t # f /\ g = f
    <3>1. mtime'[t] = mtime[t] /\ mtime'[g] = time BY <1>1, <2>1, <2>5
    <3>2. mtime[t] < time <=> mtime[t] # time BY <1>2, <2>1
    <3> QED BY <2>2, <2>3, <2>5, <3>1, <3>2
  <2>6. CASE t # f /\ g # f
    <3>1. mtime'[t] = mtime[t] /\ mtime'[g] = mtime[g] BY <1>1, <2>1, <2>6
    <3>2. Exists(t) /\ Exists(g) BY <1>4, <3>1 DEF Exists
    <3>3. mtime[t] < mtime[g] <=> g \in stale[t] \ hidden[t] BY <3>2 DEF Dated
    <3> QED BY <2>2, <2>3, <2>6, <3>1, <3>3
  <2> QED BY <2>4, <2>5, <2>6
<1> QED BY <1>3, <1>4 DEF Dated

\* Removing a file takes its date away, and with it what the date told.
LEMMA RemovedDated ==
  ASSUME FilesTyped, Dated, NEW f \in Files, Removed(f)
  PROVE  Dated'
<1> USE DEF FilesTyped
<1>1. \A g \in Files : mtime'[g] = (IF g = f THEN 0 ELSE mtime[g]) BY DEF Removed
<1>2. \A g \in Files : mtime'[g] <= now' BY <1>1 DEF Removed, Dated
<1>3. ASSUME NEW t \in Targets, NEW g \in Files \ {t}, Exists(t)', Exists(g)'
      PROVE  mtime'[t] < mtime'[g] <=> g \in stale'[t] \ hidden'[t]
  <2>1. t # f /\ g # f /\ t \in Files BY <1>1, <1>3, FilesKnown DEF Exists
  <2>2. mtime'[t] = mtime[t] /\ mtime'[g] = mtime[g] BY <1>1, <2>1
  <2> QED BY <1>3, <2>2 DEF Dated, Removed, Exists
<1> QED BY <1>2, <1>3 DEF Dated

\* Every step keeps the dates in order with what has changed ...
LEMMA DatedStep == ASSUME Typed, Dated, [Next]_vars PROVE Dated'
<1> USE DEF Typed, TypeOK
<1>1. FilesTyped BY DEF FilesTyped
<1>2. ASSUME UNCHANGED files PROVE Dated' BY <1>2 DEF Dated, Exists, files
<1>3. ASSUME NEW f \in Written, Edit(f) PROVE Dated'
  <2>1. \A time \in {now, now + 1} : time \in Nat /\ now <= time OBVIOUS
  <2> QED BY <1>1, <1>3, <2>1, WriteDated, FilesKnown DEF Edit, Write
<1>4. CASE Bootstrap
  <2>1. now + 1 \in Nat /\ now <= now + 1 OBVIOUS
  <2> QED BY <1>1, <1>4, <2>1, WriteDated, FilesKnown DEF Bootstrap, Write
<1>5. ASSUME Left PROVE Dated'
  <2>1. CASE child \in Targets /\ Removed(child) BY <1>1, <2>1, RemovedDated, FilesKnown
  <2>2. CASE child \in Objects \cup Binaries /\ Tear(child, now + 1)
    <3>1. now + 1 \in Nat /\ now <= now + 1 /\ child \in Files BY <2>2, FilesKnown DEF Targets
    <3> QED BY <1>1, <2>2, <3>1, WriteDated DEF Tear
  <2> QED BY <1>2, <1>5, <2>1, <2>2 DEF Left, Gone
<1>6. CASE Succeeds
  <2>1. CASE child \in Copies BY <1>6, <2>1, <1>2 DEF Succeeds
  <2>2. CASE child \notin Copies
    <3>1. child \in Targets BY <1>6, <2>2 DEF Succeeds
    <3>2. PICK time \in {now, now + 1} : Write(child, time, missed) BY <1>6, <2>2 DEF Succeeds
    <3>3. time \in Nat /\ now <= time BY <3>2
    <3> QED BY <1>1, <3>1, <3>2, <3>3, WriteDated, FilesKnown DEF Write
  <2> QED BY <2>1, <2>2
<1>7. CASE Fails \/ Kill BY <1>5, <1>7 DEF Fails, Kill, Left
<1>8. CASE Clean
  <2> DEFINE found == {f \in Objects \cup Binaries : Exists(f)}
  <2>1. CASE found # {} /\ Removed(CHOOSE f \in found : TRUE)
    <3>1. (CHOOSE f \in found : TRUE) \in Files BY <2>1, FilesKnown DEF Targets
    <3> HIDE DEF found
    <3> QED BY <1>1, <2>1, <3>1, RemovedDated
  <2> QED BY <1>2, <1>8, <2>1 DEF Clean
<1>9. CASE Start \/ Rebuild \/ Begin \/ _mkoutpath \/ Install \/ Cflags \/ Libs \/ Link \/ NextDir \/ Exit
  BY <1>2, <1>9 DEF Start, Rebuild, Begin, _mkoutpath, Install, Cflags, Libs, Link, NextDir, Exit
<1>10. ASSUME NEW s \in Sources, Compile(s) PROVE Dated'
  BY <1>2, <1>10 DEF Compile
<1>11. CASE UNCHANGED vars BY <1>2, <1>11 DEF vars
<1> QED BY <1>3, <1>4, <1>6, <1>7, <1>8, <1>9, <1>10, <1>11 DEF Next, MakeSteps

\* ... as they are at first.
LEMMA InitDated == Init => Dated
<1> SUFFICES ASSUME Init PROVE Dated OBVIOUS
<1>1. mtime = [f \in Files |-> IF f = Make THEN 2 ELSE IF f \in Written THEN 1 ELSE 0] /\ now = 2
  BY DEF Init
<1>2. \A t \in Targets : t \in Files /\ t \notin Written /\ stale[t] = {}
  BY FilesKnown DEF Init, Targets, Written, Objects, Binaries, ctoo, Binary, Make
<1>3. \A t \in Targets : Exists(t) => t = Make BY <1>1, <1>2 DEF Exists
<1>4. \A f \in Files : mtime[f] <= now BY <1>1
<1>5. \A t \in Targets : \A f \in Files \ {t} : Exists(t) => ~(mtime[t] < mtime[f])
  BY <1>1, <1>2, <1>3
<1> QED BY <1>2, <1>4, <1>5 DEF Dated

\* Then the dates tell what has changed, but for what is hidden.
LEMMA DatesTell == ASSUME Typed, Dated PROVE TimesTell
<1> USE DEF Typed, TypeOK
<1> SUFFICES ASSUME NEW t \in Targets, NEW f \in Files \ {t}, Exists(t), Exists(f),
                    Comparable(mtime[t], mtime[f])
             PROVE  fmdcmp(mtime[t], mtime[f]) < 0 <=> f \in stale[t] \ hidden[t]
  BY DEF TimesTell
<1>1. mtime[t] \in Nat /\ mtime[f] \in Nat BY FilesKnown
<1>2. fmdcmp(mtime[t], mtime[f]) < 0 <=> mtime[t] < mtime[f] BY <1>1, DatesCompare
<1> QED BY <1>2 DEF Dated

\* The dates that make looks at tell what has changed, for every clock and every
\* order of edits, failures and runs.
THEOREM DatesAreRight == Spec => []TimesTell
<1>1. Init => Typed /\ Dated BY InitTyped, InitDated
<1>2. Typed /\ Dated /\ [Next]_vars => (Typed /\ Dated)' BY TypedStep, DatedStep
<1> QED BY <1>1, <1>2, DatesTell, PTL DEF Spec

-----------------------------------------------------------------------------
(* Nothing is made twice.                                                  *)

\* A file is a source, a header, an object or a program, and only one of them.
LEMMA KindsDiffer ==
  /\ \A t \in Objects : t[2] = "o"
  /\ \A t \in Binaries \cup {Make} : t[2] = "binary"
  /\ \A t \in Binaries : t[1] \in Parts
  /\ \A t \in Copies : t[2] = "installed"
  /\ Make[1] = "make" /\ Make \notin Binaries
  BY DEF Objects, Binaries, Copies, Make, ctoo, Binary, Installed, Directories, Parts

\* What the user has written is there, and stays there.
WrittenThere == now > 0 /\ \A f \in Written : Exists(f)

\* The user has written the sources before make is run ...
LEMMA InitWritten == Init => WrittenThere
  BY FilesKnown DEF Init, WrittenThere, Exists

\* ... and no step of make takes them away.
LEMMA WrittenStep == ASSUME Typed, WrittenThere, [Next]_vars PROVE WrittenThere'
<1> USE DEF Typed, TypeOK
<1>1. ASSUME UNCHANGED files PROVE WrittenThere' BY <1>1 DEF WrittenThere, Exists, files
<1>2. ASSUME NEW f \in Files, NEW time \in {now, now + 1}, NEW changes, Date(f, time, changes)
      PROVE  WrittenThere'
  <2>1. time > 0 BY DEF WrittenThere
  <2>2. \A g \in Written : mtime'[g] = (IF g = f THEN time ELSE mtime[g])
    BY <1>2, FilesKnown DEF Date
  <2> QED BY <1>2, <2>1, <2>2 DEF WrittenThere, Exists, Date
<1>3. ASSUME NEW f \in Targets, Removed(f) PROVE WrittenThere'
  <2>1. f \notin Written
    BY KindsDiffer DEF Targets, Written, Objects, ctoo
  <2> QED BY <1>3, <2>1, FilesKnown DEF WrittenThere, Exists, Removed
<1>4. ASSUME NEW f \in Written, Edit(f) PROVE WrittenThere' BY <1>2, <1>4, FilesKnown DEF Edit, Write
<1>5. CASE Bootstrap BY <1>2, <1>5, FilesKnown DEF Bootstrap, Write
<1>6. ASSUME Left PROVE WrittenThere'
  BY <1>1, <1>2, <1>3, <1>6, FilesKnown DEF Left, Gone, Targets, Tear
<1>7. CASE Succeeds
  <2>1. CASE child \in Copies BY <1>1, <1>7, <2>1 DEF Succeeds
  <2>2. CASE child \notin Copies BY <1>2, <1>7, <2>2, FilesKnown DEF Succeeds, Write
  <2> QED BY <2>1, <2>2
<1>8. CASE Fails \/ Kill BY <1>6, <1>8 DEF Fails, Kill, Left
<1>9. CASE Clean
  <2> DEFINE found == {f \in Objects \cup Binaries : Exists(f)}
  <2>1. CASE found # {} /\ Removed(CHOOSE f \in found : TRUE)
    <3>1. (CHOOSE f \in found : TRUE) \in Targets BY <2>1 DEF Targets
    <3> HIDE DEF found
    <3> QED BY <1>3, <2>1, <3>1
  <2> QED BY <1>1, <1>9, <2>1 DEF Clean
<1>10. CASE Start \/ Rebuild \/ Begin \/ _mkoutpath \/ Install \/ Cflags \/ Libs \/ Link \/ NextDir \/ Exit
  BY <1>1, <1>10 DEF Start, Rebuild, Begin, _mkoutpath, Install, Cflags, Libs, Link, NextDir, Exit
<1>11. ASSUME NEW s \in Sources, Compile(s) PROVE WrittenThere'
  BY <1>1, <1>11 DEF Compile
<1>12. CASE UNCHANGED vars BY <1>1, <1>12 DEF vars
<1> QED BY <1>4, <1>5, <1>7, <1>8, <1>9, <1>10, <1>11, <1>12 DEF Next, MakeSteps

\* What foutdatedv compares a target with is what it is made of.
LEMMA OutdatedChanged ==
  ASSUME Typed, Dated, NEW t \in Targets, NEW deps \in SUBSET (Files \ {t}),
         \A d \in deps : Exists(d), Exists(t), AllComparable, foutdatedv(t, deps)
  PROVE  stale[t] \cap deps # {}
<1> USE DEF Typed, TypeOK
<1>1. PICK d \in deps : fmdcmp(mtime[t], mtime[d]) < 0 BY DEF foutdatedv
<1>2. mtime[t] \in Nat /\ mtime[d] \in Nat /\ Comparable(mtime[t], mtime[d])
  BY FilesKnown DEF AllComparable
<1>3. mtime[t] < mtime[d] BY <1>1, <1>2, DatesCompare
<1>4. Exists(d) OBVIOUS
<1>5. d \in stale[t] BY <1>3, <1>4 DEF Dated
<1> QED BY <1>5

\* A program is linked from the objects of its part and of src/common, and compared with
\* the former.
LEMMA BinaryInputs ==
  ASSUME NEW p \in Parts
  PROVE  /\ Compared(Binary(p)) = {ctoo(s) : s \in {s \in Sources : Dir[s] = p}}
         /\ Inputs(Binary(p)) = Compared(Binary(p)) \cup Common
<1>1. Binary(p) \in Binaries /\ Binary(p) \notin Objects /\ Binary(p) # Make /\ Binary(p)[1] = p
  BY KindsDiffer DEF Binaries, Binary
<1>2. Inputs(Binary(p)) = {ctoo(s) : s \in {s \in Sources : Dir[s] = p}} \cup Common
  BY <1>1 DEF Inputs
<1>3. \A s, t \in Sources : ctoo(s) = ctoo(t) => s = t BY DEF ctoo
<1>4. p # "common" BY DEF Parts
<1>5. \A s \in Sources : Dir[s] = p => ctoo(s) \notin Common BY <1>3, <1>4 DEF Common
<1>6. Compared(Binary(p)) = {ctoo(s) : s \in {s \in Sources : Dir[s] = p}}
  BY <1>1, <1>2, <1>5 DEF Compared
<1> QED BY <1>2, <1>6

\* What make compares a target with is what the target is made of.
LEMMA DepsKnown ==
  /\ \A s \in Sources : /\ Compared(ctoo(s)) = Deps(s) /\ Deps(s) \subseteq Files \ {ctoo(s)}
                         /\ Deps(s) \subseteq Written
  /\ \A p \in Parts : /\ Own(p) \subseteq Compared(Binary(p)) /\ Own(p) \subseteq Files \ {Binary(p)}
                       /\ \A f \in Own(p) : Exists(f)
  /\ Compared(Make) = {<<"make", "c">>} /\ <<"make", "c">> \in Files \ {Make}
  /\ <<"make", "c">> \in Written
<1>1. ASSUME NEW s \in Sources
      PROVE  /\ Compared(ctoo(s)) = Deps(s) /\ Deps(s) \subseteq Files \ {ctoo(s)}
             /\ Deps(s) \subseteq Written
  <2>1. ctoo(s) \in Objects /\ ctoo(s) \notin Binaries /\ ctoo(s) # Make /\ ctoo(s)[1] = s
    BY KindsDiffer DEF Objects, ctoo
  <2>2. Compared(ctoo(s)) = Deps(s) BY <2>1 DEF Inputs, Compared
  <2>3. Deps(s) \subseteq Written BY DEF Deps, Written, Listed
  <2>4. ctoo(s) \notin Deps(s) BY DEF Deps, ctoo
  <2> QED BY <2>2, <2>3, <2>4, FilesKnown
<1>2. ASSUME NEW p \in Parts
      PROVE  /\ Own(p) \subseteq Compared(Binary(p)) /\ Own(p) \subseteq Files \ {Binary(p)}
             /\ \A f \in Own(p) : Exists(f)
  <2>1. Binary(p) \in Binaries /\ Binary(p) \notin Objects /\ Binary(p) # Make /\ Binary(p)[1] = p
    BY KindsDiffer DEF Binaries, Binary
  <2>2. Compared(Binary(p)) = {ctoo(s) : s \in {s \in Sources : Dir[s] = p}}
    BY BinaryInputs
  <2>3. Own(p) \subseteq Objects BY DEF Own, Objects
  <2>4. Own(p) \subseteq {ctoo(s) : s \in {s \in Sources : Dir[s] = p}} BY DEF Own
  <2>5. \A f \in Own(p) : Exists(f) BY DEF Own
  <2> QED BY <2>1, <2>2, <2>3, <2>4, <2>5, FilesKnown DEF Targets
<1>3. /\ Compared(Make) = {<<"make", "c">>} /\ <<"make", "c">> \in Files \ {Make}
      /\ <<"make", "c">> \in Written
  <2>1. Make \notin Objects /\ Make \notin Binaries BY KindsDiffer
  <2>2. <<"make", "c">> \in Written /\ <<"make", "c">> # Make BY DEF Written, Make
  <2> QED BY <2>1, <2>2, FilesKnown DEF Inputs, Compared
<1> QED BY <1>1, <1>2, <1>3

\* A step starts no process, or one for a target that is outdated.
LEMMA NothingTwiceStep ==
  ASSUME Typed, Dated, WrittenThere, [Next]_vars,
         child' \in Targets, child' # child, Exists(child'), AllComparable
  PROVE  stale[child'] \cap Compared(child') # {}
<1>1. MemoryTyped /\ DirLeft BY TypeParts DEF Typed
<1>2. Nothing \notin Targets /\ \A t \in Copies : t \notin Targets
  BY KindsDiffer DEF Targets, Nothing
<1>3. CASE Rebuild
  <2>1. child' = Make /\ foutdatedv(Make, {<<"make", "c">>}) BY <1>3 DEF Rebuild, Spawn
  <2> QED BY <2>1, DepsKnown, OutdatedChanged DEF WrittenThere
<1>4. ASSUME NEW s \in Sources, Compile(s) PROVE stale[child'] \cap Compared(child') # {}
  <2>1. child' = ctoo(s) /\ foutdatedv(ctoo(s), Deps(s)) BY <1>4 DEF Compile, Spawn
  <2> QED BY <2>1, DepsKnown, OutdatedChanged DEF WrittenThere
<1>5. CASE Link
  <2> DEFINE p == Head(dirs)
  <2>1. p \in Parts BY <1>1, <1>5, DirsFacts DEF Link, DirLeft
  <2>2. child' = Binary(p) /\ foutdatedv(Binary(p), Own(p)) BY <1>5 DEF Link, Spawn
  <2> HIDE DEF p
  <2> QED BY <2>1, <2>2, DepsKnown, OutdatedChanged
<1>6. CASE Install
  <2>1. dirs # <<>> /\ child' = Installed(Head(dirs)) BY <1>6 DEF Install, Spawn
  <2>2. Head(dirs) \in Parts BY <1>1, <1>6, <2>1, DirsFacts DEF Install, DirLeft
  <2> QED BY <1>2, <2>1, <2>2, FilesKnown
<1>7. CASE Succeeds \/ Fails \/ Kill \/ _mkoutpath
  BY <1>2, <1>7, FilesKnown DEF Succeeds, Fails, Kill, _mkoutpath, Spawn
<1>8. CASE Bootstrap \/ Start \/ Begin \/ Clean \/ Cflags \/ Libs \/ NextDir \/ Exit \/ UNCHANGED vars
  BY <1>8 DEF Bootstrap, Start, Begin, Clean, Cflags, Libs, NextDir, Exit, vars
<1>9. ASSUME NEW f \in Written, Edit(f) PROVE child' = child BY <1>9 DEF Edit
<1> QED BY <1>3, <1>4, <1>5, <1>6, <1>7, <1>8, <1>9 DEF Next, MakeSteps

\* No target is made again unless what it is made of has changed.
THEOREM NothingIsMadeTwice == Spec => NothingTwice
<1>1. Init => Typed /\ Dated /\ WrittenThere BY InitTyped, InitDated, InitWritten
<1>2. Typed /\ Dated /\ WrittenThere /\ [Next]_vars => (Typed /\ Dated /\ WrittenThere)'
  BY TypedStep, DatedStep, WrittenStep
<1>3. Typed /\ Dated /\ WrittenThere /\ [Next]_vars =>
        [child' \in Targets /\ child' # child /\ Exists(child') /\ AllComparable =>
           stale[child'] \cap Compared(child') # {}]_vars
  BY NothingTwiceStep
<1> QED BY <1>1, <1>2, <1>3, PTL DEF Spec, NothingTwice

-----------------------------------------------------------------------------
(* A build that ends well leaves nothing old.                              *)

\* Where make is says which process it can have started, and what is left to
\* be looked at.
ChildPlace ==
  /\ pc \in {"off", "begin", "clean", "outpath", "cflags", "link", "done", "failed"} => child = Nothing
  /\ pc = "rebuild" => child \in {Nothing, Make}
  /\ pc = "compile" =>
       /\ \A s \in todo : Dir[s] = Head(dirs)
       /\ child # Nothing => \E s \in Sources : child = ctoo(s) /\ Dir[s] = Head(dirs)
  /\ pc = "next" => child \in {Nothing, Binary(Head(dirs))}
  /\ pc = "clean" => goal = "clean"

\* The object of s, and the program of part p, are what SuccessCurrent asks for.
Fresh(s) == Exists(ctoo(s)) /\ stale[ctoo(s)] \cap Deps(s) \subseteq hidden[ctoo(s)] \cup since
Linked(p) == Exists(Binary(p)) /\ stale[Binary(p)] \cap Compared(Binary(p)) \subseteq hidden[Binary(p)]

Compiled(d) == \A s \in Sources : Dir[s] = d => Fresh(s)
Finished(d) == Compiled(d) /\ (d \in Parts => Linked(d))

\* Directory d is still to be built.
Waiting(d) == \E i \in 1 .. Len(dirs) : dirs[i] = d
Asked == {"common"} \cup {parts[i] : i \in 1 .. Len(parts)}

\* A build without -k that nothing has ended yet.
Running ==
  /\ goal = "build" /\ ~kflag
  /\ pc \in {"rebuild", "begin", "cflags", "compile", "link", "next", "done"}

DirsDiffer == \A i, j \in 1 .. Len(dirs) : dirs[i] = dirs[j] => i = j

\* Each directory is waiting or finished, and none is built twice, so that what is
\* finished stays as it is; of the one that is being built, what has been looked at is
\* fresh, or being made.
OnCourse ==
  /\ DirsDiffer
  /\ \A d \in Asked : Waiting(d) \/ Finished(d)
  /\ pc = "compile" =>
       \A s \in Sources : Dir[s] = Head(dirs) /\ s \notin todo /\ child # ctoo(s) => Fresh(s)
  /\ pc \in {"link", "next"} => Compiled(Head(dirs))
  /\ pc = "next" /\ Head(dirs) \in Parts /\ child = Nothing => Linked(Head(dirs))
  /\ pc = "done" => dirs = <<>>

Course == Running => OnCourse

\* An object and a program are not the same file, and each has its own name.
LEMMA NamesDiffer ==
  /\ \A s, t \in Sources : ctoo(s) = ctoo(t) => s = t
  /\ \A s \in Sources : \A d : ctoo(s) # Binary(d) /\ ctoo(s) # Make /\ ctoo(s) # Nothing
  /\ \A d, e : Binary(d) = Binary(e) => d = e
  /\ \A d : Binary(d) # Nothing
  /\ \A p \in Parts : Binary(p) # Make
  /\ \A s \in Sources : ctoo(s) \in Objects /\ ctoo(s) \notin Copies
  /\ \A p \in Parts : Binary(p) \in Binaries /\ Binary(p) \notin Copies
  /\ Make # Nothing
  BY DEF ctoo, Binary, Make, Nothing, Objects, Binaries, Copies, Installed, Directories, Parts

\* The child that runs is the one make started at the place where it is.
LEMMA ChildPlaceStep == ASSUME Typed, ChildPlace, [Next]_vars PROVE ChildPlace'
<1> USE DEF ChildPlace
<1>1. ASSUME NEW f \in Written, Edit(f) PROVE ChildPlace' BY <1>1 DEF Edit, run
<1>2. CASE Bootstrap \/ Start \/ Kill BY <1>2 DEF Bootstrap, Start, Kill, run
<1>3. CASE Rebuild \/ Begin \/ Clean \/ _mkoutpath
  BY <1>3 DEF Rebuild, Begin, Clean, _mkoutpath, Spawn, run
<1>4. CASE Install \/ Cflags \/ Libs
  BY <1>4 DEF Install, Cflags, Libs, pcquery, Spawn, run
<1>5. ASSUME NEW s \in Sources, Compile(s) PROVE ChildPlace'
  BY <1>5 DEF Compile, Spawn, run
<1>6. CASE Link BY <1>6 DEF Link, Spawn, run
<1>7. CASE NextDir BY <1>7 DEF NextDir, run
<1>8. CASE Exit \/ Succeeds \/ Fails BY <1>8 DEF Exit, Succeeds, Fails, run
<1>9. CASE UNCHANGED vars BY <1>9 DEF vars, run
<1> QED BY <1>1, <1>2, <1>3, <1>4, <1>5, <1>6, <1>7, <1>8, <1>9 DEF Next, MakeSteps

\* A file that is written leaves a fresh object fresh, unless it is that object, or one of
\* the files it is made of and not changed by the user in this run.
LEMMA WriteFresh ==
  ASSUME FilesTyped, NEW s \in Sources, Fresh(s), NEW f \in Files, f # ctoo(s), NEW time,
         NEW changes, Write(f, time, changes), since \subseteq since', f \in Deps(s) => f \in since'
  PROVE  Fresh(s)'
<1>1. ctoo(s) \in Targets /\ ctoo(s) \in Files BY FilesKnown
<1>2. Exists(ctoo(s))' BY <1>1 DEF FilesTyped, Write, Date, Exists, Fresh
<1>3. stale'[ctoo(s)] = stale[ctoo(s)] \cup {f} /\ hidden[ctoo(s)] \ {f} \subseteq hidden'[ctoo(s)]
  BY <1>1 DEF Write, Date
<1>4. Deps(s)' = Deps(s) BY DEF Deps
<1> QED BY <1>2, <1>3, <1>4 DEF Fresh

\* A program stays linked when a file is written that it is not made of.
LEMMA WriteLinked ==
  ASSUME FilesTyped, NEW p \in Parts, Linked(p), NEW f \in Files, f # Binary(p),
         f \notin Compared(Binary(p)), NEW time, NEW changes, Write(f, time, changes)
  PROVE  Linked(p)'
<1>1. Binary(p) \in Targets /\ Binary(p) \in Files BY FilesKnown
<1>2. Exists(Binary(p))' BY <1>1 DEF FilesTyped, Write, Date, Exists, Linked
<1>3. stale'[Binary(p)] = stale[Binary(p)] \cup {f} /\ hidden[Binary(p)] \ {f} \subseteq hidden'[Binary(p)]
  BY <1>1 DEF Write, Date
<1>4. Compared(Binary(p))' = Compared(Binary(p)) BY DEF Compared, Inputs, Common, Deps
<1> QED BY <1>2, <1>3, <1>4 DEF Linked

\* What has just been written is up to date.
LEMMA WrittenFresh ==
  ASSUME FilesTyped, NEW time \in Nat, time > 0, NEW changes
  PROVE  /\ \A s \in Sources : Write(ctoo(s), time, changes) => Fresh(s)'
         /\ \A p \in Parts : Write(Binary(p), time, changes) => Linked(p)'
<1>1. ASSUME NEW s \in Sources, Write(ctoo(s), time, changes) PROVE Fresh(s)'
  <2>1. ctoo(s) \in Targets /\ ctoo(s) \in Files BY FilesKnown
  <2> QED BY <1>1, <2>1 DEF FilesTyped, Write, Date, Exists, Fresh
<1>2. ASSUME NEW p \in Parts, Write(Binary(p), time, changes) PROVE Linked(p)'
  <2>1. Binary(p) \in Targets /\ Binary(p) \in Files BY FilesKnown
  <2> QED BY <1>2, <2>1 DEF FilesTyped, Write, Date, Exists, Linked
<1> QED BY <1>1, <1>2

\* A target that foutdatedv finds up to date is.
LEMMA UpToDate ==
  ASSUME Typed, Dated, AllComparable, NEW t \in Targets, NEW deps \in SUBSET (Files \ {t}),
         \A d \in deps : Exists(d), ~foutdatedv(t, deps)
  PROVE  Exists(t) /\ stale[t] \cap deps \subseteq hidden[t]
<1> USE DEF Typed, TypeOK
<1>1. Exists(t) BY DEF foutdatedv
<1>2. ASSUME NEW d \in deps PROVE d \notin stale[t] \ hidden[t]
  <2>1. Exists(d) /\ ~(fmdcmp(mtime[t], mtime[d]) < 0) BY DEF foutdatedv
  <2>2. mtime[t] \in Nat /\ mtime[d] \in Nat /\ Comparable(mtime[t], mtime[d])
    BY <1>1, <2>1, FilesKnown DEF AllComparable
  <2>3. ~(mtime[t] < mtime[d]) BY <2>1, <2>2, DatesCompare
  <2> QED BY <1>1, <2>1, <2>3 DEF Dated
<1> QED BY <1>1, <1>2

\* A step that spoils nothing and takes make no further.
LEMMA CourseKept ==
  ASSUME Course, UNCHANGED <<pc, run, dirs, todo, child>>,
         Running => \A s \in Sources : Fresh(s) => Fresh(s)',
         Running => \A p \in Parts : Linked(p) => Linked(p)'
  PROVE  Course'
<1> SUFFICES ASSUME Running' PROVE OnCourse' BY DEF Course
<1>1. Running /\ OnCourse BY DEF Running, Course, run
<1>2. Asked' = Asked /\ DirsDiffer' = DirsDiffer /\ \A d : Waiting(d)' = Waiting(d)
  BY DEF Asked, Waiting, DirsDiffer, run
<1>3. \A s \in Sources : Fresh(s) => Fresh(s)' BY <1>1
<1>4. \A p \in Parts : Linked(p) => Linked(p)' BY <1>1
<1>5. \A d : Compiled(d) => Compiled(d)' BY <1>3 DEF Compiled
<1>6. \A d : Finished(d) => Finished(d)' BY <1>4, <1>5 DEF Finished
<1>7. UNCHANGED <<pc, dirs, todo, child>> OBVIOUS
<1>8. \A d \in Asked' : Waiting(d)' \/ Finished(d)' BY <1>1, <1>2, <1>6 DEF OnCourse
<1>9. pc' = "compile" =>
        \A s \in Sources : Dir[s] = Head(dirs') /\ s \notin todo' /\ child' # ctoo(s) => Fresh(s)'
  BY <1>1, <1>3, <1>7 DEF OnCourse
<1> HIDE DEF Fresh, Linked, Compiled, Finished
<1> QED BY <1>1, <1>2, <1>4, <1>5, <1>7, <1>8, <1>9 DEF OnCourse

\* When no file changes, what is fresh and linked stays so.
LEMMA FilesKept ==
  ASSUME UNCHANGED files, since \subseteq since'
  PROVE  /\ \A s \in Sources : Fresh(s) => Fresh(s)'
         /\ \A p \in Parts : Linked(p) => Linked(p)'
         /\ \A d : Compiled(d) => Compiled(d)'
         /\ \A d : Finished(d) => Finished(d)'
<1>1. \A s \in Sources : Fresh(s) => Fresh(s)' BY DEF Fresh, files, Exists, Deps
<1>2. \A p \in Parts : Linked(p) => Linked(p)' BY DEF Linked, files, Exists, Compared, Inputs, Common, Deps
<1>3. \A d : Compiled(d) => Compiled(d)' BY <1>1 DEF Compiled
<1>4. \A d : Finished(d) => Finished(d)' BY <1>2, <1>3 DEF Finished
<1> QED BY <1>1, <1>2, <1>3, <1>4

\* What the user writes is no object and no program, nor linked into one.
LEMMA WrittenNoInput ==
  ASSUME NEW f \in Written
  PROVE  /\ \A s \in Sources : f # ctoo(s)
         /\ \A p \in Parts : f # Binary(p) /\ f \notin Compared(Binary(p))
<1>1. f[2] \in {"c", "h"} BY DEF Written
<1>2. \A s \in Sources : ctoo(s)[2] = "o" BY DEF ctoo
<1>3. \A p \in Parts : Binary(p)[2] = "binary" BY DEF Binary
<1> QED BY <1>1, <1>2, <1>3, BinaryInputs

\* The user edits a file while make is at work.
LEMMA EditCourse == ASSUME Typed, Course, NEW f \in Written, Edit(f) PROVE Course'
<1>1. FilesTyped BY TypeParts DEF Typed
<1>2. f \in Files BY FilesKnown
<1>3. PICK time \in {now, now + 1} : Write(f, time, {}) BY DEF Edit
<1>4. since \subseteq since' /\ (Running => f \in since') BY DEF Edit, Running
<1>5. ASSUME Running, NEW s \in Sources, Fresh(s) PROVE Fresh(s)'
  BY <1>1, <1>2, <1>3, <1>4, <1>5, WrittenNoInput, WriteFresh
<1>6. ASSUME Running, NEW p \in Parts, Linked(p) PROVE Linked(p)'
  BY <1>1, <1>2, <1>3, <1>6, WrittenNoInput, WriteLinked
<1>7. UNCHANGED <<pc, run, dirs, todo, child>> BY DEF Edit
<1> QED BY <1>5, <1>6, <1>7, CourseKept

\* A build begins with every directory waiting.
LEMMA StartCourse == ASSUME Typed, Start PROVE Course'
<1> SUFFICES ASSUME Running' PROVE OnCourse' BY DEF Course
<1>1. goal' = "build" /\ pc' = "rebuild" BY DEF Running, Start
<1>2. parts' \in {<<"ewctl">>, <<"ewd">>, <<"ewctl", "ewd">>} /\ dirs' = <<"common">> \o parts'
  BY <1>1 DEF Start
<1>3. Len(dirs') = 1 + Len(parts') /\ Len(parts') \in Nat /\ dirs'[1] = "common"
      /\ \A i \in 1 .. Len(parts') : dirs'[1 + i] = parts'[i]
  BY <1>2
<1>4. DirsDiffer'
  <2>1. \A i, j \in 1 .. Len(parts') : parts'[i] # "common" /\ (parts'[i] = parts'[j] => i = j)
    BY <1>2
  <2>2. SUFFICES ASSUME NEW i \in 1 .. Len(dirs'), NEW j \in 1 .. Len(dirs'), dirs'[i] = dirs'[j]
                 PROVE  i = j
    BY DEF DirsDiffer
  <2>3. \A k \in 1 .. Len(dirs') : k # 1 => k - 1 \in 1 .. Len(parts') /\ dirs'[k] = parts'[k - 1]
    <3> TAKE k \in 1 .. Len(dirs')
    <3> HAVE k # 1
    <3>1. k - 1 \in 1 .. Len(parts') /\ 1 + (k - 1) = k BY <1>3
    <3> QED BY <1>3, <3>1
  <2>4. i \in Int /\ j \in Int BY <1>3
  <2>5. CASE i = 1 /\ j # 1 BY <1>3, <2>1, <2>2, <2>3, <2>5
  <2>6. CASE i # 1 /\ j = 1 BY <1>3, <2>1, <2>2, <2>3, <2>6
  <2>7. CASE i # 1 /\ j # 1
    <3>1. parts'[i - 1] = parts'[j - 1] BY <2>2, <2>3, <2>7
    <3>2. i - 1 = j - 1 BY <2>1, <2>3, <2>7, <3>1
    <3> QED BY <2>4, <3>2
  <2> QED BY <2>5, <2>6, <2>7
<1>5. \A d \in Asked' : Waiting(d)'
  <2>1. 1 \in 1 .. Len(dirs') /\ \A i \in 1 .. Len(parts') : 1 + i \in 1 .. Len(dirs') BY <1>3
  <2> QED BY <1>3, <2>1 DEF Asked, Waiting
<1> QED BY <1>1, <1>4, <1>5 DEF OnCourse

\* _rebuild makes make, or goes on.
LEMMA RebuildCourse == ASSUME Typed, Course, Rebuild PROVE Course'
<1> SUFFICES ASSUME Running' PROVE OnCourse' BY DEF Course
<1>1. Running /\ UNCHANGED <<files, run, dirs, since>> BY DEF Rebuild, Running, run
<1>2. OnCourse /\ pc' \in {"rebuild", "begin"} BY <1>1 DEF Course, Rebuild, Spawn
<1>3. Asked' = Asked /\ DirsDiffer' = DirsDiffer /\ \A d : Waiting(d)' = Waiting(d)
  BY <1>1 DEF Asked, Waiting, DirsDiffer, run
<1>4. \A d : Finished(d) => Finished(d)' BY <1>1, FilesKept
<1> QED BY <1>2, <1>3, <1>4 DEF OnCourse

\* The first steps of a run, and asking for flags, make nothing.
LEMMA BeginCourse == ASSUME Typed, Course, Begin \/ Cflags PROVE Course'
<1> SUFFICES ASSUME Running' PROVE OnCourse' BY DEF Course
<1>1. Running /\ UNCHANGED <<files, run, dirs, since>>
      /\ (pc' = "cflags" \/ (pc' = "compile" /\ todo' = {s \in Sources : Dir[s] = Head(dirs)}))
  BY DEF Begin, Cflags, pcquery, Running, run
<1>2. OnCourse BY <1>1 DEF Course
<1>3. Asked' = Asked /\ DirsDiffer' = DirsDiffer /\ \A d : Waiting(d)' = Waiting(d)
  BY <1>1 DEF Asked, Waiting, DirsDiffer, run
<1>4. \A d : Finished(d) => Finished(d)' BY <1>1, FilesKept
<1>5. pc' = "compile" => \A s \in Sources : Dir[s] = Head(dirs') => s \in todo' BY <1>1
<1> QED BY <1>1, <1>2, <1>3, <1>4, <1>5 DEF OnCourse

\* build_common, build_ewctl and build_ewd start a compiler for what is outdated ...
LEMMA CompileCourse ==
  ASSUME Typed, Dated, WrittenThere, AllComparable, ChildPlace, Course, NEW s \in Sources, Compile(s)
  PROVE  Course'
<1> SUFFICES ASSUME Running' PROVE OnCourse' BY DEF Course
<1>1. Running /\ UNCHANGED <<files, run, dirs, since>> BY DEF Compile, Spawn, Running, run
<1>2. OnCourse /\ pc = "compile" /\ pc' = "compile" /\ child = Nothing /\ todo' = todo \ {s}
  BY <1>1 DEF Course, Compile, Spawn
<1>3. Asked' = Asked /\ DirsDiffer' = DirsDiffer /\ \A d : Waiting(d)' = Waiting(d)
  BY <1>1 DEF Asked, Waiting, DirsDiffer, run
<1>4. (\A d : Finished(d) => Finished(d)') /\ (\A t \in Sources : Fresh(t) => Fresh(t)')
  BY <1>1, FilesKept
<1>5. ASSUME NEW t \in Sources, Dir[t] = Head(dirs), t \notin todo', child' # ctoo(t)
      PROVE  Fresh(t)
  <2>1. CASE t # s
    <3>1. t \notin todo /\ child # ctoo(t) BY <1>2, <1>5, <2>1, NamesDiffer
    <3> QED BY <1>2, <1>5, <3>1 DEF OnCourse
  <2>2. CASE t = s
    <3>1. ~foutdatedv(ctoo(s), Deps(s)) BY <1>5, <2>2 DEF Compile, Spawn
    <3>2. ctoo(s) \in Targets /\ Deps(s) \subseteq Files \ {ctoo(s)} /\ \A d \in Deps(s) : Exists(d)
      BY FilesKnown, DepsKnown DEF WrittenThere
    <3>3. Exists(ctoo(s)) /\ stale[ctoo(s)] \cap Deps(s) \subseteq hidden[ctoo(s)]
      BY <3>1, <3>2, UpToDate
    <3> QED BY <2>2, <3>3 DEF Fresh
  <2> QED BY <2>1, <2>2
<1>6. dirs' = dirs BY <1>1
<1> QED BY <1>2, <1>3, <1>4, <1>5, <1>6 DEF OnCourse

\* ... ask for libraries when all sources of the directory are compiled ...
LEMMA LibsCourse == ASSUME Typed, Course, Libs PROVE Course'
<1> SUFFICES ASSUME Running' PROVE OnCourse' BY DEF Course
<1>1. Running /\ UNCHANGED <<files, run, dirs, since, child, todo>>
  BY DEF Libs, pcquery, Running, run
<1>2. OnCourse /\ pc = "compile" /\ pc' \in {"next", "link"} /\ child = Nothing /\ todo = {}
      /\ (pc' = "next" => Head(dirs) = "common")
  BY <1>1 DEF Course, Libs, pcquery, Running
<1>3. Asked' = Asked /\ DirsDiffer' = DirsDiffer /\ \A d : Waiting(d)' = Waiting(d)
  BY <1>1 DEF Asked, Waiting, DirsDiffer, run
<1>4. (\A d : Finished(d) => Finished(d)') /\ (\A d : Compiled(d) => Compiled(d)')
  BY <1>1, FilesKept
<1>5. Compiled(Head(dirs)) BY <1>2, NamesDiffer DEF OnCourse, Compiled
<1>6. dirs' = dirs /\ "common" \notin Parts BY <1>1 DEF Parts
<1> QED BY <1>2, <1>3, <1>4, <1>5, <1>6 DEF OnCourse

\* ... link what is outdated ...
LEMMA LinkCourse ==
  ASSUME Typed, Dated, AllComparable, ChildPlace, Course, Link
  PROVE  Course'
<1> SUFFICES ASSUME Running' PROVE OnCourse' BY DEF Course
<1> DEFINE p == Head(dirs)
<1>1. Running /\ UNCHANGED <<files, run, dirs, since>> BY DEF Link, Spawn, Running, run
<1>2. OnCourse /\ pc = "link" /\ pc' = "next" /\ child = Nothing
  BY <1>1 DEF Course, Link, Spawn, ChildPlace
<1>3. Asked' = Asked /\ DirsDiffer' = DirsDiffer /\ \A d : Waiting(d)' = Waiting(d)
  BY <1>1 DEF Asked, Waiting, DirsDiffer, run
<1>4. /\ \A d : Finished(d) => Finished(d)'
      /\ \A d : Compiled(d) => Compiled(d)'
      /\ \A q \in Parts : Linked(q) => Linked(q)'
  BY <1>1, FilesKept
<1>5. Compiled(p) BY <1>2 DEF OnCourse
<1>6. p \in Parts
  <2>1. MemoryTyped /\ DirLeft BY TypeParts DEF Typed
  <2> QED BY <1>2, <2>1, DirsFacts DEF DirLeft
<1>7. ASSUME child' = Nothing PROVE Linked(p)
  <2>1. ~foutdatedv(Binary(p), Own(p)) BY <1>7, NamesDiffer DEF Link, Spawn
  <2>2. Binary(p) \in Targets /\ Own(p) \subseteq Files \ {Binary(p)} /\ \A f \in Own(p) : Exists(f)
    BY <1>6, FilesKnown, DepsKnown
  <2>3. Own(p) = Compared(Binary(p)) BY <1>5, <1>6, BinaryInputs DEF Own, Compiled, Fresh
  <2> HIDE DEF p
  <2>4. Exists(Binary(p)) /\ stale[Binary(p)] \cap Own(p) \subseteq hidden[Binary(p)]
    BY <2>1, <2>2, UpToDate
  <2> QED BY <2>3, <2>4 DEF Linked
<1>8. dirs' = dirs BY <1>1
<1> QED BY <1>2, <1>3, <1>4, <1>5, <1>6, <1>7, <1>8 DEF OnCourse

\* ... and leave the directory, which is then finished.
LEMMA NextDirCourse == ASSUME Typed, Course, NextDir PROVE Course'
<1> SUFFICES ASSUME Running' PROVE OnCourse' BY DEF Course
<1>1. Running /\ UNCHANGED <<files, run, since, child, todo>> BY DEF NextDir, Running, run
<1>2. /\ OnCourse /\ pc = "next" /\ pc' \in {"done", "cflags"} /\ child = Nothing
      /\ dirs' = Tail(dirs) /\ (pc' = "done" => Len(dirs) = 1)
  BY <1>1 DEF Course, NextDir
<1>3. MemoryTyped /\ dirs # <<>> BY <1>2, TypeParts DEF Typed, DirLeft
<1>4. dirs \in Seq({"common"} \cup Parts) BY <1>3 DEF MemoryTyped
<1>5. /\ Len(dirs) \in Nat /\ Len(dirs) > 0 /\ Len(dirs') = Len(dirs) - 1
      /\ \A i \in 1 .. Len(dirs') : dirs'[i] = dirs[i + 1]
      /\ dirs[1] = Head(dirs)
  BY <1>2, <1>3, <1>4, HeadTailProperties, LenProperties, EmptySeq
<1>6. pc' = "done" => dirs' = <<>>
  <2>1. dirs' \in Seq({"common"} \cup Parts) BY <1>2, <1>3, <1>4, HeadTailProperties
  <2> QED BY <1>2, <1>5, <2>1, EmptySeq
<1>7. DirsDiffer'
  <2> SUFFICES ASSUME NEW i \in 1 .. Len(dirs'), NEW j \in 1 .. Len(dirs'), dirs'[i] = dirs'[j]
               PROVE  i = j
    BY DEF DirsDiffer
  <2>1. i + 1 \in 1 .. Len(dirs) /\ j + 1 \in 1 .. Len(dirs) /\ dirs[i + 1] = dirs[j + 1] BY <1>5
  <2>2. i + 1 = j + 1 BY <1>2, <2>1 DEF OnCourse, DirsDiffer
  <2> QED BY <1>5, <2>2
<1>8. \A d : Waiting(d) => d = Head(dirs) \/ Waiting(d)'
  <2> SUFFICES ASSUME NEW d, Waiting(d), d # Head(dirs) PROVE Waiting(d)'
    OBVIOUS
  <2>4. PICK i \in 1 .. Len(dirs) : dirs[i] = d BY DEF Waiting
  <2>1. i # 1 BY <1>5, <2>4
  <2>2. i - 1 \in 1 .. Len(dirs') /\ (i - 1) + 1 = i BY <1>5, <2>1
  <2>3. dirs'[i - 1] = d BY <1>5, <2>2, <2>4
  <2> QED BY <2>2, <2>3 DEF Waiting
<1>9. Finished(Head(dirs)) BY <1>2 DEF OnCourse, Finished
<1>10. (\A d : Finished(d) => Finished(d)') /\ Asked' = Asked
  BY <1>1, FilesKept DEF Asked, run
<1> QED BY <1>2, <1>6, <1>7, <1>8, <1>9, <1>10 DEF OnCourse

\* A process that make started has written its file: another than those that are
\* finished or fresh, and one that none of them is made of.
LEMMA SucceedsCourse ==
  ASSUME Typed, WrittenThere, ChildPlace, Course, Succeeds
  PROVE  Course'
<1> SUFFICES ASSUME Running PROVE Course'
  <2>1. Running' => Running BY DEF Succeeds, Running, run
  <2> QED BY <2>1 DEF Course
<1>1. FilesTyped /\ MemoryTyped /\ DirLeft BY TypeParts DEF Typed
<1>2. OnCourse /\ UNCHANGED <<pc, run, dirs, todo, since>> /\ child' = Nothing
  BY DEF Course, Succeeds
<1>3. Asked' = Asked /\ DirsDiffer' = DirsDiffer /\ \A d : Waiting(d)' = Waiting(d)
  BY <1>2 DEF Asked, Waiting, DirsDiffer, run
<1>4. pc \in {"rebuild", "compile", "next"} BY DEF Running, ChildPlace, Succeeds
<1>5. dirs # <<>> BY <1>1, <1>4 DEF DirLeft, Running
<1>6. Head(dirs) \in {"common"} \cup Parts BY <1>1, <1>5, DirsFacts
<1>7. Waiting(Head(dirs))
  <2>1. dirs \in Seq({"common"} \cup Parts) BY <1>1 DEF MemoryTyped
  <2>2. Len(dirs) \in Nat /\ Len(dirs) # 0 BY <1>5, <2>1, LenProperties, EmptySeq
  <2>3. 1 \in 1 .. Len(dirs) /\ dirs[1] = Head(dirs) BY <2>2
  <2> QED BY <2>3 DEF Waiting
<1>8. child # Nothing BY DEF Succeeds
<1>9. ASSUME child \in Targets \ Copies
      PROVE \E time \in Nat : time > 0 /\ Write(child, time, missed)
  <2>1. PICK time \in {now, now + 1} : Write(child, time, missed) BY <1>9 DEF Succeeds
  <2>2. time \in Nat /\ time > 0 BY <1>1 DEF FilesTyped, WrittenThere
  <2> QED BY <2>1, <2>2
<1>10. \A s \in Sources : ctoo(s) \notin Deps(s) /\ \A t \in Sources : ctoo(t) \notin Deps(s)
  BY DepsKnown, WrittenNoInput
<1>11. CASE pc = "rebuild"
  <2>1. child = Make BY <1>8, <1>11 DEF ChildPlace
  <2>2. Make \in Targets \ Copies /\ Make \in Files BY FilesKnown, KindsDiffer
  <2>3. PICK time \in Nat : time > 0 /\ Write(Make, time, missed) BY <1>9, <2>1, <2>2
  <2>4. ASSUME NEW s \in Sources, Fresh(s) PROVE Fresh(s)'
    <3>1. Make # ctoo(s) /\ Make \notin Deps(s)
      BY NamesDiffer, DepsKnown, FilesKnown DEF Deps, Make
    <3> QED BY <1>1, <1>2, <2>2, <2>3, <2>4, <3>1, WriteFresh
  <2>5. ASSUME NEW p \in Parts, Linked(p) PROVE Linked(p)'
    <3>1. Make # Binary(p) /\ Make \notin Compared(Binary(p))
      BY NamesDiffer, BinaryInputs
    <3> QED BY <1>1, <2>2, <2>3, <2>5, <3>1, WriteLinked
  <2>6. \A d : Finished(d) => Finished(d)' BY <2>4, <2>5 DEF Finished, Compiled
  <2>7. OnCourse' BY <1>2, <1>3, <1>11, <2>6 DEF OnCourse
  <2> QED BY <2>7 DEF Course
<1>12. CASE pc = "compile"
  <2>1. PICK t \in Sources : child = ctoo(t) /\ Dir[t] = Head(dirs) BY <1>8, <1>12 DEF ChildPlace
  <2>2. ctoo(t) \in Targets \ Copies /\ ctoo(t) \in Files BY FilesKnown, NamesDiffer
  <2>3. PICK time \in Nat : time > 0 /\ Write(ctoo(t), time, missed) BY <1>9, <2>1, <2>2
  <2>4. ASSUME NEW s \in Sources, s # t, Fresh(s) PROVE Fresh(s)'
    <3>1. ctoo(t) # ctoo(s) /\ ctoo(t) \notin Deps(s) BY <1>10, <2>4, NamesDiffer
    <3> QED BY <1>1, <1>2, <2>2, <2>3, <2>4, <3>1, WriteFresh
  <2>5. Fresh(t)' BY <1>1, <2>3, WrittenFresh
  <2>6. ASSUME NEW p \in Parts, p # Head(dirs), Linked(p) PROVE Linked(p)'
    <3>1. ctoo(t) # Binary(p) /\ ctoo(t) \notin Compared(Binary(p))
      BY <2>1, <2>6, NamesDiffer, BinaryInputs
    <3> QED BY <1>1, <2>2, <2>3, <2>6, <3>1, WriteLinked
  <2>7. ASSUME NEW d, d # Head(dirs), Finished(d) PROVE Finished(d)'
    BY <2>1, <2>4, <2>6, <2>7 DEF Finished, Compiled
  <2>8. \A d \in Asked' : Waiting(d)' \/ Finished(d)' BY <1>2, <1>3, <1>7, <2>7 DEF OnCourse
  <2>9. ASSUME NEW s \in Sources, Dir[s] = Head(dirs), s \notin todo PROVE Fresh(s)'
    <3>1. CASE s = t BY <2>5, <3>1
    <3>2. CASE s # t
      <4>1. child # ctoo(s) BY <2>1, <3>2, NamesDiffer
      <4> QED BY <1>2, <1>12, <2>4, <2>9, <3>2, <4>1 DEF OnCourse
    <3> QED BY <3>1, <3>2
  <2>10. OnCourse' BY <1>2, <1>3, <1>12, <2>8, <2>9 DEF OnCourse
  <2> QED BY <2>10 DEF Course
<1>13. CASE pc = "next"
  <2> DEFINE p == Head(dirs)
  <2>1. child = Binary(p) BY <1>8, <1>13 DEF ChildPlace
  <2>2. p \in Parts
    <3>1. Binary("common") \notin Targets \cup Copies \cup {Nothing}
      BY DEF Targets, Copies, Nothing, Objects, Binaries, Make, Binary, ctoo, Installed, Directories, Parts
    <3>2. child \in Targets \cup Copies \cup {Nothing} BY TypeParts DEF Typed, ChildKnown
    <3> QED BY <1>6, <2>1, <3>1, <3>2
  <2>3. Binary(p) \in Targets \ Copies /\ Binary(p) \in Files BY <2>2, FilesKnown, NamesDiffer
  <2>4. PICK time \in Nat : time > 0 /\ Write(Binary(p), time, missed) BY <1>9, <2>1, <2>3
  <2>5. ASSUME NEW s \in Sources, Fresh(s) PROVE Fresh(s)'
    <3>1. Binary(p) # ctoo(s) /\ Binary(p) \notin Deps(s)
      BY <2>2, NamesDiffer, DepsKnown, WrittenNoInput
    <3> HIDE DEF p
    <3> QED BY <1>1, <1>2, <2>3, <2>4, <2>5, <3>1, WriteFresh
  <2>6. ASSUME NEW q \in Parts, Linked(q) PROVE Linked(q)'
    <3> HIDE DEF p
    <3>1. CASE q = p BY <1>1, <2>4, <3>1, WrittenFresh
    <3>2. CASE q # p
      <4>1. Binary(p) # Binary(q) /\ Binary(p) \notin Compared(Binary(q))
        BY <2>2, <3>2, NamesDiffer, BinaryInputs
      <4> QED BY <1>1, <2>3, <2>4, <2>6, <4>1, WriteLinked
    <3> QED BY <3>1, <3>2
  <2>7. \A q \in Parts : q = p => Linked(q)'
    <3> HIDE DEF p
    <3> QED BY <1>1, <2>4, WrittenFresh
  <2>8. (\A d : Finished(d) => Finished(d)') /\ (\A d : Compiled(d) => Compiled(d)')
    BY <2>5, <2>6 DEF Finished, Compiled
  <2>9. Compiled(Head(dirs))' /\ Linked(Head(dirs))'
    <3>1. PICK q \in Parts : q = p BY <2>2
    <3>2. Compiled(q)' /\ Linked(q)' BY <1>2, <1>13, <2>7, <2>8, <3>1 DEF OnCourse
    <3>3. Head(dirs') = q BY <1>2, <3>1
    <3> QED BY <3>2, <3>3
  <2>10. OnCourse' BY <1>2, <1>3, <1>13, <2>8, <2>9 DEF OnCourse
  <2> QED BY <2>10 DEF Course
<1> QED BY <1>4, <1>11, <1>12, <1>13

\* Every step keeps what has been made in this run made of what was there.
LEMMA CourseStep ==
  ASSUME Typed, Dated, WrittenThere, AllComparable, ChildPlace, Course, [Next]_vars
  PROVE  Course'
<1>1. ASSUME NEW f \in Written, Edit(f) PROVE Course' BY <1>1, EditCourse
<1>2. CASE Bootstrap \/ Kill \/ Exit BY <1>2 DEF Bootstrap, Kill, Exit, Course, Running
<1>3. CASE Start BY <1>3, StartCourse
<1>4. CASE Rebuild BY <1>4, RebuildCourse
<1>5. CASE Begin \/ Cflags BY <1>5, BeginCourse
<1>6. CASE Clean \/ _mkoutpath \/ Install
  <2>1. goal' # "build" BY <1>6 DEF Clean, _mkoutpath, Install, run, Typed, DirLeft, ChildPlace
  <2> QED BY <2>1 DEF Course, Running
<1>7. ASSUME NEW s \in Sources, Compile(s) PROVE Course' BY <1>7, CompileCourse
<1>8. CASE Libs BY <1>8, LibsCourse
<1>9. CASE Link BY <1>9, LinkCourse
<1>10. CASE NextDir BY <1>10, NextDirCourse
<1>11. CASE Succeeds BY <1>11, SucceedsCourse
<1>12. CASE Fails
  <2>1. Running' => pc' # "failed" /\ ~kflag BY <1>12 DEF Running, Fails, run
  <2>2. ~Running' BY <1>12, <2>1 DEF Fails
  <2> QED BY <2>2 DEF Course
<1>13. CASE UNCHANGED vars
  BY <1>13, FilesKept, CourseKept DEF vars
<1> QED BY <1>1, <1>2, <1>3, <1>4, <1>5, <1>6, <1>7, <1>8, <1>9, <1>10, <1>11, <1>12, <1>13
     DEF Next, MakeSteps

\* A file that has changed since t was made, and of which dates show it, is newer than t.
LEMMA ShownNewer ==
  ASSUME Typed, Dated, NEW t \in Targets, NEW f \in Files \ {t}, NEW g \in Files \ {t},
         Exists(t), Exists(f), Exists(g), f \in stale[t] \ hidden[t], g \notin stale[t] \ hidden[t]
  PROVE  mtime[g] < mtime[f]
<1>1. mtime[t] \in Nat /\ mtime[f] \in Nat /\ mtime[g] \in Nat
  BY FilesKnown DEF Typed, TypeOK
<1>2. mtime[t] < mtime[f] /\ ~(mtime[t] < mtime[g]) BY DEF Dated
<1> QED BY <1>1, <1>2

\* When the last directory is finished, every part is.
LEMMA CourseEnds == ASSUME Typed, Dated, Course PROVE SuccessCurrent
<1> SUFFICES ASSUME pc = "done", goal = "build", ~kflag, NEW i \in 1 .. Len(parts)
             PROVE  Current(parts[i])
  BY DEF SuccessCurrent
<1>1. OnCourse BY DEF Course, Running
<1>2. \A d : ~Waiting(d)
  <2>1. dirs = <<>> BY <1>1 DEF OnCourse
  <2> QED BY <2>1 DEF Waiting
<1>3. PICK p \in Parts : p = parts[i] BY ElementOfSeq DEF Typed, TypeOK
<1>4. Compiled("common") /\ Compiled(p) /\ Linked(p)
  BY <1>1, <1>2, <1>3 DEF OnCourse, Asked, Finished
<1>5. /\ \A o \in Inputs(Binary(p)) : \E s \in Sources : o = ctoo(s) /\ Dir[s] \in {"common", p}
      /\ Inputs(Binary(p)) = Compared(Binary(p)) \cup Common
  BY BinaryInputs DEF Common
<1>6. Binary(p) \in Targets /\ hidden[Binary(p)] \subseteq Files
      /\ hidden[Binary(p)] \subseteq Unseen(Binary(p))
  BY FilesKnown DEF Unseen, Typed, TypeOK
<1>7. ASSUME NEW o \in Inputs(Binary(p))
      PROVE  /\ Exists(o) /\ stale[o] \cap Inputs(o) \subseteq Unseen(o) \cup since
             /\ o \in Files \ {Binary(p)}
  <2>1. PICK s \in Sources : o = ctoo(s) /\ Dir[s] \in {"common", p} BY <1>5
  <2>2. Fresh(s) BY <1>4, <2>1 DEF Compiled
  <2>3. Inputs(o) = Deps(s)
    <3>1. o \notin Binaries BY <2>1, KindsDiffer DEF Objects, ctoo
    <3> QED BY <2>1, <3>1, DepsKnown DEF Compared
  <2>4. o \in Targets /\ o \in Files /\ o # Binary(p) BY <2>1, FilesKnown, NamesDiffer
  <2>5. hidden[o] \subseteq Unseen(o) BY <2>4 DEF Unseen, Typed, TypeOK
  <2> QED BY <2>1, <2>2, <2>3, <2>4, <2>5 DEF Fresh
<1>8. Exists(Binary(p)) /\ \A x \in Compared(Binary(p)) : x \notin stale[Binary(p)] \ hidden[Binary(p)]
  BY <1>4 DEF Linked
<1>9. ASSUME NEW o \in Inputs(Binary(p)), o \in stale[Binary(p)] \ Unseen(Binary(p))
      PROVE  o \in Common /\ \A x \in Compared(Binary(p)) : mtime[x] < mtime[o]
  <2>1. o \in stale[Binary(p)] \ hidden[Binary(p)] BY <1>6, <1>9
  <2>2. o \in Common BY <1>5, <1>8, <2>1
  <2>3. ASSUME NEW x \in Compared(Binary(p)) PROVE mtime[x] < mtime[o]
    <3>1. x \in Inputs(Binary(p)) BY <1>5
    <3> QED BY <1>6, <1>7, <1>8, <2>1, <3>1, ShownNewer
  <2> QED BY <2>2, <2>3
<1>10. Current(p) BY <1>7, <1>8, <1>9 DEF Current
<1> QED BY <1>3, <1>10

\* A build without -k that ends well leaves every object made of the sources and listed
\* headers as they were when it began, and every program linked again if an object of its
\* part is newer, whatever the runs before it have left: up to what Unseen and Common except,
\* and as long as the dates of the files are less seconds apart than fit into an int.
THEOREM SuccessIsCurrent == Spec /\ []AllComparable => []SuccessCurrent
<1> DEFINE I == Typed /\ Dated /\ WrittenThere /\ ChildPlace /\ Course
<1>1. Init => I
  <2>1. Init => ChildPlace /\ Course BY DEF Init, ChildPlace, Course, Running
  <2> QED BY <2>1, InitTyped, InitDated, InitWritten
<1>2. I /\ AllComparable /\ [Next]_vars => I'
  BY TypedStep, DatedStep, WrittenStep, ChildPlaceStep, CourseStep
<1>3. I => SuccessCurrent BY CourseEnds
<1> QED BY <1>1, <1>2, <1>3, PTL DEF Spec

-----------------------------------------------------------------------------
(* The questions to pkg-config.                                            *)

Words == Seq(Characters)

\* Two texts, one after the other: under a name of its own, to be reasoned about as one thing.
Joined(x, y) == x \o y

\* Where make is, where the child is, and who can write to the pipe.
Together ==
  /\ qpc \in {"start", "ask", "close", "read", "wait", "result", "done", "dead"}
  /\ cpc \in {"none", "forked", "writing", "ended"}
  /\ cpc = "none" <=> qpc \in {"start", "ask", "result", "done", "dead"}
  /\ writers = {w \in {"make", "child"} : IF w = "make" THEN qpc = "close"
                                          ELSE cpc \in {"forked", "writing"}}

\* What has been read, what is in the pipe and what is left are the answer; a child
\* that ended well has nothing left, and make has read to the end before it looks at
\* how the child ended.
Flow ==
  /\ said \in Words /\ left \in Words /\ pipe \in Words /\ buf \in Words
  /\ cpc = "forked" => buf = <<>> /\ pipe = <<>>
  /\ cpc = "writing" \/ (cpc = "ended" /\ status = 0) => Joined(buf, Joined(pipe, left)) = said
  /\ cpc = "ended" /\ status = 0 => left = <<>>
  /\ qpc = "wait" => pipe = <<>> /\ cpc = "ended"
  /\ qpc \in {"start", "ask", "result", "done", "dead"} => pipe = <<>>
  /\ qpc = "result" /\ status = 0 => buf = said

\* At first nothing has been asked and nothing answered.
LEMMA InitAsked == Init_query => Together /\ Flow
<1>1. <<>> \in Words BY EmptySeq DEF Words
<1> QED BY <1>1 DEF Init_query, Together, Flow

\* Child and parent keep in step: who holds which end of the pipe, and who waits.
LEMMA TogetherStep == ASSUME Together, [Next_query]_vars_query PROVE Together'
<1> USE DEF Together
<1>1. CASE binexists \/ strvfree BY <1>1 DEF binexists, strvfree, die, child_vars
<1>2. CASE cmdexecb BY <1>2 DEF cmdexecb, die
<1>3. CASE close_write \/ read BY <1>3 DEF close_write, read, child_vars
<1>4. CASE cmdwait BY <1>4 DEF cmdwait
<1>5. CASE pcquery_returns BY <1>5 DEF pcquery_returns, die, child_vars
<1>6. CASE execvp \/ Write_pipe BY <1>6 DEF execvp, Write_pipe, parent
<1>7. ASSUME NEW s \in {0, 1, 256}, Ends(s) PROVE Together' BY <1>7 DEF Ends, parent
<1>8. CASE UNCHANGED vars_query BY <1>8 DEF vars_query, parent, child_vars
<1> QED BY <1>1, <1>2, <1>3, <1>4, <1>5, <1>6, <1>7, <1>8 DEF Next_query, ParentSteps, ChildSteps, Signalled

\* Texts are put together in any order.
LEMMA JoinedTexts ==
  ASSUME NEW a \in Words, NEW b \in Words
  PROVE  Joined(a, b) \in Words /\ \A c \in Words : Joined(Joined(a, b), c) = Joined(a, Joined(b, c))
<1>1. Joined(a, b) \in Words BY ConcatProperties DEF Words, Joined
<1>2. ASSUME NEW c \in Words PROVE Joined(Joined(a, b), c) = Joined(a, Joined(b, c))
  BY <1>2, ConcatAssociative, SMT DEF Words, Joined
<1> QED BY <1>1, <1>2

\* The empty text changes nothing about a text it is joined to.
LEMMA NothingJoined ==
  ASSUME NEW a \in Words
  PROVE  /\ <<>> \in Words /\ Joined(a, <<>>) = a /\ Joined(<<>>, a) = a
  BY EmptySeq, ConcatEmptySeq DEF Words, Joined

\* A text that is cut in two is the same text.
LEMMA Cut ==
  ASSUME NEW p \in Words, NEW n \in 0 .. Len(p)
  PROVE  /\ SubSeq(p, 1, n) \in Words /\ SubSeq(p, n + 1, Len(p)) \in Words
         /\ Joined(SubSeq(p, 1, n), SubSeq(p, n + 1, Len(p))) = p
<1>1. Len(p) \in Nat BY LenProperties DEF Words
<1>2. SubSeq(p, 1, n) \o SubSeq(p, n + 1, Len(p)) = SubSeq(p, 1, Len(p))
  <2>1. 1 \in 1 .. Len(p) + 1 /\ n \in (1 - 1) .. Len(p) /\ Len(p) \in n .. Len(p)
    BY <1>1
  <2> QED BY <2>1, ConcatAdjacentSubSeq DEF Words
<1>3. SubSeq(p, 1, Len(p)) = p BY SubSeqFull DEF Words
<1>4. \A i \in 1 .. Len(p) : p[i] \in Characters BY ElementOfSeq DEF Words
<1>5. (\A i \in 1 .. n : p[i] \in Characters) /\ n \in Int BY <1>1, <1>4
<1>6. (\A i \in n + 1 .. Len(p) : p[i] \in Characters) /\ n + 1 \in Int /\ Len(p) \in Int
  BY <1>1, <1>4
<1>7. SubSeq(p, 1, n) \in Words BY <1>5, SubSeqProperties DEF Words
<1>8. SubSeq(p, n + 1, Len(p)) \in Words BY <1>6, SubSeqProperties DEF Words
<1> QED BY <1>2, <1>3, <1>7, <1>8 DEF Joined

\* What is cut off one text and put at the end of another is not lost.
LEMMA Moved ==
  ASSUME NEW b \in Words, NEW c \in Words, NEW d \in Words, NEW text \in Words
  PROVE  Joined(Joined(b, c), Joined(d, text)) = Joined(b, Joined(Joined(c, d), text))
  BY JoinedTexts, SMT

\* A block that is read goes from the front of the pipe to the end of what has been read.
LEMMA ReadMoves ==
  ASSUME Flow, read
  PROVE  /\ buf' \in Words /\ pipe' \in Words
         /\ Joined(buf', Joined(pipe', left)) = Joined(buf, Joined(pipe, left))
         /\ pipe = <<>> => pipe' = <<>>
<1>1. pipe \in Words /\ buf \in Words /\ left \in Words BY DEF Flow
<1>2. Len(pipe) \in Nat BY <1>1, LenProperties DEF Words
<1>3. PICK n \in 0 .. Len(pipe) :
        buf' = Joined(buf, SubSeq(pipe, 1, n)) /\ pipe' = SubSeq(pipe, n + 1, Len(pipe))
  <2> DEFINE k == IF Len(pipe) < Blksize THEN Len(pipe) ELSE Blksize
  <2>1. k \in 0 .. Len(pipe) BY <1>2, QueryAssumption DEF QueryAssumption
  <2>2. buf' = Joined(buf, SubSeq(pipe, 1, k)) /\ pipe' = SubSeq(pipe, k + 1, Len(pipe))
    BY DEF read, Joined
  <2> HIDE DEF k
  <2> QED BY <2>1, <2>2
<1>4. PICK c \in Words : c = SubSeq(pipe, 1, n) BY <1>1, Cut
<1>5. PICK d \in Words : d = SubSeq(pipe, n + 1, Len(pipe)) BY <1>1, Cut
<1>6. Joined(c, d) = pipe BY <1>1, <1>4, <1>5, Cut
<1>7. buf' = Joined(buf, c) /\ pipe' = d BY <1>3, <1>4, <1>5
<1>8. buf' \in Words /\ pipe' \in Words BY <1>1, <1>7, JoinedTexts
<1>9. Joined(Joined(buf, c), Joined(d, left)) = Joined(buf, Joined(Joined(c, d), left))
  BY <1>1, Moved, SMT
<1>10. pipe = <<>> => pipe' = <<>>
  <2> SUFFICES ASSUME pipe = <<>> PROVE pipe' = <<>> OBVIOUS
  <2>1. Len(pipe) = 0 OBVIOUS
  <2>2. Len(pipe) < n + 1 /\ n + 1 \in Int /\ Len(pipe) \in Int BY <1>3, <2>1
  <2> QED BY <1>3, <2>2, SubSeqEmpty
<1> QED BY <1>6, <1>7, <1>8, <1>9, <1>10

\* What was read, what is in the pipe and what is left stay one answer.
LEMMA FlowStep == ASSUME Together, Flow, [Next_query]_vars_query PROVE Flow'
<1> USE DEF Together
<1>1. CASE binexists \/ strvfree BY <1>1 DEF Flow, binexists, strvfree, die, child_vars
<1>2. CASE cmdexecb
  <2>1. <<>> \in Words BY EmptySeq DEF Words
  <2> QED BY <1>2, <2>1 DEF Flow, cmdexecb, die
<1>3. CASE close_write BY <1>3 DEF Flow, close_write, child_vars
<1>4. CASE read
  <2>1. UNCHANGED <<cpc, status, said, left>> /\ qpc = "read"
        /\ qpc' = (IF pipe = <<>> THEN "wait" ELSE "read") /\ (pipe = <<>> => writers = {})
    BY <1>4 DEF read, child_vars
  <2>2. buf' \in Words /\ pipe' \in Words /\ (pipe = <<>> => pipe' = <<>>)
        /\ Joined(buf', Joined(pipe', left)) = Joined(buf, Joined(pipe, left))
    BY <1>4, ReadMoves
  <2>4. pipe = <<>> => cpc = "ended" BY <2>1
  <2>5. cpc # "forked" BY <2>4 DEF Flow
  <2> QED BY <2>1, <2>2, <2>4, <2>5 DEF Flow
<1>5. CASE cmdwait
  <2>1. status = 0 => buf = said
    <3>1. buf \in Words BY DEF Flow
    <3>2. status = 0 => Joined(buf, Joined(<<>>, <<>>)) = said BY <1>5 DEF Flow, cmdwait
    <3>3. Joined(<<>>, <<>>) = <<>> /\ Joined(buf, <<>>) = buf BY <3>1, NothingJoined
    <3> QED BY <3>2, <3>3
  <2> QED BY <1>5, <2>1 DEF Flow, cmdwait
<1>6. CASE pcquery_returns BY <1>6 DEF Flow, pcquery_returns, die, child_vars
<1>7. CASE execvp
  <2>1. PICK text \in Texts : said' = text /\ left' = text BY <1>7 DEF execvp
  <2>2. text \in Words BY QueryAssumption DEF QueryAssumption, Words
  <2>3. Joined(<<>>, Joined(<<>>, text)) = text BY <2>2, NothingJoined
  <2> QED BY <1>7, <2>1, <2>2, <2>3 DEF Flow, execvp, parent
<1>8. CASE Write_pipe
  <2>1. left # <<>> /\ left \in Words /\ pipe \in Words BY <1>8 DEF Flow, Write_pipe
  <2>2. Head(left) \in Characters /\ Tail(left) \in Words BY <2>1, HeadTailProperties DEF Words
  <2>3. <<Head(left)>> \o Tail(left) = left
    <3>1. 1 \in 1 .. Len(left) /\ Len(left) \in 1 .. Len(left)
      <4>1. Len(left) \in Nat /\ Len(left) # 0 BY <2>1, LenProperties, EmptySeq DEF Words
      <4> QED BY <4>1
    <3>2. SubSeq(left, 1, Len(left)) = <<left[1]>> \o SubSeq(left, 1 + 1, Len(left))
      BY <2>1, <3>1, SubSeqRecursiveFirst DEF Words
    <3>3. SubSeq(left, 1, Len(left)) = left BY <2>1, SubSeqFull DEF Words
    <3>4. Tail(left) = SubSeq(left, 2, Len(left)) BY <2>1, TailIsSubSeq DEF Words
    <3> QED BY <3>2, <3>3, <3>4
  <2>4. Append(pipe, Head(left)) = pipe \o <<Head(left)>> /\ Append(pipe, Head(left)) \in Words
    BY <2>1, <2>2, AppendIsConcat, AppendProperties DEF Words
  <2>5. <<Head(left)>> \in Words BY <2>2 DEF Words
  <2>6. Joined(Joined(pipe, <<Head(left)>>), Tail(left)) = Joined(pipe, Joined(<<Head(left)>>, Tail(left)))
    BY <2>1, <2>2, <2>5, JoinedTexts, SMT
  <2>7. Joined(pipe', left') = Joined(pipe, left) BY <1>8, <2>3, <2>4, <2>6 DEF Write_pipe, Joined
  <2>8. pipe' \in Words /\ left' \in Words BY <1>8, <2>2, <2>4 DEF Write_pipe
  <2>9. cpc = "writing" /\ UNCHANGED <<qpc, cpc, buf, status, said>>
    BY <1>8 DEF Write_pipe, parent
  <2> QED BY <2>7, <2>8, <2>9 DEF Flow
<1>9. ASSUME NEW s \in {0, 1, 256}, Ends(s) PROVE Flow' BY <1>9 DEF Flow, Ends, parent
<1>10. CASE UNCHANGED vars_query BY <1>10 DEF Flow, vars_query, parent, child_vars
<1> QED BY <1>1, <1>2, <1>3, <1>4, <1>5, <1>6, <1>7, <1>8, <1>9, <1>10
     DEF Next_query, ParentSteps, ChildSteps, Signalled

\* pcquery takes the words of a whole answer or none, for whatever pkg-config answers,
\* however little the pipe holds and however the answer is cut into blocks.
THEOREM AnswersAreWhole == Spec_query => AnswerWhole
<1>1. Together /\ Flow /\ [Next_query]_vars_query => (Together /\ Flow)'
  BY TogetherStep, FlowStep
<1>2. Together /\ Flow /\ [Next_query]_vars_query =>
        [vec' # vec /\ qpc' = "ask" => status = 0 /\ vec' = vec \o wordexp(said)]_vars_query
  <2> SUFFICES ASSUME Flow, Next_query, vec' # vec, qpc' = "ask"
               PROVE  status = 0 /\ vec' = vec \o wordexp(said)
    OBVIOUS
  <2>1. pcquery_returns
    BY DEF Next_query, ParentSteps, ChildSteps, Signalled, binexists, cmdexecb, close_write, read, cmdwait,
           strvfree, execvp, Write_pipe, Ends, parent
  <2>2. status = 0 /\ vec' = vec \o wordexp(buf) /\ qpc = "result"
    BY <2>1 DEF pcquery_returns, die
  <2> QED BY <2>2 DEF Flow
<1> QED BY <1>1, <1>2, InitAsked, PTL DEF Spec_query, AnswerWhole
=============================================================================
