----------------------------- MODULE LayerProofs ------------------------------
(***************************************************************************)
(* Proofs about ewd and its layer surfaces: what is under way between the  *)
(* daemon and the compositor, at any time, for any number of outputs,      *)
(* wallpapers and configure events.                                        *)
(***************************************************************************)
EXTENDS LayerProperties, FiniteSetTheorems, TLAPS

-----------------------------------------------------------------------------
(***************************************************************************)
(* Requests by what they say, which the tables of the bindings decide.     *)
(* "unrole" destroys a layer surface, "destroy" a wl_surface and "unbind"  *)
(* the layer shell.                                                        *)
(***************************************************************************)
Word(r) ==
  IF r.kind = "layer" /\ Meaning(r).name = "destroy" THEN "unrole"
  ELSE IF r.kind = "shell" /\ Meaning(r).name = "destroy" THEN "unbind"
  ELSE Meaning(r).name

SurfaceWords == {"create", "attach", "commit", "destroy"}

\* What ewd says of wallpaper n, and all that it says.
Said(n) ==
  {Surface(n, word) : word \in SurfaceWords}
    \cup {zwlr_layer_shell_v1_get_layer_surface(n, BACKGROUND),
          zwlr_layer_surface_v1_set_exclusive_zone(n, -1),
          zwlr_layer_surface_v1_set_anchor(n, Anchors), zwlr_layer_surface_v1_destroy(n)}
    \cup {zwlr_layer_surface_v1_ack_configure(n, s) : s \in 1..serial}
Saids == UNION {Said(n) : n \in 1..made} \cup {zwlr_layer_shell_v1_destroy}

\* A request of the daemon means what the name of its binding says.
LEMMA Meanings ==
  ASSUME NEW n, NEW arg
  PROVE  /\ Meaning(zwlr_layer_shell_v1_get_layer_surface(n, arg)) = Message("get_layer_surface", 1)
         /\ Meaning(zwlr_layer_surface_v1_set_exclusive_zone(n, arg)) = Message("set_exclusive_zone", 1)
         /\ Meaning(zwlr_layer_surface_v1_set_anchor(n, arg)) = Message("set_anchor", 1)
         /\ Meaning(zwlr_layer_surface_v1_ack_configure(n, arg)) = Message("ack_configure", 1)
         /\ Meaning(zwlr_layer_surface_v1_destroy(n)) = Message("destroy", 1)
         /\ \A name \in SurfaceWords : Meaning(Surface(n, name)) = Message(name, 1)
<1>1. /\ shell_requests[1] = Message("get_layer_surface", 1)
      /\ surface_requests[2] = Message("set_anchor", 1)
      /\ surface_requests[3] = Message("set_exclusive_zone", 1)
      /\ surface_requests[7] = Message("ack_configure", 1)
      /\ surface_requests[8] = Message("destroy", 1)
  BY DEF shell_requests, surface_requests
<1>2. ASSUME NEW op, NEW a PROVE
      /\ Meaning(Request("shell", n, op, a)) = shell_requests[op + 1]
      /\ Meaning(Request("layer", n, op, a)) = surface_requests[op + 1]
  BY DEF Meaning, Request
<1>3. \A name \in SurfaceWords : Meaning(Surface(n, name)) = Message(name, 1)
  BY DEF Meaning, Surface, SurfaceWords
<1> QED BY <1>1, <1>2, <1>3 DEF zwlr_layer_shell_v1_get_layer_surface,
       zwlr_layer_surface_v1_set_exclusive_zone, zwlr_layer_surface_v1_set_anchor,
       zwlr_layer_surface_v1_ack_configure, zwlr_layer_surface_v1_destroy, ShellOpcode, LayerOpcode

\* The words of the requests of the daemon.
LEMMA Words ==
  ASSUME NEW n, NEW arg
  PROVE  /\ Word(zwlr_layer_shell_v1_get_layer_surface(n, arg)) = "get_layer_surface"
         /\ Word(zwlr_layer_surface_v1_set_exclusive_zone(n, arg)) = "set_exclusive_zone"
         /\ Word(zwlr_layer_surface_v1_set_anchor(n, arg)) = "set_anchor"
         /\ Word(zwlr_layer_surface_v1_ack_configure(n, arg)) = "ack_configure"
         /\ Word(zwlr_layer_surface_v1_destroy(n)) = "unrole"
         /\ \A name \in SurfaceWords : Word(Surface(n, name)) = name
<1>1. \A name, since : Message(name, since).name = name
  BY DEF Message
<1>2. ASSUME NEW op, NEW a PROVE
        Request("shell", n, op, a).kind = "shell" /\ Request("layer", n, op, a).kind = "layer"
  BY DEF Request
<1>5. ASSUME NEW name \in SurfaceWords PROVE Word(Surface(n, name)) = name
  <2>1. Surface(n, name).kind = "surface" BY DEF Surface
  <2> QED BY <1>1, <2>1, Meanings DEF Word
<1>6. Word(zwlr_layer_shell_v1_get_layer_surface(n, arg)) = "get_layer_surface"
  BY <1>1, Meanings DEF Word
<1>7. Word(zwlr_layer_surface_v1_set_exclusive_zone(n, arg)) = "set_exclusive_zone"
  BY <1>1, Meanings DEF Word
<1>8. Word(zwlr_layer_surface_v1_set_anchor(n, arg)) = "set_anchor"
  BY <1>1, Meanings DEF Word
<1>9. Word(zwlr_layer_surface_v1_ack_configure(n, arg)) = "ack_configure"
  BY <1>1, Meanings DEF Word
<1>10. Word(zwlr_layer_surface_v1_destroy(n)) = "unrole"
  <2>1. zwlr_layer_surface_v1_destroy(n).kind = "layer"
    BY <1>2 DEF zwlr_layer_surface_v1_destroy
  <2> QED BY <1>1, <2>1, Meanings DEF Word
<1> QED BY <1>5, <1>6, <1>7, <1>8, <1>9, <1>10

\* Whom they are about, and what they have with them.
LEMMA Fields ==
  ASSUME NEW n, NEW a
  PROVE  LET get == zwlr_layer_shell_v1_get_layer_surface(n, a)
             zone == zwlr_layer_surface_v1_set_exclusive_zone(n, a)
             anchor == zwlr_layer_surface_v1_set_anchor(n, a)
             ack == zwlr_layer_surface_v1_ack_configure(n, a)
             unrole == zwlr_layer_surface_v1_destroy(n)
         IN /\ get.n = n /\ get.arg = a /\ get.kind = "shell" /\ get.ver = lshell
            /\ zone.n = n /\ zone.arg = a /\ zone.kind = "layer" /\ zone.ver = lshell
            /\ anchor.n = n /\ anchor.arg = a /\ anchor.kind = "layer" /\ anchor.ver = lshell
            /\ ack.n = n /\ ack.arg = a /\ ack.kind = "layer" /\ ack.ver = lshell
            /\ unrole.n = n /\ unrole.kind = "layer" /\ unrole.ver = lshell
            /\ \A name : LET r == Surface(n, name) IN r.n = n /\ r.kind = "surface" /\ r.ver = 4
  BY DEF Request, Surface, zwlr_layer_shell_v1_get_layer_surface,
     zwlr_layer_surface_v1_set_exclusive_zone, zwlr_layer_surface_v1_set_anchor,
     zwlr_layer_surface_v1_ack_configure, zwlr_layer_surface_v1_destroy

Late(r) == Word(r) \in {"attach", "commit", "ack_configure", "unrole", "destroy"}

\* What may be said of wallpaper n.
LEMMA Sayable ==
  ASSUME NEW n, NEW r \in Said(n)
  PROVE  \/ \E name \in SurfaceWords : r = Surface(n, name)
         \/ r = zwlr_layer_shell_v1_get_layer_surface(n, BACKGROUND)
         \/ r = zwlr_layer_surface_v1_set_exclusive_zone(n, -1)
         \/ r = zwlr_layer_surface_v1_set_anchor(n, Anchors)
         \/ r = zwlr_layer_surface_v1_destroy(n)
         \/ \E s \in 1..serial : r = zwlr_layer_surface_v1_ack_configure(n, s)
  BY DEF Said

\* It is one of nine things.
LEMMA SaidWords ==
  ASSUME NEW n, NEW r \in Said(n)
  PROVE  /\ r.n = n
         /\ \/ Late(r)
            \/ Word(r) = "create"
            \/ Word(r) = "get_layer_surface" /\ r.arg = BACKGROUND
            \/ Word(r) = "set_exclusive_zone" /\ r.arg = -1
            \/ Word(r) = "set_anchor" /\ r.arg = Anchors
         /\ Word(r) = "ack_configure" => r.arg \in 1..serial
<1>1. CASE \E name \in SurfaceWords : r = Surface(n, name)
  BY <1>1, Words, Fields DEF Late, SurfaceWords
<1>2. CASE r = zwlr_layer_shell_v1_get_layer_surface(n, BACKGROUND)
  BY <1>2, Words, Fields DEF Late
<1>3. CASE r = zwlr_layer_surface_v1_set_exclusive_zone(n, -1)
  BY <1>3, Words, Fields DEF Late
<1>4. CASE r = zwlr_layer_surface_v1_set_anchor(n, Anchors)
  BY <1>4, Words, Fields DEF Late
<1>5. CASE r = zwlr_layer_surface_v1_destroy(n)
  BY <1>5, Words, Fields DEF Late
<1>6. CASE \E s \in 1..serial : r = zwlr_layer_surface_v1_ack_configure(n, s)
  BY <1>6, Words, Fields DEF Late
<1> QED BY <1>1, <1>2, <1>3, <1>4, <1>5, <1>6, Sayable

\* All edges.
LEMMA AllEdges == \A edge \in {TOP, BOTTOM, LEFT, RIGHT} : Edge(Anchors, edge)
<1>1. Anchors = 15
  BY DEF Anchors, TOP, BOTTOM, LEFT, RIGHT
<1>2. (15 \div 1) % 2 = 1 /\ (15 \div 2) % 2 = 1 /\ (15 \div 4) % 2 = 1 /\ (15 \div 8) % 2 = 1
  OBVIOUS
<1> QED BY <1>1, <1>2 DEF Edge, TOP, BOTTOM, LEFT, RIGHT

\* What the compositor makes of a request to a wl_surface, or to a layer surface or the
\* layer shell: faults is what is wrong with r, and v the wallpaper w after it.
SurfaceHeard(r, w, v, faults) ==
  /\ Word(r) = "create" => faults = {} /\ v = [w EXCEPT !.surface = "live"]
  /\ Word(r) = "attach" =>
       (w.surface = "live" => faults = {}) /\ v = [w EXCEPT !.attached = TRUE]
  /\ Word(r) = "commit" =>
       /\ w.surface = "live" /\ w.anchor = Anchors =>
            faults = IF w.attached /\ ~w.acked THEN {"unconfigured"} ELSE {}
       /\ v = [w EXCEPT !.begun = TRUE]
  /\ Word(r) = "destroy" =>
       /\ w.surface = "live" /\ w.role # "live" => faults = {}
       /\ v = [w EXCEPT !.surface = "dead"]

LayerHeard(r, w, v, faults) ==
  /\ Word(r) = "get_layer_surface" =>
       /\ w.surface = "live" /\ ~w.begun /\ ~w.attached => faults = {}
       /\ v = [w EXCEPT !.role = "live", !.layer = r.arg]
  /\ Word(r) = "set_exclusive_zone" =>
       (w.role = "live" => faults = {}) /\ v = [w EXCEPT !.zone = r.arg]
  /\ Word(r) = "set_anchor" =>
       (w.role = "live" => faults = {}) /\ v = [w EXCEPT !.anchor = r.arg]
  /\ Word(r) = "ack_configure" =>
       /\ w.role = "live" /\ r.arg \in w.open => faults = {}
       /\ v = [w EXCEPT !.acked = TRUE, !.open = {s \in w.open : s > r.arg}]
  /\ Word(r) = "unrole" =>
       (w.role = "live" => faults = {}) /\ v = [w EXCEPT !.role = "dead"]

Heard(r, w) == After(r, Meaning(r).name, w)

\* What a request to the wl_surface does, and what can be wrong with it ...
LEMMA SurfaceEffects ==
  ASSUME NEW n, NEW w, NEW r, NEW name \in SurfaceWords, r = Surface(n, name)
  PROVE  SurfaceHeard(r, w, Heard(r, w), Faults(r, Meaning(r).name, w))
<1> USE DEF SurfaceHeard, Heard
<1>1. Word(r) = name /\ Meaning(r).name = name /\ Meaning(r).since = 1
  BY Words, Meanings DEF Message
<1>2. r.kind = "surface" /\ r.ver = 4
  BY Fields
<1>3. CASE name = "create"
  BY <1>1, <1>2, <1>3 DEF Faults, After, Errors
<1>4. CASE name = "attach"
  BY <1>1, <1>2, <1>4 DEF Faults, After, Errors
<1>5. CASE name = "commit"
  <2>1. ASSUME w.surface = "live", w.anchor = Anchors
        PROVE  Faults(r, "commit", w) = IF w.attached /\ ~w.acked THEN {"unconfigured"} ELSE {}
    <3>1. ~\E edge \in {TOP, BOTTOM, LEFT, RIGHT} : ~Edge(w.anchor, edge)
      BY <2>1, AllEdges
    <3> QED BY <1>1, <1>2, <1>5, <2>1, <3>1 DEF Faults, Errors
  <2>2. After(r, "commit", w) = [w EXCEPT !.begun = TRUE]
    BY <1>1, <1>2, <1>5 DEF After
  <2> QED BY <1>1, <1>5, <2>1, <2>2
<1>6. CASE name = "destroy"
  BY <1>1, <1>2, <1>6 DEF Faults, After, Errors
<1> QED BY <1>1, <1>3, <1>4, <1>5, <1>6 DEF SurfaceWords

\* ... and a request to the layer surface or to the layer shell.
LEMMA LayerEffects ==
  ASSUME NEW n, NEW w, NEW r \in Said(n), lshell = 2, shell
  PROVE  LayerHeard(r, w, Heard(r, w), Faults(r, Meaning(r).name, w))
<1> USE DEF LayerHeard, Heard
<1>1. CASE \E name \in SurfaceWords : r = Surface(n, name)
  BY <1>1, Words DEF SurfaceWords
<1>2. CASE r = zwlr_layer_shell_v1_get_layer_surface(n, BACKGROUND)
  <2>1. /\ Word(r) = "get_layer_surface" /\ Meaning(r).name = "get_layer_surface"
        /\ Meaning(r).since = 1 /\ r.kind = "shell" /\ r.ver = 2
    BY <1>2, Words, Meanings, Fields DEF Message
  <2> QED BY <2>1 DEF Faults, After, Errors
<1>3. CASE r = zwlr_layer_surface_v1_set_exclusive_zone(n, -1)
  <2>1. /\ Word(r) = "set_exclusive_zone" /\ Meaning(r).name = "set_exclusive_zone"
        /\ Meaning(r).since = 1 /\ r.kind = "layer" /\ r.ver = 2
    BY <1>3, Words, Meanings, Fields DEF Message
  <2> QED BY <2>1 DEF Faults, After, Errors
<1>4. CASE r = zwlr_layer_surface_v1_set_anchor(n, Anchors)
  <2>1. /\ Word(r) = "set_anchor" /\ Meaning(r).name = "set_anchor"
        /\ Meaning(r).since = 1 /\ r.kind = "layer" /\ r.ver = 2
    BY <1>4, Words, Meanings, Fields DEF Message
  <2> QED BY <2>1 DEF Faults, After, Errors
<1>5. CASE r = zwlr_layer_surface_v1_destroy(n)
  <2>1. /\ Word(r) = "unrole" /\ Meaning(r).name = "destroy"
        /\ Meaning(r).since = 1 /\ r.kind = "layer" /\ r.ver = 2
    BY <1>5, Words, Meanings, Fields DEF Message
  <2> QED BY <2>1 DEF Faults, After, Errors
<1>6. CASE \E s \in 1..serial : r = zwlr_layer_surface_v1_ack_configure(n, s)
  <2>1. /\ Word(r) = "ack_configure" /\ Meaning(r).name = "ack_configure"
        /\ Meaning(r).since = 1 /\ r.kind = "layer" /\ r.ver = 2
    BY <1>6, Words, Meanings, Fields DEF Message
  <2> QED BY <2>1 DEF Faults, After, Errors
<1> QED BY <1>1, <1>2, <1>3, <1>4, <1>5, <1>6, Sayable

\* The request to destroy the layer shell is younger than the version of it.
LEMMA Unbind ==
  LET r == zwlr_layer_shell_v1_destroy IN
    /\ Word(r) = "unbind" /\ r.n = 0
    /\ \A w : lshell = 2 /\ shell => Faults(r, Meaning(r).name, w) = {"version"}
<1> DEFINE r == zwlr_layer_shell_v1_destroy
<1>1. r.kind = "shell" /\ r.op = 1 /\ r.n = 0 /\ r.ver = lshell
  BY DEF zwlr_layer_shell_v1_destroy, Request, ShellOpcode
<1>2. shell_requests[2] = Message("destroy", 3)
  BY DEF shell_requests
<1> HIDE DEF r
<1>3. Meaning(r) = Message("destroy", 3)
  BY <1>1, <1>2 DEF Meaning
<1>4. Meaning(r).name = "destroy" /\ Meaning(r).since = 3
  BY <1>3 DEF Message
<1>5. \A w : lshell = 2 /\ shell => Faults(r, Meaning(r).name, w) = {"version"}
  BY <1>1, <1>4 DEF Faults, Errors
<1> QED BY <1>1, <1>4, <1>5 DEF Word, r

-----------------------------------------------------------------------------
(***************************************************************************)
(* What is under way about one wallpaper.  q is a queue of requests, n a   *)
(* wallpaper, and w how the compositor sees it.                            *)
(***************************************************************************)

\* surf_create, in the words of its requests; what the compositor knows when it
\* has heard k of them; and where the others are in q.
Sayings == <<"create", "get_layer_surface", "set_exclusive_zone", "set_anchor", "commit">>

\* The requests of surf_create, by their places.
LEMMA SayingsOf ==
  \A k \in 0..4 :
    \/ k = 0 /\ Sayings[k + 1] = "create"
    \/ k = 1 /\ Sayings[k + 1] = "get_layer_surface"
    \/ k = 2 /\ Sayings[k + 1] = "set_exclusive_zone"
    \/ k = 3 /\ Sayings[k + 1] = "set_anchor"
    \/ k = 4 /\ Sayings[k + 1] = "commit"
<1>1. \A k \in 0..4 : k \in {0, 1, 2, 3, 4}
  OBVIOUS
<1>2. /\ Sayings[1] = "create" /\ Sayings[2] = "get_layer_surface"
      /\ Sayings[3] = "set_exclusive_zone" /\ Sayings[4] = "set_anchor" /\ Sayings[5] = "commit"
  BY DEF Sayings
<1> QED BY <1>1, <1>2

Stage(w, k) ==
  /\ w.surface = (IF k >= 1 THEN "live" ELSE "none") /\ w.role = (IF k >= 2 THEN "live" ELSE "none")
  /\ w.layer = (IF k >= 2 THEN BACKGROUND ELSE -1) /\ w.zone = (IF k >= 3 THEN -1 ELSE 0)
  /\ w.anchor = (IF k >= 4 THEN Anchors ELSE 0)
  /\ ~w.begun /\ w.open = {} /\ ~w.acked /\ ~w.attached

Unborn(q, n, w, k, p) ==
  /\ Stage(w, k)
  /\ p + 5 <= Len(q) + k /\ (k > 0 => p = 0)
  /\ \A i \in 1..p : q[i].n # n
  /\ \A j \in (k + 1)..5 : q[p + j - k].n = n /\ Word(q[p + j - k]) = Sayings[j]
  /\ \A i \in (p + 6 - k)..Len(q) : q[i].n = n => Late(q[i])

Born(q, n, w) ==
  /\ w.begun /\ w.layer = BACKGROUND /\ w.zone = -1 /\ w.anchor = Anchors
  /\ w.role # "none" /\ w.surface # "none"
  /\ \A i \in 1..Len(q) : q[i].n = n => Late(q[i])

Birth(q, n, w) == Born(q, n, w) \/ \E k \in 0..4, p \in 0..Len(q) : Unborn(q, n, w, k, p)

\* out_layer_free, in the words of its requests: they follow one another, and
\* nothing is said of the wallpaper after them.
Says(q, i, n, word) == q[i].n = n /\ Word(q[i]) = word

Death(q, n, w) ==
  /\ \A i \in 1..Len(q) : Says(q, i, n, "unrole") =>
       w.role # "dead" /\ i < Len(q) /\ Says(q, i + 1, n, "destroy")
  /\ \A i \in 1..Len(q) : Says(q, i, n, "destroy") =>
       /\ IF i = 1 THEN w.role = "dead" ELSE Says(q, i - 1, n, "unrole")
       /\ w.surface # "dead"
       /\ \A j \in (i + 1)..Len(q) : q[j].n # n
  /\ w.role = "dead" =>
       IF w.surface = "dead" THEN \A j \in 1..Len(q) : q[j].n # n
       ELSE Len(q) > 0 /\ Says(q, 1, n, "destroy")
  /\ w.surface = "dead" => w.role = "dead"

\* Nothing of the kind has been said; or it has, and perhaps been heard.
Kept(q, n, w) == w.role # "dead" /\ \A i \in 1..Len(q) : ~Says(q, i, n, "unrole")
Dropped(q, n, w) == w.role = "dead" \/ \E i \in 1..Len(q) : Says(q, i, n, "unrole")

Life(q, n, w) == Birth(q, n, w) /\ Death(q, n, w)

\* t is q without its head; t is q with s at its end.
Moved(q, t) ==
  /\ Len(t) \in Nat /\ Len(q) \in Nat /\ Len(q) = Len(t) + 1
  /\ \A i \in 1..Len(t) : t[i] = q[i + 1]
Joined(q, s, t) ==
  /\ Len(q) \in Nat /\ Len(s) \in Nat /\ Len(t) = Len(q) + Len(s)
  /\ \A i \in 1..Len(q) : t[i] = q[i]
  /\ \A i \in 1..Len(s) : t[Len(q) + i] = s[i]

\* Taking the head off a queue moves every item up by one.
LEMMA TailMoves ==
  ASSUME NEW R, NEW q \in Seq(R), q # <<>>
  PROVE  Moved(q, Tail(q)) /\ Head(q) = q[1] /\ Tail(q) \in Seq(R) /\ Head(q) \in R
  BY DEF Moved

\* Appending a sequence to a queue puts its items behind those that were there.
LEMMA ConcatJoins ==
  ASSUME NEW R, NEW q \in Seq(R), NEW s \in Seq(R)
  PROVE  Joined(q, s, q \o s) /\ q \o s \in Seq(R)
  BY DEF Joined

\* A request about another wallpaper has been heard.
LEMMA BirthGoesOn ==
  ASSUME NEW q, NEW t, NEW n, NEW w, Moved(q, t), q[1].n # n, Birth(q, n, w)
  PROVE  Birth(t, n, w)
<1> USE DEF Moved
<1>1. CASE Born(q, n, w)
  BY <1>1 DEF Born, Birth
<1>2. ASSUME NEW k \in 0..4, NEW p \in 0..Len(q), Unborn(q, n, w, k, p)
      PROVE  Birth(t, n, w)
  <2>0. p + 5 <= Len(q) + k /\ (k > 0 => p = 0) /\ \A j \in (k + 1)..5 : q[p + j - k].n = n
    BY <1>2 DEF Unborn
  <2>1. p # 0
    <3>1. q[p + (k + 1) - k].n = n
      BY <2>0
    <3>2. p = 0 => p + (k + 1) - k = 1
      OBVIOUS
    <3> QED BY <3>1, <3>2
  <2>2. k = 0 /\ p \in 1..Len(q) /\ p - 1 \in 0..Len(t) /\ p + 5 <= Len(q)
    BY <2>0, <2>1
  <2>3. \A i \in 1..(p - 1) : t[i].n # n
    <3> TAKE i \in 1..(p - 1)
    <3>1. t[i] = q[i + 1] /\ i + 1 \in 1..p
      BY <2>2
    <3> QED BY <1>2, <3>1 DEF Unborn
  <2>4. \A j \in 1..5 : t[(p - 1) + j - 0].n = n /\ Word(t[(p - 1) + j - 0]) = Sayings[j]
    <3> TAKE j \in 1..5
    <3>1. t[(p - 1) + j - 0] = q[p + j - 0]
      BY <2>2
    <3> QED BY <1>2, <2>2, <3>1 DEF Unborn
  <2>5. \A i \in ((p - 1) + 6 - 0)..Len(t) : t[i].n = n => Late(t[i])
    <3> TAKE i \in ((p - 1) + 6 - 0)..Len(t)
    <3>1. t[i] = q[i + 1] /\ i + 1 \in (p + 6 - 0)..Len(q)
      BY <2>2
    <3> QED BY <1>2, <2>2, <3>1 DEF Unborn
  <2>6. Unborn(t, n, w, 0, p - 1)
    BY <1>2, <2>2, <2>3, <2>4, <2>5 DEF Unborn
  <2> QED BY <2>2, <2>6 DEF Birth
<1> QED BY <1>1, <1>2 DEF Birth

\* A request about another wallpaper leaves the requests that end this one as they were ...
LEMMA DeathGoesOn ==
  ASSUME NEW q, NEW t, NEW n, NEW w, Moved(q, t), q[1].n # n, Death(q, n, w)
  PROVE  Death(t, n, w)
<1> USE DEF Moved, Says
<1>1. ASSUME NEW i \in 1..Len(t), Says(t, i, n, "unrole")
      PROVE  w.role # "dead" /\ i < Len(t) /\ Says(t, i + 1, n, "destroy")
  <2>1. Says(q, i + 1, n, "unrole") /\ i + 1 \in 1..Len(q)
    BY <1>1
  <2> QED BY <2>1 DEF Death
<1>2. ASSUME NEW i \in 1..Len(t), Says(t, i, n, "destroy")
      PROVE  /\ IF i = 1 THEN w.role = "dead" ELSE Says(t, i - 1, n, "unrole")
             /\ w.surface # "dead"
             /\ \A j \in (i + 1)..Len(t) : t[j].n # n
  <2>1. Says(q, i + 1, n, "destroy") /\ i + 1 \in 1..Len(q)
    BY <1>2
  <2>2. Says(q, i, n, "unrole") /\ w.surface # "dead" /\ \A j \in (i + 2)..Len(q) : q[j].n # n
    BY <2>1 DEF Death
  <2> QED BY <2>2
<1>3. w.role = "dead" => w.surface = "dead" /\ \A j \in 1..Len(t) : t[j].n # n
  BY DEF Death
<1> QED BY <1>1, <1>2, <1>3 DEF Death

\* ... and the whole of its requests.
LEMMA LifeGoesOn ==
  ASSUME NEW q, NEW t, NEW n, NEW w, Moved(q, t), q[1].n # n
  PROVE  /\ Life(q, n, w) => Life(t, n, w)
         /\ Kept(q, n, w) => Kept(t, n, w) /\ (Dropped(q, n, w) => Dropped(t, n, w))
         /\ Dropped(q, n, w) => Dropped(t, n, w)
<1>1. Kept(q, n, w) => Kept(t, n, w)
  BY DEF Moved, Kept, Says
<1>2. ASSUME NEW i \in 1..Len(q), Says(q, i, n, "unrole")
      PROVE  \E j \in 1..Len(t) : Says(t, j, n, "unrole")
  <2>1. i # 1 /\ i - 1 \in 1..Len(t) /\ Says(t, i - 1, n, "unrole")
    BY <1>2 DEF Moved, Says
  <2> QED BY <2>1
<1> QED BY <1>1, <1>2, BirthGoesOn, DeathGoesOn DEF Life, Dropped

\* More requests are made: not before the compositor knows of the wallpaper.
LEMMA BirthExtends ==
  ASSUME NEW q, NEW s, NEW t, NEW n, NEW w, Joined(q, s, t), Birth(q, n, w),
         \A i \in 1..Len(s) : s[i].n = n => Late(s[i])
  PROVE  Birth(t, n, w)
<1>1. ASSUME NEW i \in (Len(q) + 1)..Len(t) PROVE t[i].n = n => Late(t[i])
  <2>1. i - Len(q) \in 1..Len(s) /\ t[Len(q) + (i - Len(q))] = s[i - Len(q)]
    BY DEF Joined
  <2>2. Len(q) + (i - Len(q)) = i
    BY DEF Joined
  <2> QED BY <2>1, <2>2
<1>2. Len(q) \in Nat /\ Len(t) \in Nat /\ Len(q) <= Len(t) /\ \A i \in 1..Len(q) : t[i] = q[i]
  BY DEF Joined
<1>3. CASE Born(q, n, w)
  <2>1. \A i \in 1..Len(t) : t[i].n = n => Late(t[i])
    BY <1>1, <1>2, <1>3 DEF Born
  <2> QED BY <1>3, <2>1 DEF Born, Birth
<1>4. ASSUME NEW k \in 0..4, NEW p \in 0..Len(q), Unborn(q, n, w, k, p)
      PROVE  Birth(t, n, w)
  <2>1. p + 5 <= Len(q) + k /\ p \in 0..Len(t) /\ p + 5 <= Len(t) + k
    BY <1>2, <1>4 DEF Unborn
  <2>2. \A i \in 1..p : t[i].n # n
    BY <1>2, <1>4 DEF Unborn
  <2>3. \A j \in (k + 1)..5 : t[p + j - k].n = n /\ Word(t[p + j - k]) = Sayings[j]
    <3> TAKE j \in (k + 1)..5
    <3>1. p + j - k \in 1..Len(q)
      BY <1>2, <2>1
    <3> QED BY <1>2, <1>4, <3>1 DEF Unborn
  <2>4. \A i \in (p + 6 - k)..Len(t) : t[i].n = n => Late(t[i])
    <3> TAKE i \in (p + 6 - k)..Len(t)
    <3>1. CASE i \in (p + 6 - k)..Len(q)
      <4>1. i \in 1..Len(q)
        BY <1>2, <2>1, <3>1
      <4> QED BY <1>2, <1>4, <3>1, <4>1 DEF Unborn
    <3> QED BY <1>1, <1>2, <2>1, <3>1
  <2>5. Unborn(t, n, w, k, p)
    BY <1>4, <2>1, <2>2, <2>3, <2>4 DEF Unborn
  <2> QED BY <2>1, <2>5 DEF Birth
<1> QED BY <1>3, <1>4 DEF Birth

\* So does appending requests about another wallpaper.
LEMMA DeathExtends ==
  ASSUME NEW q, NEW s, NEW t, NEW n, NEW w, Joined(q, s, t), Death(q, n, w),
         \A i \in 1..Len(s) : s[i].n # n
  PROVE  Death(t, n, w)
<1> USE DEF Says
<1>1. ASSUME NEW i \in 1..Len(t), t[i].n = n PROVE i \in 1..Len(q) /\ t[i] = q[i]
  <2>1. CASE i > Len(q)
    <3>1. i - Len(q) \in 1..Len(s) /\ t[Len(q) + (i - Len(q))] = s[i - Len(q)]
      BY <2>1 DEF Joined
    <3>2. Len(q) + (i - Len(q)) = i
      BY DEF Joined
    <3> QED BY <1>1, <3>1, <3>2
  <2> QED BY <2>1 DEF Joined
<1>2. Len(q) \in Nat /\ Len(t) \in Nat /\ Len(q) <= Len(t) /\ \A i \in 1..Len(q) : t[i] = q[i]
  BY DEF Joined
<1>3. ASSUME NEW i \in 1..Len(t), Says(t, i, n, "unrole")
      PROVE  w.role # "dead" /\ i < Len(t) /\ Says(t, i + 1, n, "destroy")
  <2>1. i \in 1..Len(q) /\ Says(q, i, n, "unrole")
    BY <1>1, <1>3
  <2>2. w.role # "dead" /\ i < Len(q) /\ Says(q, i + 1, n, "destroy")
    BY <2>1 DEF Death
  <2> QED BY <1>2, <2>2
<1>4. ASSUME NEW i \in 1..Len(t), Says(t, i, n, "destroy")
      PROVE  /\ IF i = 1 THEN w.role = "dead" ELSE Says(t, i - 1, n, "unrole")
             /\ w.surface # "dead"
             /\ \A j \in (i + 1)..Len(t) : t[j].n # n
  <2>1. i \in 1..Len(q) /\ Says(q, i, n, "destroy")
    BY <1>1, <1>4
  <2>2. /\ IF i = 1 THEN w.role = "dead" ELSE Says(q, i - 1, n, "unrole")
        /\ w.surface # "dead" /\ \A j \in (i + 1)..Len(q) : q[j].n # n
    BY <2>1 DEF Death
  <2>3. ASSUME NEW j \in (i + 1)..Len(t), t[j].n = n PROVE FALSE
    <3>1. j \in 1..Len(q) /\ t[j] = q[j]
      BY <1>1, <2>1, <1>2, <2>3
    <3> QED BY <2>2, <2>3, <3>1
  <2> QED BY <1>2, <2>1, <2>2, <2>3
<1>5. w.role = "dead" =>
        IF w.surface = "dead" THEN \A j \in 1..Len(t) : t[j].n # n
        ELSE Len(t) > 0 /\ Says(t, 1, n, "destroy")
  <2>1. CASE w.role = "dead" /\ w.surface = "dead"
    BY <1>1, <2>1 DEF Death
  <2>2. CASE w.role = "dead" /\ w.surface # "dead"
    BY <1>2, <2>2 DEF Death
  <2> QED BY <2>1, <2>2
<1>6. w.surface = "dead" => w.role = "dead"
  BY DEF Death
<1> QED BY <1>3, <1>4, <1>5, <1>6 DEF Death

\* Nothing is said of a wallpaper of which all has been said.
LEMMA LifeExtends ==
  ASSUME NEW q, NEW s, NEW t, NEW n, NEW w, Joined(q, s, t), Life(q, n, w),
         \A i \in 1..Len(s) : s[i].n # n
  PROVE  Life(t, n, w) /\ (Kept(q, n, w) => Kept(t, n, w)) /\ (Dropped(q, n, w) => Dropped(t, n, w))
<1>1. Kept(q, n, w) => Kept(t, n, w)
  <2> SUFFICES ASSUME Kept(q, n, w), NEW i \in 1..Len(t), Says(t, i, n, "unrole") PROVE FALSE
    BY DEF Kept
  <2>1. CASE i > Len(q)
    <3>1. i - Len(q) \in 1..Len(s) /\ t[Len(q) + (i - Len(q))] = s[i - Len(q)]
      BY <2>1 DEF Joined
    <3>2. Len(q) + (i - Len(q)) = i
      BY DEF Joined
    <3> QED BY <3>1, <3>2 DEF Says
  <2>2. CASE i <= Len(q)
    BY <2>2 DEF Joined, Kept, Says
  <2> QED BY <2>1, <2>2 DEF Joined
<1>2. Dropped(q, n, w) => Dropped(t, n, w)
  BY DEF Dropped, Joined, Says
<1> QED BY <1>1, <1>2, BirthExtends, DeathExtends DEF Life

\* The daemon speaks of a wallpaper it keeps.
LEMMA LifeSpeaks ==
  ASSUME NEW q, NEW s, NEW t, NEW n, NEW w, Joined(q, s, t), Life(q, n, w), Kept(q, n, w),
         \A i \in 1..Len(s) : s[i].n = n => Word(s[i]) \in {"attach", "commit", "ack_configure"}
  PROVE  Life(t, n, w) /\ Kept(t, n, w)
<1>1. \A i \in 1..Len(q) : ~Says(q, i, n, "destroy") /\ ~Says(q, i, n, "unrole")
  BY DEF Life, Death, Kept
<1>2. \A i \in 1..Len(t) : ~Says(t, i, n, "destroy") /\ ~Says(t, i, n, "unrole")
  <2> TAKE i \in 1..Len(t)
  <2>1. CASE i > Len(q)
    <3>1. i - Len(q) \in 1..Len(s) /\ t[Len(q) + (i - Len(q))] = s[i - Len(q)]
      BY <2>1 DEF Joined
    <3>2. Len(q) + (i - Len(q)) = i
      BY DEF Joined
    <3> QED BY <3>1, <3>2 DEF Says
  <2>2. CASE i <= Len(q)
    BY <1>1, <2>2 DEF Joined, Says
  <2> QED BY <2>1, <2>2 DEF Joined
<1>3. w.role # "dead" /\ w.surface # "dead"
  BY DEF Life, Death, Kept
<1>4. Birth(t, n, w)
  BY BirthExtends DEF Life, Late
<1> QED BY <1>2, <1>3, <1>4 DEF Life, Death, Kept

\* It gives one up.
LEMMA LifeDrops ==
  ASSUME NEW q, NEW s, NEW t, NEW n, NEW w, Joined(q, s, t), Life(q, n, w), Kept(q, n, w),
         NEW a \in 1..Len(s), a < Len(s), Says(s, a, n, "unrole"), Says(s, a + 1, n, "destroy"),
         \A i \in 1..Len(s) : s[i].n = n => i \in {a, a + 1}
  PROVE  Life(t, n, w) /\ Dropped(t, n, w)
<1> USE DEF Says
<1>1. \A i \in 1..Len(q) : ~Says(q, i, n, "destroy") /\ ~Says(q, i, n, "unrole")
  BY DEF Life, Death, Kept
<1>2. w.role # "dead" /\ w.surface # "dead"
  BY DEF Life, Death, Kept
<1> DEFINE b == Len(q) + a
<1>3. /\ b \in 1..Len(t) /\ b + 1 \in 1..Len(t) /\ b > Len(q) /\ Len(q) \in Nat /\ Len(t) \in Nat
      /\ Says(t, b, n, "unrole") /\ Says(t, b + 1, n, "destroy")
  <2>1. a \in 1..Len(s) /\ a + 1 \in 1..Len(s) /\ Len(q) + (a + 1) = b + 1
    BY DEF Joined
  <2> QED BY <2>1 DEF Joined
<1>4. ASSUME NEW i \in 1..Len(t), t[i].n = n
      PROVE  i \in {b, b + 1} \/ (i \in 1..Len(q) /\ t[i] = q[i])
  <2>1. CASE i > Len(q)
    <3>1. i - Len(q) \in 1..Len(s) /\ t[Len(q) + (i - Len(q))] = s[i - Len(q)]
      BY <2>1 DEF Joined
    <3>2. Len(q) + (i - Len(q)) = i
      BY DEF Joined
    <3>3. i - Len(q) \in {a, a + 1}
      BY <1>4, <3>1, <3>2
    <3> QED BY <3>2, <3>3, <1>3
  <2> QED BY <2>1 DEF Joined
<1> HIDE DEF b
<1>5. \A i \in 1..Len(t) : Says(t, i, n, "unrole") => i = b
  BY <1>1, <1>3, <1>4
<1>6. \A i \in 1..Len(t) : Says(t, i, n, "destroy") => i = b + 1
  BY <1>1, <1>3, <1>4
<1>7. ASSUME NEW j \in (b + 2)..Len(t), t[j].n = n PROVE FALSE
  <2>1. j \in 1..Len(t) /\ j \notin {b, b + 1} /\ j \notin 1..Len(q)
    BY <1>3
  <2> QED BY <1>4, <1>7, <2>1
<1>8. b # 0 /\ b + 1 # 1 /\ (b + 1) - 1 = b /\ b < Len(t) /\ (b + 1) + 1 = b + 2
  BY <1>3
<1>9. Death(t, n, w)
  BY <1>2, <1>3, <1>5, <1>6, <1>7, <1>8 DEF Death
<1>10. Birth(t, n, w)
  <2>1. \A i \in 1..Len(s) : s[i].n = n => Late(s[i])
    BY DEF Late
  <2> QED BY <2>1, BirthExtends DEF Life
<1> QED BY <1>3, <1>9, <1>10 DEF Life, Dropped

\* It makes one.
LEMMA LifeBegins ==
  ASSUME NEW q, NEW s, NEW t, NEW n, NEW w, Joined(q, s, t), Stage(w, 0), Len(s) = 5,
         \A i \in 1..Len(q) : q[i].n # n,
         \A j \in 1..5 : s[j].n = n /\ Word(s[j]) = Sayings[j]
  PROVE  Life(t, n, w) /\ Kept(t, n, w)
<1> DEFINE p == Len(q)
<1>1. p \in 0..Len(t) /\ Len(t) = p + 5
  BY DEF Joined
<1>2. \A j \in 1..5 : t[p + j].n = n /\ Word(t[p + j]) = Sayings[j]
  BY DEF Joined
<1>3. ASSUME NEW i \in 1..Len(t), t[i].n = n PROVE Word(t[i]) \notin {"unrole", "destroy"}
  <2>1. CASE i > p
    <3>1. i - p \in 1..5 /\ p + (i - p) = i
      BY <1>1, <2>1
    <3>2. Word(t[i]) = Sayings[i - p]
      BY <1>2, <3>1
    <3> QED BY <3>1, <3>2 DEF Sayings
  <2> QED BY <1>3, <2>1 DEF Joined
<1>4. Unborn(t, n, w, 0, p)
  <2>1. \A i \in 1..p : t[i].n # n
    BY DEF Joined
  <2>2. \A j \in (0 + 1)..5 : t[p + j - 0].n = n /\ Word(t[p + j - 0]) = Sayings[j]
    <3> TAKE j \in (0 + 1)..5
    <3>1. p + j - 0 = p + j
      BY <1>1
    <3> QED BY <1>2, <3>1
  <2>3. (p + 6 - 0)..Len(t) = {}
    BY <1>1
  <2> QED BY <1>1, <2>1, <2>2, <2>3 DEF Unborn
<1>5. w.role # "dead" /\ w.surface # "dead"
  BY DEF Stage
<1>6. Birth(t, n, w)
  BY <1>1, <1>4 DEF Birth
<1> QED BY <1>3, <1>5, <1>6 DEF Life, Death, Kept, Says

\* A request about the wallpaper itself has been heard: it is one of surf_create,
\* or said after them.
LEMMA HeadNew ==
  ASSUME NEW q, NEW n, NEW w, Len(q) \in Nat, Len(q) > 0, q[1].n = n, Birth(q, n, w)
  PROVE  \/ Born(q, n, w) /\ Late(q[1])
         \/ \E k \in 0..4 : Unborn(q, n, w, k, 0) /\ Word(q[1]) = Sayings[k + 1]
<1>1. CASE Born(q, n, w)
  BY <1>1 DEF Born
<1>2. ASSUME NEW k \in 0..4, NEW p \in 0..Len(q), Unborn(q, n, w, k, p)
      PROVE  p = 0 /\ Word(q[1]) = Sayings[k + 1]
  <2>1. p = 0
    BY <1>2 DEF Unborn
  <2>2. k + 1 \in (k + 1)..5 /\ p + (k + 1) - k = 1
    BY <2>1
  <2>3. Word(q[p + (k + 1) - k]) = Sayings[k + 1]
    BY <1>2, <2>2 DEF Unborn
  <2> QED BY <2>1, <2>2, <2>3
<1> QED BY <1>1, <1>2 DEF Birth

\* One more of the requests of surf_create is heard.
LEMMA BirthHears ==
  ASSUME NEW q, NEW t, NEW n, NEW w, NEW v, NEW k \in 0..3, Moved(q, t),
         Unborn(q, n, w, k, 0), Stage(v, k + 1)
  PROVE  Birth(t, n, v)
<1>1. Len(t) \in Nat /\ Len(q) = Len(t) + 1 /\ 5 <= Len(q) + k /\ \A i \in 1..Len(t) : t[i] = q[i + 1]
  BY DEF Moved, Unborn
<1>2. \A j \in ((k + 1) + 1)..5 : t[0 + j - (k + 1)].n = n /\ Word(t[0 + j - (k + 1)]) = Sayings[j]
  <2> TAKE j \in ((k + 1) + 1)..5
  <2>1. j \in (k + 1)..5 /\ 0 + j - (k + 1) \in 1..Len(t) /\ (0 + j - (k + 1)) + 1 = 0 + j - k
    BY <1>1
  <2>2. q[0 + j - k].n = n /\ Word(q[0 + j - k]) = Sayings[j]
    BY <2>1 DEF Unborn
  <2> QED BY <1>1, <2>1, <2>2
<1>3. \A i \in (0 + 6 - (k + 1))..Len(t) : t[i].n = n => Late(t[i])
  <2> TAKE i \in (0 + 6 - (k + 1))..Len(t)
  <2>1. t[i] = q[i + 1] /\ i + 1 \in (0 + 6 - k)..Len(q)
    BY <1>1
  <2> QED BY <2>1 DEF Unborn
<1>4. Unborn(t, n, v, k + 1, 0)
  <2>1. 0 + 5 <= Len(t) + (k + 1) /\ 1..0 = {}
    BY <1>1
  <2> QED BY <1>2, <1>3, <2>1 DEF Unborn
<1>5. k + 1 \in 0..4 /\ 0 \in 0..Len(t)
  BY <1>1
<1> QED BY <1>4, <1>5 DEF Birth

\* The last of them is the commit.
LEMMA BirthEnds ==
  ASSUME NEW q, NEW t, NEW n, NEW w, Moved(q, t), Unborn(q, n, w, 4, 0)
  PROVE  /\ w.surface = "live" /\ w.role = "live" /\ w.layer = BACKGROUND /\ w.zone = -1
         /\ w.anchor = Anchors
         /\ \A i \in 1..Len(t) : t[i].n = n => Late(t[i])
<1>1. \A i \in 1..Len(t) : t[i].n = n => Late(t[i])
  <2> TAKE i \in 1..Len(t)
  <2>1. t[i] = q[i + 1] /\ i + 1 \in (0 + 6 - 4)..Len(q)
    BY DEF Moved
  <2> QED BY <2>1 DEF Unborn
<1>2. Stage(w, 4)
  BY DEF Unborn
<1> QED BY <1>1, <1>2 DEF Stage

\* After the last of them only later requests come.
LEMMA BirthOver ==
  ASSUME NEW q, NEW t, NEW n, NEW w, Moved(q, t), Born(q, n, w)
  PROVE  \A i \in 1..Len(t) : t[i].n = n => Late(t[i])
  BY DEF Moved, Born

\* Neither of the requests of out_layer_free has been heard.
LEMMA DeathHears ==
  ASSUME NEW q, NEW t, NEW n, NEW w, NEW v, Moved(q, t), q[1].n = n,
         Word(q[1]) \notin {"unrole", "destroy"}, Death(q, n, w),
         v.role # "dead", v.surface # "dead"
  PROVE  /\ Death(t, n, v) /\ w.role # "dead" /\ w.surface # "dead"
         /\ (Kept(q, n, w) => Kept(t, n, v)) /\ (Dropped(q, n, w) => Dropped(t, n, v))
<1> USE DEF Says
<1>1. Len(t) \in Nat /\ Len(q) = Len(t) + 1 /\ \A i \in 1..Len(t) : t[i] = q[i + 1]
  BY DEF Moved
<1>2. w.role # "dead" /\ w.surface # "dead"
  BY <1>1 DEF Death
<1>3. ASSUME NEW i \in 1..Len(t), Says(t, i, n, "unrole")
      PROVE  i < Len(t) /\ Says(t, i + 1, n, "destroy")
  <2>1. Says(q, i + 1, n, "unrole") /\ i + 1 \in 1..Len(q)
    BY <1>1, <1>3
  <2>2. i + 1 < Len(q) /\ Says(q, (i + 1) + 1, n, "destroy")
    BY <2>1 DEF Death
  <2>3. i < Len(t) /\ i + 1 \in 1..Len(t)
    BY <1>1, <2>2
  <2> QED BY <1>1, <2>2, <2>3
<1>4. ASSUME NEW i \in 1..Len(t), Says(t, i, n, "destroy")
      PROVE  /\ i # 1 /\ Says(t, i - 1, n, "unrole")
             /\ \A j \in (i + 1)..Len(t) : t[j].n # n
  <2>1. Says(q, i + 1, n, "destroy") /\ i + 1 \in 1..Len(q) /\ i + 1 # 1 /\ (i + 1) - 1 = i
    BY <1>1, <1>4
  <2>2. Says(q, i, n, "unrole") /\ \A j \in ((i + 1) + 1)..Len(q) : q[j].n # n
    BY <2>1 DEF Death
  <2>3. i # 1
    BY <2>2
  <2>4. i - 1 \in 1..Len(t) /\ t[i - 1] = q[i]
    BY <1>1, <2>3
  <2>5. \A j \in (i + 1)..Len(t) : t[j].n # n
    <3> TAKE j \in (i + 1)..Len(t)
    <3>1. j + 1 \in ((i + 1) + 1)..Len(q) /\ t[j] = q[j + 1]
      BY <1>1
    <3> QED BY <2>2, <3>1
  <2> QED BY <2>2, <2>3, <2>4, <2>5
<1>5. Death(t, n, v)
  BY <1>3, <1>4 DEF Death
<1>6. Kept(q, n, w) => Kept(t, n, v)
  BY <1>1 DEF Kept
<1>7. Dropped(q, n, w) => Dropped(t, n, v)
  <2> SUFFICES ASSUME NEW i \in 1..Len(q), Says(q, i, n, "unrole") PROVE Dropped(t, n, v)
    BY <1>2 DEF Dropped
  <2>1. i # 1 /\ i - 1 \in 1..Len(t) /\ t[i - 1] = q[i]
    BY <1>1
  <2> QED BY <2>1 DEF Dropped
<1> QED BY <1>2, <1>5, <1>6, <1>7

\* The layer surface has been destroyed, ...
LEMMA UnroleHeard ==
  ASSUME NEW q, NEW t, NEW n, NEW w, NEW v, Moved(q, t), Says(q, 1, n, "unrole"), Life(q, n, w),
         v = [w EXCEPT !.role = "dead"], w \in Wallpapers
  PROVE  Life(t, n, v) /\ Dropped(t, n, v) /\ ~Kept(q, n, w) /\ w.role = "live"
<1>1. Len(t) \in Nat /\ Len(q) = Len(t) + 1 /\ \A i \in 1..Len(t) : t[i] = q[i + 1]
  BY DEF Moved
<1>2. w.role # "dead" /\ 1 < Len(q) /\ Says(q, 2, n, "destroy")
  BY <1>1 DEF Life, Death
<1>3. w.surface # "dead" /\ \A j \in 3..Len(q) : q[j].n # n
  BY <1>1, <1>2 DEF Life, Death
<1>4. Says(t, 1, n, "destroy") /\ \A j \in 2..Len(t) : t[j].n # n
  BY <1>1, <1>2, <1>3 DEF Says
<1>5. Born(q, n, w)
  <2>1. \A k \in 0..4 : Word(q[1]) # Sayings[k + 1]
    BY SayingsOf DEF Says
  <2>2. Len(q) \in Nat /\ Len(q) > 0 /\ q[1].n = n /\ Birth(q, n, w)
    BY <1>1 DEF Life, Says
  <2> QED BY <2>1, <2>2, HeadNew
<1>6. /\ v.role = "dead" /\ v.surface = w.surface /\ v.begun = w.begun /\ v.layer = w.layer
      /\ v.zone = w.zone /\ v.anchor = w.anchor
  BY DEF Wallpapers
<1>7. Birth(t, n, v)
  <2>1. \A i \in 1..Len(t) : t[i].n = n => Late(t[i])
    BY <1>5, BirthOver
  <2> QED BY <1>5, <1>6, <2>1 DEF Birth, Born
<1>8. Death(t, n, v)
  <2>1. \A i \in 1..Len(t) : ~Says(t, i, n, "unrole")
    BY <1>1, <1>4 DEF Says
  <2>2. \A i \in 1..Len(t) : Says(t, i, n, "destroy") => i = 1
    BY <1>1, <1>4 DEF Says
  <2>3. \A j \in (1 + 1)..Len(t) : t[j].n # n
    BY <1>4
  <2> QED BY <1>1, <1>2, <1>3, <1>4, <1>6, <2>1, <2>2, <2>3 DEF Death
<1>9. w.role = "live"
  BY <1>2, <1>5 DEF Born, Wallpapers
<1>10. ~Kept(q, n, w)
  BY <1>1 DEF Kept
<1> QED BY <1>6, <1>7, <1>8, <1>9, <1>10 DEF Life, Dropped

\* ... and the wl_surface after it.
LEMMA DestroyHeard ==
  ASSUME NEW q, NEW t, NEW n, NEW w, NEW v, Moved(q, t), Says(q, 1, n, "destroy"), Life(q, n, w),
         v = [w EXCEPT !.surface = "dead"], w \in Wallpapers
  PROVE  /\ Life(t, n, v) /\ Dropped(t, n, v) /\ ~Kept(q, n, w)
         /\ w.role = "dead" /\ w.surface = "live"
<1>1. Len(t) \in Nat /\ Len(q) = Len(t) + 1 /\ \A i \in 1..Len(t) : t[i] = q[i + 1]
  BY DEF Moved
<1>2. w.role = "dead" /\ w.surface # "dead" /\ \A j \in (1 + 1)..Len(q) : q[j].n # n
  BY <1>1 DEF Life, Death
<1>3. \A j \in 1..Len(t) : t[j].n # n
  BY <1>1, <1>2
<1>4. Born(q, n, w)
  <2>1. \A k \in 0..4 : Word(q[1]) # Sayings[k + 1]
    BY SayingsOf DEF Says
  <2>2. Len(q) \in Nat /\ Len(q) > 0 /\ q[1].n = n /\ Birth(q, n, w)
    BY <1>1 DEF Life, Says
  <2> QED BY <2>1, <2>2, HeadNew
<1>5. /\ v.surface = "dead" /\ v.role = w.role /\ v.begun = w.begun /\ v.layer = w.layer
      /\ v.zone = w.zone /\ v.anchor = w.anchor
  BY DEF Wallpapers
<1>6. Birth(t, n, v)
  BY <1>3, <1>4, <1>5 DEF Birth, Born
<1>7. Death(t, n, v)
  BY <1>2, <1>3, <1>5 DEF Death, Says
<1>8. w.surface = "live"
  BY <1>2, <1>4 DEF Born, Wallpapers
<1> QED BY <1>2, <1>5, <1>6, <1>7, <1>8 DEF Life, Dropped, Kept

\* What stays of the facts when something is added to what the compositor knows.
LEMMA LifeSame ==
  ASSUME NEW q, NEW n, NEW w, NEW v, Life(q, n, w), w.begun,
         v.begun = w.begun, v.surface = w.surface, v.role = w.role, v.layer = w.layer,
         v.zone = w.zone, v.anchor = w.anchor
  PROVE  Life(q, n, v) /\ (Kept(q, n, w) => Kept(q, n, v)) /\ (Dropped(q, n, w) => Dropped(q, n, v))
<1>1. Born(q, n, w)
  BY DEF Life, Birth, Unborn, Stage
<1>2. Birth(q, n, v)
  BY <1>1 DEF Born, Birth
<1>3. Death(q, n, v)
  BY DEF Life, Death
<1> QED BY <1>2, <1>3 DEF Life, Kept, Dropped

\* The next request about a wallpaper is in order, but for a commit that comes
\* too early, and what is under way stays in order.
LifeHeard(q, t, n, r, w, v, faults) ==
  /\ faults = {} \/ (faults = {"unconfigured"} /\ w.attached /\ ~w.acked)
  /\ v \in Wallpapers /\ Life(t, n, v)
  /\ Kept(q, n, w) => Kept(t, n, v)
  /\ Dropped(q, n, w) => Dropped(t, n, v)
  /\ IF Word(r) = "ack_configure" THEN v.acked /\ v.open = {s \in w.open : s > r.arg}
     ELSE v.acked = w.acked /\ v.open = w.open
  /\ Word(r) # "attach" => v.attached = w.attached

\* Hearing any request about a wallpaper, in the order of its life, is no fault but two.
LEMMA LifeHears ==
  ASSUME lshell = 2, shell, NEW q, NEW t, NEW n, NEW w \in Wallpapers, NEW r, NEW v, NEW faults,
         Moved(q, t), r = q[1], v = Heard(r, w), faults = Faults(r, Meaning(r).name, w),
         r \in Said(n), Life(q, n, w), Word(r) = "ack_configure" => r.arg \in w.open
  PROVE  LifeHeard(q, t, n, r, w, v, faults)
<1> USE DEF LifeHeard
<1>1. /\ r.n = n
      /\ \/ Late(r)
         \/ Word(r) = "create"
         \/ Word(r) = "get_layer_surface" /\ r.arg = BACKGROUND
         \/ Word(r) = "set_exclusive_zone" /\ r.arg = -1
         \/ Word(r) = "set_anchor" /\ r.arg = Anchors
  BY SaidWords
<1>2. Len(q) \in Nat /\ Len(q) > 0 /\ Birth(q, n, w) /\ Death(q, n, w)
  BY DEF Moved, Life
<1>3. \/ Born(q, n, w) /\ Late(r)
      \/ \E k \in 0..4 : Unborn(q, n, w, k, 0) /\ Word(r) = Sayings[k + 1]
  BY <1>1, <1>2, HeadNew
<1>4. ASSUME Word(r) \in SurfaceWords PROVE r = Surface(n, Word(r))
  BY <1>4, Sayable, Words, Fields DEF SurfaceWords
<1>5. ASSUME Word(r) \in SurfaceWords PROVE SurfaceHeard(r, w, v, faults)
  <2>1. PICK name \in SurfaceWords : r = Surface(n, name)
    BY <1>4, <1>5
  <2> QED BY <2>1, SurfaceEffects
<1>6. LayerHeard(r, w, v, faults)
  BY LayerEffects
<1>7. ASSUME Word(r) \notin {"unrole", "destroy"}, v.role # "dead", v.surface # "dead"
      PROVE  /\ Death(t, n, v) /\ w.role # "dead" /\ w.surface # "dead"
             /\ (Kept(q, n, w) => Kept(t, n, v)) /\ (Dropped(q, n, w) => Dropped(t, n, v))
  BY <1>1, <1>2, <1>7, DeathHears
<1>8. CASE Word(r) = "create"
  <2>1. Unborn(q, n, w, 0, 0)
    BY <1>3, <1>8, SayingsOf DEF Late
  <2>2. Stage(w, 0)
    BY <2>1 DEF Unborn
  <2>3. faults = {} /\ v = [w EXCEPT !.surface = "live"]
    BY <1>5, <1>8 DEF SurfaceWords, SurfaceHeard
  <2>4. v \in Wallpapers /\ v.open = w.open /\ v.acked = w.acked /\ v.attached = w.attached
        /\ Stage(v, 0 + 1)
    BY <2>2, <2>3 DEF Stage, Wallpapers
  <2>5. Birth(t, n, v)
    BY <2>1, <2>4, BirthHears
  <2>6. v.role # "dead" /\ v.surface # "dead"
    BY <2>4 DEF Stage
  <2> QED BY <1>7, <1>8, <2>3, <2>4, <2>5, <2>6 DEF Life
<1>9. CASE Word(r) = "get_layer_surface"
  <2>1. Unborn(q, n, w, 1, 0) /\ r.arg = BACKGROUND
    BY <1>1, <1>3, <1>9, SayingsOf DEF Late
  <2>2. Stage(w, 1)
    BY <2>1 DEF Unborn
  <2>3. w.surface = "live" /\ ~w.begun /\ ~w.attached
    BY <2>2 DEF Stage
  <2>4. faults = {} /\ v = [w EXCEPT !.role = "live", !.layer = BACKGROUND]
    BY <1>6, <1>9, <2>1, <2>3 DEF LayerHeard
  <2>5. v \in Wallpapers /\ v.open = w.open /\ v.acked = w.acked /\ v.attached = w.attached
        /\ Stage(v, 1 + 1)
    <3> DEFINE u == [w EXCEPT !.role = "live"]
    <3>1. /\ u \in Wallpapers /\ u.role = "live" /\ u.surface = w.surface /\ u.zone = w.zone
          /\ u.anchor = w.anchor /\ u.begun = w.begun
          /\ u.open = w.open /\ u.acked = w.acked /\ u.attached = w.attached
      BY DEF Wallpapers
    <3>2. v = [u EXCEPT !.layer = BACKGROUND]
      BY <2>4
    <3> HIDE DEF u
    <3>3. /\ v \in Wallpapers /\ v.layer = BACKGROUND /\ v.role = u.role /\ v.surface = u.surface
          /\ v.zone = u.zone /\ v.anchor = u.anchor /\ v.begun = u.begun
          /\ v.open = u.open /\ v.acked = u.acked /\ v.attached = u.attached
      BY <3>1, <3>2 DEF Wallpapers
    <3> QED BY <2>2, <3>1, <3>3 DEF Stage
  <2>6. Birth(t, n, v)
    BY <2>1, <2>5, BirthHears
  <2>7. v.role # "dead" /\ v.surface # "dead"
    BY <2>5 DEF Stage
  <2> QED BY <1>7, <1>9, <2>4, <2>5, <2>6, <2>7 DEF Life
<1>10. CASE Word(r) = "set_exclusive_zone"
  <2>1. Unborn(q, n, w, 2, 0) /\ r.arg = -1
    BY <1>1, <1>3, <1>10, SayingsOf DEF Late
  <2>2. Stage(w, 2)
    BY <2>1 DEF Unborn
  <2>3. w.role = "live"
    BY <2>2 DEF Stage
  <2>4. faults = {} /\ v = [w EXCEPT !.zone = -1]
    BY <1>6, <1>10, <2>1, <2>3 DEF LayerHeard
  <2>5. v \in Wallpapers /\ v.open = w.open /\ v.acked = w.acked /\ v.attached = w.attached
        /\ Stage(v, 2 + 1)
    BY <2>2, <2>4 DEF Stage, Wallpapers
  <2>6. Birth(t, n, v)
    BY <2>1, <2>5, BirthHears
  <2>7. v.role # "dead" /\ v.surface # "dead"
    BY <2>5 DEF Stage
  <2> QED BY <1>7, <1>10, <2>4, <2>5, <2>6, <2>7 DEF Life
<1>11. CASE Word(r) = "set_anchor"
  <2>1. Unborn(q, n, w, 3, 0) /\ r.arg = Anchors
    BY <1>1, <1>3, <1>11, SayingsOf DEF Late
  <2>2. Stage(w, 3)
    BY <2>1 DEF Unborn
  <2>3. w.role = "live"
    BY <2>2 DEF Stage
  <2>4. faults = {} /\ v = [w EXCEPT !.anchor = Anchors]
    BY <1>6, <1>11, <2>1, <2>3 DEF LayerHeard
  <2>5. v \in Wallpapers /\ v.open = w.open /\ v.acked = w.acked /\ v.attached = w.attached
        /\ Stage(v, 3 + 1)
    BY <2>2, <2>4 DEF Stage, Wallpapers
  <2>6. Birth(t, n, v)
    BY <2>1, <2>5, BirthHears
  <2>7. v.role # "dead" /\ v.surface # "dead"
    BY <2>5 DEF Stage
  <2> QED BY <1>7, <1>11, <2>4, <2>5, <2>6, <2>7 DEF Life
<1>12. CASE Word(r) = "commit"
  <2>1. v = [w EXCEPT !.begun = TRUE]
    BY <1>5, <1>12 DEF SurfaceWords, SurfaceHeard
  <2>2. /\ v \in Wallpapers /\ v.open = w.open /\ v.acked = w.acked /\ v.attached = w.attached
        /\ v.begun /\ v.surface = w.surface /\ v.role = w.role /\ v.layer = w.layer
        /\ v.zone = w.zone /\ v.anchor = w.anchor
    BY <2>1 DEF Wallpapers
  <2>3. /\ w.layer = BACKGROUND /\ w.zone = -1 /\ w.anchor = Anchors
        /\ w.role # "none" /\ w.surface # "none"
        /\ \A i \in 1..Len(t) : t[i].n = n => Late(t[i])
    <3>1. CASE Born(q, n, w)
      <4>1. \A i \in 1..Len(t) : t[i].n = n => Late(t[i])
        BY <3>1, BirthOver
      <4> QED BY <3>1, <4>1 DEF Born
    <3>2. CASE ~Born(q, n, w)
      <4>1. Unborn(q, n, w, 4, 0)
        BY <1>3, <1>12, <3>2, SayingsOf
      <4> QED BY <4>1, BirthEnds
    <3> QED BY <3>1, <3>2
  <2>4. w.role # "dead" /\ w.surface # "dead"
    BY <1>1, <1>2, <1>12 DEF Death, Says
  <2>5. w.surface = "live"
    BY <2>3, <2>4 DEF Wallpapers
  <2>6. faults = IF w.attached /\ ~w.acked THEN {"unconfigured"} ELSE {}
    BY <1>5, <1>12, <2>3, <2>5 DEF SurfaceWords, SurfaceHeard
  <2>7. Birth(t, n, v)
    BY <2>2, <2>3 DEF Birth, Born
  <2> QED BY <1>7, <1>12, <2>2, <2>4, <2>6, <2>7 DEF Life
<1>13. CASE Word(r) \in {"attach", "ack_configure"}
  <2>1. Born(q, n, w)
    BY <1>3, <1>13, SayingsOf
  <2>2. w.role # "dead" /\ w.surface # "dead"
    BY <1>1, <1>2, <1>13 DEF Death, Says
  <2>3. w.role = "live" /\ w.surface = "live"
    BY <2>1, <2>2 DEF Born, Wallpapers
  <2>4. faults = {}
    BY <1>5, <1>6, <1>13, <2>3 DEF SurfaceWords, LayerHeard, SurfaceHeard
  <2>5. /\ v \in Wallpapers
        /\ v.begun = w.begun /\ v.surface = w.surface /\ v.role = w.role /\ v.layer = w.layer
        /\ v.zone = w.zone /\ v.anchor = w.anchor
        /\ Word(r) = "attach" => v.open = w.open /\ v.acked = w.acked
        /\ Word(r) = "ack_configure" =>
             v.acked /\ v.open = {s \in w.open : s > r.arg} /\ v.attached = w.attached
    <3>1. CASE Word(r) = "attach"
      <4>1. v = [w EXCEPT !.attached = TRUE]
        BY <1>5, <3>1 DEF SurfaceWords, SurfaceHeard
      <4> QED BY <3>1, <4>1 DEF Wallpapers
    <3>2. CASE Word(r) = "ack_configure"
      <4>1. v = [w EXCEPT !.acked = TRUE, !.open = {s \in w.open : s > r.arg}]
        BY <1>6, <3>2 DEF LayerHeard
      <4> QED BY <3>2, <4>1 DEF Wallpapers
    <3> QED BY <1>13, <3>1, <3>2
  <2>6. Birth(t, n, v)
    <3>1. \A i \in 1..Len(t) : t[i].n = n => Late(t[i])
      BY <2>1, BirthOver
    <3> QED BY <2>1, <2>5, <3>1 DEF Birth, Born
  <2> QED BY <1>7, <1>13, <2>2, <2>4, <2>5, <2>6 DEF Life
<1>14. CASE Word(r) = "unrole"
  <2>1. v = [w EXCEPT !.role = "dead"]
    BY <1>6, <1>14 DEF LayerHeard
  <2>2. Life(t, n, v) /\ Dropped(t, n, v) /\ ~Kept(q, n, w) /\ w.role = "live"
    BY <1>1, <1>14, <2>1, UnroleHeard DEF Says
  <2>3. v \in Wallpapers /\ v.open = w.open /\ v.acked = w.acked /\ v.attached = w.attached
    BY <2>1 DEF Wallpapers
  <2> QED BY <1>6, <1>14, <2>2, <2>3 DEF LayerHeard
<1>15. CASE Word(r) = "destroy"
  <2>1. v = [w EXCEPT !.surface = "dead"]
    BY <1>5, <1>15 DEF SurfaceWords, SurfaceHeard
  <2>2. /\ Life(t, n, v) /\ Dropped(t, n, v) /\ ~Kept(q, n, w)
        /\ w.role = "dead" /\ w.surface = "live"
    BY <1>1, <1>15, <2>1, DestroyHeard DEF Says
  <2>3. v \in Wallpapers /\ v.open = w.open /\ v.acked = w.acked /\ v.attached = w.attached
    BY <2>1 DEF Wallpapers
  <2> QED BY <1>5, <1>15, <2>2, <2>3 DEF SurfaceWords, SurfaceHeard
<1> QED BY <1>1, <1>8, <1>9, <1>10, <1>11, <1>12, <1>13, <1>14, <1>15 DEF Late

-----------------------------------------------------------------------------
(***************************************************************************)
(* Answers.  e is a queue of events, open the serials of wallpaper n that  *)
(* the compositor has not seen an answer to.                               *)
(***************************************************************************)
Acks(q, i, n) == Says(q, i, n, "ack_configure")
Conf(e, j, n) == e[j].n = n /\ e[j].op = 0

\* Answers and events have the order of their serials, the answers first, and all of
\* these serials are open.
Order(q, e, n, open) ==
  /\ \A i, j \in 1..Len(q) : i < j /\ Acks(q, i, n) /\ Acks(q, j, n) => q[i].arg < q[j].arg
  /\ \A i \in 1..Len(q), j \in 1..Len(e) :
       Acks(q, i, n) /\ Conf(e, j, n) => q[i].arg < e[j].serial
  /\ \A i, j \in 1..Len(e) : i < j /\ Conf(e, i, n) /\ Conf(e, j, n) => e[i].serial < e[j].serial
  /\ \A i \in 1..Len(q) : Acks(q, i, n) => q[i].arg \in open
  /\ \A j \in 1..Len(e) : Conf(e, j, n) => e[j].serial \in open

\* There is an answer or an event under way for each of them.
Due(q, e, n, open) ==
  \A s \in open : \/ \E i \in 1..Len(q) : Acks(q, i, n) /\ q[i].arg = s
                  \/ \E j \in 1..Len(e) : Conf(e, j, n) /\ e[j].serial = s

\* The first answer has been made.
Answer(q, n, w) == w.acked \/ \E i \in 1..Len(q) : Acks(q, i, n)

\* What is drawn comes after it, but for the hasty wallpapers h.
Drawn(q, n, w, h) ==
  /\ \A i \in 1..Len(q) : Says(q, i, n, "attach") /\ n \notin h =>
       w.acked \/ \E j \in 1..(i - 1) : Acks(q, j, n)
  /\ w.attached /\ ~w.acked => n \in h

\* A request has been heard; it may have been an answer.
LEMMA OrderHears ==
  ASSUME NEW q, NEW t, NEW e, NEW n, NEW open, NEW rest, Moved(q, t), Len(e) \in Nat,
         Order(q, e, n, open),
         IF Acks(q, 1, n) THEN rest = {s \in open : s > q[1].arg} ELSE rest = open,
         open \subseteq Nat, Acks(q, 1, n) => q[1].arg \in Nat
  PROVE  Order(t, e, n, rest) /\ (Due(q, e, n, open) => Due(t, e, n, rest))
<1> USE DEF Acks, Says
<1>1. Len(t) \in Nat /\ Len(q) = Len(t) + 1 /\ \A i \in 1..Len(t) : t[i] = q[i + 1] /\ i + 1 \in 1..Len(q)
  BY DEF Moved
<1>2. \A i \in 1..Len(t) : Acks(t, i, n) => t[i].arg \in rest
  <2> SUFFICES ASSUME NEW i \in 1..Len(t), Acks(t, i, n) PROVE t[i].arg \in rest
    OBVIOUS
  <2>1. i + 1 \in 1..Len(q) /\ 1 < i + 1 /\ Acks(q, i + 1, n) /\ 1 \in 1..Len(q)
    BY <1>1
  <2>2. t[i].arg \in open /\ (Acks(q, 1, n) => q[1].arg < t[i].arg)
    BY <1>1, <2>1 DEF Order
  <2> QED BY <2>2
<1>3. \A j \in 1..Len(e) : Conf(e, j, n) => e[j].serial \in rest
  BY <1>1 DEF Order
<1>4. Order(t, e, n, rest)
  <2>1. ASSUME NEW i \in 1..Len(t), NEW j \in 1..Len(t), i < j, Acks(t, i, n), Acks(t, j, n)
        PROVE  t[i].arg < t[j].arg
    <3>1. /\ i + 1 \in 1..Len(q) /\ j + 1 \in 1..Len(q) /\ i + 1 < j + 1
          /\ Acks(q, i + 1, n) /\ Acks(q, j + 1, n)
      BY <1>1, <2>1
    <3> QED BY <1>1, <3>1 DEF Order
  <2>2. \A i \in 1..Len(t), j \in 1..Len(e) :
          Acks(t, i, n) /\ Conf(e, j, n) => t[i].arg < e[j].serial
    BY <1>1 DEF Order
  <2> QED BY <1>2, <1>3, <2>1, <2>2 DEF Order
<1>5. ASSUME Due(q, e, n, open), NEW s \in rest
      PROVE  \/ \E i \in 1..Len(t) : Acks(t, i, n) /\ t[i].arg = s
             \/ \E j \in 1..Len(e) : Conf(e, j, n) /\ e[j].serial = s
  <2>1. s \in open
    OBVIOUS
  <2>2. ASSUME NEW i \in 1..Len(q), Acks(q, i, n), q[i].arg = s
        PROVE  \E k \in 1..Len(t) : Acks(t, k, n) /\ t[k].arg = s
    <3>1. i # 1
      BY <2>2
    <3>2. i - 1 \in 1..Len(t) /\ t[i - 1] = q[i]
      BY <1>1, <3>1
    <3> QED BY <2>2, <3>2
  <2> QED BY <1>5, <2>1, <2>2 DEF Due
<1> QED BY <1>4, <1>5 DEF Due

\* Hearing a request keeps account of what was drawn before a size was acknowledged.
LEMMA DrawnHears ==
  ASSUME NEW q, NEW t, NEW n, NEW w, NEW v, NEW h, Moved(q, t), Drawn(q, n, w, h),
         IF Acks(q, 1, n) THEN v.acked = TRUE ELSE v.acked = w.acked,
         ~Says(q, 1, n, "attach") => v.attached = w.attached
  PROVE  Drawn(t, n, v, h) /\ (Answer(q, n, w) <=> Answer(t, n, v))
<1>1. Len(t) \in Nat /\ Len(q) = Len(t) + 1 /\ \A i \in 1..Len(t) : t[i] = q[i + 1] /\ i + 1 \in 1..Len(q)
  BY DEF Moved
<1>2. \A i \in 1..Len(t), word \in {"attach", "ack_configure"} : Says(t, i, n, word) <=> Says(q, i + 1, n, word)
  BY <1>1 DEF Says
<1>3. ASSUME NEW i \in 1..Len(q), i # 1
      PROVE  i - 1 \in 1..Len(t) /\ (Acks(t, i - 1, n) <=> Acks(q, i, n))
  <2>1. i - 1 \in 1..Len(t) /\ (i - 1) + 1 = i
    BY <1>1, <1>3
  <2> QED BY <1>2, <2>1 DEF Acks
<1>4. ASSUME NEW i \in 1..Len(t), Says(t, i, n, "attach"), n \notin h, ~v.acked
      PROVE  \E j \in 1..(i - 1) : Acks(t, j, n)
  <2>1. ~w.acked /\ ~Acks(q, 1, n)
    BY <1>4
  <2>2. i + 1 \in 1..Len(q) /\ Says(q, i + 1, n, "attach")
    BY <1>1, <1>2, <1>4
  <2>3. PICK j \in 1..((i + 1) - 1) : Acks(q, j, n)
    BY <1>4, <2>1, <2>2 DEF Drawn
  <2>4. j # 1 /\ j \in 1..Len(q) /\ j - 1 \in 1..(i - 1)
    BY <1>1, <2>1, <2>3
  <2> QED BY <1>3, <2>3, <2>4
<1>5. v.attached /\ ~v.acked => n \in h
  <2> SUFFICES ASSUME v.attached, ~v.acked PROVE n \in h
    OBVIOUS
  <2>1. ~w.acked /\ ~Acks(q, 1, n)
    OBVIOUS
  <2>2. CASE Says(q, 1, n, "attach")
    <3>1. 1 \in 1..Len(q) /\ 1..(1 - 1) = {}
      BY <1>1
    <3> QED BY <2>1, <2>2, <3>1 DEF Drawn
  <2> QED BY <2>1, <2>2 DEF Drawn
<1>6. Answer(q, n, w) <=> Answer(t, n, v)
  <2>1. ASSUME Answer(q, n, w) PROVE Answer(t, n, v)
    <3>1. CASE v.acked
      BY <3>1 DEF Answer
    <3>2. CASE ~v.acked
      <4>1. ~w.acked /\ ~Acks(q, 1, n)
        BY <3>2
      <4>2. PICK i \in 1..Len(q) : Acks(q, i, n)
        BY <2>1, <4>1 DEF Answer
      <4> QED BY <1>3, <4>1, <4>2 DEF Answer
    <3> QED BY <3>1, <3>2
  <2>2. ASSUME Answer(t, n, v) PROVE Answer(q, n, w)
    <3>1. 1 \in 1..Len(q)
      BY <1>1
    <3> QED BY <1>1, <1>2, <2>2, <3>1 DEF Answer, Acks
  <2> QED BY <2>1, <2>2
<1> QED BY <1>4, <1>5, <1>6 DEF Drawn

\* Requests have been made, none of them an answer.
LEMMA JoinedAt ==
  ASSUME NEW q, NEW s, NEW t, Joined(q, s, t)
  PROVE  /\ Len(q) \in Nat /\ Len(t) \in Nat /\ Len(q) <= Len(t)
         /\ \A i \in 1..Len(q) : i \in 1..Len(t) /\ t[i] = q[i]
         /\ \A i \in 1..Len(t) :
              i \in 1..Len(q) \/ (i > Len(q) /\ i - Len(q) \in 1..Len(s) /\ t[i] = s[i - Len(q)])
<1>1. ASSUME NEW i \in 1..Len(t), i > Len(q)
      PROVE  i - Len(q) \in 1..Len(s) /\ t[i] = s[i - Len(q)]
  <2>1. i - Len(q) \in 1..Len(s) /\ t[Len(q) + (i - Len(q))] = s[i - Len(q)]
    BY <1>1 DEF Joined
  <2>2. Len(q) + (i - Len(q)) = i
    BY DEF Joined
  <2> QED BY <2>1, <2>2
<1> QED BY <1>1 DEF Joined

\* New requests that acknowledge nothing leave serials in order.
LEMMA OrderExtends ==
  ASSUME NEW q, NEW s, NEW t, NEW e, NEW n, NEW open, NEW w, Joined(q, s, t),
         \A i \in 1..Len(s) : ~Acks(s, i, n)
  PROVE  /\ Order(q, e, n, open) => Order(t, e, n, open)
         /\ Due(q, e, n, open) => Due(t, e, n, open)
         /\ Answer(q, n, w) <=> Answer(t, n, w)
<1>1. \A i \in 1..Len(q) : i \in 1..Len(t) /\ t[i] = q[i] /\ (Acks(t, i, n) <=> Acks(q, i, n))
  BY JoinedAt DEF Acks, Says
<1>2. ASSUME NEW i \in 1..Len(t), Acks(t, i, n) PROVE i \in 1..Len(q) /\ t[i] = q[i] /\ Acks(q, i, n)
  <2>1. CASE i \in 1..Len(q)
    BY <1>1, <1>2, <2>1
  <2>2. CASE i - Len(q) \in 1..Len(s) /\ t[i] = s[i - Len(q)]
    BY <1>2, <2>2 DEF Acks, Says
  <2> QED BY <2>1, <2>2, JoinedAt
<1>3. Order(q, e, n, open) => Order(t, e, n, open)
  <2> HAVE Order(q, e, n, open)
  <2>1. \A i, j \in 1..Len(t) : i < j /\ Acks(t, i, n) /\ Acks(t, j, n) => t[i].arg < t[j].arg
    BY <1>2 DEF Order
  <2>2. \A i \in 1..Len(t), j \in 1..Len(e) :
          Acks(t, i, n) /\ Conf(e, j, n) => t[i].arg < e[j].serial
    BY <1>2 DEF Order
  <2>3. \A i \in 1..Len(t) : Acks(t, i, n) => t[i].arg \in open
    BY <1>2 DEF Order
  <2> QED BY <2>1, <2>2, <2>3 DEF Order
<1>4. Due(q, e, n, open) => Due(t, e, n, open)
  BY <1>1 DEF Due
<1>5. Answer(q, n, w) <=> Answer(t, n, w)
  BY <1>1, <1>2 DEF Answer
<1> QED BY <1>3, <1>4, <1>5

\* Neither is one of them an image, unless the wallpaper is answered or hasty.
LEMMA DrawnExtends ==
  ASSUME NEW q, NEW s, NEW t, NEW n, NEW w, NEW h, NEW g, Joined(q, s, t), Drawn(q, n, w, h),
         h \subseteq g, \A i \in 1..Len(s) : Says(s, i, n, "attach") => n \in g \/ Answer(q, n, w)
  PROVE  Drawn(t, n, w, g)
<1>1. \A i \in 1..Len(q) : i \in 1..Len(t) /\ t[i] = q[i] /\ (Acks(t, i, n) <=> Acks(q, i, n))
  BY JoinedAt DEF Acks, Says
<1>2. ASSUME NEW i \in 1..Len(t), Says(t, i, n, "attach"), n \notin g, ~w.acked
      PROVE  \E j \in 1..(i - 1) : Acks(t, j, n)
  <2>1. CASE i \in 1..Len(q)
    <3>1. Says(q, i, n, "attach") /\ n \notin h
      BY <1>1, <1>2, <2>1 DEF Says
    <3>2. PICK j \in 1..(i - 1) : Acks(q, j, n)
      BY <1>2, <2>1, <3>1 DEF Drawn
    <3>3. j \in 1..Len(q)
      BY <2>1, JoinedAt
    <3> QED BY <1>1, <3>2, <3>3
  <2>2. CASE i > Len(q) /\ i - Len(q) \in 1..Len(s) /\ t[i] = s[i - Len(q)]
    <3>1. Says(s, i - Len(q), n, "attach")
      BY <1>2, <2>2 DEF Says
    <3>2. PICK j \in 1..Len(q) : Acks(q, j, n)
      BY <1>2, <2>2, <3>1 DEF Answer
    <3>3. j \in 1..(i - 1)
      BY <2>2, JoinedAt
    <3> QED BY <1>1, <3>2, <3>3
  <2> QED BY <2>1, <2>2, JoinedAt
<1> QED BY <1>2 DEF Drawn

\* An event has been dispatched.
LEMMA OrderDispatches ==
  ASSUME NEW q, NEW e, NEW f, NEW n, NEW open, Moved(e, f), Order(q, e, n, open)
  PROVE  Order(q, f, n, open) /\ (Due(q, e, n, open) /\ ~Conf(e, 1, n) => Due(q, f, n, open))
<1>1. Len(f) \in Nat /\ Len(e) = Len(f) + 1 /\ \A i \in 1..Len(f) : f[i] = e[i + 1] /\ i + 1 \in 1..Len(e)
  BY DEF Moved
<1>2. \A i \in 1..Len(f) : Conf(f, i, n) <=> Conf(e, i + 1, n)
  BY <1>1 DEF Conf
<1>3. ASSUME NEW i \in 1..Len(e), i # 1
      PROVE  i - 1 \in 1..Len(f) /\ f[i - 1] = e[i] /\ (Conf(f, i - 1, n) <=> Conf(e, i, n))
  <2>1. i - 1 \in 1..Len(f) /\ (i - 1) + 1 = i
    BY <1>1, <1>3
  <2> QED BY <1>1, <1>2, <2>1
<1>4. Order(q, f, n, open)
  <2>1. \A i \in 1..Len(q), j \in 1..Len(f) :
          Acks(q, i, n) /\ Conf(f, j, n) => q[i].arg < f[j].serial
    BY <1>1, <1>2 DEF Order
  <2>2. ASSUME NEW i \in 1..Len(f), NEW j \in 1..Len(f), i < j, Conf(f, i, n), Conf(f, j, n)
        PROVE  f[i].serial < f[j].serial
    <3>1. /\ i + 1 \in 1..Len(e) /\ j + 1 \in 1..Len(e) /\ i + 1 < j + 1
          /\ Conf(e, i + 1, n) /\ Conf(e, j + 1, n)
      BY <1>1, <1>2, <2>2
    <3> QED BY <1>1, <3>1 DEF Order
  <2>3. \A j \in 1..Len(f) : Conf(f, j, n) => f[j].serial \in open
    BY <1>1, <1>2 DEF Order
  <2> QED BY <2>1, <2>2, <2>3 DEF Order
<1>5. Due(q, e, n, open) /\ ~Conf(e, 1, n) => Due(q, f, n, open)
  <2> SUFFICES ASSUME Due(q, e, n, open), ~Conf(e, 1, n), NEW s \in open,
                      NEW j \in 1..Len(e), Conf(e, j, n), e[j].serial = s
               PROVE  \E k \in 1..Len(f) : Conf(f, k, n) /\ f[k].serial = s
    BY DEF Due
  <2>1. j # 1
    OBVIOUS
  <2> QED BY <1>3, <2>1
<1> QED BY <1>4, <1>5

\* It has been answered.
LEMMA OrderAnswers ==
  ASSUME NEW q, NEW s, NEW t, NEW e, NEW f, NEW n, NEW open, NEW w, Joined(q, s, t), Moved(e, f),
         Order(q, e, n, open), Due(q, e, n, open), Conf(e, 1, n),
         Len(s) > 0, Acks(s, 1, n), s[1].arg = e[1].serial,
         \A i \in 1..Len(s) : i # 1 => ~Acks(s, i, n)
  PROVE  Order(t, f, n, open) /\ Due(t, f, n, open) /\ Answer(t, n, w)
<1>0. Len(s) \in Nat
  BY DEF Joined
<1>1. \A i \in 1..Len(q) : i \in 1..Len(t) /\ t[i] = q[i] /\ (Acks(t, i, n) <=> Acks(q, i, n))
  BY JoinedAt DEF Acks, Says
<1> DEFINE m == Len(q) + 1
<1>2. m \in 1..Len(t) /\ t[m] = s[1] /\ m > Len(q) /\ Acks(t, m, n) /\ t[m].arg = e[1].serial
  BY <1>0 DEF Joined, Acks, Says
<1>3. ASSUME NEW i \in 1..Len(t), Acks(t, i, n)
      PROVE  i = m \/ (i \in 1..Len(q) /\ t[i] = q[i] /\ Acks(q, i, n))
  <2>1. CASE i \in 1..Len(q)
    BY <1>1, <1>3, <2>1
  <2>2. CASE i > Len(q) /\ i - Len(q) \in 1..Len(s) /\ t[i] = s[i - Len(q)]
    <3>1. Acks(s, i - Len(q), n)
      BY <1>3, <2>2 DEF Acks, Says
    <3>2. i - Len(q) = 1
      BY <2>2, <3>1
    <3> QED BY <3>2, JoinedAt
  <2> QED BY <2>1, <2>2, JoinedAt
<1> HIDE DEF m
<1>4. /\ Len(f) \in Nat /\ Len(e) = Len(f) + 1 /\ 1 \in 1..Len(e)
      /\ \A i \in 1..Len(f) : f[i] = e[i + 1] /\ i + 1 \in 1..Len(e) /\ 1 < i + 1
  BY DEF Moved
<1>5. \A i \in 1..Len(f) : Conf(f, i, n) <=> Conf(e, i + 1, n)
  BY <1>4 DEF Conf
<1>6. Order(q, f, n, open)
  BY OrderDispatches
<1>7. \A i \in 1..Len(q) : Acks(q, i, n) => q[i].arg < e[1].serial
  BY <1>4 DEF Order
<1>8. \A j \in 1..Len(f) : Conf(f, j, n) => e[1].serial < f[j].serial
  BY <1>4, <1>5 DEF Order
<1>9. e[1].serial \in open
  BY <1>4 DEF Order
<1>10. Order(t, f, n, open)
  <2>1. ASSUME NEW i \in 1..Len(t), NEW j \in 1..Len(t), i < j, Acks(t, i, n), Acks(t, j, n)
        PROVE  t[i].arg < t[j].arg
    <3>1. i # m
      BY <1>2, <1>3, <2>1, JoinedAt
    <3> QED BY <1>2, <1>3, <1>6, <1>7, <2>1, <3>1 DEF Order
  <2>2. \A i \in 1..Len(t), j \in 1..Len(f) :
          Acks(t, i, n) /\ Conf(f, j, n) => t[i].arg < f[j].serial
    BY <1>2, <1>3, <1>6, <1>8 DEF Order
  <2>3. \A i \in 1..Len(t) : Acks(t, i, n) => t[i].arg \in open
    BY <1>2, <1>3, <1>6, <1>9 DEF Order
  <2> QED BY <1>6, <2>1, <2>2, <2>3 DEF Order
<1>11. ASSUME NEW x \in open
       PROVE  \/ \E i \in 1..Len(t) : Acks(t, i, n) /\ t[i].arg = x
              \/ \E j \in 1..Len(f) : Conf(f, j, n) /\ f[j].serial = x
  <2>1. ASSUME NEW j \in 1..Len(e), Conf(e, j, n), e[j].serial = x, j # 1
        PROVE  \E k \in 1..Len(f) : Conf(f, k, n) /\ f[k].serial = x
    <3>1. j - 1 \in 1..Len(f) /\ (j - 1) + 1 = j
      BY <1>4, <2>1
    <3> QED BY <1>4, <1>5, <2>1, <3>1
  <2>2. \/ \E i \in 1..Len(q) : Acks(q, i, n) /\ q[i].arg = x
        \/ \E j \in 1..Len(e) : Conf(e, j, n) /\ e[j].serial = x
    BY DEF Due
  <2> QED BY <1>1, <1>2, <2>1, <2>2
<1> QED BY <1>2, <1>10, <1>11 DEF Due, Answer

\* An event is sent: another one than to configure n, or one with a new serial.
LEMMA OrderSends ==
  ASSUME NEW q, NEW e, NEW s, NEW f, NEW n, NEW open, NEW more, Joined(e, s, f), Len(s) = 1,
         Order(q, e, n, open), open \subseteq Nat, Len(q) \in Nat,
         IF Conf(s, 1, n)
         THEN more = open \cup {s[1].serial} /\ \A x \in open : x < s[1].serial
         ELSE more = open
  PROVE  Order(q, f, n, more) /\ (Due(q, e, n, open) => Due(q, f, n, more))
<1>1. \A i \in 1..Len(e) : i \in 1..Len(f) /\ f[i] = e[i] /\ (Conf(f, i, n) <=> Conf(e, i, n))
  BY JoinedAt DEF Conf
<1> DEFINE m == Len(e) + 1
<1>2. m \in 1..Len(f) /\ f[m] = s[1] /\ m > Len(e) /\ (Conf(f, m, n) <=> Conf(s, 1, n))
  BY DEF Joined, Conf
<1>3. \A i \in 1..Len(f) : i = m \/ i \in 1..Len(e)
  BY DEF Joined
<1> HIDE DEF m
<1>4. Order(q, f, n, more)
  <2>1. \A i \in 1..Len(q) : Acks(q, i, n) => q[i].arg \in open /\ q[i].arg \in more
    BY DEF Order
  <2>2. \A i \in 1..Len(q), j \in 1..Len(f) :
          Acks(q, i, n) /\ Conf(f, j, n) => q[i].arg < f[j].serial
    BY <1>1, <1>2, <1>3, <2>1 DEF Order
  <2>3. ASSUME NEW i \in 1..Len(f), NEW j \in 1..Len(f), i < j, Conf(f, i, n), Conf(f, j, n)
        PROVE  f[i].serial < f[j].serial
    <3>1. i # m
      BY <1>2, <1>3, <2>3, JoinedAt
    <3>2. i \in 1..Len(e) /\ Conf(e, i, n) /\ f[i] = e[i] /\ e[i].serial \in open
      BY <1>1, <1>3, <2>3, <3>1 DEF Order
    <3> QED BY <1>1, <1>2, <1>3, <2>3, <3>2 DEF Order
  <2>4. \A j \in 1..Len(f) : Conf(f, j, n) => f[j].serial \in more
    BY <1>1, <1>2, <1>3 DEF Order
  <2> QED BY <2>1, <2>2, <2>3, <2>4 DEF Order
<1>5. ASSUME Due(q, e, n, open), NEW x \in more
      PROVE  \/ \E i \in 1..Len(q) : Acks(q, i, n) /\ q[i].arg = x
             \/ \E j \in 1..Len(f) : Conf(f, j, n) /\ f[j].serial = x
  <2>1. CASE x \in open
    BY <1>1, <1>5, <2>1 DEF Due
  <2>2. CASE Conf(s, 1, n) /\ x = s[1].serial
    BY <1>2, <2>2
  <2> QED BY <2>1, <2>2
<1> QED BY <1>4, <1>5 DEF Due

-----------------------------------------------------------------------------
(***************************************************************************)
(* The invariant.                                                          *)
(***************************************************************************)
Used == {layer[o] : o \in outs} \ {0}

\* Types but for what is under way.
Types ==
  /\ pc \in {"loop", "ended"} /\ lshell \in {0, 2} /\ outs \subseteq Outputs
  /\ layer \in [Outputs -> 0..made] /\ safe \in [Outputs -> BOOLEAN]
  /\ size \in [Outputs -> Sizes \cup {0}] /\ made \in 0..MaxLayers
  /\ hasty \subseteq 1..made /\ wall \in [Layers -> Wallpapers] /\ shell \in BOOLEAN
  /\ serial \in Nat /\ repeats \in 0..MaxRepeats
  /\ error \in {"none", "unconfigured", "version"}

\* The table of outputs: no two of them have the same wallpaper; nothing is made before
\* there is a layer shell, nor heard after the end.
TableInv ==
  /\ \A o \in Outputs : o \notin outs => layer[o] = 0
  /\ \A o, p \in Outputs : layer[o] = layer[p] /\ layer[o] # 0 => o = p
  /\ lshell = 0 => made = 0 /\ reqs = <<>> /\ evs = <<>>
  /\ lshell # 0 => shell
  /\ pc = "ended" => evs = <<>>

\* The requests and events that are under way.
Talk == UNION {Said(n) : n \in 1..made}
News == {Event(n, 0, s, d) : n \in 1..made, s \in 1..serial, d \in Sizes}
          \cup {Event(n, 1, 0, 0) : n \in 1..made}
WireInv ==
  /\ reqs \in Seq(Talk \cup {zwlr_layer_shell_v1_destroy})
  /\ pc = "loop" => reqs \in Seq(Talk)
  /\ evs \in Seq(News)

\* Every wallpaper has one first configure event; serials that are open have been sent.
Begun == {n \in Layers : wall[n].acked \/ wall[n].open # {}}
CountInv ==
  /\ serial = repeats + Cardinality(Begun)
  /\ \A n \in Layers : wall[n].open \subseteq 1..serial

\* What is under way about n is in order; when an output has it nothing is missing, and
\* safe_to_draw tells whether the first answer has been made.
Line(q, e, n, w, h) == Life(q, n, w) /\ Order(q, e, n, w.open) /\ Drawn(q, n, w, h)
Active(q, e, n, w) == Kept(q, n, w) /\ Due(q, e, n, w.open)
Fine(n) ==
  /\ Line(reqs, evs, n, wall[n], hasty)
  /\ pc = "loop" /\ n \in Used => Active(reqs, evs, n, wall[n])
  /\ n \notin Used => Dropped(reqs, n, wall[n])
  /\ pc = "loop" => \A o \in outs : layer[o] = n => (safe[o] <=> Answer(reqs, n, wall[n]))
LiveInv ==
  /\ \A n \in 1..made : Fine(n)
  /\ \A n \in Layers : n > made => wall[n] = Blank

CauseInv ==
  /\ error = "unconfigured" => hasty # {}
  /\ error = "version" => pc = "ended"

IInv == Types /\ TableInv /\ WireInv /\ CountInv /\ CauseInv /\ (Live => LiveInv)

-----------------------------------------------------------------------------
(***************************************************************************)
(* The invariant implies the properties of LayerProperties.                *)
(***************************************************************************)
LEMMA TalkSaid ==
  ASSUME NEW r \in Talk PROVE r.n \in 1..made /\ r \in Said(r.n)
<1>1. PICK n \in 1..made : r \in Said(n)
  BY DEF Talk
<1>2. r.n = n
  BY <1>1, SaidWords
<1> QED BY <1>1, <1>2

\* Everything ewd says is a request of the bindings, known to version 2.
LEMMA TalkTypes ==
  ASSUME NEW r \in Talk, lshell = 2
  PROVE  /\ IF r.kind = "surface" THEN r \in SurfaceRequests ELSE r \in LayerRequests \cup ShellRequests
         /\ Known(r)
<1>1. PICK n \in 1..made : r \in Said(n)
  BY DEF Talk
<1>2. /\ ShellSince["get_layer_surface"] = 1 /\ LayerSince["set_exclusive_zone"] = 1
      /\ LayerSince["set_anchor"] = 1 /\ LayerSince["ack_configure"] = 1 /\ LayerSince["destroy"] = 1
  BY DEF ShellSince, LayerSince
<1>3. \A name, since : Message(name, since).name = name
  BY DEF Message
<1>4. Anchors = 15 /\ BACKGROUND = 0
  BY DEF Anchors, BACKGROUND, TOP, BOTTOM, LEFT, RIGHT
<1>5. CASE \E name \in SurfaceWords : r = Surface(n, name)
  <2>1. PICK name \in SurfaceWords : r = Surface(n, name)
    BY <1>5
  <2>2. r.kind = "surface"
    BY <2>1, Fields
  <2>3. r \in SurfaceRequests
    BY <2>1 DEF SurfaceRequests, SurfaceWords
  <2> QED BY <2>2, <2>3 DEF Known
<1>6. CASE r = zwlr_layer_shell_v1_get_layer_surface(n, BACKGROUND)
  <2>1. r.kind = "shell" /\ r.ver = 2 /\ Meaning(r).name = "get_layer_surface"
    BY <1>3, <1>6, Fields, Meanings
  <2>2. r \in ShellRequests
    BY <1>4, <1>6 DEF ShellRequests
  <2> QED BY <1>2, <2>1, <2>2 DEF Known
<1>7. CASE r = zwlr_layer_surface_v1_set_exclusive_zone(n, -1)
  <2>1. r.kind = "layer" /\ r.ver = 2 /\ Meaning(r).name = "set_exclusive_zone"
    BY <1>3, <1>7, Fields, Meanings
  <2>2. r \in LayerRequests
    BY <1>7 DEF LayerRequests
  <2> QED BY <1>2, <2>1, <2>2 DEF Known
<1>8. CASE r = zwlr_layer_surface_v1_set_anchor(n, Anchors)
  <2>1. r.kind = "layer" /\ r.ver = 2 /\ Meaning(r).name = "set_anchor"
    BY <1>3, <1>8, Fields, Meanings
  <2>2. r \in LayerRequests
    BY <1>4, <1>8 DEF LayerRequests
  <2> QED BY <1>2, <2>1, <2>2 DEF Known
<1>9. CASE r = zwlr_layer_surface_v1_destroy(n)
  <2>1. r.kind = "layer" /\ r.ver = 2 /\ Meaning(r).name = "destroy"
    BY <1>3, <1>9, Fields, Meanings
  <2>2. r \in LayerRequests
    BY <1>9 DEF LayerRequests
  <2> QED BY <1>2, <2>1, <2>2 DEF Known
<1>10. CASE \E s \in 1..serial : r = zwlr_layer_surface_v1_ack_configure(n, s)
  <2>1. PICK s \in 1..serial : r = zwlr_layer_surface_v1_ack_configure(n, s)
    BY <1>10
  <2>2. r.kind = "layer" /\ r.ver = 2 /\ Meaning(r).name = "ack_configure"
    BY <1>3, <2>1, Fields, Meanings
  <2>3. r \in LayerRequests
    BY <2>1 DEF LayerRequests
  <2> QED BY <1>2, <2>2, <2>3 DEF Known
<1> QED BY <1>1, <1>5, <1>6, <1>7, <1>8, <1>9, <1>10, Sayable

\* A wallpaper is counted once.
LEMMA BegunBound ==
  ASSUME Types
  PROVE  /\ IsFiniteSet(Begun) /\ Cardinality(Begun) \in 0..MaxLayers
         /\ \A n \in Layers : n \notin Begun =>
              /\ Cardinality(Begun \cup {n}) = Cardinality(Begun) + 1
              /\ Cardinality(Begun) + 1 <= MaxLayers
<1>1. IsFiniteSet(Layers) /\ Cardinality(Layers) = MaxLayers /\ MaxLayers \in Nat
  BY FS_Interval, LayerAssumption DEF Layers, LayerAssumption
<1>2. Begun \subseteq Layers
  BY DEF Begun
<1>3. IsFiniteSet(Begun) /\ Cardinality(Begun) \in Nat /\ Cardinality(Begun) <= MaxLayers
  BY <1>1, <1>2, FS_Subset, FS_CardinalityType
<1>4. ASSUME NEW n \in Layers, n \notin Begun
      PROVE  /\ Cardinality(Begun \cup {n}) = Cardinality(Begun) + 1
             /\ Cardinality(Begun) + 1 <= MaxLayers
  <2>1. Cardinality(Begun \cup {n}) = Cardinality(Begun) + 1
    BY <1>3, <1>4, FS_AddElement
  <2>2. Begun \cup {n} \subseteq Layers
    BY <1>2
  <2>3. Cardinality(Begun \cup {n}) <= MaxLayers
    BY <1>1, <2>2, FS_Subset
  <2> QED BY <2>1, <2>3
<1> QED BY <1>1, <1>3, <1>4

\* The invariant implies the types ...
LEMMA InvTypes == Types /\ TableInv /\ WireInv /\ CountInv => TypeOK
<1> SUFFICES ASSUME Types, TableInv, WireInv, CountInv PROVE TypeOK
  OBVIOUS
<1>1. serial \in 0..(MaxLayers + MaxRepeats)
  BY BegunBound, LayerAssumption DEF LayerAssumption, CountInv, Types
<1>2. ASSUME NEW i \in DOMAIN reqs
      PROVE  IF reqs[i].kind = "surface" THEN reqs[i] \in SurfaceRequests
             ELSE reqs[i] \in LayerRequests \cup ShellRequests
  <2>1. reqs[i] \in Talk \cup {zwlr_layer_shell_v1_destroy}
    BY DEF WireInv
  <2>2. CASE reqs[i] \in Talk
    <3>1. made # 0
      BY <2>2 DEF Talk, Types
    <3>2. lshell = 2
      BY <3>1 DEF TableInv, Types
    <3> QED BY <2>2, <3>2, TalkTypes
  <2>3. CASE reqs[i] = zwlr_layer_shell_v1_destroy
    BY <2>3 DEF ShellRequests, zwlr_layer_shell_v1_destroy, Request
  <2> QED BY <2>1, <2>2, <2>3
<1>3. ASSUME NEW i \in DOMAIN evs PROVE evs[i].n \in 1..made /\ evs[i].op \in {0, 1}
  BY DEF WireInv, News, Event
<1>4. error \in Errors \cup {"none"}
  BY DEF Types, Errors
<1> QED BY <1>1, <1>2, <1>3, <1>4 DEF TypeOK, Types

\* ... the causes of protocol errors ...
LEMMA InvCause == Types /\ TableInv /\ WireInv /\ CauseInv => ErrorCause
<1> SUFFICES ASSUME Types, TableInv, WireInv, CauseInv PROVE ErrorCause
  OBVIOUS
<1>1. ASSUME pc = "loop", NEW i \in DOMAIN reqs PROVE Known(reqs[i])
  <2>1. reqs[i] \in Talk
    BY <1>1 DEF WireInv
  <2>2. lshell = 2
    BY <2>1 DEF Talk, Types, TableInv
  <2> QED BY <2>1, <2>2, TalkTypes
<1> QED BY <1>1 DEF ErrorCause, Types, CauseInv

\* ... and that both ends agree.
LEMMA InvSync == Types /\ TableInv /\ LiveInv => InSync
<1> SUFFICES ASSUME Types, TableInv, LiveInv, pc = "loop", Live, reqs = <<>>, evs = <<>>
             PROVE  /\ \A n \in Layers : wall[n].role = "live" <=> \E o \in outs : layer[o] = n
                    /\ \A n \in Layers : wall[n].surface = "live" <=> wall[n].role = "live"
                    /\ \A o \in outs : layer[o] # 0 =>
                         LET w == wall[layer[o]] IN
                         /\ w.layer = BACKGROUND /\ w.zone = -1 /\ w.anchor = Anchors
                         /\ safe[o] <=> w.acked
                         /\ w.open = {}
  BY DEF InSync
<1>0. 1..Len(reqs) = {} /\ Len(reqs) = 0 /\ 1..Len(evs) = {}
  OBVIOUS
<1>1. ASSUME NEW n \in 1..made
      PROVE  /\ n \in Layers /\ wall[n].layer = BACKGROUND /\ wall[n].zone = -1
             /\ wall[n].anchor = Anchors
             /\ wall[n].role = "live" <=> n \in Used
             /\ wall[n].surface = "live" <=> wall[n].role = "live"
             /\ n \in Used => wall[n].open = {}
             /\ \A o \in outs : layer[o] = n => (safe[o] <=> wall[n].acked)
  <2>1. Fine(n) /\ n \in Layers /\ wall[n] \in Wallpapers
    BY LayerAssumption DEF LayerAssumption, LiveInv, Types, Layers
  <2>2. Birth(reqs, n, wall[n]) /\ Death(reqs, n, wall[n])
    BY <2>1 DEF Fine, Line, Life
  <2>3. Born(reqs, n, wall[n])
    BY <1>0, <2>2 DEF Birth, Unborn
  <2>4. wall[n].role \in {"live", "dead"} /\ wall[n].surface \in {"live", "dead"}
    BY <2>1, <2>3 DEF Wallpapers, Born
  <2>5. wall[n].role = "dead" <=> wall[n].surface = "dead"
    BY <1>0, <2>2 DEF Death
  <2>6. n \in Used => wall[n].role # "dead" /\ wall[n].open = {}
    BY <1>0, <2>1 DEF Fine, Active, Kept, Due
  <2>7. n \notin Used => wall[n].role = "dead"
    BY <1>0, <2>1 DEF Fine, Dropped
  <2>8. \A o \in outs : layer[o] = n => (safe[o] <=> wall[n].acked)
    BY <1>0, <2>1 DEF Fine, Answer
  <2> QED BY <2>1, <2>3, <2>4, <2>5, <2>6, <2>7, <2>8 DEF Born
<1>2. ASSUME NEW n \in Layers, n \notin 1..made
      PROVE  wall[n].role = "none" /\ wall[n].surface = "none" /\ n \notin Used
  <2>1. n > made
    BY <1>2 DEF Layers, Types
  <2> QED BY <2>1 DEF LiveInv, Blank, Used, Types
<1>3. \A n \in Layers : n \in Used <=> \E o \in outs : layer[o] = n
  BY DEF Used, Layers
<1>4. \A o \in outs : layer[o] # 0 => layer[o] \in 1..made /\ layer[o] \in Used
  BY DEF Used, Types
<1> QED BY <1>1, <1>2, <1>3, <1>4

-----------------------------------------------------------------------------
(***************************************************************************)
(* What a step leaves in order.                                            *)
(***************************************************************************)
LEMMA JoinsNothing == ASSUME NEW q, Len(q) \in Nat PROVE Joined(q, <<>>, q)
  BY DEF Joined

\* Requests about another wallpaper have been made.
LEMMA LineExtends ==
  ASSUME NEW q, NEW s, NEW t, NEW e, NEW n, NEW w, NEW h, NEW g, Joined(q, s, t), h \subseteq g,
         \A i \in 1..Len(s) : s[i].n # n
  PROVE  /\ Line(q, e, n, w, h) => Line(t, e, n, w, g)
         /\ Line(q, e, n, w, h) /\ Active(q, e, n, w) => Active(t, e, n, w)
         /\ Line(q, e, n, w, h) /\ Dropped(q, n, w) => Dropped(t, n, w)
         /\ Answer(q, n, w) <=> Answer(t, n, w)
<1>1. \A i \in 1..Len(s) : ~Acks(s, i, n) /\ ~Says(s, i, n, "attach")
  BY DEF Acks, Says
<1>2. /\ Order(q, e, n, w.open) => Order(t, e, n, w.open)
      /\ Due(q, e, n, w.open) => Due(t, e, n, w.open)
      /\ Answer(q, n, w) <=> Answer(t, n, w)
  BY <1>1, OrderExtends
<1>3. Drawn(q, n, w, h) => Drawn(t, n, w, g)
  BY <1>1, DrawnExtends
<1> QED BY <1>2, <1>3, LifeExtends DEF Line, Active

\* An event has been dispatched; nothing is missing unless it was to configure n.
LEMMA LineDispatches ==
  ASSUME NEW q, NEW e, NEW f, NEW n, NEW w, NEW h, Moved(e, f), Line(q, e, n, w, h)
  PROVE  /\ Line(q, f, n, w, h)
         /\ Active(q, e, n, w) /\ ~Conf(e, 1, n) => Active(q, f, n, w)
  BY OrderDispatches DEF Line, Active

\* A wallpaper that is not concerned.
Spared(n) ==
  /\ wall'[n] = wall[n] /\ pc' \in {pc, "ended"} /\ (n \in Used' <=> n \in Used)
  /\ \A o \in outs' : layer'[o] = n => o \in outs /\ layer[o] = n /\ safe'[o] = safe[o]

\* A wallpaper that a step does not concern stays in order.
LEMMA FineStays ==
  ASSUME NEW n, NEW s, Fine(n), Spared(n), hasty \subseteq hasty', Joined(reqs, s, reqs'),
         \A i \in 1..Len(s) : s[i].n # n, pc' \in {"loop", "ended"},
         \/ evs' = evs
         \/ Moved(evs, evs') /\ (pc' = "loop" /\ n \in Used => ~Conf(evs, 1, n))
  PROVE  Fine(n)'
<1> DEFINE w == wall[n]
<1>1. Line(reqs, evs, n, w, hasty)
  BY DEF Fine
<1>2. /\ Line(reqs', evs, n, w, hasty')
      /\ Active(reqs, evs, n, w) => Active(reqs', evs, n, w)
      /\ Dropped(reqs, n, w) => Dropped(reqs', n, w)
      /\ Answer(reqs, n, w) <=> Answer(reqs', n, w)
  BY <1>1, LineExtends
<1>3. Line(reqs', evs', n, w, hasty')
  BY <1>2, LineDispatches
<1>4. pc' = "loop" /\ n \in Used /\ Active(reqs, evs, n, w) => Active(reqs', evs', n, w)
  BY <1>2, LineDispatches
<1>5. pc' = "loop" => pc = "loop"
  BY DEF Spared
<1> QED BY <1>2, <1>3, <1>4, <1>5 DEF Fine, Spared

\* One that is given up.
LEMMA RemovalSays ==
  ASSUME NEW n, n # 0
  PROVE  LET s == Removal(n) IN
           /\ Len(s) = 2 /\ Says(s, 1, n, "unrole") /\ Says(s, 2, n, "destroy")
           /\ \A i \in 1..Len(s) : s[i].n = n /\ s[i] \in Said(n)
<1> DEFINE s == Removal(n)
<1>1. s = <<zwlr_layer_surface_v1_destroy(n), Surface(n, "destroy")>>
  BY DEF Removal
<1>2. Len(s) = 2 /\ s[1] = zwlr_layer_surface_v1_destroy(n) /\ s[2] = Surface(n, "destroy")
  BY <1>1
<1> HIDE DEF s
<1>3. s[1].n = n /\ s[2].n = n /\ Word(s[1]) = "unrole" /\ Word(s[2]) = "destroy"
  BY <1>2, Words, Fields DEF SurfaceWords
<1>4. s[1] \in Said(n) /\ s[2] \in Said(n)
  BY <1>2 DEF Said, SurfaceWords
<1>5. \A i \in 1..Len(s) : i = 1 \/ i = 2
  BY <1>2
<1> QED BY <1>2, <1>3, <1>4, <1>5 DEF Says, s

\* out_layer_free ends the requests about a wallpaper ...
LEMMA LineDrops ==
  ASSUME NEW q, NEW s, NEW t, NEW e, NEW n, NEW w, NEW h, Joined(q, s, t), Line(q, e, n, w, h),
         Kept(q, n, w), NEW a \in 1..Len(s), a < Len(s),
         Says(s, a, n, "unrole"), Says(s, a + 1, n, "destroy"),
         \A i \in 1..Len(s) : s[i].n = n => i \in {a, a + 1}
  PROVE  Line(t, e, n, w, h) /\ Dropped(t, n, w)
<1>1. \A i \in 1..Len(s) : ~Acks(s, i, n) /\ ~Says(s, i, n, "attach")
  BY DEF Acks, Says
<1>2. Order(q, e, n, w.open) => Order(t, e, n, w.open)
  BY <1>1, OrderExtends
<1>3. Drawn(q, n, w, h) => Drawn(t, n, w, h)
  BY <1>1, DrawnExtends
<1>4. Life(t, n, w) /\ Dropped(t, n, w)
  BY LifeDrops DEF Line
<1> QED BY <1>2, <1>3, <1>4 DEF Line

\* ... and it is in order that nothing follows, as no output has it any more.
LEMMA FineDrops ==
  ASSUME NEW n, n # 0, Fine(n), pc = "loop", n \in Used, n \notin Used', wall'[n] = wall[n],
         \A o \in outs' : layer'[o] # n, hasty' = hasty, Joined(reqs, Removal(n), reqs'),
         evs' = evs \/ Moved(evs, evs')
  PROVE  Fine(n)'
<1> DEFINE w == wall[n]  s == Removal(n)
<1>1. Line(reqs, evs, n, w, hasty) /\ Kept(reqs, n, w)
  BY DEF Fine, Active
<1>2. /\ Len(s) = 2 /\ Says(s, 1, n, "unrole") /\ Says(s, 1 + 1, n, "destroy")
      /\ 1 \in 1..Len(s) /\ 1 < Len(s) /\ \A i \in 1..Len(s) : i \in {1, 1 + 1}
  BY RemovalSays
<1> HIDE DEF s
<1>3. Line(reqs', evs, n, w, hasty) /\ Dropped(reqs', n, w)
  BY <1>1, <1>2, LineDrops DEF s
<1>4. Line(reqs', evs', n, w, hasty)
  BY <1>3, LineDispatches
<1> QED BY <1>3, <1>4 DEF Fine

\* Requests and events that have been possible stay possible, ...
LEMMA TalkGrows ==
  ASSUME Types, Types', lshell' = lshell, made <= made', serial <= serial'
  PROVE  /\ Talk \subseteq Talk' /\ News \subseteq News'
         /\ zwlr_layer_shell_v1_destroy' = zwlr_layer_shell_v1_destroy
<1>1. 1..made \subseteq 1..made' /\ 1..serial \subseteq 1..serial'
  BY DEF Types
<1>2. \A n : Said(n) \subseteq Said(n)'
  BY <1>1 DEF Said, Request, Surface, zwlr_layer_shell_v1_get_layer_surface,
     zwlr_layer_surface_v1_set_exclusive_zone, zwlr_layer_surface_v1_set_anchor,
     zwlr_layer_surface_v1_destroy, zwlr_layer_surface_v1_ack_configure
<1>3. Talk \subseteq Talk'
  BY <1>1, <1>2 DEF Talk
<1>4. News \subseteq News'
  BY <1>1 DEF News, Event
<1> QED BY <1>3, <1>4 DEF zwlr_layer_shell_v1_destroy, Request

\* ... and the wire has no others.
LEMMA WireStays ==
  ASSUME Types, Types', WireInv, lshell' = lshell, made <= made', serial <= serial', pc' = pc,
         NEW s \in Seq(Talk'), reqs' = reqs \o s, evs' \in Seq(News')
  PROVE  WireInv'
<1> DEFINE D == Talk \cup {zwlr_layer_shell_v1_destroy}
<1>1. Talk \subseteq Talk' /\ D \subseteq D'
  BY TalkGrows
<1> HIDE DEF D
<1>2. s \in Seq(D')
  BY DEF D
<1>3. reqs \in Seq(D') /\ (pc = "loop" => reqs \in Seq(Talk'))
  BY <1>1 DEF WireInv, D
<1>4. reqs' \in Seq(D') /\ (pc = "loop" => reqs' \in Seq(Talk'))
  BY <1>2, <1>3
<1> QED BY <1>4 DEF WireInv, D

\* What is under way from the compositor stays news.
LEMMA NewsStays ==
  ASSUME Types, Types', WireInv, lshell' = lshell, made <= made', serial <= serial',
         evs' = evs \/ (evs # <<>> /\ evs' = Tail(evs)) \/ \E e \in News' : evs' = Append(evs, e)
  PROVE  evs' \in Seq(News')
<1>1. evs \in Seq(News')
  BY TalkGrows DEF WireInv
<1> HIDE DEF News
<1> QED BY <1>1

\* A wallpaper that has another output or none is not given up with this one.
LEMMA UsedWithout ==
  ASSUME Types, TableInv, NEW o \in outs, outs' \in {outs, outs \ {o}},
         layer' = [layer EXCEPT ![o] = 0]
  PROVE  Used' = Used \ {layer[o]}
  BY DEF Used, Types, TableInv

-----------------------------------------------------------------------------
(***************************************************************************)
(* Every action keeps the invariant.                                       *)
(***************************************************************************)
LEMMA AddsShell ==
  ASSUME IInv, NEW ver \in Offers, reg_add_lshell(ver) PROVE IInv'
<1> USE DEF reg_add_lshell
<1>1. lshell = 0 /\ made = 0 /\ reqs = <<>> /\ evs = <<>> /\ pc = "loop" /\ error = "none"
  BY DEF IInv, TableInv, Live
<1>2. Types'
  BY DEF IInv, Types
<1>3. TableInv'
  BY <1>1 DEF IInv, TableInv
<1>4. WireInv'
  BY <1>1 DEF WireInv
<1>5. CountInv' /\ CauseInv'
  BY <1>1 DEF IInv, CountInv, Begun, CauseInv
<1>6. LiveInv'
  <2>1. made' = 0 /\ wall' = wall /\ LiveInv
    BY <1>1 DEF IInv, Live
  <2> QED BY <1>1, <2>1 DEF LiveInv
<1> QED BY <1>2, <1>3, <1>4, <1>5, <1>6 DEF IInv

\* out's wallpaper, if there is one, is given up.
LEMMA SeqEmpty == ASSUME NEW S PROVE <<>> \in Seq(S)
  OBVIOUS

\* Sequences of one and of two items.
LEMMA Pair ==
  ASSUME NEW S, NEW a \in S, NEW b \in S PROVE <<a>> \in Seq(S) /\ <<a, b>> \in Seq(S)
  OBVIOUS

\* Taking an output its wallpaper, as reg_del and ls_close do.
LEMMA Removes ==
  ASSUME IInv, pc = "loop", NEW o \in outs, outs' \in {outs, outs \ {o}},
         NEW n, n = layer[o], Replace(o, 0, Removal(n)),
         evs' = evs \/ (evs # <<>> /\ evs' = Tail(evs) /\ Head(evs).op = 1),
         UNCHANGED <<pc, lshell, size, made, hasty, wall, shell, serial, repeats, error>>
  PROVE  IInv'
<1> DEFINE s == Removal(n)
<1>1. o \in Outputs /\ n \in 0..made
  BY DEF IInv, Types
<1>2. layer' = [layer EXCEPT ![o] = 0] /\ safe' = [safe EXCEPT ![o] = FALSE] /\ reqs' = reqs \o s
  BY DEF Replace
<1>3. Types'
  BY <1>1, <1>2 DEF IInv, Types
<1>4. n = 0 => s = <<>>
  BY DEF Removal
<1>5. n # 0 => /\ Len(s) = 2 /\ Says(s, 1, n, "unrole") /\ Says(s, 2, n, "destroy")
               /\ \A i \in 1..Len(s) : s[i].n = n /\ s[i] \in Said(n)
  BY RemovalSays
<1>6. s \in Seq(Talk)
  <2>1. CASE n = 0
    <3>1. s = <<>>
      BY <1>4, <2>1
    <3> HIDE DEF s
    <3> QED BY <3>1, SeqEmpty
  <2>2. CASE n # 0
    <3>1. n \in 1..made
      BY <1>1, <2>2
    <3>2. s[1] \in Talk /\ s[2] \in Talk
      BY <1>5, <2>2, <3>1 DEF Talk
    <3>3. s = <<s[1], s[2]>>
      BY <2>2 DEF Removal
    <3> HIDE DEF s
    <3> QED BY <3>2, <3>3, Pair
  <2> QED BY <2>1, <2>2
<1>7. \A i \in 1..Len(s) : s[i].n = n
  BY <1>4, <1>5
<1> HIDE DEF s
<1>8. /\ Joined(reqs, s, reqs') /\ (evs' = evs \/ (Moved(evs, evs') /\ evs[1].op = 1))
  <2>1. reqs \in Seq(Talk) /\ evs \in Seq(News)
    BY DEF IInv, WireInv
  <2>2. evs # <<>> => Moved(evs, Tail(evs)) /\ Head(evs) = evs[1]
    BY <2>1, TailMoves
  <2> QED BY <1>2, <1>6, <2>1, <2>2, ConcatJoins
<1>9. WireInv'
  <2>1. made \in Nat /\ serial \in Nat
    BY DEF IInv, Types
  <2>2. evs' \in Seq(News')
    BY <1>3, <2>1, NewsStays DEF IInv
  <2>3. Talk' = Talk
    BY DEF Talk, Said, Request, Surface, zwlr_layer_shell_v1_get_layer_surface,
       zwlr_layer_surface_v1_set_exclusive_zone, zwlr_layer_surface_v1_set_anchor,
       zwlr_layer_surface_v1_destroy, zwlr_layer_surface_v1_ack_configure
  <2>4. s \in Seq(Talk') /\ reqs' = reqs \o s /\ Types /\ WireInv
    BY <1>2, <1>6, <2>3 DEF IInv
  <2>5. lshell' = lshell /\ made <= made' /\ serial <= serial' /\ pc' = pc
    BY <2>1
  <2> HIDE DEF s
  <2> QED BY <1>3, <2>2, <2>4, <2>5, WireStays
<1>10. TableInv'
  <2>1. lshell = 0 => n = 0
    BY <1>1 DEF IInv, TableInv
  <2>2. lshell' = 0 => reqs' = <<>> /\ evs' = <<>>
    BY <1>2, <1>4, <2>1 DEF IInv, TableInv, s
  <2>3. \A p \in Outputs : layer'[p] = (IF p = o THEN 0 ELSE layer[p])
    BY <1>1, <1>2 DEF IInv, Types
  <2>4. \A p \in Outputs : p \notin outs' => layer'[p] = 0
    BY <2>3 DEF IInv, TableInv
  <2>5. \A p, r \in Outputs : layer'[p] = layer'[r] /\ layer'[p] # 0 => p = r
    BY <2>3 DEF IInv, TableInv
  <2> QED BY <2>2, <2>4, <2>5 DEF IInv, TableInv
<1>11. CountInv' /\ CauseInv'
  BY DEF IInv, CountInv, Begun, CauseInv
<1>12. ASSUME LiveInv PROVE LiveInv'
  <2>1. Used' = Used \ {n}
    BY <1>2, UsedWithout DEF IInv
  <2>2. \A p \in outs' : p \in outs /\ layer'[p] = (IF p = o THEN 0 ELSE layer[p])
                          /\ safe'[p] = (IF p = o THEN FALSE ELSE safe[p])
    BY <1>2 DEF IInv, Types
  <2>3. ASSUME NEW m \in 1..made, m # n PROVE Fine(m)'
    <3>1. Fine(m) /\ m # 0
      BY <1>12 DEF LiveInv
    <3>2. Spared(m)
      BY <2>1, <2>2, <2>3, <3>1 DEF Spared
    <3>3. \A i \in 1..Len(s) : s[i].n # m
      BY <1>7, <2>3
    <3>4. ~Conf(evs, 1, m) \/ evs' = evs
      BY <1>8 DEF Conf
    <3> QED BY <1>8, <3>1, <3>2, <3>3, <3>4, FineStays
  <2>4. ASSUME n \in 1..made PROVE Fine(n)'
    <3>1. Fine(n) /\ n # 0 /\ n \in Used /\ n \notin Used'
      BY <1>12, <2>1, <2>4 DEF LiveInv, Used
    <3>2. \A p \in outs' : layer'[p] # n
      BY <1>1, <2>2, <3>1 DEF IInv, TableInv, Types
    <3> QED BY <1>8, <3>1, <3>2, FineDrops DEF s
  <2> QED BY <1>12, <2>3, <2>4 DEF LiveInv
<1> QED BY <1>3, <1>9, <1>10, <1>11, <1>12 DEF IInv, Live

\* reg_del.
LEMMA DeletesOutput ==
  ASSUME IInv, NEW o \in Outputs, reg_del(o) PROVE IInv'
  BY Removes DEF reg_del, server, Replace

\* surf_create: a wallpaper begins.
LEMMA CreationSays ==
  ASSUME NEW n
  PROVE  LET s == Creation(n) IN
           /\ Len(s) = 5 /\ s \in Seq(Said(n))
           /\ \A j \in 1..5 : s[j].n = n /\ Word(s[j]) = Sayings[j] /\ s[j] \in Said(n)
<1> DEFINE s == Creation(n)
<1>1. /\ Len(s) = 5 /\ s[1] = Surface(n, "create")
      /\ s[2] = zwlr_layer_shell_v1_get_layer_surface(n, BACKGROUND)
      /\ s[3] = zwlr_layer_surface_v1_set_exclusive_zone(n, -1)
      /\ s[4] = zwlr_layer_surface_v1_set_anchor(n, Anchors) /\ s[5] = Surface(n, "commit")
  BY DEF Creation
<1> HIDE DEF s
<1>2. /\ Word(s[1]) = "create" /\ Word(s[2]) = "get_layer_surface"
      /\ Word(s[3]) = "set_exclusive_zone" /\ Word(s[4]) = "set_anchor" /\ Word(s[5]) = "commit"
  BY <1>1, Words DEF SurfaceWords
<1>3. s[1].n = n /\ s[2].n = n /\ s[3].n = n /\ s[4].n = n /\ s[5].n = n
  BY <1>1, Fields
<1>4. s[1] \in Said(n) /\ s[2] \in Said(n) /\ s[3] \in Said(n) /\ s[4] \in Said(n) /\ s[5] \in Said(n)
  BY <1>1 DEF Said, SurfaceWords
<1>5. /\ Sayings[1] = "create" /\ Sayings[2] = "get_layer_surface"
      /\ Sayings[3] = "set_exclusive_zone" /\ Sayings[4] = "set_anchor" /\ Sayings[5] = "commit"
  BY DEF Sayings
<1>6. \A j \in 1..5 : j \in {1, 2, 3, 4, 5}
  OBVIOUS
<1>7. s \in Seq(Said(n))
  <2> DEFINE a == Surface(n, "create")
             b == zwlr_layer_shell_v1_get_layer_surface(n, BACKGROUND)
             c == zwlr_layer_surface_v1_set_exclusive_zone(n, -1)
             d == zwlr_layer_surface_v1_set_anchor(n, Anchors)
             e == Surface(n, "commit")
  <2>1. a \in Said(n) /\ b \in Said(n) /\ c \in Said(n) /\ d \in Said(n) /\ e \in Said(n)
    BY <1>1, <1>4
  <2>2. s = <<a, b, c, d, e>>
    BY DEF s, Creation
  <2> HIDE DEF a, b, c, d, e
  <2> QED BY <2>1, <2>2
<1> QED BY <1>1, <1>2, <1>3, <1>4, <1>5, <1>6, <1>7 DEF s

\* reg_add of an output, with or without a layer shell.
LEMMA AddsOutput ==
  ASSUME IInv, NEW o \in Outputs, NEW d \in Sizes, reg_add_output(o, d) PROVE IInv'
<1>1. /\ pc = "loop" /\ o \notin outs /\ made < MaxLayers /\ outs' = outs \cup {o}
      /\ size' = [size EXCEPT ![o] = d] /\ surf_create(o)
      /\ UNCHANGED <<pc, lshell, hasty, evs, wall, shell, serial, repeats, error>>
  BY DEF reg_add_output, server
<1>2. Types /\ layer[o] = 0
  BY <1>1 DEF IInv, TableInv
<1>3. \A p \in outs : p # o /\ p \in Outputs
  BY <1>1, <1>2 DEF Types
<1>4. CASE lshell = 0
  <2>1. made = 0 /\ reqs = <<>> /\ evs = <<>>
    BY <1>4 DEF IInv, TableInv
  <2>2. layer' = [layer EXCEPT ![o] = 0] /\ safe' = [safe EXCEPT ![o] = FALSE] /\ reqs' = reqs \o <<>> /\ made' = made
    BY <1>1, <1>4 DEF surf_create, Replace
  <2>3. reqs' = <<>>
    BY <2>1, <2>2
  <2>4. Types'
    BY <1>1, <1>2, <2>2 DEF Types
  <2>5. TableInv'
    BY <1>1, <1>2, <2>1, <2>2, <2>3 DEF IInv, TableInv, Types
  <2>6. WireInv'
    BY <1>1, <2>1, <2>3 DEF WireInv
  <2>7. CountInv' /\ CauseInv'
    BY <1>1 DEF IInv, CountInv, Begun, CauseInv
  <2>8. LiveInv => LiveInv'
    BY <1>1, <2>1, <2>2 DEF LiveInv
  <2> QED BY <1>1, <2>4, <2>5, <2>6, <2>7, <2>8 DEF IInv, Live
<1>5. CASE lshell # 0
  <2>0. PICK n \in Nat : n = made + 1
    BY <1>2 DEF Types
  <2> DEFINE s == Creation(n)
  <2>1. /\ layer' = [layer EXCEPT ![o] = n] /\ safe' = [safe EXCEPT ![o] = FALSE]
        /\ reqs' = reqs \o s /\ made' = n
    BY <1>1, <1>5, <2>0 DEF surf_create, Replace
  <2>2. n \in Layers /\ n \in 1..made' /\ n \notin 1..made /\ n # 0
    BY <1>1, <1>2, <2>0, <2>1, LayerAssumption DEF LayerAssumption, Layers, Types
  <2>3. Types'
    BY <1>1, <1>2, <2>0, <2>1, LayerAssumption DEF LayerAssumption, Types
  <2>4. Len(s) = 5 /\ \A j \in 1..5 : s[j].n = n /\ Word(s[j]) = Sayings[j] /\ s[j] \in Said(n)
    BY CreationSays
  <2>5. \A m : Said(m)' = Said(m)
    BY <1>1 DEF Said, Request, Surface, zwlr_layer_shell_v1_get_layer_surface,
       zwlr_layer_surface_v1_set_exclusive_zone, zwlr_layer_surface_v1_set_anchor,
       zwlr_layer_surface_v1_destroy, zwlr_layer_surface_v1_ack_configure
  <2>6. Said(n) \subseteq Talk'
    BY <2>2, <2>5 DEF Talk
  <2>7. s \in Seq(Talk')
    <3>1. s \in Seq(Said(n))
      BY CreationSays
    <3> HIDE DEF s
    <3> QED BY <2>6, <3>1
  <2> HIDE DEF s
  <2>8. WireInv /\ made <= made' /\ lshell' = lshell /\ serial <= serial' /\ pc' = pc
    BY <1>1, <1>2, <2>0, <2>1 DEF IInv, Types
  <2>9. WireInv' /\ Talk \subseteq Talk'
    <3>1. evs' \in Seq(News')
      BY <1>1, <1>2, <2>3, <2>8, NewsStays
    <3> QED BY <1>2, <2>1, <2>3, <2>7, <2>8, <3>1, WireStays, TalkGrows
  <2>10. \A p \in Outputs : /\ layer'[p] = (IF p = o THEN n ELSE layer[p])
                            /\ safe'[p] = (IF p = o THEN FALSE ELSE safe[p])
    BY <1>2, <2>1 DEF Types
  <2>11. \A p \in Outputs : layer[p] # n
    BY <1>2, <2>2 DEF Types
  <2>12. TableInv'
    <3>1. \A p \in Outputs : p \notin outs' => layer'[p] = 0
      BY <1>1, <2>10 DEF IInv, TableInv
    <3>2. \A p, q \in Outputs : layer'[p] = layer'[q] /\ layer'[p] # 0 => p = q
      BY <2>10, <2>11 DEF IInv, TableInv
    <3> QED BY <1>1, <1>5, <3>1, <3>2 DEF IInv, TableInv
  <2>13. CountInv' /\ CauseInv'
    BY <1>1 DEF IInv, CountInv, Begun, CauseInv
  <2>14. ASSUME LiveInv PROVE LiveInv'
    <3>1. reqs \in Seq(Talk) /\ evs \in Seq(News)
      BY <1>1 DEF IInv, WireInv
    <3>2. Joined(reqs, s, reqs')
      <4>1. reqs \in Seq(Talk')
        BY <2>9, <3>1
      <4> QED BY <2>1, <2>7, <4>1, ConcatJoins
    <3>3. Used' = Used \cup {n}
      BY <1>1, <1>3, <2>2, <2>10 DEF Used
    <3>4. ASSUME NEW m \in 1..made PROVE Fine(m)'
      <4>1. Fine(m) /\ m # n
        BY <2>14, <2>2 DEF LiveInv
      <4>2. Spared(m)
        BY <1>1, <1>3, <2>10, <3>3, <4>1 DEF Spared
      <4>3. \A i \in 1..Len(s) : s[i].n # m
        BY <2>4, <4>1
      <4> QED BY <1>1, <3>2, <4>1, <4>2, <4>3, FineStays
    <3>5. Fine(n)'
      <4>1. wall[n] = Blank
        BY <1>2, <2>0, <2>2, <2>14 DEF LiveInv, Types
      <4>2. wall' = wall /\ Stage(Blank, 0) /\ Blank.open = {} /\ ~Blank.acked /\ ~Blank.attached
        BY <1>1 DEF Blank, Stage
      <4>3. \A i \in 1..Len(reqs) : reqs[i].n # n
        BY <2>2, <3>1, TalkSaid
      <4>4. \A i \in 1..Len(evs) : evs[i].n # n
        BY <2>2, <3>1 DEF News, Event
      <4>5. Life(reqs', n, Blank) /\ Kept(reqs', n, Blank)
        BY <2>4, <3>2, <4>2, <4>3, LifeBegins
      <4>6. ASSUME NEW i \in 1..Len(reqs') PROVE ~Acks(reqs', i, n) /\ ~Says(reqs', i, n, "attach")
        <5>1. CASE i \in 1..Len(reqs)
          BY <3>2, <4>3, <5>1, JoinedAt DEF Acks, Says
        <5>2. CASE i - Len(reqs) \in 1..Len(s) /\ reqs'[i] = s[i - Len(reqs)]
          <6>1. i - Len(reqs) \in {1, 2, 3, 4, 5}
            BY <2>4, <5>2
          <6>2. /\ Sayings[1] = "create" /\ Sayings[2] = "get_layer_surface"
                /\ Sayings[3] = "set_exclusive_zone" /\ Sayings[4] = "set_anchor" /\ Sayings[5] = "commit"
            BY DEF Sayings
          <6>3. Word(reqs'[i]) \notin {"ack_configure", "attach"}
            BY <2>4, <5>2, <6>1, <6>2
          <6> QED BY <6>3 DEF Acks, Says
        <5> QED BY <3>2, <5>1, <5>2, JoinedAt
      <4>7. Order(reqs', evs', n, {}) /\ Due(reqs', evs', n, {}) /\ Drawn(reqs', n, Blank, hasty')
        BY <1>1, <4>2, <4>4, <4>6 DEF Order, Due, Drawn, Conf
      <4>8. ~Answer(reqs', n, Blank)
        BY <4>2, <4>6 DEF Answer
      <4>9. \A p \in outs' : layer'[p] = n => ~safe'[p]
        BY <1>1, <1>3, <2>10, <2>11
      <4>10. n \in Used'
        BY <3>3
      <4>11. wall'[n] = Blank
        BY <4>1, <4>2
      <4>12. Line(reqs', evs', n, Blank, hasty') /\ Active(reqs', evs', n, Blank)
        BY <4>2, <4>5, <4>7 DEF Line, Active
      <4> HIDE DEF Blank
      <4> QED BY <4>8, <4>9, <4>10, <4>11, <4>12 DEF Fine
    <3>6. \A m \in Layers : m > made' => wall'[m] = Blank
      BY <1>1, <1>2, <2>0, <2>1, <2>14 DEF LiveInv, Types, Layers
    <3>7. \A m \in 1..made' : m \in 1..made \/ m = n
      BY <1>2, <2>0, <2>1 DEF Types
    <3> QED BY <3>4, <3>5, <3>6, <3>7 DEF LiveInv
  <2> QED BY <1>1, <2>3, <2>9, <2>12, <2>13, <2>14 DEF IInv, Live
<1> QED BY <1>4, <1>5

\* The daemon speaks of its wallpapers, or hears of them.
LEMMA TalkStays ==
  ASSUME IInv, pc = "loop", lshell # 0, NEW s \in Seq(Talk), reqs' = reqs \o s,
         evs' = evs \/ (evs # <<>> /\ evs' = Tail(evs)),
         safe' \in [Outputs -> BOOLEAN], size' \in [Outputs -> Sizes \cup {0}],
         hasty \subseteq hasty', hasty' \subseteq 1..made,
         UNCHANGED <<pc, lshell, outs, layer, made, wall, shell, serial, repeats, error>>
  PROVE  Types' /\ TableInv' /\ WireInv' /\ CountInv' /\ CauseInv' /\ Joined(reqs, s, reqs')
<1>1. Types'
  BY DEF IInv, Types
<1>2. TableInv'
  BY DEF IInv, TableInv
<1>3. CountInv' /\ CauseInv'
  BY DEF IInv, CountInv, Begun, CauseInv
<1>4. Talk' = Talk
  BY DEF Talk, Said, Request, Surface, zwlr_layer_shell_v1_get_layer_surface,
     zwlr_layer_surface_v1_set_exclusive_zone, zwlr_layer_surface_v1_set_anchor,
     zwlr_layer_surface_v1_destroy, zwlr_layer_surface_v1_ack_configure
<1>5. Types /\ WireInv /\ made <= made' /\ lshell' = lshell /\ serial <= serial' /\ pc' = pc
  BY DEF IInv, Types
<1>6. evs' \in Seq(News')
  BY <1>1, <1>5, NewsStays
<1>7. WireInv'
  BY <1>1, <1>4, <1>5, <1>6, WireStays
<1>8. Joined(reqs, s, reqs')
  BY ConcatJoins DEF IInv, WireInv
<1> QED BY <1>1, <1>2, <1>3, <1>7, <1>8

\* draw, on a wallpaper that is ready or too early.
LEMMA Draws ==
  ASSUME IInv, NEW o \in Outputs, draw(o) PROVE IInv'
<1>1. PICK n : n = layer[o]
  OBVIOUS
<1>2. /\ pc = "loop" /\ o \in outs /\ n # 0
      /\ reqs' = reqs \o <<Surface(n, "attach"), Surface(n, "commit")>>
      /\ hasty' = IF safe[o] THEN hasty ELSE hasty \cup {n}
      /\ UNCHANGED <<pc, lshell, outs, layer, safe, size, made, evs, wall, shell, serial, repeats, error>>
  BY <1>1 DEF draw, server
<1>3. n \in 1..made /\ n \in Used /\ lshell # 0
  BY <1>1, <1>2 DEF IInv, Types, TableInv, Used
<1> DEFINE s == <<Surface(n, "attach"), Surface(n, "commit")>>
<1>4. s[1] = Surface(n, "attach") /\ s[2] = Surface(n, "commit") /\ Len(s) = 2
  OBVIOUS
<1>5. s[1].n = n /\ s[2].n = n /\ Word(s[1]) = "attach" /\ Word(s[2]) = "commit"
  BY <1>4, Words, Fields DEF SurfaceWords
<1>6. s \in Seq(Talk)
  <2>1. Surface(n, "attach") \in Said(n) /\ Surface(n, "commit") \in Said(n)
    BY DEF Said, SurfaceWords
  <2>2. Surface(n, "attach") \in Talk /\ Surface(n, "commit") \in Talk
    BY <1>3, <2>1 DEF Talk
  <2> QED BY <2>2, Pair
<1>7. \A i \in 1..Len(s) : i = 1 \/ i = 2
  BY <1>4
<1> HIDE DEF s
<1>8. Types' /\ TableInv' /\ WireInv' /\ CountInv' /\ CauseInv' /\ Joined(reqs, s, reqs')
  <2>1. reqs' = reqs \o s
    BY <1>2 DEF s
  <2>2. hasty \subseteq hasty' /\ hasty' \subseteq 1..made
    BY <1>2, <1>3 DEF IInv, Types
  <2>3. safe' \in [Outputs -> BOOLEAN] /\ size' \in [Outputs -> Sizes \cup {0}]
    BY <1>2 DEF IInv, Types
  <2> QED BY <1>2, <1>3, <1>6, <2>1, <2>2, <2>3, TalkStays
<1>9. ASSUME LiveInv PROVE LiveInv'
  <2>1. Used' = Used /\ hasty \subseteq hasty'
    BY <1>2 DEF Used
  <2>2. ASSUME NEW m \in 1..made, m # n PROVE Fine(m)'
    <3>1. Fine(m) /\ Spared(m)
      BY <1>2, <1>9, <2>1 DEF LiveInv, Spared
    <3>2. \A i \in 1..Len(s) : s[i].n # m
      BY <1>5, <1>7, <2>2
    <3> QED BY <1>2, <1>8, <2>1, <3>1, <3>2, FineStays
  <2>3. Fine(n)'
    <3> DEFINE w == wall[n]
    <3>1. Fine(n) /\ Line(reqs, evs, n, w, hasty) /\ Active(reqs, evs, n, w)
      BY <1>2, <1>3, <1>9 DEF LiveInv, Fine
    <3>2. /\ \A i \in 1..Len(s) : ~Acks(s, i, n)
          /\ \A i \in 1..Len(s) : s[i].n = n => Word(s[i]) \in {"attach", "commit", "ack_configure"}
      BY <1>5, <1>7 DEF Acks, Says
    <3>3. Life(reqs', n, w) /\ Kept(reqs', n, w)
      BY <1>8, <3>1, <3>2, LifeSpeaks DEF Line, Active
    <3>4. /\ Order(reqs', evs, n, w.open) /\ Due(reqs', evs, n, w.open)
          /\ Answer(reqs, n, w) <=> Answer(reqs', n, w)
      BY <1>8, <3>1, <3>2, OrderExtends DEF Line, Active
    <3>5. n \in hasty' \/ Answer(reqs, n, w)
      BY <1>1, <1>2, <3>1 DEF Fine
    <3>6. Drawn(reqs', n, w, hasty')
      BY <1>8, <2>1, <3>1, <3>5, DrawnExtends DEF Line
    <3> QED BY <1>2, <1>3, <2>1, <3>1, <3>3, <3>4, <3>6 DEF Fine, Line, Active
  <2> QED BY <1>2, <1>9, <2>2, <2>3 DEF LiveInv
<1> QED BY <1>2, <1>8, <1>9 DEF IInv, Live

\* ls_conf: the answer, and a commit or none.
LEMMA Configures ==
  ASSUME IInv, NEW o \in Outputs, NEW n, n = layer[o], pc = "loop", evs # <<>>,
         Head(evs).n = n, Head(evs).op = 0, ls_conf(o, n, Head(evs)), evs' = Tail(evs),
         UNCHANGED <<pc, lshell, outs, hasty, wall, shell, serial, repeats, error>>
  PROVE  IInv'
<1>1. PICK e : e = Head(evs)
  OBVIOUS
<1>2. e \in News /\ e.n = n /\ e.op = 0 /\ Moved(evs, evs') /\ e = evs[1]
  BY <1>1, TailMoves DEF IInv, WireInv
<1>3. n \in 1..made /\ e.serial \in 1..serial /\ e.size \in Sizes
  BY <1>2 DEF News, Event
<1>4. n # 0 /\ o \in outs /\ n \in Used /\ lshell # 0
  BY <1>3 DEF IInv, Types, TableInv, Used
<1>5. PICK ack : ack = zwlr_layer_surface_v1_ack_configure(n, e.serial)
  OBVIOUS
<1>6. /\ ack \in Talk /\ ack.n = n /\ ack.arg = e.serial /\ Word(ack) = "ack_configure"
      /\ Surface(n, "commit") \in Talk /\ Surface(n, "commit").n = n
      /\ Word(Surface(n, "commit")) = "commit"
  BY <1>3, <1>5, Words, Fields DEF Talk, Said, SurfaceWords
<1>7. PICK s \in {<<ack>>, <<ack, Surface(n, "commit")>>} : reqs' = reqs \o s
  <2>1. CASE safe[o] /\ size[o] = e.size
    BY <1>1, <1>5, <2>1 DEF ls_conf
  <2>2. CASE ~(safe[o] /\ size[o] = e.size)
    <3>1. reqs' = Append(reqs, ack)
      BY <1>1, <1>5, <2>2 DEF ls_conf
    <3>2. reqs \in Seq(Talk)
      BY DEF IInv, WireInv
    <3>3. reqs' = reqs \o <<ack>>
      BY <1>6, <3>1, <3>2
    <3> QED BY <3>3
  <2> QED BY <2>1, <2>2
<1>8. s \in Seq(Talk)
  BY <1>6, <1>7, Pair
<1>9. /\ Len(s) \in {1, 2} /\ s[1] = ack /\ \A i \in 1..Len(s) : i = 1 \/ (i = 2 /\ s[2] = Surface(n, "commit"))
  BY <1>7
<1>10. /\ safe' \in [Outputs -> BOOLEAN] /\ size' \in [Outputs -> Sizes \cup {0}]
       /\ layer' = layer /\ made' = made /\ safe'[o]
       /\ \A p \in Outputs : p # o => safe'[p] = safe[p]
  <2>1. CASE safe[o] /\ size[o] = e.size
    BY <1>1, <2>1 DEF ls_conf, IInv, Types
  <2>2. CASE ~(safe[o] /\ size[o] = e.size)
    BY <1>1, <1>3, <2>2 DEF ls_conf, IInv, Types
  <2> QED BY <2>1, <2>2
<1>11. Types' /\ TableInv' /\ WireInv' /\ CountInv' /\ CauseInv' /\ Joined(reqs, s, reqs')
  <2>1. hasty \subseteq hasty' /\ hasty' \subseteq 1..made
    BY DEF IInv, Types
  <2> QED BY <1>4, <1>7, <1>8, <1>10, <2>1, TalkStays
<1>12. ASSUME LiveInv PROVE LiveInv'
  <2>1. Used' = Used /\ hasty' = hasty
    BY <1>10 DEF Used
  <2>2. ASSUME NEW m \in 1..made, m # n PROVE Fine(m)'
    <3>1. Fine(m)
      BY <1>12 DEF LiveInv
    <3>2. Spared(m)
      BY <1>10, <2>1, <2>2 DEF Spared, IInv, Types
    <3>3. \A i \in 1..Len(s) : s[i].n # m
      BY <1>6, <1>9, <2>2
    <3>4. ~Conf(evs, 1, m)
      BY <1>2, <2>2 DEF Conf
    <3> QED BY <1>2, <1>11, <2>1, <3>1, <3>2, <3>3, <3>4, FineStays
  <2>3. Fine(n)'
    <3> DEFINE w == wall[n]
    <3>1. Fine(n) /\ Line(reqs, evs, n, w, hasty) /\ Active(reqs, evs, n, w)
      BY <1>3, <1>4, <1>12 DEF LiveInv, Fine
    <3>2. /\ Acks(s, 1, n) /\ \A i \in 1..Len(s) : i # 1 => ~Acks(s, i, n)
          /\ \A i \in 1..Len(s) : ~Says(s, i, n, "attach")
          /\ \A i \in 1..Len(s) : s[i].n = n => Word(s[i]) \in {"attach", "commit", "ack_configure"}
      BY <1>6, <1>9 DEF Acks, Says
    <3>3. Life(reqs', n, w) /\ Kept(reqs', n, w)
      BY <1>11, <3>1, <3>2, LifeSpeaks DEF Line, Active
    <3>4. Order(reqs', evs', n, w.open) /\ Due(reqs', evs', n, w.open) /\ Answer(reqs', n, w)
      <4>1. Conf(evs, 1, n) /\ s[1].arg = evs[1].serial /\ Len(s) > 0
        BY <1>2, <1>6, <1>9 DEF Conf
      <4> QED BY <1>2, <1>11, <3>1, <3>2, <4>1, OrderAnswers DEF Line, Active
    <3>5. Drawn(reqs', n, w, hasty)
      BY <1>11, <3>1, <3>2, DrawnExtends DEF Line
    <3>6. \A p \in outs' : layer'[p] = n => safe'[p]
      BY <1>4, <1>10 DEF IInv, Types, TableInv
    <3> QED BY <1>4, <2>1, <3>3, <3>4, <3>5, <3>6 DEF Fine, Line, Active
  <2> QED BY <1>10, <1>12, <2>2, <2>3 DEF LiveInv
<1> QED BY <1>11, <1>12 DEF IInv, Live

\* An event for an object that is gone.
LEMMA Ignores ==
  ASSUME IInv, pc = "loop", evs # <<>>, \A o \in Outputs : layer[o] # Head(evs).n,
         evs' = Tail(evs), UNCHANGED <<client, reqs, server>>
  PROVE  IInv'
<1>1. Moved(evs, evs') /\ evs[1] = Head(evs) /\ evs[1] \in News
  BY TailMoves DEF IInv, WireInv
<1>2. lshell # 0 /\ Types
  BY DEF IInv, TableInv
<1>3. <<>> \in Seq(Talk) /\ reqs' = reqs \o <<>>
  <2>1. reqs \in Seq(Talk)
    BY DEF IInv, WireInv
  <2>2. reqs \o <<>> = reqs
    BY <2>1
  <2> QED BY <2>2, SeqEmpty DEF vars
<1>4. Types' /\ TableInv' /\ WireInv' /\ CountInv' /\ CauseInv' /\ Joined(reqs, <<>>, reqs')
  <2>1. /\ safe' \in [Outputs -> BOOLEAN] /\ size' \in [Outputs -> Sizes \cup {0}]
        /\ hasty \subseteq hasty' /\ hasty' \subseteq 1..made
    BY <1>2 DEF Types, client
  <2> QED BY <1>2, <1>3, <2>1, TalkStays DEF client, server
<1>5. ASSUME LiveInv PROVE LiveInv'
  <2>1. ASSUME NEW m \in 1..made PROVE Fine(m)'
    <3>1. Fine(m) /\ Spared(m)
      BY <1>5, <2>1 DEF LiveInv, Spared, client, server, Used
    <3>2. m \in Used => ~Conf(evs, 1, m)
      BY <1>1, <1>2 DEF Used, Conf, Types
    <3>3. 1..Len(<<>>) = {}
      OBVIOUS
    <3> QED BY <1>1, <1>4, <3>1, <3>2, <3>3, FineStays DEF client
  <2> QED BY <1>5, <2>1 DEF LiveInv, client, server
<1> QED BY <1>4, <1>5 DEF IInv, Live, server

\* wl_display_dispatch takes the first event to ls_conf, to ls_close, or to nobody.
LEMMA Dispatches ==
  ASSUME IInv, Dispatch PROVE IInv'
<1> DEFINE of == {o \in Outputs : layer[o] = Head(evs).n}
<1>1. /\ pc = "loop" /\ evs # <<>> /\ evs' = Tail(evs)
      /\ UNCHANGED <<pc, lshell, outs, hasty, wall, shell, serial, repeats, error>>
  BY DEF Dispatch, server
<1>2. CASE of = {}
  <2>1. UNCHANGED <<reqs, layer, safe, size, made>>
    BY <1>2 DEF Dispatch
  <2> QED BY <1>1, <1>2, <2>1, Ignores DEF client, server
<1>3. CASE of # {}
  <2>1. PICK o \in of : IF surface_events[Head(evs).op + 1] = "configure"
                        THEN ls_conf(o, Head(evs).n, Head(evs)) ELSE ls_close(o, Head(evs).n)
    BY <1>3 DEF Dispatch
  <2>2. Head(evs) \in News
    BY <1>1, TailMoves DEF IInv, WireInv
  <2>3. Head(evs).op \in {0, 1} /\ Head(evs).n \in 1..made
    BY <2>2 DEF News, Event
  <2>4. surface_events[1] = "configure" /\ surface_events[2] = "closed"
    BY DEF surface_events
  <2>5. PICK n : n = layer[o]
    OBVIOUS
  <2>6. o \in outs /\ Head(evs).n = n
    BY <2>3, <2>1, <2>5 DEF IInv, Types, TableInv
  <2>7. CASE Head(evs).op = 0
    BY <1>1, <2>1, <2>4, <2>5, <2>6, <2>7, Configures
  <2>8. CASE Head(evs).op = 1
    <3>1. ls_close(o, n)
      BY <2>1, <2>4, <2>6, <2>8
    <3> QED BY <1>1, <2>5, <2>6, <2>8, <3>1, Removes DEF ls_close
  <2> QED BY <2>3, <2>7, <2>8
<1> QED BY <1>2, <1>3

\* cleanup: the wallpapers are removed one after the other.
LEMMA UsedSequence ==
  ASSUME Types
  PROVE  /\ SetToSeq(Used) \in [1..Cardinality(Used) -> Used] /\ IsInjective(SetToSeq(Used))
         /\ Cardinality(Used) \in Nat /\ Used \subseteq 1..made
<1>1. Used \subseteq 1..made
  BY DEF Used, Types
<1>2. IsFiniteSet(Used) /\ Cardinality(Used) \in Nat
  <2>1. made \in Nat
    BY DEF Types
  <2>2. IsFiniteSet(1..made)
    BY <2>1, FS_Interval
  <2> QED BY <1>1, <2>2, FS_Subset, FS_CardinalityType
<1>3. ExistsBijection(1..Cardinality(Used), Used)
  BY <1>2, FS_NatBijection, FS_CountingElements
<1>4. \E f \in [1..Cardinality(Used) -> Used] : IsInjective(f)
  BY <1>3 DEF ExistsBijection, Bijection, Injection
<1> QED BY <1>1, <1>2, <1>4 DEF SetToSeq

Silent(s, n) == \A i \in 1..Len(s) : s[i].n # n
GivesUp(s, n) ==
  \E a \in 1..Len(s) : /\ a < Len(s) /\ Says(s, a, n, "unrole") /\ Says(s, a + 1, n, "destroy")
                       /\ \A i \in 1..Len(s) : s[i].n = n => i \in {a, a + 1}

\* cleanup ends every wallpaper of its outputs, and speaks of no other.
LEMMA RemovalsSay ==
  ASSUME NEW k \in Nat, NEW S, S \subseteq 1..made, NEW f \in [1..k -> S], IsInjective(f)
  PROVE  LET s == Removals(f) IN
           s \in Seq(Talk) /\ \A n : Silent(s, n) \/ (n \in S /\ GivesUp(s, n))
<1> DEFINE s == Removals(f)
<1>1. f \in Seq(S) /\ Len(f) = k
  OBVIOUS
<1>2. s = [i \in 1..(2 * k) |-> Removal(f[(i + 1) \div 2])[2 - (i % 2)]]
  BY <1>1 DEF Removals
<1> HIDE DEF s
<1>3. ASSUME NEW n \in S
      PROVE  LET r == Removal(n) IN
               /\ Says(r, 1, n, "unrole") /\ Says(r, 2, n, "destroy")
               /\ r[1].n = n /\ r[2].n = n /\ r[1] \in Talk /\ r[2] \in Talk
  <2>1. n \in 1..made /\ n # 0
    OBVIOUS
  <2>2. LET r == Removal(n) IN
          /\ Len(r) = 2 /\ Says(r, 1, n, "unrole") /\ Says(r, 2, n, "destroy")
          /\ \A i \in 1..Len(r) : r[i].n = n /\ r[i] \in Said(n)
    BY <2>1, RemovalSays
  <2>3. Said(n) \subseteq Talk
    BY <2>1 DEF Talk
  <2> QED BY <2>2, <2>3
<1>4. ASSUME NEW j \in 1..k
      PROVE  /\ 2 * j - 1 \in 1..(2 * k) /\ 2 * j \in 1..(2 * k)
             /\ s[2 * j - 1] = Removal(f[j])[1] /\ s[2 * j] = Removal(f[j])[2]
  <2>1. 2 * j - 1 \in 1..(2 * k) /\ 2 * j \in 1..(2 * k)
    OBVIOUS
  <2>2. /\ ((2 * j - 1) + 1) \div 2 = j /\ 2 - ((2 * j - 1) % 2) = 1
        /\ (2 * j + 1) \div 2 = j /\ 2 - ((2 * j) % 2) = 2
    OBVIOUS
  <2> QED BY <1>2, <2>1, <2>2
<1>5. ASSUME NEW i \in 1..(2 * k) PROVE \E j \in 1..k : i = 2 * j - 1 \/ i = 2 * j
  <2>1. (i + 1) \div 2 \in 1..k /\ (i = 2 * ((i + 1) \div 2) - 1 \/ i = 2 * ((i + 1) \div 2))
    OBVIOUS
  <2> QED BY <2>1
<1>6. ASSUME NEW j \in 1..k
      PROVE  /\ Says(s, 2 * j - 1, f[j], "unrole") /\ Says(s, 2 * j, f[j], "destroy")
             /\ s[2 * j - 1].n = f[j] /\ s[2 * j].n = f[j]
             /\ s[2 * j - 1] \in Talk /\ s[2 * j] \in Talk /\ f[j] \in S
  <2>1. f[j] \in S
    OBVIOUS
  <2>2. PICK r : r = Removal(f[j])
    OBVIOUS
  <2>3. /\ Says(r, 1, f[j], "unrole") /\ Says(r, 2, f[j], "destroy")
        /\ r[1].n = f[j] /\ r[2].n = f[j] /\ r[1] \in Talk /\ r[2] \in Talk
    BY <1>3, <2>1, <2>2
  <2>4. s[2 * j - 1] = r[1] /\ s[2 * j] = r[2]
    BY <1>4, <2>2
  <2> QED BY <2>1, <2>3, <2>4 DEF Says
<1>7. s \in Seq(Talk) /\ Len(s) = 2 * k
  <2>1. \A i \in 1..(2 * k) : s[i] \in Talk
    BY <1>5, <1>6
  <2>3. s \in [1..(2 * k) -> Talk]
    BY <1>2, <2>1
  <2>2. 2 * k \in Nat
    OBVIOUS
  <2> QED BY <2>2, <2>3
<1>9. ASSUME NEW n, NEW i \in 1..Len(s), s[i].n = n
      PROVE  n \in S /\ GivesUp(s, n)
  <2>1. PICK j \in 1..k : f[j] = n
    <3>1. PICK j \in 1..k : i = 2 * j - 1 \/ i = 2 * j
      BY <1>5, <1>7
    <3> QED BY <1>6, <1>9, <3>1
  <2>2. PICK a : a = 2 * j - 1
    OBVIOUS
  <2>3. a \in 1..Len(s) /\ a < Len(s) /\ a + 1 = 2 * j
    BY <1>7, <2>2
  <2>4. Says(s, a, n, "unrole") /\ Says(s, a + 1, n, "destroy")
    BY <1>6, <2>1, <2>2, <2>3
  <2>5. ASSUME NEW h \in 1..Len(s), s[h].n = n PROVE h \in {a, a + 1}
    <3>1. PICK g \in 1..k : h = 2 * g - 1 \/ h = 2 * g
      BY <1>5, <1>7
    <3>2. f[g] = n
      BY <1>6, <2>5, <3>1
    <3>3. g = j
      BY <2>1, <3>2 DEF IsInjective
    <3> QED BY <2>2, <2>3, <3>1, <3>3
  <2>6. n \in S
    BY <2>1
  <2> QED BY <2>3, <2>4, <2>5, <2>6 DEF GivesUp
<1> QED BY <1>7, <1>9 DEF s, Silent

\* cleanup.
LEMMA Cleans ==
  ASSUME IInv, cleanup PROVE IInv'
<1>0. PICK f : f = SetToSeq(Used)
  OBVIOUS
<1>1. PICK s : s = Removals(f)
  OBVIOUS
<1>2. PICK u : u = (IF lshell = 0 THEN <<>> ELSE <<zwlr_layer_shell_v1_destroy>>)
  OBVIOUS
<1>3. /\ pc = "loop" /\ pc' = "ended" /\ reqs' = (reqs \o s) \o u /\ evs' = <<>>
      /\ UNCHANGED <<lshell, outs, layer, safe, size, made, hasty, wall, shell, serial, repeats, error>>
  BY <1>0, <1>1, <1>2 DEF cleanup, server, Used
<1>4. s \in Seq(Talk) /\ \A n : Silent(s, n) \/ (n \in Used /\ GivesUp(s, n))
  <2>1. PICK S, k : S = Used /\ k = Cardinality(Used)
    OBVIOUS
  <2>2. f \in [1..k -> S] /\ IsInjective(f) /\ k \in Nat /\ S \subseteq 1..made
    BY <1>0, <2>1, UsedSequence DEF IInv
  <2>3. \A n : n \in S <=> n \in Used
    BY <2>1
  <2> QED BY <1>1, <2>2, <2>3, RemovalsSay
<1> DEFINE D == Talk \cup {zwlr_layer_shell_v1_destroy}
<1>5. reqs \in Seq(D) /\ s \in Seq(D) /\ u \in Seq(D)
  <2> HIDE DEF D
  <2>1. zwlr_layer_shell_v1_destroy \in D /\ Talk \subseteq D
    BY DEF D
  <2>2. reqs \in Seq(Talk)
    BY <1>3 DEF IInv, WireInv
  <2> QED BY <1>2, <1>4, <2>1, <2>2, SeqEmpty, Pair
<1>6. /\ Joined(reqs, s, reqs \o s) /\ Joined(reqs \o s, u, reqs') /\ reqs' \in Seq(D)
  <2> HIDE DEF D
  <2> QED BY <1>3, <1>5, ConcatJoins
<1>7. Types' /\ CountInv' /\ CauseInv'
  BY <1>3 DEF IInv, Types, CountInv, Begun, CauseInv
<1>8. D' = D
  <2>1. Talk' = Talk
    BY <1>3 DEF Talk, Said, Request, Surface, zwlr_layer_shell_v1_get_layer_surface,
       zwlr_layer_surface_v1_set_exclusive_zone, zwlr_layer_surface_v1_set_anchor,
       zwlr_layer_surface_v1_destroy, zwlr_layer_surface_v1_ack_configure
  <2>2. zwlr_layer_shell_v1_destroy' = zwlr_layer_shell_v1_destroy
    BY <1>3 DEF zwlr_layer_shell_v1_destroy, Request
  <2> QED BY <2>1, <2>2
<1>9. WireInv'
  <2>1. evs' \in Seq(News')
    BY <1>3, SeqEmpty
  <2> QED BY <1>3, <1>6, <1>8, <2>1 DEF WireInv
<1>10. TableInv'
  <2>1. lshell = 0 => reqs' = <<>>
    <3> SUFFICES ASSUME lshell = 0 PROVE reqs' = <<>>
      OBVIOUS
    <3>1. made = 0 /\ reqs = <<>> /\ u = <<>>
      BY <1>2 DEF IInv, TableInv
    <3>2. Talk = {}
      BY <3>1 DEF Talk
    <3>3. s = <<>>
      <4>1. \A R : R = {} /\ s \in Seq(R) => s = <<>>
        OBVIOUS
      <4> QED BY <1>4, <3>2, <4>1
    <3> QED BY <1>3, <3>1, <3>3
  <2> QED BY <1>3, <2>1 DEF IInv, TableInv
<1>11. ASSUME LiveInv, NEW n \in 1..made PROVE Fine(n)'
  <2> DEFINE w == wall[n]
  <2>1. Line(reqs, evs, n, w, hasty) /\ (n \in Used => Active(reqs, evs, n, w))
        /\ (n \notin Used => Dropped(reqs, n, w))
    BY <1>3, <1>11 DEF LiveInv, Fine
  <2>2. Line(reqs \o s, evs, n, w, hasty) /\ (n \notin Used => Dropped(reqs \o s, n, w))
    <3>1. CASE Silent(s, n)
      BY <1>6, <2>1, <3>1, LineExtends DEF Silent
    <3>2. CASE n \in Used /\ GivesUp(s, n)
      BY <1>6, <2>1, <3>2, LineDrops DEF Active, GivesUp
    <3> QED BY <1>4, <3>1, <3>2
  <2>3. \A i \in 1..Len(u) : u[i].n # n
    BY <1>2, Unbind
  <2>4. Line(reqs', evs, n, w, hasty) /\ (n \notin Used => Dropped(reqs', n, w))
    BY <1>6, <2>2, <2>3, LineExtends
  <2>5. Line(reqs', evs', n, w, hasty)
    <3>1. 1..Len(evs') = {}
      BY <1>3
    <3> QED BY <2>4, <3>1 DEF Line, Order
  <2>6. Used' = Used
    BY <1>3 DEF Used
  <2> QED BY <1>3, <2>4, <2>5, <2>6 DEF Fine
<1>12. LiveInv => LiveInv'
  BY <1>3, <1>11 DEF LiveInv
<1> QED BY <1>3, <1>7, <1>9, <1>10, <1>12 DEF IInv, Live

\* The compositor executes a request.
LEMMA LineGoesOn ==
  ASSUME NEW q, NEW t, NEW e, NEW n, NEW w \in Wallpapers, NEW h, Moved(q, t), Len(e) \in Nat,
         q[1].n # n, Line(q, e, n, w, h)
  PROVE  /\ Line(t, e, n, w, h)
         /\ Active(q, e, n, w) => Active(t, e, n, w)
         /\ Dropped(q, n, w) => Dropped(t, n, w)
         /\ Answer(q, n, w) <=> Answer(t, n, w)
<1>1. ~Acks(q, 1, n) /\ w.open \subseteq Nat
  BY LayerAssumption DEF LayerAssumption, Acks, Says, Wallpapers
<1>2. Order(t, e, n, w.open) /\ (Due(q, e, n, w.open) => Due(t, e, n, w.open))
  BY <1>1, OrderHears DEF Line
<1>3. Drawn(t, n, w, h) /\ (Answer(q, n, w) <=> Answer(t, n, w))
  BY <1>1, DrawnHears DEF Line
<1>4. /\ Life(t, n, w) /\ (Kept(q, n, w) => Kept(t, n, w))
      /\ (Dropped(q, n, w) => Dropped(t, n, w))
  BY LifeGoesOn DEF Line
<1> QED BY <1>2, <1>3, <1>4 DEF Line, Active

LineHeard(q, t, e, n, h, w, v, faults) ==
  /\ faults = {} \/ (faults = {"unconfigured"} /\ n \in h)
  /\ v \in Wallpapers /\ Line(t, e, n, v, h)
  /\ Active(q, e, n, w) => Active(t, e, n, v)
  /\ Dropped(q, n, w) => Dropped(t, n, v)
  /\ Answer(q, n, w) <=> Answer(t, n, v)
  /\ v.acked \/ v.open # {} <=> w.acked \/ w.open # {}
  /\ v.open \subseteq w.open

\* Hearing a request about a wallpaper keeps all that is under way about it in order.
LEMMA LineHears ==
  ASSUME lshell = 2, shell, NEW q, NEW t, NEW e, NEW n, NEW w \in Wallpapers, NEW h,
         NEW r, NEW v, NEW faults, r = q[1], v = Heard(r, w), faults = Faults(r, Meaning(r).name, w),
         Moved(q, t), Len(e) \in Nat, serial \in Nat, r \in Said(n), Line(q, e, n, w, h)
  PROVE  LineHeard(q, t, e, n, h, w, v, faults)
<1>1. r.n = n /\ (Word(r) = "ack_configure" => r.arg \in 1..serial)
  BY SaidWords
<1>2. Len(q) \in Nat /\ 1 \in 1..Len(q)
  BY DEF Moved
<1>3. Acks(q, 1, n) <=> Word(r) = "ack_configure"
  BY <1>1 DEF Acks, Says
<1>4. Word(r) = "ack_configure" => r.arg \in w.open
  BY <1>2, <1>3 DEF Line, Order
<1>5. LifeHeard(q, t, n, r, w, v, faults)
  BY <1>4, LifeHears DEF Line
<1> USE DEF LifeHeard
<1>6. v.acked \in BOOLEAN /\ w.open \subseteq Nat
  BY <1>5, LayerAssumption DEF LayerAssumption, Wallpapers
<1>7. Order(t, e, n, v.open) /\ (Due(q, e, n, w.open) => Due(t, e, n, v.open))
  <2>1. IF Acks(q, 1, n) THEN v.open = {s \in w.open : s > q[1].arg} ELSE v.open = w.open
    BY <1>3, <1>5
  <2>2. Acks(q, 1, n) => q[1].arg \in Nat
    BY <1>1, <1>3
  <2> QED BY <1>6, <2>1, <2>2, OrderHears DEF Line
<1>8. Drawn(t, n, v, h) /\ (Answer(q, n, w) <=> Answer(t, n, v))
  <2>1. IF Acks(q, 1, n) THEN v.acked = TRUE ELSE v.acked = w.acked
    BY <1>3, <1>5, <1>6
  <2>2. ~Says(q, 1, n, "attach") => v.attached = w.attached
    BY <1>1, <1>5 DEF Says
  <2> QED BY <2>1, <2>2, DrawnHears DEF Line
<1>9. (v.acked \/ v.open # {} <=> w.acked \/ w.open # {}) /\ v.open \subseteq w.open
  BY <1>4, <1>5
<1>10. w.attached /\ ~w.acked => n \in h
  BY DEF Line, Drawn
<1> QED BY <1>5, <1>7, <1>8, <1>9, <1>10 DEF Line, Active, LineHeard

\* The compositor executes a request, or finds a fault in it.
LEMMA Executes ==
  ASSUME IInv, Execute PROVE IInv'
<1>1. PICK r : r = Head(reqs)
  OBVIOUS
<1>2. PICK n : n = r.n
  OBVIOUS
<1>3. PICK w : w = (IF n = 0 THEN Blank ELSE wall[n])
  OBVIOUS
<1>4. PICK faults : faults = Faults(r, Meaning(r).name, w)
  OBVIOUS
<1>5. PICK v : v = Heard(r, w)
  OBVIOUS
<1>6. /\ reqs # <<>> /\ error = "none"
      /\ error' \in (IF faults = {} THEN {"none"} ELSE faults)
      /\ wall' = IF n = 0 \/ error' # "none" THEN wall ELSE [wall EXCEPT ![n] = v]
      /\ shell' = (shell /\ ~(error' = "none" /\ r.kind = "shell" /\ Meaning(r).name = "destroy"))
      /\ reqs' = Tail(reqs)
      /\ UNCHANGED <<pc, lshell, outs, layer, safe, size, made, hasty, evs, serial, repeats>>
  BY <1>1, <1>2, <1>3, <1>4, <1>5 DEF Execute, Live, client, Heard
<1> DEFINE D == Talk \cup {zwlr_layer_shell_v1_destroy}
<1>7. Types /\ LiveInv /\ lshell = 2 /\ shell = TRUE /\ shell
  BY <1>6 DEF IInv, Live, TableInv, Types
<1>8. Moved(reqs, reqs') /\ r = reqs[1] /\ r \in D /\ reqs' \in Seq(D)
      /\ (pc = "loop" => r \in Talk /\ reqs' \in Seq(Talk))
  BY <1>1, <1>6, TailMoves DEF IInv, WireInv
<1>9. D' = D /\ Talk' = Talk /\ News' = News
  <2>1. Talk' = Talk
    BY <1>6 DEF Talk, Said, Request, Surface, zwlr_layer_shell_v1_get_layer_surface,
       zwlr_layer_surface_v1_set_exclusive_zone, zwlr_layer_surface_v1_set_anchor,
       zwlr_layer_surface_v1_destroy, zwlr_layer_surface_v1_ack_configure
  <2>2. zwlr_layer_shell_v1_destroy' = zwlr_layer_shell_v1_destroy /\ News' = News
    BY <1>6 DEF zwlr_layer_shell_v1_destroy, Request, News
  <2> QED BY <2>1, <2>2
<1>10. WireInv'
  BY <1>6, <1>8, <1>9 DEF IInv, WireInv
<1>11. ASSUME shell' = TRUE PROVE TableInv'
  BY <1>6, <1>7, <1>11 DEF IInv, TableInv
<1>12. CASE r = zwlr_layer_shell_v1_destroy
  <2>1. n = 0 /\ faults = {"version"}
    BY <1>2, <1>4, <1>7, <1>12, Unbind
  <2>2. error' = "version" /\ wall' = wall /\ shell' = TRUE
    BY <1>6, <1>7, <2>1
  <2>3. pc = "ended"
    <3>1. r \notin Talk
      <4>1. 0 \notin 1..made
        BY <1>7 DEF Types
      <4> QED BY <1>2, <2>1, <4>1, TalkSaid
    <3> QED BY <1>7, <1>8, <3>1 DEF Types
  <2>4. Types' /\ CountInv' /\ CauseInv' /\ ~Live'
    BY <1>6, <1>7, <2>2, <2>3 DEF IInv, Types, CountInv, Begun, CauseInv, Live
  <2> QED BY <1>10, <1>11, <2>2, <2>4 DEF IInv
<1>13. CASE r \in Talk
  <2>1. n \in 1..made /\ r \in Said(n) /\ n # 0
    BY <1>2, <1>7, <1>13, TalkSaid DEF Types
  <2>2. n \in Layers /\ w = wall[n] /\ w \in Wallpapers /\ Fine(n)
    BY <1>3, <1>7, <2>1, LayerAssumption DEF LayerAssumption, LiveInv, Types, Layers
  <2>3. serial \in Nat /\ Len(evs) \in Nat /\ Line(reqs, evs, n, w, hasty)
    BY <1>7, <2>2 DEF IInv, Types, WireInv, Fine
  <2>4. LineHeard(reqs, reqs', evs, n, hasty, w, v, faults)
    BY <1>4, <1>5, <1>7, <1>8, <2>1, <2>2, <2>3, LineHears
  <2> USE DEF LineHeard
  <2>5. shell' = TRUE
    <3>1. Word(r) # "unbind"
      BY <2>1, SaidWords DEF Late
    <3>2. ~(r.kind = "shell" /\ Meaning(r).name = "destroy")
      BY <3>1 DEF Word
    <3> QED BY <1>6, <1>7, <3>2
  <2>6. CASE faults # {}
    <3>1. error' = "unconfigured" /\ wall' = wall /\ hasty # {}
      BY <1>6, <2>4, <2>6
    <3>2. Types' /\ CountInv' /\ CauseInv' /\ ~Live'
      BY <1>6, <1>7, <2>5, <3>1 DEF IInv, Types, CountInv, Begun, CauseInv, Live
    <3> QED BY <1>10, <1>11, <2>5, <3>2 DEF IInv
  <2>7. CASE faults = {}
    <3>1. error' = "none" /\ wall' = [wall EXCEPT ![n] = v]
      BY <1>6, <2>1, <2>7
    <3>2. \A m \in Layers : wall'[m] = (IF m = n THEN v ELSE wall[m])
      BY <1>7, <3>1 DEF Types
    <3>3. Types' /\ CauseInv'
      BY <1>6, <1>7, <2>4, <2>5, <3>1 DEF Types, CauseInv
    <3>4. CountInv'
      <4>1. Begun' = Begun
        BY <2>2, <2>4, <3>2 DEF Begun
      <4>2. \A m \in Layers : wall'[m].open \subseteq wall[m].open
        BY <2>2, <2>4, <3>2
      <4> QED BY <1>6, <4>1, <4>2 DEF IInv, CountInv
    <3>5. Used' = Used
      BY <1>6 DEF Used
    <3>6. Fine(n)'
      BY <1>6, <2>2, <2>4, <3>2, <3>5 DEF Fine
    <3>7. ASSUME NEW m \in 1..made, m # n PROVE Fine(m)'
      <4>1. m \in Layers /\ wall[m] \in Wallpapers /\ wall'[m] = wall[m] /\ Fine(m)
        BY <1>7, <3>2, <3>7, LayerAssumption DEF LayerAssumption, LiveInv, Types, Layers
      <4>2. reqs[1].n # m
        BY <1>2, <1>8, <3>7
      <4>3. /\ Line(reqs', evs, m, wall[m], hasty)
            /\ Active(reqs, evs, m, wall[m]) => Active(reqs', evs, m, wall[m])
            /\ Dropped(reqs, m, wall[m]) => Dropped(reqs', m, wall[m])
            /\ Answer(reqs, m, wall[m]) <=> Answer(reqs', m, wall[m])
        BY <1>8, <2>3, <4>1, <4>2, LineGoesOn DEF Fine
      <4> QED BY <1>6, <3>5, <4>1, <4>3 DEF Fine
    <3>8. \A m \in Layers : m > made' => wall'[m] = Blank
      BY <1>6, <1>7, <2>1, <3>2 DEF LiveInv, Types
    <3>9. LiveInv'
      BY <1>6, <3>6, <3>7, <3>8 DEF LiveInv
    <3> QED BY <1>10, <1>11, <2>5, <3>3, <3>4, <3>9 DEF IInv
  <2> QED BY <2>6, <2>7
<1> QED BY <1>8, <1>12, <1>13

\* It sends an event about a wallpaper that is shown; the wallpaper stays what it was
\* but for the serials that are open and for whether it is closed.
LEMMA Sends ==
  ASSUME IInv, NEW n \in Layers, Shown(n), NEW e \in News', evs' = Append(evs, e), e.n = n,
         NEW v, wall' = [wall EXCEPT ![n] = v], serial <= serial', Types', CountInv',
         v.begun = wall[n].begun, v.surface = wall[n].surface, v.role = wall[n].role,
         v.layer = wall[n].layer, v.zone = wall[n].zone, v.anchor = wall[n].anchor,
         v.acked = wall[n].acked, v.attached = wall[n].attached,
         IF e.op = 0 THEN e.serial = serial + 1 /\ v.open = wall[n].open \cup {serial + 1}
         ELSE v.open = wall[n].open,
         UNCHANGED <<client, reqs, shell, error>>
  PROVE  IInv'
<1> DEFINE w == wall[n]
<1>1. Types /\ LiveInv /\ pc = "loop" /\ w \in Wallpapers /\ w.begun /\ w.role = "live"
  BY DEF IInv, Shown, Types
<1>0. w.open \subseteq 1..serial
  BY DEF IInv, CountInv
<1>2. n \in 1..made
  <2>1. ~(n > made)
    BY <1>1 DEF LiveInv, Blank
  <2> QED BY <1>1, <2>1 DEF Layers, Types
<1>3. lshell = 2 /\ TableInv'
  BY <1>1, <1>2 DEF IInv, TableInv, Types, client
<1>4. /\ Talk \subseteq Talk' /\ News \subseteq News'
      /\ zwlr_layer_shell_v1_destroy' = zwlr_layer_shell_v1_destroy
  BY <1>1, TalkGrows DEF client, Types
<1>5. reqs \in Seq(Talk) /\ evs \in Seq(News')
  BY <1>1, <1>4 DEF IInv, WireInv
<1>6. WireInv'
  <2>1. evs' \in Seq(News')
    BY <1>5
  <2>2. reqs' \in Seq(Talk') /\ reqs' \in Seq(Talk' \cup {zwlr_layer_shell_v1_destroy'})
    BY <1>4, <1>5
  <2> QED BY <2>1, <2>2 DEF WireInv
<1>7. Joined(evs, <<e>>, evs')
  <2>1. evs' = evs \o <<e>> /\ <<e>> \in Seq(News')
    BY <1>5
  <2> QED BY <1>5, <2>1, ConcatJoins
<1>8. Len(<<e>>) = 1 /\ <<e>>[1] = e /\ Len(reqs) \in Nat
  BY <1>5
<1>9. \A m \in Layers : wall'[m] = (IF m = n THEN v ELSE wall[m])
  BY <1>1 DEF Types
<1>10. Used' = Used
  BY DEF Used, client
<1>11. Fine(n)'
  <2>1. Fine(n) /\ Line(reqs, evs, n, w, hasty)
    BY <1>1, <1>2 DEF LiveInv, Fine
  <2>2. /\ Life(reqs, n, v) /\ (Kept(reqs, n, w) => Kept(reqs, n, v))
        /\ (Dropped(reqs, n, w) => Dropped(reqs, n, v))
    BY <1>1, <2>1, LifeSame DEF Line
  <2>3. Order(reqs, evs', n, v.open) /\ (Due(reqs, evs, n, w.open) => Due(reqs, evs', n, v.open))
    <3>1. Order(reqs, evs, n, w.open) /\ w.open \subseteq Nat
      BY <1>0, <1>1, <2>1 DEF Line, Types
    <3>2. IF Conf(<<e>>, 1, n)
          THEN v.open = w.open \cup {<<e>>[1].serial} /\ \A x \in w.open : x < <<e>>[1].serial
          ELSE v.open = w.open
      BY <1>0, <1>1, <1>8 DEF Conf, Types
    <3> QED BY <1>7, <1>8, <3>1, <3>2, OrderSends
  <2>4. Drawn(reqs, n, v, hasty) /\ (Answer(reqs, n, w) <=> Answer(reqs, n, v))
    BY <2>1 DEF Line, Drawn, Answer
  <2> QED BY <1>9, <1>10, <2>1, <2>2, <2>3, <2>4 DEF Fine, Line, Active, client
<1>12. ASSUME NEW m \in 1..made, m # n PROVE Fine(m)'
  <2>0. m \in Layers
    BY <1>1, LayerAssumption DEF LayerAssumption, Types, Layers
  <2>1. Fine(m) /\ wall'[m] = wall[m] /\ wall[m] \in Wallpapers
    BY <1>1, <1>9, <1>12, <2>0 DEF LiveInv, Types
  <2>2. /\ Order(reqs, evs', m, wall[m].open)
        /\ (Due(reqs, evs, m, wall[m].open) => Due(reqs, evs', m, wall[m].open))
    <3>1. Order(reqs, evs, m, wall[m].open) /\ wall[m].open \subseteq Nat
      BY <2>1, LayerAssumption DEF LayerAssumption, Fine, Line, Wallpapers
    <3>2. ~Conf(<<e>>, 1, m)
      BY <1>8, <1>12 DEF Conf
    <3> QED BY <1>7, <1>8, <3>1, <3>2, OrderSends
  <2> QED BY <1>10, <2>1, <2>2 DEF Fine, Line, Active, client
<1>13. LiveInv'
  <2>1. \A m \in Layers : m > made' => wall'[m] = Blank
    BY <1>1, <1>2, <1>9 DEF LiveInv, Types, client
  <2> QED BY <1>11, <1>12, <2>1 DEF LiveInv, client
<1>14. CauseInv'
  BY DEF IInv, CauseInv, client
<1> QED BY <1>3, <1>6, <1>13, <1>14 DEF IInv

\* The serial of a configure event is new.
LEMMA ConfiguresShown ==
  ASSUME IInv, NEW n \in Layers, Shown(n), NEW d \in Sizes, Configured(n, d),
         serial + 1 <= MaxLayers + MaxRepeats, repeats' \in 0..MaxRepeats,
         serial + 1 = repeats' + Cardinality(Begun')
  PROVE  IInv'
<1>1. PICK w : w = wall[n]
  OBVIOUS
<1>2. PICK v : v = [w EXCEPT !.open = @ \cup {serial + 1}]
  OBVIOUS
<1>3. PICK e : e = Event(n, 0, serial + 1, d)
  OBVIOUS
<1>4. /\ serial' = serial + 1 /\ evs' = Append(evs, e) /\ wall' = [wall EXCEPT ![n] = v]
      /\ UNCHANGED <<client, reqs, shell, error>>
  BY <1>1, <1>2, <1>3 DEF Configured
<1>5. Types /\ LiveInv /\ w \in Wallpapers /\ w.role = "live" /\ w.open \subseteq 1..serial
  BY <1>1 DEF IInv, Shown, Types, CountInv
<1>6. n \in 1..made
  <2>1. ~(n > made)
    BY <1>1, <1>5 DEF LiveInv, Blank
  <2> QED BY <1>5, <2>1 DEF Layers, Types
<1>7. serial \in Nat /\ serial + 1 \in 1..(MaxLayers + MaxRepeats)
  BY <1>5, LayerAssumption DEF LayerAssumption, Types
<1>8. /\ v \in Wallpapers /\ v.open = w.open \cup {serial + 1}
      /\ v.begun = w.begun /\ v.surface = w.surface /\ v.role = w.role /\ v.layer = w.layer
      /\ v.zone = w.zone /\ v.anchor = w.anchor /\ v.acked = w.acked /\ v.attached = w.attached
  BY <1>2, <1>5, <1>7 DEF Wallpapers
<1>9. Types'
  BY <1>4, <1>5, <1>7, <1>8 DEF Types, client
<1>10. CountInv'
  <2>1. \A m \in Layers : wall'[m].open \subseteq 1..serial'
    BY <1>4, <1>5, <1>7, <1>8 DEF IInv, CountInv, Types
  <2> QED BY <1>4, <2>1 DEF CountInv
<1>11. e \in News' /\ e.n = n /\ e.op = 0 /\ e.serial = serial + 1
  <2>1. n \in 1..made' /\ serial + 1 \in 1..serial'
    BY <1>4, <1>6, <1>7 DEF client
  <2>2. e \in News'
    BY <1>3, <2>1 DEF News, Event
  <2> QED BY <1>3, <2>2 DEF Event
<1>12. serial <= serial'
  BY <1>4, <1>7
<1> HIDE DEF Event
<1> QED BY <1>1, <1>4, <1>8, <1>9, <1>10, <1>11, <1>12, Sends

\* The first configure event of a wallpaper.
LEMMA ConfiguresFirst ==
  ASSUME IInv, NEW n \in Layers, Configure(n) PROVE IInv'
<1>1. /\ Shown(n) /\ ~wall[n].acked /\ wall[n].open = {} /\ repeats' = repeats
      /\ \E d \in Sizes : Configured(n, d)
  BY DEF Configure
<1>2. Types /\ n \notin Begun
  BY <1>1 DEF IInv, Begun
<1>3. Begun' = Begun \cup {n}
  BY <1>1, <1>2 DEF Configured, Begun, Types, Wallpapers
<1>4. /\ Cardinality(Begun') = Cardinality(Begun) + 1 /\ Cardinality(Begun) + 1 <= MaxLayers
      /\ Cardinality(Begun) \in Nat
  BY <1>2, <1>3, BegunBound
<1>5. serial = repeats + Cardinality(Begun) /\ repeats \in 0..MaxRepeats
  BY <1>2 DEF IInv, CountInv, Types
<1>6. /\ serial + 1 <= MaxLayers + MaxRepeats /\ repeats' \in 0..MaxRepeats
      /\ serial + 1 = repeats' + Cardinality(Begun')
  BY <1>1, <1>4, <1>5, LayerAssumption DEF LayerAssumption
<1> QED BY <1>1, <1>6, ConfiguresShown

\* Another configure event.
LEMMA Resizes ==
  ASSUME IInv, NEW n \in Layers, Resize(n) PROVE IInv'
<1>1. /\ Shown(n) /\ n \in Begun /\ repeats < MaxRepeats /\ repeats' = repeats + 1
      /\ \E d \in Sizes : Configured(n, d)
  BY DEF Resize, Begun
<1>2. Types
  BY DEF IInv
<1>3. Begun' = Begun
  BY <1>1, <1>2 DEF Configured, Begun, Types, Wallpapers
<1>4. Cardinality(Begun) \in 0..MaxLayers
  BY <1>2, BegunBound
<1>5. serial = repeats + Cardinality(Begun) /\ repeats \in 0..MaxRepeats
  BY <1>2 DEF IInv, CountInv, Types
<1>6. /\ serial + 1 <= MaxLayers + MaxRepeats /\ repeats' \in 0..MaxRepeats
      /\ serial + 1 = repeats' + Cardinality(Begun')
  BY <1>1, <1>3, <1>4, <1>5, LayerAssumption DEF LayerAssumption
<1> QED BY <1>1, <1>6, ConfiguresShown

\* The closed event.
LEMMA Closes ==
  ASSUME IInv, NEW n \in Layers, Close(n) PROVE IInv'
<1>1. PICK w : w = wall[n]
  OBVIOUS
<1>2. PICK v : v = [w EXCEPT !.closed = TRUE]
  OBVIOUS
<1>3. PICK e : e = Event(n, 1, 0, 0)
  OBVIOUS
<1>4. /\ Shown(n) /\ evs' = Append(evs, e) /\ wall' = [wall EXCEPT ![n] = v]
      /\ UNCHANGED <<client, reqs, shell, serial, repeats, error>>
  BY <1>1, <1>2, <1>3 DEF Close
<1>5. Types /\ LiveInv /\ w \in Wallpapers /\ w.role = "live"
  BY <1>1, <1>4 DEF IInv, Shown, Types
<1>6. n \in 1..made
  <2>1. ~(n > made)
    BY <1>1, <1>5 DEF LiveInv, Blank
  <2> QED BY <1>5, <2>1 DEF Layers, Types
<1>7. /\ v \in Wallpapers /\ v.open = w.open
      /\ v.begun = w.begun /\ v.surface = w.surface /\ v.role = w.role /\ v.layer = w.layer
      /\ v.zone = w.zone /\ v.anchor = w.anchor /\ v.acked = w.acked /\ v.attached = w.attached
  BY <1>2, <1>5 DEF Wallpapers
<1>8. Types'
  BY <1>4, <1>5, <1>7 DEF Types, client
<1>9. CountInv'
  <2>1. \A m \in Layers : wall'[m].open = wall[m].open /\ wall'[m].acked = wall[m].acked
    BY <1>1, <1>4, <1>5, <1>7 DEF Types
  <2>2. Begun' = Begun
    BY <2>1 DEF Begun
  <2> QED BY <1>4, <2>1, <2>2 DEF IInv, CountInv
<1>10. e \in News' /\ e.n = n /\ e.op = 1
  <2>1. n \in 1..made'
    BY <1>4, <1>6 DEF client
  <2>2. e \in News'
    BY <1>3, <2>1 DEF News
  <2> QED BY <1>3, <2>2 DEF Event
<1>11. serial <= serial'
  BY <1>4, <1>5 DEF Types
<1>12. IF e.op = 0 THEN e.serial = serial + 1 /\ v.open = w.open \cup {serial + 1}
       ELSE v.open = w.open
  BY <1>7, <1>10
<1> QED BY <1>1, <1>4, <1>7, <1>8, <1>9, <1>10, <1>11, <1>12, Sends

\* The invariant holds at first ...
LEMMA InvInit == Init => IInv
<1> SUFFICES ASSUME Init PROVE IInv
  OBVIOUS
<1>1. Blank \in Wallpapers
  BY DEF Blank, Wallpapers
<1>2. Types
  <2>1. wall \in [Layers -> Wallpapers] /\ made = 0 /\ hasty = {} /\ outs = {}
    BY <1>1 DEF Init
  <2>2. layer \in [Outputs -> 0..made] /\ safe \in [Outputs -> BOOLEAN] /\ size \in [Outputs -> Sizes \cup {0}]
    BY <2>1 DEF Init
  <2>3. made \in 0..MaxLayers /\ repeats \in 0..MaxRepeats /\ serial \in Nat
    BY LayerAssumption DEF LayerAssumption, Init
  <2>4. pc = "loop" /\ lshell = 0 /\ shell = FALSE /\ error = "none"
    BY DEF Init
  <2> QED BY <2>1, <2>2, <2>3, <2>4 DEF Types
<1>3. TableInv /\ WireInv /\ CauseInv
  BY SeqEmpty DEF Init, TableInv, WireInv, CauseInv
<1>4. CountInv
  <2>1. Begun = {}
    BY DEF Begun, Init, Blank
  <2> QED BY <2>1, FS_EmptySet DEF Init, CountInv, Blank
<1>5. LiveInv
  BY DEF Init, LiveInv
<1> QED BY <1>2, <1>3, <1>4, <1>5 DEF IInv

\* ... every step keeps it ...
LEMMA InvStep == IInv /\ [Next]_vars => IInv'
<1> SUFFICES ASSUME IInv, [Next]_vars PROVE IInv'
  OBVIOUS
<1>1. CASE \E v \in Offers : reg_add_lshell(v)
  BY <1>1, AddsShell
<1>2. CASE \E o \in Outputs, d \in Sizes : reg_add_output(o, d)
  BY <1>2, AddsOutput
<1>3. CASE \E o \in Outputs : reg_del(o) \/ draw(o)
  BY <1>3, DeletesOutput, Draws
<1>4. CASE Dispatch
  BY <1>4, Dispatches
<1>5. CASE cleanup
  BY <1>5, Cleans
<1>6. CASE Execute
  BY <1>6, Executes
<1>7. CASE \E n \in Layers : Configure(n) \/ Resize(n) \/ Close(n)
  BY <1>7, ConfiguresFirst, Resizes, Closes
<1>8. CASE UNCHANGED vars
  <2>1. UNCHANGED <<pc, lshell, outs, layer, safe, size, made, hasty, reqs, evs, wall, shell, serial, repeats, error>>
    BY <1>8 DEF vars, client, server
  <2>2. Types' /\ TableInv' /\ CountInv' /\ CauseInv'
    BY <2>1 DEF IInv, Types, TableInv, CountInv, CauseInv, Begun
  <2>3. WireInv'
    BY <2>1 DEF IInv, WireInv, Talk, News, Said, Request, Surface,
       zwlr_layer_shell_v1_get_layer_surface, zwlr_layer_surface_v1_set_exclusive_zone,
       zwlr_layer_surface_v1_set_anchor, zwlr_layer_surface_v1_destroy,
       zwlr_layer_surface_v1_ack_configure, zwlr_layer_shell_v1_destroy
  <2>4. LiveInv => LiveInv'
    BY <2>1 DEF LiveInv, Fine, Used
  <2> QED BY <2>1, <2>2, <2>3, <2>4 DEF IInv, Live
<1> QED BY <1>1, <1>2, <1>3, <1>4, <1>5, <1>6, <1>7, <1>8 DEF Next

\* ... so it holds always.
LEMMA LayerInvariant == Spec => []IInv
<1> QED BY InvInit, InvStep, PTL DEF Spec

-----------------------------------------------------------------------------
(***************************************************************************)
(* The theorems.                                                           *)
(***************************************************************************)
\* Types: a request is about a wallpaper that has been made, and an answer about a
\* configure event that has been sent (surf_create, draw, ls_conf, cleanup), even when
\* both ends speak at the same time.
THEOREM LayerTyped == Spec => []TypeOK
<1>1. IInv => TypeOK
  BY InvTypes DEF IInv
<1> QED BY <1>1, LayerInvariant, PTL

\* The compositor ends the connection only because draw did not look at safe_to_draw, or
\* at the end because of the layer shell (cleanup); all else is in order however requests
\* and events cross.
THEOREM LayerErrors == Spec => []ErrorCause
<1>1. IInv => ErrorCause
  BY InvCause DEF IInv
<1> QED BY <1>1, LayerInvariant, PTL

\* When nothing is under way daemon and compositor agree on the wallpapers, and on whether
\* they may be drawn on (surf_create, out_layer_free, ls_conf, ls_close).
THEOREM LayerAgrees == Spec => []InSync
<1>1. IInv => InSync
  BY InvSync DEF IInv, InSync, Live
<1> QED BY <1>1, LayerInvariant, PTL
=============================================================================
