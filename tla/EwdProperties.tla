--------------------------- MODULE EwdProperties ----------------------------
(***************************************************************************)
(* What is to hold of the daemon and its compositor.                       *)
(***************************************************************************)
EXTENDS Wayland

-----------------------------------------------------------------------------
(* Type invariant.                                                         *)

EventTypes ==
  [type : Services \cup {"sync", "error"}, id : {0}, arg : {Old, Recent}]
    \cup [type : {"global"}, id : Globals, arg : {Old, Recent}]
    \cup [type : {"global_remove", "name"}, id : Globals, arg : {0}]
    \cup [type : {"mode"}, id : Globals, arg : Dims]
    \cup [type : {"configure"}, id : Surfs, arg : Dims]
    \cup [type : {"closed"}, id : Surfs, arg : {0}]
    \cup [type : {"release"}, id : Pixs, arg : {0}]

TableType ==
  buf \in [Slots -> Output] /\ len \in 0..MaxSlots /\ cap \in Nat /\ gen \in Nat

ProxyType == [Globals -> [st : {"none", "live", "released"}, data : Pointer]]

SurfaceType ==
  [Surfs -> [st : {"none", "created", "configured", "destroyed"}, data : Pointer,
             out : Globals \cup {0}, view : {"pending", "configured", "closed"},
             content : Pixs \cup {0}]]

BufferType ==
  [Pixs -> [st : {"none", "live", "destroyed"}, data : Pointer, surf : Surfs \cup {0},
            dim : Dims \cup {0}, img : Images \cup {Clear}, busy : BOOLEAN]]

ObjectType ==
  /\ wlout \in ProxyType /\ surf \in SurfaceType /\ pix \in BufferType
  /\ nsurf \in 0..MaxSurfs /\ npix \in 0..MaxBufs
  /\ mapped \subseteq Pixs /\ bound \subseteq Services

ControlType ==
  /\ pc \in {"roundtrip1", "roundtrip2", "loop", "map", "apply", "dead", "exited"}
  /\ msg \in Messages /\ idx \in 0..MaxSlots
  /\ faults \subseteq {"dangling", "null_table", "null_surface", "freed_surface",
                       "null_buffer", "freed_buffer", "null_name", "protocol"}

CompositorType ==
  /\ wq \in Seq(EventTypes)
  /\ plug \in [Globals -> {"off", "on", "gone"}] /\ told \subseteq Globals

\* Every variable has its type: in particular no slot, surface or buffer
\* number runs past its bound, whatever order the events come in.
TypeOK == TableType /\ ObjectType /\ ControlType /\ CompositorType

-----------------------------------------------------------------------------
(* Safety.                                                                 *)

Without(S) == S \cap Behaviours = {}
Serving == pc # "exited"
Running == pc \notin {"dead", "exited"}

\* The table holds every bound output exactly once, and nothing else: what
\* reg_add appends, only reg_del takes away, whatever the listeners have done
\* to the name field by which reg_del looks the output up.
TableOK ==
  Serving =>
    /\ \A i \in Live(len) :
         /\ buf[i].wl_out \in Globals /\ wlout[buf[i].wl_out].st = "live"
         /\ buf[i].name \in {0, buf[i].wl_out}
    /\ \A i, j \in Live(len) : buf[i].wl_out = buf[j].wl_out => i = j
    /\ \A g \in Globals : wlout[g].st = "live" => \E i \in Live(len) : buf[i].wl_out = g

\* A surface is the surface of one output as long as it lives: reg_del,
\* ls_close and out_layer_free lose none, and no output gets another's.
SurfacesOwned ==
  Serving =>
    /\ \A i \in Live(len) : buf[i].surf # 0 => surf[buf[i].surf].out = buf[i].wl_out
    /\ \A s \in Surfs : surf[s].st \in {"created", "configured"} =>
         \E i \in Live(len) : buf[i].surf = s

\* The listeners of an output point to its slot, and what they have stored
\* there is its own, as long as realloc has not moved the block and no output
\* of that slot or a lower one has gone: da_remove moves the higher ones.
Settled(i) ==
  gen = 0 /\ \A g \in Globals : wlout[g].st = "released" => wlout[g].data.slot > i

ListenersInPlace ==
  Serving => \A i \in Live(len) : Settled(i) =>
    /\ wlout[buf[i].wl_out].data.slot = i
    /\ buf[i].surf # 0 => surf[buf[i].surf].data.slot = i
    /\ buf[i].human_name \in {NULL, Connector[buf[i].wl_out]}

\* An output whose removal has been handled has left the table, unless a
\* surface may be closed first: ls_close clears the name reg_del looks for.
NoOrphans ==
  Without({"close"}) /\ Dispatching => \A i \in Live(len) :
    plug[buf[i].wl_out] = "gone" =>
      \E k \in 1..Len(wq) : wq[k] = Event("global_remove", buf[i].wl_out, 0)

\* buf_free destroys the buffer its output has now and not the one released:
\* with at most one in use per output and no output leaving, a buffer and its
\* memory live exactly as long as the compositor uses it.
InUse(b) == pix[b].busy \/ \E k \in 1..Len(wq) : wq[k] = Event("release", b, 0)

BuffersLiveInUse ==
  Running /\ Without({"unplug", "late_release", "oom"}) => \A b \in 1..npix :
    /\ InUse(b) <=> pix[b].st = "live"
    /\ InUse(b) <=> b \in mapped

\* With no more displays than da_init makes room for, no listener is left with
\* a pointer into a block that realloc has freed.
GrowthFaults ==
  "dangling" \in faults \/ "null_table" \in faults => Cardinality(Globals) > InitCap

\* What else it takes for the daemon to go wrong: an output that has moved away
\* from the slot its listeners point to, one that has left, a compositor that is
\* late or closes a surface first, or a call that fails.
Moved == \E i \in Live(len) : wlout[buf[i].wl_out].data.slot # i
Left == \E g \in Globals : wlout[g].st = "released"

FaultCause ==
  /\ "null_table" \in faults => ~Without({"oom"})
  /\ "null_surface" \in faults => ~Without({"close", "any_order"}) \/ Moved
  /\ "freed_surface" \in faults => ~Without({"unplug"}) /\ (~Without({"close"}) \/ Moved)
  /\ "null_buffer" \in faults => Left \/ (~Without({"late_release"}) /\ ~Without({"oom"}))
  /\ "freed_buffer" \in faults => Left \/ ~Without({"late_release"})
  /\ "null_name" \in faults =>
       Moved \/ ~Without({"late_info", "oom"}) \/ (~Without({"unplug"}) /\ ~Without({"close"}))
  /\ "protocol" \in faults => ~Without({"late_configure"})

-----------------------------------------------------------------------------
(* Action properties.                                                      *)

\* An image appears on the displays the client named, as far as nothing has
\* moved: the name a slot compares is that of the output the surface is on.
RightDisplay ==
  [][\A s \in Surfs : surf'[s].content # surf[s].content /\ Settled(idx) =>
       msg.name \in {NULL, Connector[surf[s].out]}]_vars

\* A message that is done with is on all the displays it named, in the size
\* they have.
Applied ==
  [][pc = "apply" /\ pc' = "loop" /\ Without({"unplug", "late_info", "oom"}) =>
       \A i \in Live(len) : Addressed(buf[i], msg) =>
         LET b == surf[buf[i].surf].content
         IN  b # 0 /\ pix[b].img = msg.img /\ pix[b].dim = buf[i].dim]_vars

\* The two roundtrips suffice: when the daemon begins to serve, it knows the
\* name and the size of every display that was there when it connected.
KnownWhenServing ==
  [][~(pc \in {"loop", "map", "apply"}) /\ pc' = "loop" /\ Without({"oom"}) =>
       \A i \in Live(len) :
         buf[i].wl_out \in Initial /\ plug[buf[i].wl_out] = "on" /\ Settled(i) =>
           buf[i].human_name = Connector[buf[i].wl_out] /\ buf[i].dim # 0]_vars

-----------------------------------------------------------------------------
(***************************************************************************)
(* Wallpaper, as Ewd implements it until a display leaves the table.  What *)
(* a display shows is in the buffer last attached to its surface.  An      *)
(* order begins once its image has been mapped; there are none to clear    *)
(* (see ClearClears).                                                      *)
(***************************************************************************)
Intact == Running /\ ~Left

Phase ==
  CASE Intact /\ pc \in {"roundtrip1", "roundtrip2"} -> "start"
    [] Intact /\ pc \in {"loop", "map", "apply"}     -> "serving"
    [] pc = "exited" /\ faults = {} /\ (\A g \in Globals : plug[g] # "gone") -> "over"
    [] OTHER -> "broken"

Present == {g \in Globals : Intact /\ wlout[g].st = "live"}
Slot(g) == CHOOSE i \in Live(len) : buf[i].wl_out = g
SurfaceOf(g) == buf[Slot(g)].surf

Lost(s) == s = 0 \/ surf[s].view = "closed"
ImageOn(s) == IF Lost(s) \/ surf[s].content = 0 THEN Clear ELSE pix[surf[s].content].img

Dark == {g \in Present : Phase = "serving" /\ Lost(SurfaceOf(g))}
Shown == [g \in Globals |-> IF g \in Present THEN ImageOn(SurfaceOf(g)) ELSE Clear]
Order == IF Intact /\ pc = "apply" THEN msg ELSE NoMsg
Todo == {g \in Present : pc = "apply" /\ idx <= Slot(g) /\ msg.name \in {NULL, Connector[g]}}

\* What it takes to break the daemon, to make it give up an order, and to have a
\* display without a surface.
MayBreak ==
  \/ ~Without(AllBehaviours \ {"hotplug", "resize", "deficient"})
  \/ Cardinality(Globals) > InitCap
MayGiveUp == ~Without({"late_info", "oom"}) \/ {"close", "unplug"} \subseteq Behaviours
MayLose == ~Without({"close", "any_order", "unplug"})

Promise == INSTANCE Wallpaper WITH
  Displays <- Globals, Everyone <- NULL, Nothing <- Clear,
  Fragile <- MayBreak, Forgetful <- MayGiveUp, Shaky <- MayLose,
  phase <- Phase, there <- Present, dark <- Dark, shown <- Shown,
  order <- Order, todo <- Todo

\* The daemon does what Wallpaper says: displays show what was last ordered for
\* them, and an order is carried out as a whole.  With no more displays than there
\* is room for, none of which leaves or loses its surface, a compositor on time and
\* calls that succeed, the daemon neither breaks down nor gives up.
WallpaperKept == Promise!Spec

-----------------------------------------------------------------------------
(* Liveness.                                                               *)

\* The start ends, and so does the work on a message.
WallpaperGoesOn == Promise!Progress

\* The memory of a buffer is given back.
MemoryReturns == \A b \in Pixs : b \in mapped ~> b \notin mapped \/ pc \in {"dead", "exited"}

-----------------------------------------------------------------------------
(* What the manual and the comments say, and the code does not do.         *)

\* ewd(7): a message whose width times height is 0 clears the display.
ClearClears ==
  [][pc = "map" /\ pc' = "loop" /\ msg.img = Clear =>
       \A i \in Live(len) : Addressed(buf[i], msg) /\ buf[i].surf # 0 =>
         surf'[buf[i].surf].st = "destroyed" \/ surf'[buf[i].surf].content = 0]_vars

\* ls_close: the pointer is not trusted, so closing a surface of one output
\* leaves those of the others alone.
CloseStaysLocal ==
  [][\A s \in Surfs :
       pc = "loop" /\ wq # <<>> /\ Ev.type = "closed" /\ wq' = Tail(wq)
         /\ surf[s].st # "destroyed" /\ surf'[s].st = "destroyed" => s = Ev.id]_vars
=============================================================================
