----------------------------- MODULE LayerShell ------------------------------
(***************************************************************************)
(* ewd and the layer shell: the generated bindings of                      *)
(* src/src/ewd/proto/wlr-layer-shell-unstable-v1.h and .c, the handlers of *)
(* main.c that use them, and the compositor at the other end of the wire.  *)
(* A request travels as an opcode, the version of its object and an        *)
(* argument; what it means is looked up in the table of the .c file.       *)
(* Wallpaper n is the wl_surface and the layer surface of the nth          *)
(* surf_create.  Name_Slip is Name with a mistake in it, used to see that  *)
(* the properties notice.                                                  *)
(***************************************************************************)
EXTENDS Integers, Sequences, SequencesExt

CONSTANTS
  Outputs,     \* the outputs
  Sizes,       \* sizes of an output
  Offers,      \* versions a compositor may offer
  MaxLayers,   \* bound: calls of surf_create
  MaxRepeats,  \* bound: configure events after the first of a wallpaper
  MaxReqs      \* bound: requests that are under way when a client is served

ASSUME LayerAssumption ==
  MaxLayers \in Nat /\ MaxRepeats \in Nat /\ MaxReqs \in Nat \ {0} /\ Offers \subseteq Nat

VARIABLES
  pc,      \* "loop", or "ended"
  lshell,  \* the version lshell is bound at, or 0
  outs,    \* outputs in the table
  layer,   \* layer[o]: the wallpaper of o (out->surf and out->layer), or 0
  safe,    \* safe[o]: out->safe_to_draw
  size,    \* size[o]: out->dw and out->dh
  made,    \* wallpapers that have been made
  hasty,   \* wallpapers drawn on while safe_to_draw was false
  reqs,    \* requests under way
  evs,     \* events under way
  wall,    \* wall[n]: wallpaper n as the compositor sees it
  shell,   \* is there a layer shell object?
  serial,  \* the last serial of a configure event
  repeats, \* configure events that were not the first
  error    \* why the compositor has ended the connection, or "none"

client == <<pc, lshell, outs, layer, safe, size, made, hasty>>
server == <<wall, shell, serial, repeats, error>>
vars == <<client, reqs, evs, server>>

Layers == 1..MaxLayers
Live == error = "none"

-----------------------------------------------------------------------------
(* The bindings.                                                           *)

\* Opcodes, as the header numbers them; a slip exchanges two.
ShellOpcode == [get_layer_surface |-> 0, destroy |-> 1]
LayerOpcode_Swapped ==
  [set_size |-> 0, set_anchor |-> 1, set_exclusive_zone |-> 3, set_margin |-> 2,
   set_keyboard_interactivity |-> 4, get_popup |-> 5, ack_configure |-> 6, destroy |-> 7,
   set_layer |-> 8]
LayerOpcode ==
  [set_size |-> 0, set_anchor |-> 1, set_exclusive_zone |-> 2, set_margin |-> 3,
   set_keyboard_interactivity |-> 4, get_popup |-> 5, ack_configure |-> 6, destroy |-> 7,
   set_layer |-> 8]

\* The versions in which the header says that requests came.
ShellSince == [get_layer_surface |-> 1, destroy |-> 3]
LayerSince ==
  [set_size |-> 1, set_anchor |-> 1, set_exclusive_zone |-> 1, set_margin |-> 1,
   set_keyboard_interactivity |-> 1, get_popup |-> 1, ack_configure |-> 1, destroy |-> 1,
   set_layer |-> 2]

\* The tables of the .c file: the place of a message is its opcode.
Message(name, since) == [name |-> name, since |-> since]
shell_requests == <<Message("get_layer_surface", 1), Message("destroy", 3)>>
surface_requests ==
  <<Message("set_size", 1), Message("set_anchor", 1), Message("set_exclusive_zone", 1),
    Message("set_margin", 1), Message("set_keyboard_interactivity", 1),
    Message("get_popup", 1), Message("ack_configure", 1), Message("destroy", 1),
    Message("set_layer", 2)>>
surface_events == <<"configure", "closed">>

BACKGROUND == 0
TOP == 1
BOTTOM == 2
LEFT == 4
RIGHT == 8

\* wl_proxy_marshal_flags: objects made through lshell have its version.
Request(kind, n, op, arg) ==
  [kind |-> kind, n |-> n, op |-> op, ver |-> lshell, arg |-> arg]

zwlr_layer_shell_v1_get_layer_surface(n, l) ==
  Request("shell", n, ShellOpcode.get_layer_surface, l)
zwlr_layer_shell_v1_destroy == Request("shell", 0, ShellOpcode.destroy, 0)
zwlr_layer_surface_v1_set_size(n, d) == Request("layer", n, LayerOpcode.set_size, d)
zwlr_layer_surface_v1_set_anchor(n, anchor) ==
  Request("layer", n, LayerOpcode.set_anchor, anchor)
zwlr_layer_surface_v1_set_exclusive_zone(n, zone) ==
  Request("layer", n, LayerOpcode.set_exclusive_zone, zone)
zwlr_layer_surface_v1_set_margin(n, margin) ==
  Request("layer", n, LayerOpcode.set_margin, margin)
zwlr_layer_surface_v1_set_keyboard_interactivity(n, on) ==
  Request("layer", n, LayerOpcode.set_keyboard_interactivity, on)
zwlr_layer_surface_v1_get_popup(n, popup) ==
  Request("layer", n, LayerOpcode.get_popup, popup)
zwlr_layer_surface_v1_ack_configure(n, s) ==
  Request("layer", n, LayerOpcode.ack_configure, s)
zwlr_layer_surface_v1_destroy(n) == Request("layer", n, LayerOpcode.destroy, 0)
zwlr_layer_surface_v1_set_layer(n, l) == Request("layer", n, LayerOpcode.set_layer, l)

\* Requests to the wl_surface of n, whose bindings are libwayland's.
Surface(n, name) == [kind |-> "surface", n |-> n, op |-> name, ver |-> 4, arg |-> 0]

-----------------------------------------------------------------------------
(* The daemon.                                                             *)

Anchors == TOP + RIGHT + BOTTOM + LEFT

\* The requests of surf_create for wallpaper n; a slip leaves out the commit.
Creation_NoCommit(n) ==
  <<Surface(n, "create"), zwlr_layer_shell_v1_get_layer_surface(n, BACKGROUND),
    zwlr_layer_surface_v1_set_exclusive_zone(n, -1),
    zwlr_layer_surface_v1_set_anchor(n, Anchors)>>
Creation(n) ==
  <<Surface(n, "create"), zwlr_layer_shell_v1_get_layer_surface(n, BACKGROUND),
    zwlr_layer_surface_v1_set_exclusive_zone(n, -1),
    zwlr_layer_surface_v1_set_anchor(n, Anchors), Surface(n, "commit")>>

\* The requests of out_layer_free for wallpaper n; a slip exchanges them.
Removal_SurfaceFirst(n) ==
  IF n = 0 THEN <<>> ELSE <<Surface(n, "destroy"), zwlr_layer_surface_v1_destroy(n)>>
Removal(n) ==
  IF n = 0 THEN <<>> ELSE <<zwlr_layer_surface_v1_destroy(n), Surface(n, "destroy")>>

\* out's wallpaper is n from now on, after the requests rs.
Replace(o, n, rs) ==
  /\ layer' = [layer EXCEPT ![o] = n] /\ safe' = [safe EXCEPT ![o] = FALSE]
  /\ reqs' = reqs \o rs

\* surf_create: nothing without the layer shell.  A slip takes the name of the
\* wallpaper made last.
surf_create_Again(o) ==
  IF lshell = 0
  THEN Replace(o, 0, <<>>) /\ UNCHANGED made
  ELSE Replace(o, made + 1, Creation(made + 1)) /\ UNCHANGED made

surf_create(o) ==
  IF lshell = 0
  THEN Replace(o, 0, <<>>) /\ UNCHANGED made
  ELSE Replace(o, made + 1, Creation(made + 1)) /\ made' = made + 1

\* The branch of reg_add for the layer shell.
reg_add_lshell(ver) ==
  /\ pc = "loop" /\ lshell = 0 /\ Live
  /\ IF ver < 2
     THEN pc' = "ended" /\ UNCHANGED <<lshell, shell>>
     ELSE lshell' = 2 /\ shell' = TRUE /\ UNCHANGED pc
  /\ UNCHANGED <<outs, layer, safe, size, made, hasty, reqs, evs, wall, serial, repeats, error>>

\* The branch of reg_add for an output, and the mode it comes with.
reg_add_output(o, d) ==
  /\ pc = "loop" /\ o \notin outs /\ made < MaxLayers
  /\ outs' = outs \cup {o} /\ size' = [size EXCEPT ![o] = d]
  /\ surf_create(o)
  /\ UNCHANGED <<pc, lshell, hasty, evs, server>>

\* An output whose wallpaper was closed is not found by its name any more; it stays in
\* the table, but makes no requests, and counts as gone here.
reg_del(o) ==
  /\ pc = "loop" /\ o \in outs
  /\ outs' = outs \ {o} /\ Replace(o, 0, Removal(layer[o]))
  /\ UNCHANGED <<pc, lshell, size, made, hasty, evs, server>>

\* ewctl sets an image on o: draw.
draw(o) ==
  /\ pc = "loop" /\ o \in outs /\ layer[o] # 0 /\ Len(reqs) < MaxReqs
  /\ reqs' = reqs \o <<Surface(layer[o], "attach"), Surface(layer[o], "commit")>>
  /\ hasty' = IF safe[o] THEN hasty ELSE hasty \cup {layer[o]}
  /\ UNCHANGED <<pc, lshell, outs, layer, safe, size, made, evs, server>>

\* ls_conf for o's wallpaper n; a slip answers only when there is something to do.
ls_conf_Lazy(o, n, e) ==
  IF safe[o] /\ size[o] = e.size
  THEN reqs' = Append(reqs, Surface(n, "commit")) /\ UNCHANGED <<safe, size, layer, made>>
  ELSE /\ reqs' = Append(reqs, zwlr_layer_surface_v1_ack_configure(n, e.serial))
       /\ size' = [size EXCEPT ![o] = e.size] /\ safe' = [safe EXCEPT ![o] = TRUE]
       /\ UNCHANGED <<layer, made>>

ls_conf(o, n, e) ==
  LET ack == zwlr_layer_surface_v1_ack_configure(n, e.serial) IN
  IF safe[o] /\ size[o] = e.size
  THEN reqs' = reqs \o <<ack, Surface(n, "commit")>> /\ UNCHANGED <<safe, size, layer, made>>
  ELSE /\ reqs' = Append(reqs, ack)
       /\ size' = [size EXCEPT ![o] = e.size] /\ safe' = [safe EXCEPT ![o] = TRUE]
       /\ UNCHANGED <<layer, made>>

ls_close(o, n) == Replace(o, 0, Removal(n)) /\ UNCHANGED <<size, made>>

\* wl_display_dispatch takes the first event to the listener of its object, and
\* drops it when the object has been destroyed.
Dispatch ==
  /\ pc = "loop" /\ Live /\ evs # <<>>
  /\ LET e == Head(evs)
         of == {o \in Outputs : layer[o] = e.n}
     IN IF of = {} THEN UNCHANGED <<reqs, layer, safe, size, made>>
        ELSE \E o \in of :
               IF surface_events[e.op + 1] = "configure" THEN ls_conf(o, e.n, e) ELSE ls_close(o, e.n)
  /\ evs' = Tail(evs)
  /\ UNCHANGED <<pc, lshell, outs, hasty, server>>

\* out_layer_free for the wallpapers of s, one after the other: two requests each.
Removals(s) == [i \in 1..(2 * Len(s)) |-> Removal(s[(i + 1) \div 2])[2 - (i % 2)]]

\* cleanup, at any exit.  The connection is closed at once: the compositor may execute
\* what has been requested before, or see only the beginning of it.
cleanup ==
  /\ pc = "loop" /\ pc' = "ended"
  /\ reqs' = reqs \o Removals(SetToSeq({layer[o] : o \in outs} \ {0}))
                  \o (IF lshell = 0 THEN <<>> ELSE <<zwlr_layer_shell_v1_destroy>>)
  /\ evs' = <<>>
  /\ UNCHANGED <<lshell, outs, layer, safe, size, made, hasty, server>>

-----------------------------------------------------------------------------
(* The compositor.                                                         *)

\* What request r says, by the table of its interface.
Meaning(r) ==
  CASE r.kind = "shell"   -> shell_requests[r.op + 1]
    [] r.kind = "layer"   -> surface_requests[r.op + 1]
    [] r.kind = "surface" -> Message(r.op, 1)

Blank ==
  [surface |-> "none", role |-> "none", layer |-> -1, zone |-> 0, anchor |-> 0, begun |-> FALSE,
   open |-> {}, acked |-> FALSE, attached |-> FALSE, closed |-> FALSE]

Edge(anchor, edge) == (anchor \div edge) % 2 = 1

Errors == {"version", "object", "role", "serial", "defunct", "unconfigured", "size"}

\* What is wrong with a request named name, w being the wallpaper it is for.
Faults(r, name, w) ==
  {f \in Errors :
     \/ f = "version" /\ Meaning(r).since > r.ver
     \/ f = "object" /\ r.kind = "shell" /\ ~shell
     \/ f = "object" /\ r.kind = "layer" /\ w.role # "live"
     \/ f = "object" /\ r.kind = "surface" /\ name # "create" /\ w.surface # "live"
     \/ f = "role" /\ name = "get_layer_surface" /\ (w.surface # "live" \/ w.begun \/ w.attached)
     \/ f = "serial" /\ name = "ack_configure" /\ r.arg \notin w.open
     \/ f = "defunct" /\ r.kind = "surface" /\ name = "destroy" /\ w.role = "live"
     \/ f = "unconfigured" /\ name = "commit" /\ w.attached /\ ~w.acked
     \/ f = "size" /\ name = "commit" /\ w.role = "live"
          /\ \E edge \in {TOP, BOTTOM, LEFT, RIGHT} : ~Edge(w.anchor, edge)}

\* What a request does to w.  Serials before the one that is answered are void.
After(r, name, w) ==
  CASE r.kind = "surface" /\ name = "create"  -> [w EXCEPT !.surface = "live"]
    [] r.kind = "surface" /\ name = "destroy" -> [w EXCEPT !.surface = "dead"]
    [] r.kind = "layer" /\ name = "destroy"   -> [w EXCEPT !.role = "dead"]
    [] name = "get_layer_surface"  -> [w EXCEPT !.role = "live", !.layer = r.arg]
    [] name = "set_exclusive_zone" -> [w EXCEPT !.zone = r.arg]
    [] name = "set_anchor"         -> [w EXCEPT !.anchor = r.arg]
    [] name = "attach"             -> [w EXCEPT !.attached = TRUE]
    [] name = "commit"             -> [w EXCEPT !.begun = TRUE]
    [] name = "ack_configure" ->
         [w EXCEPT !.acked = TRUE, !.open = {s \in w.open : s > r.arg}]
    [] OTHER -> w

\* Any of the faults of a request may be the one that is reported.
Execute ==
  /\ reqs # <<>> /\ Live
  /\ LET r == Head(reqs)
         name == Meaning(r).name
         w == IF r.n = 0 THEN Blank ELSE wall[r.n]
         faults == Faults(r, name, w)
     IN /\ error' \in IF faults = {} THEN {"none"} ELSE faults
        /\ wall' = IF r.n = 0 \/ error' # "none" THEN wall ELSE [wall EXCEPT ![r.n] = After(r, name, w)]
        /\ shell' = (shell /\ ~(error' = "none" /\ r.kind = "shell" /\ name = "destroy"))
  /\ reqs' = Tail(reqs)
  /\ UNCHANGED <<client, evs, serial, repeats>>

Event(n, op, s, d) == [n |-> n, op |-> op, serial |-> s, size |-> d]

Configured(n, d) ==
  /\ serial' = serial + 1
  /\ evs' = Append(evs, Event(n, 0, serial + 1, d))
  /\ wall' = [wall EXCEPT ![n].open = @ \cup {serial + 1}]
  /\ UNCHANGED <<client, reqs, shell, error>>

\* What is sent to a client that has ended makes no difference.
Shown(n) ==
  wall[n].role = "live" /\ wall[n].begun /\ ~wall[n].closed /\ Live /\ pc = "loop"

\* The first configure event of a wallpaper answers its first commit.
Configure(n) ==
  /\ Shown(n) /\ ~wall[n].acked /\ wall[n].open = {}
  /\ \E d \in Sizes : Configured(n, d)
  /\ UNCHANGED repeats

\* The size may change at any time after that.
Resize(n) ==
  /\ Shown(n) /\ (wall[n].acked \/ wall[n].open # {}) /\ repeats < MaxRepeats
  /\ \E d \in Sizes : Configured(n, d)
  /\ repeats' = repeats + 1

Close(n) ==
  /\ Shown(n)
  /\ wall' = [wall EXCEPT ![n].closed = TRUE]
  /\ evs' = Append(evs, Event(n, 1, 0, 0))
  /\ UNCHANGED <<client, reqs, shell, serial, repeats, error>>

-----------------------------------------------------------------------------
Init ==
  /\ pc = "loop" /\ lshell = 0 /\ outs = {} /\ layer = [o \in Outputs |-> 0]
  /\ safe = [o \in Outputs |-> FALSE] /\ size = [o \in Outputs |-> 0] /\ made = 0
  /\ hasty = {} /\ reqs = <<>> /\ evs = <<>> /\ wall = [n \in Layers |-> Blank]
  /\ shell = FALSE /\ serial = 0 /\ repeats = 0 /\ error = "none"

Next ==
  \/ \E v \in Offers : reg_add_lshell(v)
  \/ \E o \in Outputs, d \in Sizes : reg_add_output(o, d)
  \/ \E o \in Outputs : reg_del(o) \/ draw(o)
  \/ Dispatch \/ cleanup \/ Execute
  \/ \E n \in Layers : Configure(n) \/ Resize(n) \/ Close(n)

Spec == Init /\ [][Next]_vars

\* The daemon flushes its requests and dispatches events whenever it goes round its
\* loop, until it ends; the compositor executes requests and answers a first commit.
FairSpec ==
  /\ Spec /\ WF_vars(Dispatch) /\ WF_vars(pc = "loop" /\ Execute) /\ \A n \in Layers : WF_vars(Configure(n))
=============================================================================
