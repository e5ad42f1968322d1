-------------------------------- MODULE Ewd ---------------------------------
(***************************************************************************)
(* The ewd daemon of src/ewd/main.c between a Wayland compositor and the   *)
(* clients of its socket: the table of outputs, the surface and the        *)
(* buffers of each, the listeners that point into the table, and the event *)
(* loop.  The compositor is external: it sends the events the protocol     *)
(* allows, and Behaviours says which of the awkward ones it may send.  As  *)
(* in DynArray, Name_Slip is Name with a mistake in it, used to see that   *)
(* the properties notice.                                                  *)
(***************************************************************************)
EXTENDS DynArray, SequencesExt

CONSTANTS
  Globals,      \* registry names of the wl_output globals (never reused)
  Initial,      \* those that exist when the daemon connects
  Names,        \* human-readable output names (e.g. eDP-1)
  Connector,    \* Connector[g]: the human-readable name of output g
  Dims,         \* display sizes; 0 is the size of a display not yet known
  Images,       \* images of a positive size
  Clear,        \* the image of a clear request: width * height = 0
  NULL,         \* no name
  InitCap,      \* the capacity given to da_init
  MaxSlots,     \* bound: slots of the table
  MaxSurfs,     \* bound: surfaces ever created
  MaxBufs,      \* bound: pixel buffers ever created
  MaxQueue,     \* bound: events in flight when one is sent unasked
  Behaviours    \* what the compositor and the machine may do

AllBehaviours ==
  {"hotplug",         \* outputs appear after the daemon has connected
   "unplug",          \* outputs disappear
   "close",           \* a surface is closed before its output disappears
   "resize",          \* modes and sizes change
   "any_order",       \* outputs may be advertised before the services
   "deficient",       \* a service is missing, or too old
   "late_info",       \* clients are served before an output is described
   "late_configure",  \* ... before a new surface is configured
   "late_release",    \* ... before a used buffer is released
   "oom"}             \* system calls and allocations fail

ASSUME EwdAssumption ==
  /\ Globals \subseteq Nat \ {0} /\ IsFiniteSet(Globals)
  /\ Initial \subseteq Globals
  /\ Connector \in [Globals -> Names]
  /\ Dims \subseteq Nat \ {0}
  /\ NULL \notin Names /\ Clear \notin Images
  /\ InitCap \in Nat \ {0} /\ MaxSlots \in Nat \ {0} /\ MaxSurfs \in Nat
  /\ MaxBufs \in Nat /\ MaxQueue \in Nat
  /\ Behaviours \subseteq AllBehaviours

VARIABLES
  buf, len, cap,  \* outputs: the memory block, its length and capacity
  gen,            \* how often realloc has moved the block
  wlout,          \* wlout[g]: the wl_output proxy of global g
  surf, nsurf,    \* surfaces (a wl_surface and its layer surface) created
  pix, npix,      \* pixel buffers (a mapping and its wl_buffer) created
  mapped,         \* those whose memory is mapped
  bound,          \* the services bound so far
  wq,             \* events on their way to the daemon
  plug,           \* plug[g]: the output as the compositor has it
  told,           \* outputs whose mode and name have been sent
  pc, msg, idx,   \* where main is; the message and the slot it works on
  faults          \* what has gone wrong

table == <<buf, len, cap, gen>>
objects == <<wlout, surf, nsurf, pix, npix, mapped, bound>>
client == <<msg, idx>>
compositor == <<plug, told>>
vars == <<table, objects, client, compositor, wq, pc, faults>>

Services == {"comp", "shm", "lshell"}
Slots == 0..(MaxSlots - 1)
Surfs == 1..MaxSurfs
Pixs == 1..MaxBufs

\* A listener's data pointer: a slot of the block as it was after gen moves.
Pointer == [gen : Nat, slot : Slots]
Nowhere == [gen |-> 0, slot |-> 0]

\* struct output.  wl_buf and map name a pixel buffer, surf a surface; 0 is
\* NULL.  The layer field is set and cleared together with surf, iw and ih
\* are never read, and dim is the pair dw, dh.
Output ==
  [name : Globals \cup {0}, safe_to_draw : BOOLEAN, human_name : Names \cup {NULL},
   dim : Dims \cup {0}, map : Pixs \cup {0}, wl_buf : Pixs \cup {0},
   wl_out : Globals \cup {0}, surf : Surfs \cup {0}]

Zero == [name |-> 0, safe_to_draw |-> FALSE, human_name |-> NULL, dim |-> 0,
         map |-> 0, wl_buf |-> 0, wl_out |-> 0, surf |-> 0]

NoMsg == [name |-> NULL, img |-> Clear]
Messages == [name : Names \cup {NULL}, img : Images \cup {Clear}]

Event(t, id, arg) == [type |-> t, id |-> id, arg |-> arg]
Ev == Head(wq)

\* The arg of a global: is its version the required one?
Old == 0
Recent == 1

\* wl_display_dispatch runs in the roundtrips of the start and in the loop.
Dispatching == pc \in {"roundtrip1", "roundtrip2", "loop"}

-----------------------------------------------------------------------------
(***************************************************************************)
(* Dispatch.  libwayland drops an event whose proxy is gone; for the rest  *)
(* it calls the listener with the data pointer given to add_listener.      *)
(***************************************************************************)
Listening(e) ==
  CASE e.type \in {"mode", "name"}        -> wlout[e.id].st = "live"
    [] e.type \in {"configure", "closed"} -> surf[e.id].st # "destroyed"
    [] e.type = "release"                 -> pix[e.id].st = "live"

Data(e) ==
  CASE e.type \in {"mode", "name"}        -> wlout[e.id].data
    [] e.type \in {"configure", "closed"} -> surf[e.id].data
    [] e.type = "release"                 -> pix[e.id].data

ListenerEvents == {"mode", "name", "configure", "closed", "release"}

\* The next event is of type t and is consumed.
Take(t) == Dispatching /\ wq # <<>> /\ Ev.type = t /\ wq' = Tail(wq)

\* ... and its listener runs on a slot of the block that is still there.
Deliver(t) == Take(t) /\ Listening(Ev) /\ Data(Ev).gen = gen
At == Data(Ev).slot
out == buf[At]

\* The event of a proxy that has been destroyed.
Discard ==
  /\ \E t \in ListenerEvents : Take(t) /\ ~Listening(Ev)
  /\ UNCHANGED <<table, objects, client, compositor, pc, faults>>

\* The listener's data pointer is into a block that realloc has freed:
\* nothing is defined from here on.
Dangle ==
  /\ \E t \in ListenerEvents : Take(t) /\ Listening(Ev) /\ Data(Ev).gen # gen
  /\ pc' = "dead" /\ faults' = faults \cup {"dangling"}
  /\ UNCHANGED <<table, objects, client, compositor>>

\* What goes wrong in a request on surface s: the NULL proxy is a crash, a
\* destroyed one is a use of freed memory.
SurfaceFault(s) ==
  IF s = 0 THEN {"null_surface"}
  ELSE IF surf[s].st = "destroyed" THEN {"freed_surface"} ELSE {}

\* Carry on at `next', or stop here when f is not empty.
Proceed(f, next) ==
  /\ faults' = faults \cup f
  /\ pc' = IF f = {} THEN next ELSE "dead"

-----------------------------------------------------------------------------
(* Surfaces.                                                               *)

\* Slip: the listener gets the slot after the one appended.
NewSurface_PastEnd(g, i, epoch) ==
  [st |-> "created", data |-> [gen |-> epoch, slot |-> i + 1], out |-> g,
   view |-> "pending", content |-> 0]

\* surf_create for the output in slot i: the new surface and its number, or
\* nothing as long as comp or lshell is not bound.
CanCreate == {"comp", "lshell"} \subseteq bound
NewSurface(g, i, epoch) ==
  [st |-> "created", data |-> [gen |-> epoch, slot |-> i], out |-> g,
   view |-> "pending", content |-> 0]

\* Slips: the pointer to the surface stays; the surface stays.
LayerFreed_KeepsSurface(o) == [o EXCEPT !.name = 0, !.safe_to_draw = FALSE]
SurfacesWithout_Leak(S) == surf

\* out_layer_free: what it leaves in the output, and in the surfaces.
LayerFreed(o) == [o EXCEPT !.surf = 0, !.name = 0, !.safe_to_draw = FALSE]
LayerFault(o) == IF o.surf = 0 THEN {} ELSE SurfaceFault(o.surf)
SurfacesWithout(S) ==
  [s \in Surfs |-> IF s \in S THEN [surf[s] EXCEPT !.st = "destroyed"] ELSE surf[s]]

\* cleanup, run by exit: every output of the table is released.  why is what
\* has gone wrong already.
CleanupAfter(why) ==
  LET held == {buf[i].surf : i \in Live(len)} IN
  /\ surf' = SurfacesWithout(held)
  /\ wlout' = [g \in Globals |->
       IF \E i \in Live(len) : buf[i].wl_out = g
       THEN [wlout[g] EXCEPT !.st = "released"] ELSE wlout[g]]
  /\ faults' = faults \cup why \cup UNION {LayerFault(buf[i]) : i \in Live(len)}
  /\ pc' = "exited"
  /\ UNCHANGED <<table, nsurf, pix, npix, mapped, bound, client, compositor>>

Cleanup == CleanupAfter({})

-----------------------------------------------------------------------------
(* The registry.                                                           *)

\* reg_add of a service.
BindService(t) ==
  /\ Take(t) /\ (t = "shm" \/ Ev.arg = Recent)
  /\ bound' = bound \cup {t}
  /\ UNCHANGED <<table, wlout, surf, nsurf, pix, npix, mapped, client, compositor, pc, faults>>

\* The output reg_add appends, with the surface s made for it.
NewOutput(g, s) == [Zero EXCEPT !.name = g, !.wl_out = g, !.surf = s]

\* reg_add of an output: bind, da_append, add_listener, surf_create.
BindOutput ==
  /\ Take("global") /\ Ev.arg = Recent /\ len < MaxSlots /\ nsurf < MaxSurfs
  /\ LET g == Ev.id
         s == IF CanCreate THEN nsurf + 1 ELSE 0
     IN
     /\ cap' = Grown(len, cap)
     /\ gen' \in (IF cap' # cap THEN {gen, gen + 1} ELSE {gen})
     /\ buf' = Appended(buf, len, NewOutput(g, s))
     /\ len' = len + 1
     /\ wlout' = [wlout EXCEPT ![g] =
          [st |-> "live", data |-> [gen |-> gen', slot |-> len]]]
     /\ IF CanCreate
        THEN nsurf' = s /\ surf' = [surf EXCEPT ![s] = NewSurface(g, len, gen')]
        ELSE UNCHANGED <<surf, nsurf>>
  /\ UNCHANGED <<pix, npix, mapped, bound, client, compositor, pc, faults>>

\* ... or the block cannot grow: da_append has already stored realloc's NULL
\* when it calls err, whose atexit handler then walks the outputs at NULL.
GrowFails ==
  /\ Take("global") /\ Ev.arg = Recent /\ len >= cap /\ "oom" \in Behaviours
  /\ Proceed({"null_table"}, pc)
  /\ UNCHANGED <<table, objects, client, compositor>>

\* reg_add of an interface that is too old: diex.
TooOld ==
  /\ \E t \in {"comp", "lshell", "global"} : Take(t) /\ Ev.arg = Old
  /\ Cleanup

\* Slip: the search begins at slot 1.
Named_FromOne(g) == {i \in Live(len) : buf[i].name = g /\ i > 0}

\* reg_del: the first output of that name leaves the table.
Named(g) == {i \in Live(len) : buf[i].name = g}

reg_del ==
  /\ Take("global_remove") /\ Named(Ev.id) # {}
  /\ LET i == Min(Named(Ev.id))
         o == buf[i]
     IN
     /\ surf' = SurfacesWithout({o.surf})
     /\ wlout' = [wlout EXCEPT ![o.wl_out].st = "released"]
     /\ buf' = Removed([buf EXCEPT ![i] = LayerFreed(o)], len, i)
     /\ len' = len - 1
     /\ Proceed(LayerFault(o), pc)
  /\ UNCHANGED <<cap, gen, nsurf, pix, npix, mapped, bound, client, compositor>>

\* ... and nothing happens when no output has that name.
reg_del_unknown ==
  /\ Take("global_remove") /\ Named(Ev.id) = {}
  /\ UNCHANGED <<table, objects, client, compositor, pc, faults>>

-----------------------------------------------------------------------------
(* The listeners of an output and of its surface.                          *)

\* out_mode.
out_mode ==
  /\ Deliver("mode")
  /\ buf' = [buf EXCEPT ![At].dim = Ev.arg]
  /\ UNCHANGED <<len, cap, gen, objects, client, compositor, pc, faults>>

\* out_name; strdup may fail.
out_name ==
  /\ Deliver("name")
  /\ \E n \in {Connector[Ev.id]} \cup (IF "oom" \in Behaviours THEN {NULL} ELSE {}) :
       buf' = [buf EXCEPT ![At].human_name = n]
  /\ UNCHANGED <<len, cap, gen, objects, client, compositor, pc, faults>>

\* ls_conf: acknowledge, then commit again when the size is the one already
\* known, else only record the size.
SameSize(o, d) == o.safe_to_draw /\ o.dim = d
Sized(o, d) == [o EXCEPT !.dim = d, !.safe_to_draw = TRUE]

ls_conf ==
  /\ Deliver("configure")
  /\ surf' = [surf EXCEPT ![Ev.id].st = "configured"]
  /\ IF SameSize(out, Ev.arg)
     THEN Proceed(SurfaceFault(out.surf), pc) /\ UNCHANGED buf
     ELSE /\ buf' = [buf EXCEPT ![At] = Sized(out, Ev.arg)]
          /\ UNCHANGED <<pc, faults>>
  /\ UNCHANGED <<len, cap, gen, wlout, nsurf, pix, npix, mapped, bound, client, compositor>>

\* ls_close: frees the layer of the output at the data pointer, provided some
\* output of the table has the same name.
ls_close ==
  /\ Deliver("closed")
  /\ IF Named(out.name) # {}
     THEN /\ surf' = SurfacesWithout({out.surf})
          /\ buf' = [buf EXCEPT ![At] = LayerFreed(out)]
          /\ Proceed(LayerFault(out), pc)
     ELSE UNCHANGED <<surf, buf, pc, faults>>
  /\ UNCHANGED <<len, cap, gen, wlout, nsurf, pix, npix, mapped, bound, client, compositor>>

\* buf_free: destroys the buffer the output has now, and unmaps the memory it
\* has now.
BufferFault(b) ==
  IF b = 0 THEN {"null_buffer"}
  ELSE IF pix[b].st # "live" THEN {"freed_buffer"} ELSE {}

\* Slip: the memory is not unmapped.
buf_free_KeepsMemory ==
  /\ Deliver("release")
  /\ pix' = [b \in Pixs |-> IF b = out.wl_buf
                            THEN [pix[b] EXCEPT !.st = "destroyed"] ELSE pix[b]]
  /\ Proceed(BufferFault(out.wl_buf), pc)
  /\ UNCHANGED <<table, wlout, surf, nsurf, npix, mapped, bound, client, compositor>>

buf_free ==
  /\ Deliver("release")
  /\ pix' = [b \in Pixs |-> IF b = out.wl_buf
                            THEN [pix[b] EXCEPT !.st = "destroyed"] ELSE pix[b]]
  /\ mapped' = mapped \ {out.map}
  /\ Proceed(BufferFault(out.wl_buf), pc)
  /\ UNCHANGED <<table, wlout, surf, nsurf, npix, bound, client, compositor>>

-----------------------------------------------------------------------------
(***************************************************************************)
(* The message of a client, once all of it has been received: one step for *)
(* the mapping of the image and one per output of the table.  The loop     *)
(* looks at the socket only when the compositor's fd is not readable.      *)
(* Nothing the compositor sends meanwhile is looked at before the message  *)
(* is done, so the compositor waits here until then.                       *)
(***************************************************************************)

\* Assumptions on how late the compositor may be, when Behaviours has them.
OnTime ==
  /\ "late_info" \notin Behaviours =>
       \A g \in Globals : wlout[g].st = "live" /\ plug[g] = "on" => g \in told
  /\ "late_configure" \notin Behaviours =>
       \A s \in Surfs : surf[s].st = "created" => surf[s].view = "closed"
  /\ "late_release" \notin Behaviours => \A b \in Pixs : ~pix[b].busy

Accept(m) ==
  /\ pc = "loop" /\ wq = <<>> /\ OnTime /\ npix + len <= MaxBufs
  /\ msg' = m /\ pc' = "map"
  /\ UNCHANGED <<table, objects, idx, compositor, wq, faults>>

Done == pc' = "loop" /\ msg' = NoMsg /\ idx' = 0

\* mmap of the client's w * h pixels: a length of 0 is refused (EINVAL).
MapFails(m) == m.img = Clear \/ "oom" \in Behaviours

map_source ==
  /\ pc = "map"
  /\ \/ MapFails(msg) /\ Done
     \/ msg.img # Clear /\ pc' = "apply" /\ idx' = 0 /\ UNCHANGED msg
  /\ UNCHANGED <<table, objects, compositor, wq, faults>>

\* Slip: any display with a name will do.
Addressed_Any(o, m) == m.name = NULL \/ o.human_name # NULL

Addressed(o, m) == m.name = NULL \/ o.human_name = m.name

\* streq(out->human_name, name) with no human name: a crash.
Unnamed ==
  /\ pc = "apply" /\ idx \in Live(len)
  /\ msg.name # NULL /\ buf[idx].human_name = NULL
  /\ Proceed({"null_name"}, pc)
  /\ UNCHANGED <<table, objects, client, compositor, wq>>

\* The output is not meant.
Skip ==
  /\ pc = "apply" /\ idx \in Live(len)
  /\ buf[idx].human_name # NULL /\ ~Addressed(buf[idx], msg)
  /\ idx' = idx + 1
  /\ UNCHANGED <<table, objects, msg, compositor, wq, pc, faults>>

Selected == pc = "apply" /\ idx \in Live(len) /\ Addressed(buf[idx], msg)

\* How mkbuf ends for a display of size d: the call that fails, or "ok".  The
\* mmap of a display whose size is not known, 0, fails.
MkbufEnds(d) ==
  (IF d = 0 THEN {"mmap"} ELSE {"ok"})
    \cup (IF "oom" \notin Behaviours THEN {}
          ELSE {"memfd", "mmap"} \cup (IF d = 0 THEN {} ELSE {"pool", "buffer"}))

\* Slips: the new buffer is not stored, or its memory only in an output without any.
MkbufOutput_NoBuffer(o, n, end) == [o EXCEPT !.map = n]
MkbufOutput_KeepsMemory(o, n, end) ==
  [o EXCEPT !.map = IF @ = 0 THEN n ELSE @, !.wl_buf = n]

\* What mkbuf leaves in the output: n is the number of the new pixel buffer.
\* buf.size is not kept apart from the mapping: mkbuf sets it before the memfd,
\* so after one that fails and a resize, munmap gets a size not the mapping's.
MkbufOutput(o, n, end) ==
  CASE end = "memfd"  -> o
    [] end = "mmap"   -> [o EXCEPT !.map = 0]
    [] end = "pool"   -> [o EXCEPT !.map = n]
    [] end = "buffer" -> [o EXCEPT !.map = n, !.wl_buf = 0]
    [] end = "ok"     -> [o EXCEPT !.map = n, !.wl_buf = n]

\* mkbuf fails, and the outputs that follow are left as they are.
mkbuf_fails ==
  /\ Selected
  /\ \E end \in MkbufEnds(buf[idx].dim) \ {"ok"} :
       /\ buf' = [buf EXCEPT ![idx] = MkbufOutput(@, npix + 1, end)]
       /\ IF end \in {"pool", "buffer"}
          THEN npix' = npix + 1 /\ mapped' = mapped \cup {npix'}
          ELSE UNCHANGED <<npix, mapped>>
  /\ Done
  /\ UNCHANGED <<len, cap, gen, wlout, surf, nsurf, pix, bound, compositor, wq, faults>>

\* mkbuf, then draw: attach the buffer to the surface and commit.  A surface
\* that has not been configured takes no buffer: the compositor answers with
\* a protocol error.  One it has closed ignores what is attached.
NewPix(o, n) ==
  [st |-> "live", data |-> [gen |-> gen, slot |-> idx], surf |-> o.surf,
   dim |-> o.dim, img |-> msg.img, busy |-> TRUE]

draw ==
  /\ Selected /\ "ok" \in MkbufEnds(buf[idx].dim)
  /\ LET o == buf[idx]
         n == npix + 1
         f == SurfaceFault(o.surf)
     IN
     /\ npix' = n /\ mapped' = mapped \cup {n}
     /\ buf' = [buf EXCEPT ![idx] = MkbufOutput(o, n, "ok")]
     /\ pix' = [pix EXCEPT ![n] = NewPix(o, n)]
     /\ surf' = [s \in Surfs |-> IF s = o.surf THEN [surf[s] EXCEPT !.content = n] ELSE surf[s]]
     /\ Proceed(f, pc)
     /\ IF f = {} /\ surf[o.surf].st = "created" /\ surf[o.surf].view # "closed"
        THEN wq' = Append(wq, Event("error", 0, 0)) ELSE UNCHANGED wq
     /\ idx' = idx + 1
  /\ UNCHANGED <<len, cap, gen, wlout, nsurf, bound, msg, compositor>>

\* Slip: the last output is left out.
apply_done_Early ==
  /\ pc = "apply" /\ idx + 1 = len
  /\ Done
  /\ UNCHANGED <<table, objects, compositor, wq, faults>>

apply_done ==
  /\ pc = "apply" /\ idx = len
  /\ Done
  /\ UNCHANGED <<table, objects, compositor, wq, faults>>

-----------------------------------------------------------------------------
(* main: the two roundtrips and the ways out of the loop.                  *)

Synced(at) == pc = at /\ Take("sync")

\* Slips: no check of the services; one roundtrip.
Roundtrip1_Unchecked ==
  /\ Synced("roundtrip1")
  /\ pc' = "roundtrip2"
  /\ UNCHANGED <<table, objects, client, compositor, faults>>

Roundtrip1_Only ==
  /\ Synced("roundtrip1") /\ bound = Services
  /\ pc' = "loop"
  /\ UNCHANGED <<table, objects, client, compositor, faults>>

Roundtrip1 ==
  /\ Synced("roundtrip1") /\ bound = Services
  /\ pc' = "roundtrip2"
  /\ UNCHANGED <<table, objects, client, compositor, faults>>

\* Slip: carries on waiting.
Missing_Waits ==
  /\ Synced("roundtrip1") /\ bound # Services
  /\ UNCHANGED <<table, objects, client, compositor, pc, faults>>

\* diex: a service is missing.
Missing == Synced("roundtrip1") /\ bound # Services /\ Cleanup

Roundtrip2 ==
  /\ Synced("roundtrip2")
  /\ pc' = "loop"
  /\ UNCHANGED <<table, objects, client, compositor, faults>>

\* The loop ends on a signal and when the compositor hangs up ...
Terminate == pc = "loop" /\ Cleanup /\ UNCHANGED wq

\* ... and when dispatch reports a protocol error.
ProtocolError ==
  /\ pc = "loop" /\ wq # <<>> /\ Ev.type = "error" /\ wq' = Tail(wq)
  /\ CleanupAfter({"protocol"})

-----------------------------------------------------------------------------
Dispatch ==
  \/ Discard \/ Dangle
  \/ \E t \in Services : BindService(t)
  \/ BindOutput \/ GrowFails \/ TooOld \/ reg_del \/ reg_del_unknown
  \/ out_mode \/ out_name \/ ls_conf \/ ls_close \/ buf_free
  \/ Roundtrip1 \/ Missing \/ Roundtrip2 \/ ProtocolError

Serve ==
  \/ \E name \in Names \cup {NULL}, img \in Images \cup {Clear} :
       Accept([name |-> name, img |-> img])
  \/ map_source \/ Unnamed \/ Skip \/ mkbuf_fails \/ draw \/ apply_done
=============================================================================
