--------------------------- MODULE EwdFaultProofs ----------------------------
(***************************************************************************)
(* What it takes for the daemon to go wrong: the orphans that unplugging   *)
(* leaves in the table, stale listeners, late answers and failing calls;   *)
(* and what is right as long as none of these happens.                     *)
(***************************************************************************)
EXTENDS EwdProofs

-----------------------------------------------------------------------------
(***************************************************************************)
(* Orphans.  As long as no surface is closed before its output has gone,   *)
(* an output keeps its name until its removal is handled, because a        *)
(* surface is closed only behind the removal of its output in the queue.   *)
(***************************************************************************)
Removal(g) == Event("global_remove", g, 0)
Leaving(g) == \E k \in 1..Len(wq) : wq[k] = Removal(g)

NamesKept == \A i \in Live(len) : buf[i].name = buf[i].wl_out
GoneIsAnnounced == \A i \in Live(len) : plug[buf[i].wl_out] = "gone" => Leaving(buf[i].wl_out)
ClosedAfterwards ==
  \A k \in 1..Len(wq) : wq[k].type = "closed" /\ surf[wq[k].id].st \in Alive =>
    \E l \in 1..Len(wq) : l < k /\ wq[l] = Removal(surf[wq[k].id].out)
RemovedAfterwards ==
  \A k \in 1..Len(wq) : wq[k].type = "global" /\ plug[wq[k].id] = "gone" =>
    \E l \in 1..Len(wq) : k < l /\ wq[l] = Removal(wq[k].id)

OrphanOK == NamesKept /\ GoneIsAnnounced /\ ClosedAfterwards /\ RemovedAfterwards

OrphanInv == Without({"close"}) /\ Running => OrphanOK

\* Surfaces that have not been created are nobody's.
Born ==
  Serving =>
    /\ \A i \in Slots : buf[i].surf <= nsurf
    /\ \A s \in Surfs : s > nsurf => surf[s].st = "none"

-----------------------------------------------------------------------------
(***************************************************************************)
(* Slots.  As long as no output has left the table, every listener points  *)
(* to the slot of its output.                                              *)
(***************************************************************************)
SameListener ==
  Running => \A i \in Live(len) :
    buf[i].surf # 0 => surf[buf[i].surf].data.slot = wlout[buf[i].wl_out].data.slot

NoneMoved == Running /\ ~Left => ~Moved

NoneLeaves ==
  Running /\ Without({"unplug"}) =>
    /\ ~Left
    /\ \A g \in Globals : plug[g] # "gone"
    /\ \A k \in 1..Len(wq) : wq[k].type # "global_remove"

\* A surface of the table is there, unless one may be closed and its slot left.
SurfacesAlive ==
  Running /\ (Without({"close"}) \/ Without({"unplug"})) =>
    \A i \in Live(len) : buf[i].surf # 0 => surf[buf[i].surf].st \in Alive

-----------------------------------------------------------------------------
(***************************************************************************)
(* Services come before outputs, so every output has its surface.          *)
(***************************************************************************)
ServicesBound == pc \in {"roundtrip2", "loop", "map", "apply"} => bound = Services

ServicesEarly ==
  Without({"any_order"}) /\ Running =>
    /\ \A k, l \in 1..Len(wq) : k < l /\ wq[k].type = "global" => wq[l].type \notin Services
    /\ (\E g \in Globals : wlout[g].st # "none") => \A k \in 1..Len(wq) : wq[k].type \notin Services

SurfacesMade ==
  Without({"any_order", "close"}) /\ Running =>
    \A i \in Live(len) : buf[i].surf = 0 => ~CanCreate

-----------------------------------------------------------------------------
(***************************************************************************)
(* What the daemon knows of an output.                                     *)
(***************************************************************************)
InPlace(i) == wlout[buf[i].wl_out].data.slot = i

\* The name (the size) of the output in slot i is known, or on its way.
NameBefore(i, n) ==
  \/ buf[i].human_name # NULL
  \/ \E k \in 1..Len(wq) : k < n /\ wq[k].type = "name" /\ wq[k].id = buf[i].wl_out
SizeBefore(i, n) ==
  \/ buf[i].dim # 0
  \/ \E k \in 1..Len(wq) : k < n /\ wq[k].type = "mode" /\ wq[k].id = buf[i].wl_out
KnownBefore(i, n) == NameBefore(i, n) /\ SizeBefore(i, n)

ToldKnown ==
  Without({"oom"}) /\ Running =>
    /\ \A g \in told : wlout[g].st # "none"
    /\ \A i \in Live(len) : InPlace(i) /\ buf[i].wl_out \in told => KnownBefore(i, Len(wq) + 1)

\* While a message is worked on, the compositor waits.
Quietly ==
  /\ pc \in {"map", "apply"} => \A k \in 1..Len(wq) : wq[k].type = "error"
  /\ pc \in {"map", "apply"} /\ Without({"late_info"}) =>
       \A g \in Globals : wlout[g].st = "live" /\ plug[g] = "on" => g \in told

\* An output that was there at first is bound before the first roundtrip ends,
\* and described before the second one does.
OneSync ==
  \A k, l \in 1..Len(wq) : wq[k].type = "sync" /\ wq[l].type = "sync" => k = l

InitialBound ==
  \A l \in 1..Len(wq) : wq[l].type = "global" /\ wq[l].id \in Initial =>
    pc = "roundtrip1" /\ \A k \in 1..Len(wq) : wq[k].type = "sync" => l < k

SyncKnown ==
  Without({"oom"}) /\ pc = "roundtrip2" =>
    \A k \in 1..Len(wq) : wq[k].type = "sync" =>
      \A i \in Live(len) :
        InPlace(i) /\ buf[i].wl_out \in Initial /\ plug[buf[i].wl_out] = "on" => KnownBefore(i, k)

SyncInv ==
  Running =>
    /\ OneSync /\ InitialBound /\ SyncKnown
    /\ \A g \in Initial : plug[g] # "off"
    /\ pc \notin {"roundtrip1", "roundtrip2"} => \A k \in 1..Len(wq) : wq[k].type # "sync"

-----------------------------------------------------------------------------
(***************************************************************************)
(* Errors.  A surface that takes no buffer yet is not drawn on.            *)
(***************************************************************************)
NoErrors ==
  Without({"late_configure"}) /\ Running =>
    /\ \A k \in 1..Len(wq) : wq[k].type # "error"
    /\ pc \in {"map", "apply"} =>
         \A s \in Surfs : surf[s].st = "created" => surf[s].view = "closed"

-----------------------------------------------------------------------------
(***************************************************************************)
(* Buffers.                                                                *)
(***************************************************************************)
Fresh ==
  /\ \A b \in Pixs : b > npix => pix[b].st = "none" /\ b \notin mapped
  /\ \A b \in Pixs : pix[b].st = "none" => ~InUse(b)
  /\ \A s \in Surfs : surf[s].content <= npix

ReleasedOnce ==
  /\ \A b \in Pixs : pix[b].busy => \A k \in 1..Len(wq) : wq[k] # Event("release", b, 0)
  /\ \A k, l \in 1..Len(wq) : wq[k].type = "release" /\ wq[l] = wq[k] => k = l

Holder(b) == pix[b].data.slot

\* Without failing calls the slot a buffer was drawn for has one ever after.
BufferStays ==
  ~Left /\ Without({"oom"}) =>
    \A b \in Pixs : pix[b].st # "none" => Holder(b) \in Live(len) /\ buf[Holder(b)].wl_buf # 0

\* Without late releases it is the buffer in use.
BufferInUse ==
  ~Left /\ Without({"late_release"}) =>
    \A b \in Pixs : InUse(b) =>
      /\ pix[b].st = "live" /\ Holder(b) \in Live(len) /\ buf[Holder(b)].wl_buf = b
      /\ pc # "map" /\ (pc = "apply" => Holder(b) < idx)

\* Without either, a buffer and its memory are there as long as they are in use.
MemoryInUse ==
  ~Left /\ Without({"late_release", "oom"}) =>
    \A b \in Pixs :
      /\ InUse(b) => buf[Holder(b)].map = b
      /\ b <= npix => (pix[b].st = "live" <=> InUse(b)) /\ (b \in mapped <=> InUse(b))

BufferInv == Running => Fresh /\ ReleasedOnce /\ BufferStays /\ BufferInUse /\ MemoryInUse

-----------------------------------------------------------------------------
(* The message so far, and the faults.                                     *)

Shows(i) ==
  LET b == surf[buf[i].surf].content IN
  buf[i].surf # 0 /\ b # 0 /\ pix[b].img = msg.img /\ pix[b].dim = buf[i].dim

AppliedSoFar ==
  pc = "apply" => \A i \in Live(len) : i < idx /\ Addressed(buf[i], msg) => Shows(i)

FaultsStop == faults # {} => ~Running

-----------------------------------------------------------------------------
(* Steps.                                                                  *)

\* Nothing happens to a daemon that has ended.
LEMMA Ended == ASSUME [Next]_vars, ~Running PROVE UNCHANGED vars
<1>1. ~Dispatching /\ pc \notin {"loop", "map", "apply"}
  BY DEF Running, Dispatching
<1>2. ~Dispatch
  BY <1>1 DEF Dispatch, Discard, Dangle, BindService, BindOutput, GrowFails, TooOld, reg_del, reg_del_unknown, out_mode, out_name, ls_conf, ls_close, buf_free, Deliver, Roundtrip1, Missing, Roundtrip2, Synced, ProtocolError, Take
<1>3. ~Serve
  BY <1>1 DEF Serve, Accept, map_source, Unnamed, Skip, mkbuf_fails, draw, Selected, apply_done
<1>4. ~Compositor
  BY <1>1 DEF Compositor, Plug, Unplug, Describe, Remode, Configure, Close, Release, SyncReply, Say, Send
<1> QED BY <1>1, <1>2, <1>3, <1>4 DEF Next, Terminate

\* The queue has lost its first event.
Shorter ==
  /\ 1 \in 1..Len(wq) /\ Ev = wq[1] /\ Len(wq') = Len(wq) - 1 /\ Len(wq) \in Nat
  /\ \A k \in 1..Len(wq') : k + 1 \in 1..Len(wq) /\ wq'[k] = wq[k + 1]
  /\ \A k \in 1..Len(wq) : k = 1 \/ (k - 1 \in 1..Len(wq') /\ wq'[k - 1] = wq[k])

\* A handler takes the first event, and has the others wait.
LEMMA TakenShorter == ASSUME TypeOK, NEW t, Take(t) PROVE Shorter /\ Ev.type = t /\ Ev \in EventTypes
BY TakeType DEF TypeOK, CompositorType, Take, Ev, Shorter

\* The queue has grown by events of these types.
Longer(T) ==
  /\ Len(wq') >= Len(wq) /\ Len(wq) \in Nat /\ Len(wq') \in Nat
  /\ \A k \in 1..Len(wq) : k \in 1..Len(wq') /\ wq'[k] = wq[k]
  /\ \A k \in 1..Len(wq') : k \in 1..Len(wq) \/ (k > Len(wq) /\ wq'[k].type \in T)

\* What a single event adds.
LEMMA SentOne ==
  ASSUME TypeOK, NEW e \in EventTypes, Send(<<e>>)
  PROVE  /\ Longer({e.type}) /\ Len(wq') = Len(wq) + 1 /\ wq'[Len(wq) + 1] = e
         /\ Dispatching /\ \A k \in 1..Len(wq) : wq[k].type # "error"
         /\ UNCHANGED <<table, wlout, nsurf, npix, mapped, bound, client, pc, faults>>
<1>1. wq' = wq \o <<e>> /\ wq \in Seq(EventTypes)
  BY DEF Send, TypeOK, CompositorType
<1>2. Len(wq') = Len(wq) + 1 /\ wq'[Len(wq) + 1] = e /\ Len(wq) \in Nat
      /\ \A k \in 1..Len(wq) : wq'[k] = wq[k]
  BY <1>1
<1> QED BY <1>2 DEF Send, Longer

\* The events the compositor sends one at a time.
LEMMA SaidTypes ==
  /\ \A g \in Globals, v \in Versions : Event("global", g, v) \in EventTypes
  /\ \A g \in Globals : Removal(g) \in EventTypes
  /\ \A g \in Globals, d \in Dims : Event("mode", g, d) \in EventTypes
  /\ \A g \in Globals : Event("name", g, 0) \in EventTypes
  /\ \A s \in Surfs, d \in Dims : Event("configure", s, d) \in EventTypes
  /\ \A s \in Surfs : Event("closed", s, 0) \in EventTypes
  /\ \A b \in Pixs : Event("release", b, 0) \in EventTypes
  /\ Event("sync", 0, 0) \in EventTypes /\ Event("error", 0, 0) \in EventTypes
BY DEF Event, EventTypes, Removal, Versions, Old, Recent

\* The two events that describe an output.
LEMMA DescribeSends ==
  ASSUME TypeOK, NEW g \in Globals, Describe(g)
  PROVE  /\ Longer({"mode", "name"}) /\ Len(wq') = Len(wq) + 2
         /\ wq'[Len(wq) + 1].type = "mode" /\ wq'[Len(wq) + 1].id = g
         /\ wq'[Len(wq) + 2].type = "name" /\ wq'[Len(wq) + 2].id = g
         /\ Dispatching /\ \A k \in 1..Len(wq) : wq[k].type # "error"
         /\ UNCHANGED <<table, objects, client, pc, faults, plug>>
<1>1. PICK d \in Dims : Send(<<Event("mode", g, d), Event("name", g, 0)>>)
  BY DEF Describe
<1> DEFINE m == Event("mode", g, d) n == Event("name", g, 0)
<1>2. m \in EventTypes /\ n \in EventTypes
  BY SaidTypes
<1>3. m.type = "mode" /\ m.id = g /\ n.type = "name" /\ n.id = g
  BY DEF Event
<1>4. wq' = wq \o <<m, n>> /\ wq \in Seq(EventTypes)
  BY <1>1 DEF Send, TypeOK, CompositorType
<1> HIDE DEF m, n
<1>5. /\ Len(wq') = Len(wq) + 2 /\ wq'[Len(wq) + 1] = m /\ wq'[Len(wq) + 2] = n
      /\ Len(wq) \in Nat /\ \A k \in 1..Len(wq) : wq'[k] = wq[k]
  BY <1>2, <1>4
<1> QED BY <1>1, <1>3, <1>5 DEF Send, Longer, Describe, objects

\* One event has been added, of type t and about i.
Said(t, i) ==
  /\ Longer({t}) /\ Len(wq') = Len(wq) + 1
  /\ wq'[Len(wq) + 1].type = t /\ wq'[Len(wq) + 1].id = i

\* The compositor sends, and leaves the daemon's own state alone.
LEMMA CompositorSteps ==
  ASSUME TypeOK, Compositor
  PROVE  /\ Dispatching /\ \A k \in 1..Len(wq) : wq[k].type # "error"
         /\ UNCHANGED <<table, wlout, nsurf, npix, mapped, bound, client, pc, faults>>
         /\ \/ \E g \in Globals : Plug(g) /\ Said("global", g)
            \/ \E g \in Globals : /\ Unplug(g) /\ Said("global_remove", g)
                                  /\ wq'[Len(wq) + 1] = Removal(g)
            \/ \E g \in Globals : Describe(g) /\ Longer({"mode", "name"})
            \/ \E g \in Globals : Remode(g) /\ Said("mode", g)
            \/ \E s \in Surfs : Configure(s) /\ Said("configure", s)
            \/ \E s \in Surfs : Close(s) /\ Said("closed", s)
            \/ \E b \in Pixs : /\ Release(b) /\ Said("release", b)
                               /\ wq'[Len(wq) + 1] = Event("release", b, 0)
            \/ SyncReply /\ Said("sync", 0)
<1> DEFINE Frame == /\ Dispatching /\ \A k \in 1..Len(wq) : wq[k].type # "error"
                    /\ UNCHANGED <<table, wlout, nsurf, npix, mapped, bound, client, pc, faults>>
<1>1. \A t, i, a : Event(t, i, a).type = t /\ Event(t, i, a).id = i
  BY DEF Event
<1>2. ASSUME NEW t, NEW i, NEW a, Event(t, i, a) \in EventTypes, Send(<<Event(t, i, a)>>)
      PROVE  Frame /\ Said(t, i) /\ wq'[Len(wq) + 1] = Event(t, i, a)
  <2>1. PICK e \in EventTypes : e = Event(t, i, a)
    BY <1>2
  <2>2. Send(<<e>>) /\ e.type = t /\ e.id = i
    BY <1>1, <1>2, <2>1
  <2>3. Frame /\ Longer({e.type}) /\ Len(wq') = Len(wq) + 1 /\ wq'[Len(wq) + 1] = e
    BY <2>2, SentOne
  <2> QED BY <2>1, <2>2, <2>3 DEF Said
<1>3. ASSUME NEW t, NEW i, NEW a, Event(t, i, a) \in EventTypes, Say(Event(t, i, a))
      PROVE  Frame /\ Said(t, i) /\ wq'[Len(wq) + 1] = Event(t, i, a)
  BY <1>2, <1>3 DEF Say
<1>4. ASSUME NEW g \in Globals, Plug(g) PROVE Frame /\ Said("global", g)
  <2>1. PICK v \in Versions : Say(Event("global", g, v))
    BY <1>4 DEF Plug
  <2>2. Event("global", g, v) \in EventTypes
    BY SaidTypes
  <2> QED BY <1>3, <2>1, <2>2
<1>5. ASSUME NEW g \in Globals, Unplug(g)
      PROVE  Frame /\ Said("global_remove", g) /\ wq'[Len(wq) + 1] = Removal(g)
  <2>1. Event("global_remove", g, 0) \in EventTypes
    BY SaidTypes DEF Removal
  <2>2. Say(Event("global_remove", g, 0))
    BY <1>5 DEF Unplug
  <2> QED BY <1>3, <2>1, <2>2 DEF Removal
<1>6. ASSUME NEW g \in Globals, Describe(g) PROVE Frame /\ Longer({"mode", "name"})
  BY <1>6, DescribeSends DEF objects
<1>7. ASSUME NEW g \in Globals, Remode(g) PROVE Frame /\ Said("mode", g)
  <2>1. PICK d \in Dims : Say(Event("mode", g, d))
    BY <1>7 DEF Remode
  <2>2. Event("mode", g, d) \in EventTypes
    BY SaidTypes
  <2> QED BY <1>3, <2>1, <2>2
<1>8. ASSUME NEW s \in Surfs, Configure(s) PROVE Frame /\ Said("configure", s)
  <2>1. PICK d \in Dims : Say(Event("configure", s, d))
    BY <1>8 DEF Configure
  <2>2. Event("configure", s, d) \in EventTypes
    BY SaidTypes
  <2> QED BY <1>3, <2>1, <2>2
<1>9. ASSUME NEW s \in Surfs, Close(s) PROVE Frame /\ Said("closed", s)
  <2>1. Event("closed", s, 0) \in EventTypes
    BY SaidTypes
  <2>2. Say(Event("closed", s, 0))
    BY <1>9 DEF Close
  <2> QED BY <1>3, <2>1, <2>2
<1>10. ASSUME NEW b \in Pixs, Release(b)
       PROVE  Frame /\ Said("release", b) /\ wq'[Len(wq) + 1] = Event("release", b, 0)
  <2>1. Event("release", b, 0) \in EventTypes
    BY SaidTypes
  <2>2. Send(<<Event("release", b, 0)>>)
    BY <1>10 DEF Release
  <2> QED BY <1>2, <2>1, <2>2
<1>11. CASE SyncReply
  <2>1. Event("sync", 0, 0) \in EventTypes
    BY SaidTypes
  <2>2. Send(<<Event("sync", 0, 0)>>)
    BY <1>11 DEF SyncReply
  <2> QED BY <1>2, <1>11, <2>1, <2>2
<1> HIDE DEF Frame
<1> QED
  <2>1. Frame
    BY <1>4, <1>5, <1>6, <1>7, <1>8, <1>9, <1>10, <1>11, <1>2, SaidTypes DEF Compositor, SyncReply
  <2> QED BY <2>1, <1>4, <1>5, <1>6, <1>7, <1>8, <1>9, <1>10, <1>11 DEF Compositor, Frame

\* Configuring or closing a surface shows in its view alone.
LEMMA SurfaceSeen ==
  ASSUME TypeOK, NEW s \in Surfs, Configure(s) \/ Close(s)
  PROVE  /\ \A r \in Surfs : /\ surf'[r].st = surf[r].st /\ surf'[r].out = surf[r].out
                             /\ surf'[r].data = surf[r].data /\ surf'[r].content = surf[r].content
                             /\ surf[r].view = "closed" => surf'[r].view = "closed"
         /\ surf[s].st \in Alive /\ surf[s].view # "closed" /\ UNCHANGED <<plug, told, pix>>
<1>1. \E v : surf' = [surf EXCEPT ![s] = [surf[s] EXCEPT !.view = v]]
  BY DEF Configure, Close
<1>2. surf[s].st \in Alive /\ surf[s].view # "closed" /\ UNCHANGED <<plug, told, pix>>
  BY DEF Configure, Close, Mapped, Alive
<1> QED BY <1>1, <1>2 DEF TypeOK, ObjectType, SurfaceType

\* The events that are dropped.
Dropped == Discard \/ reg_del_unknown \/ Roundtrip1 \/ Roundtrip2 \/ \E t \in Services : BindService(t)

\* What a step of the daemon with the first event is, if the daemon goes on.
LEMMA DispatchSteps ==
  ASSUME TypeOK, Dispatch, Running'
  PROVE  /\ Dispatching /\ Dispatching' /\ Shorter /\ Ev \in EventTypes /\ UNCHANGED <<client, compositor>>
         /\ \/ Dropped \/ BindOutput \/ reg_del \/ out_mode \/ out_name
            \/ ls_conf \/ ls_close \/ buf_free
<1>1. ~Dangle /\ ~GrowFails /\ ~TooOld /\ ~Missing /\ ~ProtocolError
  BY DEF Running, Dangle, GrowFails, Proceed, TooOld, Missing, Cleanup, CleanupAfter, ProtocolError
<1>2. Dropped \/ BindOutput \/ reg_del \/ out_mode \/ out_name \/ ls_conf \/ ls_close \/ buf_free
  BY <1>1 DEF Dispatch, Dropped
<1>3. \E t : Take(t)
  BY <1>2 DEF Dropped, Discard, reg_del_unknown, Roundtrip1, Roundtrip2, Synced, BindService, BindOutput, reg_del, out_mode, out_name, ls_conf, ls_close, buf_free, Deliver
<1>4. Shorter /\ Ev \in EventTypes /\ Dispatching
  BY <1>3, TakenShorter DEF Take
<1>5. UNCHANGED <<client, compositor>> /\ (pc' = pc \/ pc' \in {"roundtrip2", "loop"})
  BY <1>2 DEF Running, Proceed, Dropped, Discard, reg_del_unknown, Roundtrip1, Roundtrip2, BindService, BindOutput, reg_del, out_mode, out_name, ls_conf, ls_close, buf_free
<1> QED BY <1>2, <1>4, <1>5 DEF Dispatching

\* An event that is dropped changes nothing but the services bound, and where main is.
LEMMA DroppedKeeps ==
  ASSUME Dropped
  PROVE  UNCHANGED <<table, wlout, surf, nsurf, pix, npix, mapped, client, compositor, faults>>
BY DEF Dropped, Discard, reg_del_unknown, Roundtrip1, Roundtrip2, BindService, objects

-----------------------------------------------------------------------------
(* Orphans.                                                                *)

\* The event of a removal is told by its type and its output.
LEMMA RemovalFields ==
  /\ \A g : Removal(g).type = "global_remove" /\ Removal(g).id = g
  /\ \A e \in EventTypes : e.type = "global_remove" => e = Removal(e.id)
BY DEF Removal, Event, EventTypes, Services

\* The fields of the events that wait.
LEMMA Waiting ==
  ASSUME TypeOK
  PROVE  \A k \in 1..Len(wq) :
           /\ wq[k] \in EventTypes
           /\ wq[k].type \in {"global", "global_remove", "mode", "name"} => wq[k].id \in Globals
           /\ wq[k].type \in {"configure", "closed"} => wq[k].id \in Surfs
           /\ wq[k].type = "release" => wq[k].id \in Pixs
BY EventFields DEF TypeOK, CompositorType

\* What lies ahead of another event than the first still does.
LEMMA LeavingStays == ASSUME Shorter, NEW g, Leaving(g), Ev # Removal(g) PROVE Leaving(g)'
<1>1. PICK k \in 1..Len(wq) : wq[k] = Removal(g)
  BY DEF Leaving
<1>2. k # 1
  BY <1>1 DEF Shorter
<1> QED BY <1>1, <1>2 DEF Shorter, Leaving

\* What a step keeps of the outputs and surfaces the queue is about.
SameOutputs ==
  /\ \A k \in Live(len') : \E i \in Live(len) :
       buf'[k].wl_out = buf[i].wl_out /\ buf'[k].name = buf[i].name
  /\ \A s \in Surfs : surf'[s].out = surf[s].out /\ (surf'[s].st \in Alive => surf[s].st \in Alive)

\* An event that is handled and removes nothing, and leaves the names alone.
LEMMA OrphanShorter ==
  ASSUME TypeOK, OrphanOK, Shorter, SameOutputs, UNCHANGED plug,
         \A k \in Live(len') : Ev # Removal(buf'[k].wl_out),
         \A s \in Surfs : surf'[s].st \in Alive => Ev # Removal(surf[s].out)
  PROVE  OrphanOK'
<1>1. NamesKept'
  BY DEF SameOutputs, OrphanOK, NamesKept
<1>2. GoneIsAnnounced'
  BY LeavingStays DEF SameOutputs, OrphanOK, GoneIsAnnounced
<1>3. ClosedAfterwards'
  <2> SUFFICES ASSUME NEW k \in 1..Len(wq'), wq'[k].type = "closed", surf'[wq'[k].id].st \in Alive
               PROVE  \E l \in 1..Len(wq') : l < k /\ wq'[l] = Removal(surf'[wq'[k].id].out)
    BY DEF ClosedAfterwards
  <2>1. k + 1 \in 1..Len(wq) /\ wq'[k] = wq[k + 1] /\ wq'[k].id \in Surfs
    BY Waiting DEF Shorter
  <2>2. PICK l \in 1..Len(wq) : l < k + 1 /\ wq[l] = Removal(surf[wq'[k].id].out)
    BY <2>1 DEF SameOutputs, OrphanOK, ClosedAfterwards
  <2>3. l # 1
    BY <2>1, <2>2 DEF Shorter
  <2>4. l - 1 \in 1..Len(wq') /\ wq'[l - 1] = wq[l] /\ l - 1 < k
    BY <2>2, <2>3 DEF Shorter
  <2> QED BY <2>1, <2>2, <2>4 DEF SameOutputs
<1>4. RemovedAfterwards'
  <2> SUFFICES ASSUME NEW k \in 1..Len(wq'), wq'[k].type = "global", plug'[wq'[k].id] = "gone"
               PROVE  \E l \in 1..Len(wq') : k < l /\ wq'[l] = Removal(wq'[k].id)
    BY DEF RemovedAfterwards
  <2>1. k + 1 \in 1..Len(wq) /\ wq'[k] = wq[k + 1]
    BY DEF Shorter
  <2>2. PICK l \in 1..Len(wq) : k + 1 < l /\ wq[l] = Removal(wq'[k].id)
    BY <2>1 DEF OrphanOK, RemovedAfterwards
  <2>3. l - 1 \in 1..Len(wq') /\ wq'[l - 1] = wq[l] /\ k < l - 1
    BY <2>1, <2>2 DEF Shorter
  <2> QED BY <2>2, <2>3
<1> QED BY <1>1, <1>2, <1>3, <1>4 DEF OrphanOK

\* Events that are added, as long as a removal comes last, a closing after the
\* removal, and no announcement is of an output that has gone.
LEMMA OrphanLonger ==
  ASSUME TypeOK, OrphanOK, NEW T, Longer(T), SameOutputs,
         \A g \in Globals : plug'[g] = "gone" /\ plug[g] # "gone" =>
           Len(wq) < Len(wq') /\ wq'[Len(wq')] = Removal(g),
         \A k \in 1..Len(wq') : k > Len(wq) /\ wq'[k].type = "closed" =>
           \E l \in 1..Len(wq) : wq[l] = Removal(surf'[wq'[k].id].out),
         \A k \in 1..Len(wq') : k > Len(wq) /\ wq'[k].type = "global" => plug'[wq'[k].id] # "gone",
         \A i \in Live(len) : buf[i].wl_out \in Globals
  PROVE  OrphanOK'
<1>1. NamesKept'
  BY DEF SameOutputs, OrphanOK, NamesKept
<1>2. \A g \in Globals : plug'[g] = "gone" =>
        plug[g] = "gone" \/ \E k \in 1..Len(wq') : k > Len(wq) /\ wq'[k] = Removal(g)
  BY DEF Longer
<1>3. GoneIsAnnounced'
  BY <1>2 DEF SameOutputs, OrphanOK, GoneIsAnnounced, Leaving, Longer
<1>4. ClosedAfterwards'
  <2> SUFFICES ASSUME NEW k \in 1..Len(wq'), wq'[k].type = "closed", surf'[wq'[k].id].st \in Alive
               PROVE  \E l \in 1..Len(wq') : l < k /\ wq'[l] = Removal(surf'[wq'[k].id].out)
    BY DEF ClosedAfterwards
  <2>1. CASE k \in 1..Len(wq)
    <3>1. wq'[k] = wq[k] /\ wq[k].id \in Surfs
      BY <2>1, Waiting DEF Longer
    <3>2. PICK l \in 1..Len(wq) : l < k /\ wq[l] = Removal(surf[wq[k].id].out)
      BY <2>1, <3>1 DEF SameOutputs, OrphanOK, ClosedAfterwards
    <3> QED BY <3>1, <3>2 DEF SameOutputs, Longer
  <2>2. CASE k > Len(wq)
    <3>1. PICK l \in 1..Len(wq) : wq[l] = Removal(surf'[wq'[k].id].out)
      BY <2>2
    <3>2. l \in 1..Len(wq') /\ wq'[l] = wq[l] /\ l < k
      BY <2>2, <3>1 DEF Longer
    <3> QED BY <3>1, <3>2
  <2> QED BY <2>1, <2>2 DEF Longer
<1>5. RemovedAfterwards'
  <2> SUFFICES ASSUME NEW k \in 1..Len(wq'), wq'[k].type = "global", plug'[wq'[k].id] = "gone"
               PROVE  \E l \in 1..Len(wq') : k < l /\ wq'[l] = Removal(wq'[k].id)
    BY DEF RemovedAfterwards
  <2>1. k \in 1..Len(wq) /\ wq'[k] = wq[k] /\ wq[k].id \in Globals
    BY Waiting DEF Longer
  <2>2. CASE plug[wq[k].id] = "gone"
    <3>1. PICK l \in 1..Len(wq) : k < l /\ wq[l] = Removal(wq[k].id)
      BY <2>1, <2>2 DEF OrphanOK, RemovedAfterwards
    <3> QED BY <2>1, <3>1 DEF Longer
  <2>3. CASE plug[wq[k].id] # "gone"
    <3>1. Len(wq) < Len(wq') /\ wq'[Len(wq')] = Removal(wq'[k].id)
      BY <2>1, <2>3
    <3>2. Len(wq') \in 1..Len(wq') /\ k < Len(wq')
      BY <2>1, <3>1 DEF Longer
    <3> QED BY <3>1, <3>2
  <2> QED BY <2>2, <2>3
<1> QED BY <1>1, <1>3, <1>4, <1>5 DEF OrphanOK

\* Surfaces are born in order, whatever slot they are freed through.
LEMMA BornNext == ASSUME PlaceInv, Born, [Next]_vars PROVE Born'
<1>1. TypeInv /\ TypeOK /\ QueueOK
  BY DEF PlaceInv, TableInv, TypeInv
<1>2. nsurf \in Nat /\ \A i \in Slots : buf[i] \in Output /\ buf[i].surf \in Surfs \cup {0}
  BY <1>1 DEF TypeOK, TableType, ObjectType, Output
<1>3. CASE Quiet
  BY <1>3 DEF Quiet, Born, Serving
<1>4. CASE BindOutput
  <2> DEFINE s == IF CanCreate THEN nsurf + 1 ELSE 0
  <2>1. Serving
    <3>1. Take("global")
      BY <1>4 DEF BindOutput
    <3> QED BY <1>1, <3>1, Taken
  <2>2. buf' = [buf EXCEPT ![len] = NewOutput(Ev.id, s)] /\ NewOutput(Ev.id, s).surf = s
    BY <1>4 DEF BindOutput, Appended, NewOutput, Zero
  <2>3. /\ ~CanCreate => s = 0 /\ UNCHANGED <<surf, nsurf>>
        /\ CanCreate => s = nsurf + 1 /\ nsurf' = s
                        /\ surf' = [surf EXCEPT ![nsurf + 1] = NewSurface(Ev.id, len, gen')]
    BY <1>4 DEF BindOutput
  <2> HIDE DEF s
  <2>4. \A i \in Slots : buf'[i].surf = s \/ buf'[i].surf = buf[i].surf
    BY <1>1, <2>2 DEF TypeOK, TableType
  <2>5. nsurf' \in Nat /\ nsurf' >= nsurf /\ s <= nsurf'
    BY <1>2, <2>3
  <2>6. \A r \in Surfs : r > nsurf' => surf'[r].st = "none"
    <3>1. surf \in SurfaceType /\ \A r \in Surfs : r > nsurf => surf[r].st = "none"
      BY <1>1, <2>1 DEF Born, TypeOK, ObjectType
    <3>2. CASE CanCreate
      <4>1. nsurf' = nsurf + 1 /\ surf' = [surf EXCEPT ![nsurf + 1] = NewSurface(Ev.id, len, gen')]
        BY <2>3, <3>2
      <4> QED BY <1>2, <3>1, <4>1 DEF SurfaceType, Surfs
    <3> QED BY <2>3, <3>1, <3>2
  <2>7. \A i \in Slots : buf'[i].surf <= nsurf'
    BY <1>2, <2>1, <2>3, <2>4, <2>5 DEF Born, Surfs
  <2> QED BY <2>6, <2>7 DEF Born
<1>5. ASSUME NEW z \in Surfs \cup {0}, z <= nsurf, surf' = SurfacesWithout({z}), Serving
      PROVE  \A r \in Surfs : r > nsurf => surf'[r].st = "none"
  BY <1>2, <1>5 DEF Born, SurfacesWithout, Surfs
<1>6. CASE reg_del
  <2> DEFINE p == Min(Named(Ev.id)) b == [buf EXCEPT ![p] = LayerFreed(buf[p])] z == buf[p].surf
  <2>1. p \in Live(len) /\ Serving
    BY <1>1, <1>6, RemovedName, Taken DEF reg_del
  <2>2. buf' = Removed(b, len, p) /\ UNCHANGED nsurf /\ surf' = SurfacesWithout({z})
    BY <1>6 DEF reg_del
  <2> HIDE DEF p
  <2>3. p \in Slots /\ buf[p] \in Output
    BY <1>1, <2>1, LiveSlots
  <2>4. LayerFreed(buf[p]).surf = 0
    BY <2>3 DEF LayerFreed, Output
  <2>5. DOMAIN b = Slots /\ \A i \in Slots : b[i].surf = 0 \/ b[i].surf = buf[i].surf
    BY <1>1, <2>3, <2>4 DEF TypeOK, TableType
  <2> HIDE DEF b
  <2>6. ASSUME NEW k \in Slots PROVE \E i \in Slots : buf'[k].surf = b[i].surf
    <3>1. p \in Nat /\ k \in Nat /\ len \in 0..MaxSlots /\ MaxSlots \in Nat
      BY <1>1, <2>3, EwdAssumption DEF EwdAssumption, TypeOK, TableType, Slots
    <3>2. buf' = RemovedRange(b, len, p, p + 1)
      BY <2>2 DEF Removed
    <3>3. buf'[k] = b[k] \/ (k + 1 < len /\ buf'[k] = b[k + 1])
      BY <2>5, <3>1, <3>2 DEF RemovedRange
    <3>4. k + 1 < len => k + 1 \in Slots
      BY <3>1 DEF Slots
    <3> QED BY <3>3, <3>4
  <2>7. \A k \in Slots : buf'[k].surf <= nsurf
    BY <1>2, <2>1, <2>5, <2>6 DEF Born
  <2>8. z \in Surfs \cup {0} /\ z <= nsurf
    BY <1>2, <2>1, <2>3 DEF Born
  <2>9. \A r \in Surfs : r > nsurf => surf'[r].st = "none"
    BY <1>5, <2>1, <2>2, <2>8
  <2> QED BY <2>2, <2>7, <2>9 DEF Born
<1>7. CASE ls_close
  <2>1. Serving /\ At \in Slots /\ out \in Output /\ UNCHANGED nsurf
    BY <1>1, <1>7, Taken, DeliverType DEF ls_close, Deliver, ListenerEvents
  <2>2. CASE UNCHANGED <<surf, buf>>
    BY <2>1, <2>2 DEF Born
  <2>3. CASE surf' = SurfacesWithout({out.surf}) /\ buf' = [buf EXCEPT ![At] = LayerFreed(out)]
    <3>1. LayerFreed(out).surf = 0
      BY <2>1 DEF LayerFreed, Output
    <3>2. \A i \in Slots : buf'[i].surf = 0 \/ buf'[i].surf = buf[i].surf
      BY <1>1, <2>3, <3>1 DEF TypeOK, TableType
    <3>3. out.surf \in Surfs \cup {0} /\ out.surf <= nsurf
      BY <1>2, <2>1 DEF out, Born
    <3>4. \A r \in Surfs : r > nsurf => surf'[r].st = "none"
      BY <1>5, <2>1, <2>3, <3>3
    <3> QED BY <1>2, <2>1, <3>2, <3>4 DEF Born
  <2> QED BY <1>7, <2>2, <2>3 DEF ls_close
<1>8. CASE out_name
  <2>1. Serving /\ At \in Slots /\ out \in Output /\ UNCHANGED <<surf, nsurf>>
    BY <1>1, <1>8, Taken, DeliverType DEF out_name, Deliver, ListenerEvents, objects
  <2>2. \E n : buf' = [buf EXCEPT ![At] = [out EXCEPT !.human_name = n]]
    BY <1>8 DEF out_name, out
  <2>3. \A i \in Slots : buf'[i].surf = buf[i].surf
    BY <1>1, <2>1, <2>2 DEF TypeOK, TableType, out, Output
  <2> QED BY <2>1, <2>3 DEF Born
<1>9. CASE pc' = "exited"
  BY <1>9 DEF Born, Serving
<1> QED BY <1>1, <1>3, <1>4, <1>6, <1>7, <1>8, <1>9, StepKinds

\* The other handlers are quiet.
LEMMA QuietOnes ==
  ASSUME TypeOK, QueueOK, Running', Dropped \/ out_mode \/ ls_conf \/ buf_free PROVE Quiet
<1>1. Dispatch
  BY DEF Dispatch, Dropped
<1>2. ~BindOutput /\ ~ls_close /\ ~out_name
  BY DEF Dropped, Discard, reg_del_unknown, Roundtrip1, Roundtrip2, Synced, BindService, Services, out_mode, out_name, ls_conf, ls_close, buf_free, BindOutput, Deliver, Take, ListenerEvents, Listening
<1>3. ~reg_del
  BY DEF Dropped, Discard, reg_del_unknown, Roundtrip1, Roundtrip2, Synced, BindService, Services, out_mode, ls_conf, buf_free, reg_del, Deliver, Take, ListenerEvents
<1> QED BY <1>1, <1>2, <1>3, QuietDispatch DEF Running

\* While it serves a message, the daemon may hear of an error.
LEMMA ServeQueue ==
  ASSUME TypeOK, Serve
  PROVE  /\ Longer({"error"}) /\ UNCHANGED <<plug, told, wlout, nsurf, bound, len, gen, cap>>
         /\ pc \in {"loop", "map", "apply"} /\ pc' \in {"loop", "map", "apply", "dead"}
         /\ pc = "loop" => pc' = "map" /\ wq' = wq /\ wq = <<>> /\ OnTime /\ npix' = npix
<1>1. UNCHANGED wq => Longer({"error"})
  BY DEF TypeOK, CompositorType, Longer
<1>2. wq' = Append(wq, Event("error", 0, 0)) => Longer({"error"})
  <2> DEFINE e == Event("error", 0, 0)
  <2>1. e.type = "error"
    BY DEF Event
  <2> HIDE DEF e
  <2>2. ASSUME wq' = Append(wq, e) PROVE Longer({"error"})
    <3>1. wq \in Seq(EventTypes) /\ Len(wq) \in Nat
      BY DEF TypeOK, CompositorType
    <3>2. /\ Len(wq') = Len(wq) + 1 /\ \A k \in 1..Len(wq) : wq'[k] = wq[k]
          /\ wq'[Len(wq) + 1] = e
      BY <2>2, <3>1
    <3> QED BY <2>1, <3>1, <3>2 DEF Longer
  <2> QED BY <2>2 DEF e
<1>3. wq' = wq \/ wq' = Append(wq, Event("error", 0, 0))
  BY DEF Serve, Accept, map_source, Unnamed, Skip, mkbuf_fails, draw, apply_done, client, compositor
<1>4. /\ UNCHANGED <<plug, told, wlout, nsurf, bound, len, gen, cap>>
      /\ pc \in {"loop", "map", "apply"} /\ pc' \in {"loop", "map", "apply", "dead"}
      /\ pc = "loop" => pc' = "map" /\ wq' = wq /\ wq = <<>> /\ OnTime /\ npix' = npix
  BY DEF Serve, Accept, map_source, Unnamed, Skip, mkbuf_fails, draw, apply_done, client, compositor, table, objects, Done, Proceed, Selected
<1> QED BY <1>1, <1>2, <1>3, <1>4

\* A daemon that goes on was going on.
LEMMA RunningSteps ==
  ASSUME [Next]_vars, Running'
  PROVE  Running /\ Serving /\ (Dispatch \/ Serve \/ Compositor \/ UNCHANGED vars)
<1>1. Running
  BY Ended DEF vars, Running
<1>2. ~Terminate
  BY DEF Terminate, Cleanup, CleanupAfter, Running
<1> QED BY <1>1, <1>2 DEF Next, Running, Serving

\* Quiet steps keep the outputs and surfaces the queue is about.
LEMMA QuietSame == ASSUME TypeOK, Quiet PROVE SameOutputs
<1>1. \A k \in Live(len') : k \in Live(len) /\ k \in Slots
  BY LiveSlots DEF Quiet
<1> QED BY <1>1 DEF Quiet, SameOutputs

\* The output of a removal leaves the table with its surface: there is one of
\* that name, and it is its own.
LEMMA OrphanRemove == ASSUME PlaceInv, OrphanOK, reg_del PROVE OrphanOK'
<1>1. TypeOK /\ TableOK /\ SurfacesOwned /\ NamesKept
  BY DEF PlaceInv, TableInv, TypeInv, OrphanOK
<1> DEFINE p == Min(Named(Ev.id)) g == buf[p].wl_out b == [buf EXCEPT ![p] = LayerFreed(buf[p])]
           z == buf[p].surf
<1>2. Serving /\ Shorter /\ Ev \in EventTypes /\ Ev.type = "global_remove"
  BY <1>1, Taken, TakenShorter DEF reg_del
<1>3. p \in Live(len) /\ buf[p].name = Ev.id
  BY <1>1, RemovedName
<1>4. /\ buf' = Removed(b, len, p) /\ len' = len - 1 /\ UNCHANGED plug
      /\ surf' = SurfacesWithout({z})
  BY DEF reg_del, compositor
<1> HIDE DEF p
<1>5. Ev = Removal(g) /\ p \in Slots /\ buf[p] \in Output
  BY <1>1, <1>2, <1>3, RemovalFields, LiveSlots DEF NamesKept
<1>6. b \in [Slots -> Output] /\ \A i \in Slots : i # p => b[i] = buf[i]
  BY <1>1, <1>5, FreedOutput, Stored DEF TypeOK, TableType
<1> HIDE DEF b
<1>7. ASSUME NEW k \in Live(len') PROVE \E i \in Live(len) : i # p /\ buf'[k] = buf[i]
  <2>1. /\ k + 1 \in Live(len) /\ k \in Live(len)
        /\ buf'[k] = IF k < p THEN b[k] ELSE b[k + 1]
    BY <1>1, <1>3, <1>4, <1>6, RemovedSlots
  <2>2. k + 1 \in Slots /\ k \in Slots
    BY <1>1, <2>1, LiveSlots
  <2>3. p \in Nat /\ k \in Nat
    BY <1>5, <2>2 DEF Slots
  <2> QED BY <1>6, <2>1, <2>2, <2>3
<1>8. \A k \in Live(len') : Ev # Removal(buf'[k].wl_out)
  <2> SUFFICES ASSUME NEW k \in Live(len') PROVE Ev # Removal(buf'[k].wl_out)
    OBVIOUS
  <2>1. PICK i \in Live(len) : i # p /\ buf'[k] = buf[i]
    BY <1>7
  <2>2. buf[i].wl_out # g
    BY <1>1, <1>2, <1>3, <2>1 DEF TableOK
  <2>3. Removal(g).id = g /\ Removal(buf[i].wl_out).id = buf[i].wl_out
    BY RemovalFields
  <2> QED BY <1>5, <2>1, <2>2, <2>3
<1>9. \A s \in Surfs : /\ surf'[s].out = surf[s].out
                       /\ surf'[s].st \in Alive => surf[s].st \in Alive /\ s # z
  BY <1>1, <1>4 DEF SurfacesWithout, Alive, TypeOK, ObjectType, SurfaceType
<1>10. \A s \in Surfs : surf'[s].st \in Alive => Ev # Removal(surf[s].out)
  <2> SUFFICES ASSUME NEW s \in Surfs, surf'[s].st \in Alive PROVE Ev # Removal(surf[s].out)
    OBVIOUS
  <2>1. surf[s].st \in Alive /\ s # z
    BY <1>9
  <2>2. PICK i \in Live(len) : buf[i].surf = s
    BY <1>1, <1>2, <2>1 DEF SurfacesOwned, Alive
  <2>3. surf[s].out = buf[i].wl_out
    BY <1>1, <1>2, <2>2 DEF SurfacesOwned, Surfs
  <2>4. i # p
    BY <2>1, <2>2
  <2>5. buf[i].wl_out # g
    BY <1>1, <1>2, <1>3, <2>4 DEF TableOK
  <2>6. Removal(g).id = g /\ Removal(buf[i].wl_out).id = buf[i].wl_out
    BY RemovalFields
  <2> QED BY <1>5, <2>3, <2>5, <2>6
<1>11. SameOutputs
  BY <1>7, <1>9 DEF SameOutputs
<1> QED BY <1>1, <1>2, <1>4, <1>8, <1>10, <1>11, OrphanShorter

\* An output that is bound after it has gone has its removal still to come.
LEMMA OrphanBind == ASSUME PlaceInv, Born, OrphanOK, BindOutput PROVE OrphanOK'
<1>1. TypeOK /\ QueueOK /\ Born /\ TableOK
  BY DEF PlaceInv, TableInv, TypeInv
<1> PICK g : g = Ev.id
  OBVIOUS
<1> DEFINE s == IF CanCreate THEN nsurf + 1 ELSE 0
<1>2. /\ Serving /\ Shorter /\ Ev \in EventTypes /\ Ev.type = "global" /\ wq[1] = Ev
      /\ 1 \in 1..Len(wq) /\ g \in Globals
  BY <1>1, Taken, TakenShorter, EventFields DEF BindOutput
<1>3. /\ buf' = [buf EXCEPT ![len] = NewOutput(g, s)] /\ len' = len + 1 /\ len \in Slots
      /\ len \in Nat /\ UNCHANGED plug
  BY <1>1, EwdAssumption DEF EwdAssumption, BindOutput, Appended, TypeOK, TableType, Slots, compositor
<1>4. NewOutput(g, s).wl_out = g /\ NewOutput(g, s).name = g
  BY DEF NewOutput, Zero
<1>5. \/ surf' = surf
      \/ surf' = [surf EXCEPT ![nsurf + 1] = NewSurface(Ev.id, len, gen')]
  BY DEF BindOutput
<1> HIDE DEF s
<1>6. \A k \in Live(len') : \/ k = len /\ buf'[k].wl_out = g /\ buf'[k].name = g
                            \/ k \in Live(len) /\ buf'[k] = buf[k]
  BY <1>1, <1>3, <1>4, LiveSlots DEF TypeOK, TableType, Live
<1>7. \A h : Removal(h).type # "global"
  BY RemovalFields
<1>8. NamesKept'
  BY <1>6 DEF OrphanOK, NamesKept
<1>9. plug[g] = "gone" => Leaving(g)'
  <2> SUFFICES ASSUME plug[g] = "gone" PROVE Leaving(g)'
    OBVIOUS
  <2>1. PICK l \in 1..Len(wq) : 1 < l /\ wq[l] = Removal(g)
    BY <1>2 DEF OrphanOK, RemovedAfterwards
  <2>2. Leaving(g)
    BY <2>1 DEF Leaving
  <2> QED BY <1>2, <1>7, <2>2, LeavingStays
<1>10. GoneIsAnnounced'
  <2> SUFFICES ASSUME NEW k \in Live(len'), plug[buf'[k].wl_out] = "gone"
               PROVE  \E l \in 1..Len(wq') : wq'[l] = Removal(buf'[k].wl_out)
    BY <1>3 DEF GoneIsAnnounced, Leaving
  <2>1. CASE k = len /\ buf'[k].wl_out = g
    <3>1. Leaving(g)'
      BY <1>9, <2>1
    <3>2. PICK l \in 1..Len(wq') : wq'[l] = Removal(g)
      BY <3>1 DEF Leaving
    <3> QED BY <2>1, <3>2 DEF Leaving
  <2>2. CASE k \in Live(len) /\ buf'[k] = buf[k]
    <3>1. PICK h : h = buf[k].wl_out
      OBVIOUS
    <3>2. Leaving(h)
      BY <2>2, <3>1 DEF OrphanOK, GoneIsAnnounced
    <3>3. Leaving(h)'
      BY <1>2, <1>7, <3>2, LeavingStays
    <3> QED BY <2>2, <3>1, <3>3 DEF Leaving
  <2> QED BY <1>6, <2>1, <2>2
<1>11. \A k \in 1..Len(wq') :
         /\ k + 1 \in 1..Len(wq) /\ wq'[k] = wq[k + 1]
         /\ wq'[k].type = "closed" => surf'[wq'[k].id] = surf[wq'[k].id]
  <2> SUFFICES ASSUME NEW k \in 1..Len(wq'), wq'[k].type = "closed"
               PROVE  surf'[wq'[k].id] = surf[wq'[k].id]
    BY <1>2 DEF Shorter
  <2>1. k + 1 \in 1..Len(wq) /\ wq'[k] = wq[k + 1]
    BY <1>2 DEF Shorter
  <2>2. wq'[k].id \in Surfs /\ surf[wq'[k].id].st # "none"
    BY <1>1, <1>2, <2>1, Waiting DEF QueueOK
  <2>3. nsurf + 1 \in Surfs => surf[nsurf + 1].st = "none"
    BY <1>1, <1>2 DEF Born, Surfs, TypeOK, ObjectType
  <2>4. surf \in SurfaceType
    BY <1>1 DEF TypeOK, ObjectType
  <2> QED BY <1>5, <2>2, <2>3, <2>4 DEF SurfaceType
<1>12. ClosedAfterwards'
  <2> SUFFICES ASSUME NEW k \in 1..Len(wq'), wq'[k].type = "closed", surf'[wq'[k].id].st \in Alive
               PROVE  \E l \in 1..Len(wq') : l < k /\ wq'[l] = Removal(surf'[wq'[k].id].out)
    BY DEF ClosedAfterwards
  <2>1. k + 1 \in 1..Len(wq) /\ wq'[k] = wq[k + 1] /\ surf'[wq'[k].id] = surf[wq'[k].id]
    BY <1>11
  <2>2. PICK l \in 1..Len(wq) : l < k + 1 /\ wq[l] = Removal(surf[wq'[k].id].out)
    BY <2>1 DEF OrphanOK, ClosedAfterwards
  <2>3. l # 1
    BY <1>2, <1>7, <2>2
  <2>4. l - 1 \in 1..Len(wq') /\ wq'[l - 1] = wq[l] /\ l - 1 < k
    BY <1>2, <2>2, <2>3 DEF Shorter
  <2> QED BY <2>1, <2>2, <2>4
<1>13. RemovedAfterwards'
  <2> SUFFICES ASSUME NEW k \in 1..Len(wq'), wq'[k].type = "global", plug'[wq'[k].id] = "gone"
               PROVE  \E l \in 1..Len(wq') : k < l /\ wq'[l] = Removal(wq'[k].id)
    BY DEF RemovedAfterwards
  <2>1. k + 1 \in 1..Len(wq) /\ wq'[k] = wq[k + 1]
    BY <1>11
  <2>2. PICK l \in 1..Len(wq) : k + 1 < l /\ wq[l] = Removal(wq'[k].id)
    BY <1>3, <2>1 DEF OrphanOK, RemovedAfterwards
  <2>3. l - 1 \in 1..Len(wq') /\ wq'[l - 1] = wq[l] /\ k < l - 1
    BY <1>2, <2>1, <2>2 DEF Shorter
  <2> QED BY <2>2, <2>3
<1> QED BY <1>8, <1>10, <1>12, <1>13 DEF OrphanOK

\* ... so none is closed as long as its output is in the table.
LEMMA NoClose == ASSUME PlaceInv, OrphanOK, ls_close PROVE FALSE
<1>1. TypeOK /\ QueueOK
  BY DEF PlaceInv, TableInv, TypeInv
<1>2. Shorter /\ Serving
  BY <1>1, TakenShorter, Taken DEF ls_close, Deliver
<1>3. Ev.type = "closed" /\ surf[Ev.id].st # "destroyed" /\ Ev = wq[1] /\ 1 \in 1..Len(wq)
  BY <1>2 DEF ls_close, Deliver, Take, Listening, Shorter
<1>4. surf[Ev.id].st \in Alive
  BY <1>1, <1>2, <1>3, Waiting DEF QueueOK, Alive, TypeOK, ObjectType, SurfaceType
<1>5. \E l \in 1..Len(wq) : l < 1
  BY <1>3, <1>4 DEF OrphanOK, ClosedAfterwards
<1> QED BY <1>5

\* The handlers keep the orphans announced: no surface is closed while its
\* output is still to be removed.
LEMMA OrphanDispatch == ASSUME PlaceInv, Born, OrphanOK, Dispatch, Running' PROVE OrphanOK'
<1>1. TypeOK /\ QueueOK /\ TableOK /\ SurfacesOwned
  BY DEF PlaceInv, TableInv, TypeInv
<1>2. /\ Shorter /\ Ev \in EventTypes /\ UNCHANGED plug /\ Serving
      /\ \/ Dropped \/ BindOutput \/ reg_del \/ out_mode \/ out_name
         \/ ls_conf \/ ls_close \/ buf_free
  BY <1>1, DispatchSteps DEF compositor, Serving, Dispatching
<1>3. CASE BindOutput
  BY <1>3, OrphanBind
<1>4. CASE reg_del
  BY <1>4, OrphanRemove
<1>5. ASSUME SameOutputs, Ev.type # "global_remove" \/ reg_del_unknown PROVE OrphanOK'
  <2>1. ASSUME NEW i \in Live(len) PROVE Ev # Removal(buf[i].wl_out)
    <3>1. buf[i].name = buf[i].wl_out
      BY DEF OrphanOK, NamesKept
    <3>2. reg_del_unknown => buf[i].name # Ev.id
      BY DEF reg_del_unknown, Named
    <3>3. Removal(buf[i].wl_out).type = "global_remove" /\ Removal(buf[i].wl_out).id = buf[i].wl_out
      BY RemovalFields
    <3> QED BY <1>5, <3>1, <3>2, <3>3
  <2>2. \A k \in Live(len') : Ev # Removal(buf'[k].wl_out)
    BY <1>5, <2>1 DEF SameOutputs
  <2>3. \A s \in Surfs : surf'[s].st \in Alive => Ev # Removal(surf[s].out)
    <3> SUFFICES ASSUME NEW s \in Surfs, surf'[s].st \in Alive PROVE Ev # Removal(surf[s].out)
      OBVIOUS
    <3>1. surf[s].st \in Alive
      BY <1>5 DEF SameOutputs
    <3>2. PICK i \in Live(len) : buf[i].surf = s
      BY <1>1, <1>2, <3>1 DEF SurfacesOwned, Alive
    <3>3. surf[s].out = buf[i].wl_out
      BY <1>1, <1>2, <3>2 DEF SurfacesOwned, Surfs
    <3> QED BY <2>1, <3>3
  <2> QED BY <1>1, <1>2, <1>5, <2>2, <2>3, OrphanShorter
<1>6. CASE Dropped \/ out_mode \/ ls_conf \/ buf_free
  <2>1. SameOutputs
    BY <1>1, <1>6, QuietOnes, QuietSame
  <2>2. Ev.type # "global_remove" \/ reg_del_unknown
    BY <1>6 DEF Dropped, Discard, Roundtrip1, Roundtrip2, Synced, BindService, out_mode, ls_conf, buf_free, Deliver, Take, ListenerEvents, Services
  <2> QED BY <1>5, <2>1, <2>2
<1>7. CASE out_name
  <2>1. Ev.type = "name" /\ At \in Slots /\ out \in Output /\ UNCHANGED <<len, surf>>
    BY <1>1, <1>7, DeliverType DEF out_name, Deliver, Take, ListenerEvents, objects
  <2>2. \E n : buf' = [buf EXCEPT ![At] = [out EXCEPT !.human_name = n]]
    BY <1>7 DEF out_name, out
  <2>3. \A i \in Slots : buf'[i].name = buf[i].name /\ buf'[i].wl_out = buf[i].wl_out
    BY <1>1, <2>1, <2>2 DEF TypeOK, TableType, out, Output
  <2>4. SameOutputs
    BY <1>1, <2>1, <2>3, LiveSlots DEF SameOutputs
  <2> QED BY <1>5, <2>1, <2>4
<1>8. CASE ls_close
  BY <1>8, NoClose
<1> QED BY <1>2, <1>3, <1>4, <1>6, <1>7, <1>8

\* The compositor closes a surface early only if it may, and announces each
\* removal.
LEMMA OrphanCompositor ==
  ASSUME PlaceInv, OrphanOK, Without({"close"}), Compositor, Serving PROVE OrphanOK'
<1>1. TypeOK /\ TableOK /\ SurfacesOwned
  BY DEF PlaceInv, TableInv, TypeInv
<1>2. SameOutputs
  BY <1>1, QuietCompositor, QuietSame
<1>3. \A i \in Live(len) : buf[i].wl_out \in Globals
  BY <1>1 DEF TableOK
<1>4. \A T : Longer(T) /\ Len(wq') = Len(wq) + 1 =>
        Len(wq) < Len(wq') /\ \A k \in 1..Len(wq') : k > Len(wq) => k = Len(wq) + 1
  BY DEF Longer
<1>5. ASSUME NEW T, Longer(T), "closed" \notin T, "global" \notin T, UNCHANGED plug PROVE OrphanOK'
  <2>1. \A k \in 1..Len(wq') : k > Len(wq) => wq'[k].type # "closed" /\ wq'[k].type # "global"
    BY <1>5 DEF Longer
  <2>2. \A g \in Globals : plug'[g] = "gone" => plug[g] = "gone"
    BY <1>5
  <2> QED BY <1>1, <1>2, <1>3, <1>5, <2>1, <2>2, OrphanLonger
<1>6. ASSUME NEW g \in Globals, Plug(g), Said("global", g) PROVE OrphanOK'
  <2>1. \A h \in Globals : plug'[h] = "gone" => plug[h] = "gone"
    BY <1>1, <1>6 DEF Plug, TypeOK, CompositorType
  <2>2. plug'[g] # "gone"
    BY <1>1, <1>6 DEF Plug, TypeOK, CompositorType
  <2>3. \A k \in 1..Len(wq') : k > Len(wq) => wq'[k].id = g /\ wq'[k].type = "global"
    BY <1>4, <1>6 DEF Said
  <2>4. Longer({"global"})
    BY <1>6 DEF Said
  <2> QED BY <1>1, <1>2, <1>3, <2>1, <2>2, <2>3, <2>4, OrphanLonger
<1>7. ASSUME NEW g \in Globals, Unplug(g), Said("global_remove", g), wq'[Len(wq) + 1] = Removal(g)
      PROVE  OrphanOK'
  <2>1. \A h \in Globals : plug'[h] = "gone" => plug[h] = "gone" \/ h = g
    BY <1>1, <1>7 DEF Unplug, TypeOK, CompositorType
  <2>2. Longer({"global_remove"}) /\ Len(wq) < Len(wq') /\ wq'[Len(wq')] = Removal(g)
    BY <1>4, <1>7 DEF Said
  <2>3. \A k \in 1..Len(wq') : k > Len(wq) => wq'[k].type = "global_remove"
    BY <2>2 DEF Longer
  <2> QED BY <1>1, <1>2, <1>3, <2>1, <2>2, <2>3, OrphanLonger
<1>8. ASSUME NEW s \in Surfs, Close(s), Said("closed", s) PROVE OrphanOK'
  <2>1. plug[surf[s].out] = "gone" /\ surf[s].st \in Alive /\ UNCHANGED plug /\ surf'[s].out = surf[s].out
    BY <1>1, <1>8, SurfaceSeen DEF Close, Without
  <2>2. PICK i \in Live(len) : buf[i].surf = s
    BY <1>1, <2>1 DEF SurfacesOwned, Alive
  <2>3. surf[s].out = buf[i].wl_out
    BY <1>1, <2>2 DEF SurfacesOwned, Surfs
  <2>4. \E l \in 1..Len(wq) : wq[l] = Removal(surf'[s].out)
    BY <2>1, <2>3 DEF OrphanOK, GoneIsAnnounced, Leaving
  <2>5. \A k \in 1..Len(wq') : k > Len(wq) => wq'[k].id = s /\ wq'[k].type = "closed"
    BY <1>4, <1>8 DEF Said
  <2>6. Longer({"closed"})
    BY <1>8 DEF Said
  <2> QED BY <1>1, <1>2, <1>3, <2>1, <2>4, <2>5, <2>6, OrphanLonger
<1>9. ASSUME NEW g \in Globals, Describe(g), Longer({"mode", "name"}) PROVE OrphanOK'
  BY <1>5, <1>9 DEF Describe
<1>10. ASSUME NEW g \in Globals, Remode(g), Said("mode", g) PROVE OrphanOK'
  BY <1>5, <1>10 DEF Remode, Said
<1>11. ASSUME NEW s \in Surfs, Configure(s), Said("configure", s) PROVE OrphanOK'
  BY <1>5, <1>11 DEF Configure, Said
<1>12. ASSUME NEW b \in Pixs, Release(b), Said("release", b) PROVE OrphanOK'
  BY <1>5, <1>12 DEF Release, Said
<1>13. CASE SyncReply /\ Said("sync", 0)
  BY <1>5, <1>13 DEF SyncReply, Said
<1> QED
  BY <1>1, <1>6, <1>7, <1>8, <1>9, <1>10, <1>11, <1>12, <1>13, CompositorSteps

\* Every step keeps the orphans announced.
LEMMA OrphanNext == ASSUME PlaceInv, Born, OrphanInv, [Next]_vars PROVE OrphanInv'
<1> SUFFICES ASSUME Without({"close"}), Running' PROVE OrphanOK'
  BY DEF OrphanInv, Without
<1>1. Running /\ Serving /\ (Dispatch \/ Serve \/ Compositor \/ UNCHANGED vars)
  BY RunningSteps
<1>2. OrphanOK /\ TypeInv /\ TypeOK /\ TableOK
  BY <1>1 DEF OrphanInv, PlaceInv, TableInv, TypeInv
<1>3. CASE Serve
  <2>1. Longer({"error"}) /\ UNCHANGED plug
    BY <1>2, <1>3, ServeQueue
  <2>2. SameOutputs
    BY <1>2, <1>3, QuietServe, QuietSame
  <2>3. \A k \in 1..Len(wq') : k > Len(wq) => wq'[k].type = "error"
    BY <2>1 DEF Longer
  <2>4. \A i \in Live(len) : buf[i].wl_out \in Globals
    BY <1>1, <1>2 DEF TableOK
  <2> QED BY <1>2, <2>1, <2>2, <2>3, <2>4, OrphanLonger
<1>4. CASE UNCHANGED vars
  BY <1>2, <1>4 DEF vars, table, objects, compositor, OrphanOK, NamesKept, GoneIsAnnounced, Leaving, ClosedAfterwards, RemovedAfterwards
<1> QED BY <1>1, <1>2, <1>3, <1>4, OrphanDispatch, OrphanCompositor

\* There is no output at first, and nothing of one that leaves.
LEMMA OrphanInit == Init => Born /\ OrphanInv
<1> SUFFICES ASSUME Init PROVE Born /\ OrphanOK
  BY DEF OrphanInv
<1>1. Born
  BY EwdAssumption DEF EwdAssumption, Init, Born, Zero, Slots, Surfs
<1>2. Live(len) = {} /\ \A g \in Globals : plug[g] # "gone"
  BY DEF Init, Live
<1>3. TypeOK
  BY TypeInit DEF TypeInv
<1>4. \A k \in 1..Len(wq) : wq[k].type # "closed" \/ surf[wq[k].id].st \notin Alive
  BY <1>3, Waiting DEF Init, Alive
<1> QED BY <1>1, <1>2, <1>3, <1>4, Waiting DEF OrphanOK, NamesKept, GoneIsAnnounced, ClosedAfterwards, RemovedAfterwards

\* An output whose removal the daemon has handled is not in the table, unless
\* surfaces may be closed first, whatever the outputs, the order of events and
\* the calls that fail: main.c's reg_del finds it by the name ls_close clears.
THEOREM OrphansNever == Spec => []NoOrphans
<1>1. Init => PlaceInv /\ Born /\ OrphanInv
  BY PlaceInit, OrphanInit
<1>2. PlaceInv /\ Born /\ OrphanInv /\ [Next]_vars => (PlaceInv /\ Born /\ OrphanInv)'
  BY PlaceNext, BornNext, OrphanNext
<1>3. PlaceInv /\ Born /\ OrphanInv => NoOrphans
  BY DEF OrphanInv, OrphanOK, GoneIsAnnounced, Leaving, Removal, NoOrphans, Dispatching, Running
<1> QED BY <1>1, <1>2, <1>3, PTL DEF Spec

-----------------------------------------------------------------------------
(* What a step that goes on does to the table.                             *)

\* The outputs stay where they are, and so do the pointers to them; an output
\* may lose its surface.
SamePlaces ==
  /\ UNCHANGED <<len, wlout, nsurf>>
  /\ \A i \in Slots : /\ buf'[i].wl_out = buf[i].wl_out /\ buf'[i].name \in {0, buf[i].name}
                      /\ buf'[i].surf \in {0, buf[i].surf}
  /\ \A s \in Surfs : surf'[s].data = surf[s].data /\ surf'[s].out = surf[s].out

\* An output that is bound comes last, with a surface of its own if any.
Bound(g, s) ==
  /\ g \in Globals /\ wlout[g].st = "none" /\ g = Ev.id
  /\ wlout'[g].st = "live" /\ wlout'[g].data.slot = len
  /\ \A h \in Globals : h # g => wlout'[h] = wlout[h]
  /\ len' = len + 1 /\ len \in Slots /\ len \in Nat /\ buf'[len] = NewOutput(g, s)
  /\ \A i \in Slots : i # len => buf'[i] = buf[i]
  /\ \A k \in Live(len') : k = len \/ (k \in Live(len) /\ k \in Slots /\ k # len /\ buf'[k] = buf[k])
  /\ \A r \in Surfs : surf[r].st # "none" \/ r # s => surf'[r] = surf[r]
  /\ \A i \in Slots : buf[i].surf # s \/ s = 0
  /\ \/ s = 0 /\ ~CanCreate
     \/ CanCreate /\ s \in Surfs /\ surf[s].st = "none" /\ surf'[s].st = "created"
        /\ surf'[s].data.slot = len /\ surf'[s].out = g /\ surf'[s].content = 0
  /\ UNCHANGED <<pix, npix, mapped, bound, client, compositor, pc, faults>>

\* An output that is removed leaves with its surface, and the ones above it
\* move down.
Gone(p) ==
  /\ p \in Live(len) /\ buf[p].wl_out = Ev.id /\ Ev.id \in Globals /\ len' = len - 1
  /\ \A k \in Live(len') :
       \E i \in Live(len) : i # p /\ (i = k \/ i = k + 1) /\ buf'[k] = buf[i]
  /\ wlout'[Ev.id].st = "released" /\ wlout' = [wlout EXCEPT ![Ev.id].st = "released"]
  /\ surf' = SurfacesWithout({buf[p].surf})

\* reg_add of an output binds it like this ...
LEMMA BindSteps == ASSUME PlaceInv, Born, BindOutput PROVE \E g, s : Bound(g, s)
<1>1. TypeOK /\ QueueOK /\ TableOK
  BY DEF PlaceInv, TableInv, TypeInv
<1> PICK g : g = Ev.id
  OBVIOUS
<1> DEFINE s == IF CanCreate THEN nsurf + 1 ELSE 0
<1>2. Serving /\ Ev \in EventTypes /\ Ev.type = "global" /\ wq[1] = Ev /\ 1 \in 1..Len(wq)
  BY <1>1, Taken, TakenShorter DEF BindOutput
<1>3. g \in Globals /\ wlout[g].st = "none"
  BY <1>1, <1>2, EventFields DEF QueueOK
<1>4. /\ buf' = [buf EXCEPT ![len] = NewOutput(g, s)] /\ len' = len + 1 /\ len \in Slots
      /\ len \in Nat
  BY <1>1, EwdAssumption DEF EwdAssumption, BindOutput, Appended, TypeOK, TableType, Slots
<1>5. /\ wlout' = [wlout EXCEPT ![g] = [st |-> "live", data |-> [gen |-> gen', slot |-> len]]]
      /\ ~CanCreate => s = 0 /\ UNCHANGED surf
      /\ CanCreate => s = nsurf + 1 /\ surf' = [surf EXCEPT ![nsurf + 1] = NewSurface(g, len, gen')]
      /\ nsurf < MaxSurfs /\ UNCHANGED <<pix, npix, mapped, bound, client, compositor, pc, faults>>
  BY DEF BindOutput
<1> HIDE DEF s
<1>6. \A i \in Slots : i # len => buf'[i] = buf[i]
  BY <1>1, <1>4 DEF TypeOK, TableType
<1>7. buf'[len] = NewOutput(g, s)
  BY <1>1, <1>4 DEF TypeOK, TableType
<1>8. \A k \in Live(len') : k = len \/ (k \in Live(len) /\ k \in Slots /\ k # len /\ buf'[k] = buf[k])
  BY <1>1, <1>4, <1>6, LiveSlots DEF Live
<1>9. /\ wlout'[g].st = "live" /\ wlout'[g].data.slot = len
      /\ \A h \in Globals : h # g => wlout'[h] = wlout[h]
  BY <1>1, <1>3, <1>5 DEF TypeOK, ObjectType, ProxyType
<1>10. nsurf \in Nat /\ nsurf + 1 \in Surfs /\ surf[nsurf + 1].st = "none"
  BY <1>1, <1>2, <1>5, EwdAssumption DEF EwdAssumption, Born, TypeOK, ObjectType, Surfs
<1>11. /\ \A r \in Surfs : surf[r].st # "none" \/ r # s => surf'[r] = surf[r]
       /\ \/ s = 0 /\ ~CanCreate
          \/ CanCreate /\ s \in Surfs /\ surf[s].st = "none" /\ surf'[s].st = "created"
             /\ surf'[s].data.slot = len /\ surf'[s].out = g /\ surf'[s].content = 0
  <2>1. CASE CanCreate
    <3>1. surf' = [surf EXCEPT ![nsurf + 1] = NewSurface(g, len, gen')] /\ s = nsurf + 1
      BY <1>5, <2>1
    <3>2. NewSurface(g, len, gen').st = "created" /\ NewSurface(g, len, gen').data.slot = len
          /\ NewSurface(g, len, gen').out = g /\ NewSurface(g, len, gen').content = 0
      BY DEF NewSurface
    <3>3. surf'[s] = NewSurface(g, len, gen') /\ \A r \in Surfs : r # s => surf'[r] = surf[r]
      BY <1>1, <1>10, <3>1 DEF TypeOK, ObjectType, SurfaceType
    <3> QED BY <1>10, <2>1, <3>1, <3>2, <3>3
  <2>2. CASE ~CanCreate
    BY <1>5, <2>2
  <2> QED BY <2>1, <2>2
<1>12. \A i \in Slots : buf[i].surf # s \/ s = 0
  <2>1. \A i \in Slots : buf[i].surf <= nsurf
    BY <1>2 DEF Born
  <2>2. \A i \in Slots : buf[i].surf # nsurf + 1
    BY <1>1, <1>10, <2>1 DEF TypeOK, TableType, Output, Surfs
  <2> QED BY <1>5, <2>2
<1>13. UNCHANGED <<pix, npix, mapped, bound, client, compositor, pc, faults>>
  BY <1>5
<1>14. Bound(g, s)
  BY <1>3, <1>4, <1>6, <1>7, <1>8, <1>9, <1>11, <1>12, <1>13 DEF Bound
<1> QED BY <1>14

\* ... and reg_del removes it like this.
LEMMA RemoveSteps == ASSUME PlaceInv, reg_del PROVE \E p : Gone(p)
<1>1. TypeOK /\ TableOK
  BY DEF PlaceInv, TableInv, TypeInv
<1> DEFINE p == Min(Named(Ev.id)) b == [buf EXCEPT ![p] = LayerFreed(buf[p])]
<1>2. Serving
  BY <1>1, Taken DEF reg_del
<1>3. p \in Live(len) /\ buf[p].name = Ev.id /\ Ev.id \in Globals
  BY <1>1, RemovedName
<1>4. /\ buf' = Removed(b, len, p) /\ len' = len - 1
      /\ surf' = SurfacesWithout({buf[p].surf})
      /\ wlout' = [wlout EXCEPT ![buf[p].wl_out].st = "released"]
  BY DEF reg_del
<1> HIDE DEF p
<1>5. p \in Slots /\ buf[p] \in Output /\ buf[p].wl_out = Ev.id
  BY <1>1, <1>2, <1>3, LiveSlots, EwdAssumption DEF EwdAssumption, TableOK
<1>6. b \in [Slots -> Output] /\ \A i \in Slots : i # p => b[i] = buf[i]
  BY <1>1, <1>5, FreedOutput, Stored DEF TypeOK, TableType
<1> HIDE DEF b
<1>7. ASSUME NEW k \in Live(len')
      PROVE  \E i \in Live(len) : i # p /\ (i = k \/ i = k + 1) /\ buf'[k] = buf[i]
  <2>1. /\ k + 1 \in Live(len) /\ k \in Live(len)
        /\ buf'[k] = IF k < p THEN b[k] ELSE b[k + 1]
    BY <1>1, <1>3, <1>4, <1>6, RemovedSlots
  <2>2. k + 1 \in Slots /\ k \in Slots
    BY <1>1, <2>1, LiveSlots
  <2>3. p \in Nat /\ k \in Nat
    BY <1>5, <2>2 DEF Slots
  <2> QED BY <1>6, <2>1, <2>2, <2>3
<1>8. wlout' = [wlout EXCEPT ![Ev.id].st = "released"] /\ wlout'[Ev.id].st = "released"
  BY <1>1, <1>3, <1>4, <1>5 DEF TypeOK, ObjectType, ProxyType
<1>9. Gone(p)
  BY <1>3, <1>4, <1>5, <1>7, <1>8 DEF Gone
<1> QED BY <1>9

\* A step keeps the places, or binds an output, or removes one.
LEMMA TableSteps ==
  ASSUME PlaceInv, Born, [Next]_vars, Running'
  PROVE  /\ Running /\ Serving
         /\ \/ SamePlaces /\ (Quiet \/ out_name \/ ls_close)
            \/ BindOutput /\ \E g, s : Bound(g, s)
            \/ reg_del /\ \E p : Gone(p)
<1>1. TypeInv /\ TypeOK /\ QueueOK
  BY DEF PlaceInv, TableInv, TypeInv
<1>2. Running /\ Serving /\ pc' # "exited"
  BY RunningSteps DEF Running
<1>3. CASE Quiet
  BY <1>2, <1>3 DEF Quiet, SamePlaces
<1>4. CASE out_name
  <2>1. At \in Slots /\ out \in Output /\ UNCHANGED <<len, wlout, surf, nsurf>>
    BY <1>1, <1>4, DeliverType DEF out_name, Deliver, ListenerEvents, objects
  <2>2. \E n : buf' = [buf EXCEPT ![At] = [out EXCEPT !.human_name = n]]
    BY <1>4 DEF out_name, out
  <2>3. \A i \in Slots : /\ buf'[i].wl_out = buf[i].wl_out /\ buf'[i].name = buf[i].name
                         /\ buf'[i].surf = buf[i].surf
    BY <1>1, <2>1, <2>2 DEF TypeOK, TableType, out, Output
  <2> QED BY <1>2, <1>4, <2>1, <2>3 DEF SamePlaces
<1>5. CASE ls_close
  <2>1. At \in Slots /\ out \in Output /\ UNCHANGED <<len, wlout, nsurf>>
    BY <1>1, <1>5, DeliverType DEF ls_close, Deliver, ListenerEvents
  <2>2. CASE UNCHANGED <<surf, buf>>
    BY <1>2, <1>5, <2>1, <2>2 DEF SamePlaces
  <2>3. CASE surf' = SurfacesWithout({out.surf}) /\ buf' = [buf EXCEPT ![At] = LayerFreed(out)]
    <3>1. /\ LayerFreed(out).surf = 0 /\ LayerFreed(out).name = 0
          /\ LayerFreed(out).wl_out = out.wl_out
      BY <2>1 DEF LayerFreed, Output
    <3>2. \A i \in Slots : /\ buf'[i].wl_out = buf[i].wl_out /\ buf'[i].name \in {0, buf[i].name}
                           /\ buf'[i].surf \in {0, buf[i].surf}
      BY <1>1, <2>1, <2>3, <3>1 DEF TypeOK, TableType, out
    <3>3. \A s \in Surfs : surf'[s].data = surf[s].data /\ surf'[s].out = surf[s].out
      BY <1>1, <2>3 DEF SurfacesWithout, TypeOK, ObjectType, SurfaceType
    <3> QED BY <1>2, <1>5, <2>1, <3>2, <3>3 DEF SamePlaces
  <2> QED BY <1>5, <2>2, <2>3 DEF ls_close
<1> QED BY <1>1, <1>2, <1>3, <1>4, <1>5, StepKinds, BindSteps, RemoveSteps

-----------------------------------------------------------------------------
(* Slots.                                                                  *)

\* The services, the announcements and the removals the queue may gain.
LEMMA GainedEvents ==
  ASSUME TypeInv, QueueOK, [Next]_vars, Running'
  PROVE  \/ Shorter /\ Dispatch /\ UNCHANGED <<plug, told>>
         \/ Longer({"error"}) /\ Serve /\ UNCHANGED <<plug, told>>
         \/ Longer({"global"}) /\ \E g \in Globals : Plug(g)
         \/ Longer({"global_remove"}) /\ \E g \in Globals : Unplug(g)
         \/ Longer({"mode", "name"}) /\ UNCHANGED plug /\ \E g \in Globals : Describe(g)
         \/ Longer({"mode", "configure", "closed", "release"}) /\ Compositor /\ UNCHANGED <<plug, told>>
         \/ Longer({"sync"}) /\ SyncReply /\ UNCHANGED <<plug, told>>
         \/ UNCHANGED vars
<1>1. TypeOK
  BY DEF TypeInv
<1>2. CASE Dispatch
  BY <1>1, <1>2, DispatchSteps DEF compositor
<1>3. CASE Serve
  BY <1>1, <1>3, ServeQueue
<1>4. CASE Compositor
  BY <1>1, <1>4, CompositorSteps DEF Said, Longer, Plug, Unplug, Describe, Remode, Configure, Close, Release, SyncReply
<1> QED BY <1>2, <1>3, <1>4, RunningSteps

SlotInv == SameListener /\ NoneMoved /\ NoneLeaves

\* The slots are right at first ...
LEMMA SlotInit == Init => SlotInv
<1> SUFFICES ASSUME Init PROVE SlotInv
  OBVIOUS
<1>1. Live(len) = {} /\ \A g \in Globals : plug[g] # "gone" /\ wlout[g].st = "none"
  BY DEF Init, Live
<1>2. \A k \in 1..Len(wq) : wq[k].type # "global_remove"
  <2>1. PICK offer \in SUBSET Services, ver \in [Services \cup {"global"} -> Versions] :
          \E q \in SetToSeqs(Advertised(offer, ver)) :
            /\ wq = Append(q, Event("sync", 0, 0)) /\ q \in Seq(EventTypes)
            /\ \A k \in 1..Len(q) : q[k] \in Advertised(offer, ver)
    BY FirstEvents
  <2>2. \A a \in Advertised(offer, ver) : a.type # "global_remove"
    BY DEF Advertised, Event, Services
  <2>3. Event("sync", 0, 0) \in EventTypes /\ Event("sync", 0, 0).type = "sync"
    BY DEF Event, EventTypes, Old
  <2> QED BY <2>1, <2>2, <2>3
<1> QED BY <1>1, <1>2 DEF SlotInv, SameListener, NoneMoved, Moved, NoneLeaves, Left

\* ... and stay so: binding appends, and only reg_del moves outputs.
LEMMA SlotNext == ASSUME PlaceInv, Born, SlotInv, [Next]_vars PROVE SlotInv'
<1> SUFFICES ASSUME Running' PROVE SlotInv'
  BY DEF SlotInv, SameListener, NoneMoved, NoneLeaves
<1>1. /\ TypeInv /\ TypeOK /\ QueueOK /\ TableOK /\ Running /\ Serving
      /\ \/ SamePlaces /\ (Quiet \/ out_name \/ ls_close)
         \/ BindOutput /\ \E g, s : Bound(g, s)
         \/ reg_del /\ \E p : Gone(p)
  BY TableSteps DEF PlaceInv, TableInv, TypeInv
<1>2. /\ \A i \in Live(len) : /\ i \in Slots /\ buf[i].wl_out \in Globals /\ buf[i].surf \in Surfs \cup {0}
                              /\ wlout[buf[i].wl_out].st = "live"
      /\ \A i, j \in Live(len) : buf[i].wl_out = buf[j].wl_out => i = j
  BY <1>1, LiveSlots DEF TableOK, Output
<1>3. SameListener'
  <2>1. CASE SamePlaces
    BY <1>1, <1>2, <2>1 DEF SamePlaces, SlotInv, SameListener
  <2>2. ASSUME NEW g, NEW s, Bound(g, s) PROVE SameListener'
    <3>1. NewOutput(g, s).surf = s /\ NewOutput(g, s).wl_out = g
      BY DEF NewOutput, Zero
    <3>2. ASSUME NEW k \in Live(len), k # len, buf'[k] = buf[k], buf[k].surf # 0
          PROVE  surf'[buf[k].surf].data.slot = wlout'[buf[k].wl_out].data.slot
      <4>1. surf'[buf[k].surf] = surf[buf[k].surf] /\ wlout'[buf[k].wl_out] = wlout[buf[k].wl_out]
        <5>1. k \in Slots /\ buf[k].wl_out \in Globals /\ wlout[buf[k].wl_out].st = "live"
              /\ buf[k].surf \in Surfs
          BY <1>2, <3>2
        <5>2. buf[k].wl_out # g /\ (buf[k].surf # s \/ s = 0)
          BY <2>2, <5>1 DEF Bound
        <5> QED BY <2>2, <3>2, <5>1, <5>2 DEF Bound
      <4> QED BY <1>1, <3>2, <4>1 DEF SlotInv, SameListener
    <3> QED BY <2>2, <3>1, <3>2 DEF Bound, SameListener
  <2>3. ASSUME NEW p, Gone(p) PROVE SameListener'
    <3>1. /\ \A s \in Surfs : surf'[s].data = surf[s].data
          /\ \A g \in Globals : wlout'[g].data = wlout[g].data
      BY <1>1, <2>3 DEF Gone, SurfacesWithout, TypeOK, ObjectType, SurfaceType, ProxyType
    <3> SUFFICES ASSUME NEW k \in Live(len'), buf'[k].surf # 0
                 PROVE  surf'[buf'[k].surf].data.slot = wlout'[buf'[k].wl_out].data.slot
      BY DEF SameListener
    <3>2. PICK i \in Live(len) : buf'[k] = buf[i]
      BY <2>3 DEF Gone
    <3> QED BY <1>1, <1>2, <3>1, <3>2 DEF SlotInv, SameListener
  <2> QED BY <1>1, <2>1, <2>2, <2>3
<1>4. NoneMoved'
  <2>1. CASE SamePlaces
    BY <1>1, <1>2, <2>1 DEF SamePlaces, SlotInv, NoneMoved, Moved, Left
  <2>2. ASSUME NEW g, NEW s, Bound(g, s) PROVE NoneMoved'
    <3>1. NewOutput(g, s).wl_out = g
      BY DEF NewOutput, Zero
    <3>2. ~Left' => ~Left
      BY <2>2 DEF Bound, Left
    <3> QED BY <1>1, <1>2, <2>2, <3>1, <3>2 DEF Bound, SlotInv, NoneMoved, Moved
  <2>3. ASSUME NEW p, Gone(p) PROVE Left'
    BY <2>3 DEF Gone, Left
  <2> QED BY <1>1, <2>1, <2>2, <2>3 DEF NoneMoved
<1>5. NoneLeaves'
  <2> SUFFICES ASSUME Without({"unplug"})
               PROVE  /\ ~Left' /\ \A g \in Globals : plug'[g] # "gone"
                      /\ \A k \in 1..Len(wq') : wq'[k].type # "global_remove"
    BY DEF NoneLeaves, Without
  <2>1. /\ ~Left /\ \A g \in Globals : plug[g] # "gone"
        /\ \A k \in 1..Len(wq) : wq[k].type # "global_remove"
    BY <1>1 DEF SlotInv, NoneLeaves
  <2>3. \A k \in 1..Len(wq') : wq'[k].type # "global_remove"
    BY <1>1, <2>1, GainedEvents DEF Shorter, Longer, vars, Unplug, Without
  <2>4. \A g \in Globals : plug'[g] # "gone"
    BY <1>1, <2>1, GainedEvents DEF vars, compositor, Unplug, Without, Plug, TypeOK, CompositorType
  <2>5. ~reg_del
    BY <1>1, <2>1, Taken DEF reg_del, Take
  <2>6. ~Left'
    BY <1>1, <2>1, <2>5 DEF Bound, SamePlaces, Left
  <2> QED BY <2>3, <2>4, <2>6
<1> QED BY <1>3, <1>4, <1>5 DEF SlotInv

\* Outputs do not share a surface.
LEMMA OwnSurfaces ==
  ASSUME PlaceInv, Serving, NEW i \in Live(len), NEW j \in Live(len),
         buf[i].surf = buf[j].surf, buf[i].surf # 0
  PROVE  i = j
<1>1. surf[buf[i].surf].out = buf[i].wl_out /\ surf[buf[j].surf].out = buf[j].wl_out
  BY DEF PlaceInv, SurfacesOwned
<1> QED BY <1>1 DEF PlaceInv, TableInv, TableOK

\* The listener of a surface runs on its output, unless an output has moved.
LEMMA ListenerRight ==
  ASSUME PlaceInv, SlotInv, Running, NEW t \in {"configure", "closed"}, Deliver(t)
  PROVE  /\ Ev.id \in Surfs /\ surf[Ev.id].st \in Alive /\ At \in Slots /\ out \in Output
         /\ Moved \/ (At \in Live(len) /\ buf[At].surf = Ev.id)
<1>1. TypeOK /\ QueueOK /\ TableOK /\ Serving
  BY DEF PlaceInv, TableInv, TypeInv, Running, Serving
<1>2. Shorter /\ Ev \in EventTypes /\ Ev.type = t
  BY <1>1, TakenShorter DEF Deliver
<1>3. Ev = wq[1] /\ 1 \in 1..Len(wq) /\ surf[Ev.id].st # "destroyed"
  BY <1>2 DEF Shorter, Deliver, Listening
<1>4. Ev.id \in Surfs /\ surf[Ev.id].st \in Alive
  BY <1>1, <1>2, <1>3, Waiting DEF QueueOK, Alive, TypeOK, ObjectType, SurfaceType
<1>5. PICK i \in Live(len) : buf[i].surf = Ev.id
  BY <1>1, <1>4 DEF PlaceInv, SurfacesOwned, Alive
<1>6. At = surf[Ev.id].data.slot
  BY <1>2 DEF At, Data
<1>7. surf[Ev.id].data.slot = wlout[buf[i].wl_out].data.slot
  BY <1>4, <1>5 DEF SlotInv, SameListener, Surfs
<1>8. ~Moved => At = i
  BY <1>6, <1>7 DEF Moved
<1>9. At \in Slots /\ out \in Output
  BY <1>1, DeliverType DEF ListenerEvents
<1> QED BY <1>4, <1>5, <1>8, <1>9

\* A surface of the table is destroyed only together with its place there.
LEMMA AliveNext ==
  ASSUME PlaceInv, Born, OrphanInv, SlotInv, SurfacesAlive, [Next]_vars PROVE SurfacesAlive'
<1> SUFFICES ASSUME Running', Without({"close"}) \/ Without({"unplug"}),
                    NEW k \in Live(len'), buf'[k].surf # 0
             PROVE  surf'[buf'[k].surf].st \in Alive
  BY DEF SurfacesAlive, Without
<1>1. /\ TypeOK /\ QueueOK /\ TableOK /\ Running /\ Serving
      /\ \/ SamePlaces /\ (Quiet \/ out_name \/ ls_close)
         \/ BindOutput /\ \E g, s : Bound(g, s)
         \/ reg_del /\ \E p : Gone(p)
  BY TableSteps DEF PlaceInv, TableInv, TypeInv
<1>2. \A i \in Live(len) : buf[i].surf # 0 => surf[buf[i].surf].st \in Alive
  BY <1>1 DEF SurfacesAlive
<1>3. \A i \in Live(len) : i \in Slots /\ buf[i].surf \in Surfs \cup {0}
  BY <1>1, LiveSlots DEF Output
<1>4. \A s, z : surf' = SurfacesWithout({z}) /\ s \in Surfs /\ s # z => surf'[s] = surf[s]
  BY DEF SurfacesWithout
<1>5. CASE SamePlaces /\ Quiet
  BY <1>2, <1>3, <1>5 DEF SamePlaces, Quiet
<1>6. CASE SamePlaces /\ out_name
  BY <1>2, <1>3, <1>6 DEF SamePlaces, out_name, objects
<1>7. CASE SamePlaces /\ ls_close
  <2>1. k \in Live(len) /\ buf'[k].surf = buf[k].surf /\ k \in Slots /\ buf[k].surf \in Surfs
    BY <1>3, <1>7 DEF SamePlaces
  <2>2. ~OrphanOK
    BY <1>7, NoClose
  <2>3. ~Moved
    BY <1>1, <2>2 DEF OrphanInv, SlotInv, NoneLeaves, NoneMoved
  <2>4. At \in Live(len) /\ out.surf = Ev.id /\ Ev.id \in Surfs /\ At \in Slots /\ out \in Output
    BY <1>1, <1>7, <2>3, ListenerRight DEF ls_close, out
  <2>5. CASE UNCHANGED <<surf, buf>>
    BY <1>2, <2>1, <2>5
  <2>6. CASE surf' = SurfacesWithout({out.surf}) /\ buf' = [buf EXCEPT ![At] = LayerFreed(out)]
    <3>1. k # At
      BY <1>1, <2>4, <2>6 DEF LayerFreed, Output, TypeOK, TableType
    <3>2. buf[k].surf # out.surf
      BY <1>1, <2>1, <2>4, <3>1, OwnSurfaces DEF out, Surfs
    <3> QED BY <1>2, <1>4, <2>1, <2>6, <3>2 DEF Surfs
  <2> QED BY <1>7, <2>5, <2>6 DEF ls_close
<1>8. ASSUME NEW g, NEW s, Bound(g, s) PROVE surf'[buf'[k].surf].st \in Alive
  <2>1. NewOutput(g, s).surf = s
    BY DEF NewOutput, Zero
  <2>2. CASE k = len
    BY <1>8, <2>1, <2>2 DEF Bound, Alive
  <2>3. CASE k \in Live(len) /\ k # len /\ buf'[k] = buf[k]
    BY <1>2, <1>3, <1>8, <2>3 DEF Bound, Alive
  <2> QED BY <1>8, <2>2, <2>3 DEF Bound
<1>9. ASSUME NEW p, Gone(p) PROVE surf'[buf'[k].surf].st \in Alive
  <2>1. PICK i \in Live(len) : i # p /\ buf'[k] = buf[i]
    BY <1>9 DEF Gone
  <2>2. p \in Live(len) /\ buf[p].surf # buf[i].surf
    BY <1>1, <1>9, <2>1, OwnSurfaces DEF Gone
  <2> QED BY <1>2, <1>3, <1>4, <1>9, <2>1, <2>2 DEF Gone
<1> QED BY <1>1, <1>5, <1>6, <1>7, <1>8, <1>9

-----------------------------------------------------------------------------
(* Services.                                                               *)

\* Only reg_add of a service changes which are bound.
LEMMA BoundSteps ==
  ASSUME TypeOK, [Next]_vars, Running'
  PROVE  /\ UNCHANGED bound \/ \E t \in Services : BindService(t)
         /\ pc \notin {"roundtrip2", "loop", "map", "apply"} /\ pc' \in {"roundtrip2", "loop", "map", "apply"}
              => bound = Services /\ UNCHANGED bound
<1>1. Running /\ (Dispatch \/ Serve \/ Compositor \/ UNCHANGED vars)
  BY RunningSteps
<1>2. CASE Dispatch
  <2>1. Dropped \/ BindOutput \/ reg_del \/ out_mode \/ out_name \/ ls_conf \/ ls_close \/ buf_free
    BY <1>2, DispatchSteps
  <2> QED BY <2>1 DEF Running, Proceed, Dropped, Discard, reg_del_unknown, Roundtrip1, Roundtrip2, Synced, BindService, BindOutput, reg_del, out_mode, out_name, ls_conf, ls_close, buf_free, objects
<1>3. CASE Serve
  BY <1>3, ServeQueue
<1>4. CASE Compositor
  BY <1>4, CompositorSteps
<1> QED BY <1>1, <1>2, <1>3, <1>4 DEF vars, objects

ServiceInv == ServicesBound /\ ServicesEarly /\ SurfacesMade

\* The services come first in what the registry advertises ...
LEMMA ServiceInit == Init => ServiceInv
<1> SUFFICES ASSUME Init PROVE ServiceInv
  OBVIOUS
<1>1. Live(len) = {} /\ pc = "roundtrip1" /\ \A g \in Globals : wlout[g].st = "none"
  BY DEF Init, Live
<1>2. ASSUME Without({"any_order"}), NEW k \in 1..Len(wq), NEW l \in 1..Len(wq), k < l,
             wq[k].type = "global"
      PROVE  wq[l].type \notin Services
  <2>1. PICK q : /\ wq = Append(q, Event("sync", 0, 0)) /\ q \in Seq(EventTypes)
                 /\ "any_order" \in Behaviours \/ ServicesFirst(q)
    BY FirstEvents
  <2>2. Event("sync", 0, 0) \in EventTypes /\ Event("sync", 0, 0).type = "sync"
    BY DEF Event, EventTypes, Old
  <2>3. DOMAIN q = 1..Len(q) /\ Len(q) \in Nat
    BY <2>1
  <2>4. \A j \in 1..Len(wq) : (j \in 1..Len(q) /\ wq[j] = q[j]) \/ wq[j].type = "sync"
    <3> DEFINE e == Event("sync", 0, 0)
    <3>1. e \in EventTypes /\ wq = Append(q, e) /\ e.type = "sync"
      BY <2>1, <2>2
    <3> HIDE DEF e
    <3>2. \A j \in 1..Len(wq) : (j \in 1..Len(q) /\ wq[j] = q[j]) \/ wq[j] = e
      BY <2>1, <3>1
    <3> QED BY <3>1, <3>2
  <2>5. CASE l \in 1..Len(q) /\ wq[l] = q[l]
    <3>1. k \in 1..Len(q) /\ wq[k] = q[k]
      BY <1>2, <2>3, <2>4, <2>5
    <3>2. q[l].type = "global"
      BY <1>2, <2>1, <2>3, <2>5, <3>1 DEF ServicesFirst, Without
    <3> QED BY <2>5, <3>2 DEF Services
  <2> QED BY <2>4, <2>5 DEF Services
<1> QED BY <1>1, <1>2 DEF ServiceInv, ServicesBound, ServicesEarly, SurfacesMade

\* ... and are bound before any output that has been plugged in.
LEMMA ServiceNext ==
  ASSUME PlaceInv, Born, OrphanInv, ServiceInv, [Next]_vars PROVE ServiceInv'
<1>1. /\ TypeOK /\ TypeInv /\ QueueOK /\ TableOK
  BY DEF PlaceInv, TableInv, TypeInv
<1>2. CASE ~Running'
  BY <1>2 DEF Running, ServiceInv, ServicesBound, ServicesEarly, SurfacesMade
<1>3. CASE Running'
  <2>1. /\ Running /\ Serving
        /\ \/ SamePlaces /\ (Quiet \/ out_name \/ ls_close)
           \/ BindOutput /\ \E g, s : Bound(g, s)
           \/ reg_del /\ \E p : Gone(p)
    BY <1>3, TableSteps
  <2>2. bound' = bound \/ \E t \in Services : BindService(t)
    BY <1>1, <1>3, BoundSteps
  <2>3. ServicesBound'
    <3>1. bound \subseteq bound' /\ bound' \subseteq Services
      BY <1>1, <2>2 DEF BindService, TypeOK, ObjectType
    <3>2. pc \in {"roundtrip2", "loop", "map", "apply"} => bound = Services
      BY DEF ServiceInv, ServicesBound
    <3> QED BY <1>1, <1>3, <3>1, <3>2, BoundSteps DEF ServicesBound
  <2>4. ServicesEarly'
    <3> SUFFICES ASSUME Without({"any_order"})
                 PROVE  /\ \A k, l \in 1..Len(wq') : k < l /\ wq'[k].type = "global" => wq'[l].type \notin Services
                        /\ (\E g \in Globals : wlout'[g].st # "none") =>
                              \A k \in 1..Len(wq') : wq'[k].type \notin Services
      BY DEF ServicesEarly, Without
    <3>1. /\ \A k, l \in 1..Len(wq) : k < l /\ wq[k].type = "global" => wq[l].type \notin Services
          /\ (\E g \in Globals : wlout[g].st # "none") => \A k \in 1..Len(wq) : wq[k].type \notin Services
      BY <2>1 DEF ServiceInv, ServicesEarly
    <3>2. Shorter \/ \E T : Longer(T) /\ T \cap Services = {}
      <4>1. UNCHANGED vars => Longer({})
        BY <1>1 DEF vars, Longer, TypeOK, CompositorType
      <4> QED BY <1>1, <1>3, <4>1, GainedEvents DEF Services
    <3>3. \A k, l \in 1..Len(wq') : k < l /\ wq'[k].type = "global" => wq'[l].type \notin Services
      <4> SUFFICES ASSUME NEW k \in 1..Len(wq'), NEW l \in 1..Len(wq'), k < l, wq'[k].type = "global"
                   PROVE  wq'[l].type \notin Services
        OBVIOUS
      <4>1. CASE Shorter
        <5>1. /\ k + 1 \in 1..Len(wq) /\ wq'[k] = wq[k + 1] /\ l + 1 \in 1..Len(wq)
              /\ wq'[l] = wq[l + 1] /\ k + 1 < l + 1
          BY <4>1 DEF Shorter
        <5> QED BY <3>1, <5>1
      <4>2. ASSUME NEW T, Longer(T), T \cap Services = {} PROVE wq'[l].type \notin Services
        <5>1. CASE l \in 1..Len(wq)
          <6>1. k \in 1..Len(wq) /\ wq'[k] = wq[k] /\ wq'[l] = wq[l]
            BY <4>2, <5>1 DEF Longer
          <6> QED BY <3>1, <5>1, <6>1
        <5> QED BY <4>2, <5>1 DEF Longer
      <4> QED BY <3>2, <4>1, <4>2
    <3>4. ASSUME NEW g \in Globals, wlout'[g].st # "none", NEW k \in 1..Len(wq')
          PROVE  wq'[k].type \notin Services
      <4>1. CASE BindOutput
        <5>1. Shorter /\ Ev.type = "global"
          BY <1>1, <4>1, TakenShorter DEF BindOutput
        <5>2. /\ 1 \in 1..Len(wq) /\ wq[1].type = "global" /\ k + 1 \in 1..Len(wq)
              /\ wq'[k] = wq[k + 1] /\ 1 < k + 1
          BY <5>1 DEF Shorter
        <5> QED BY <3>1, <5>2
      <4>2. CASE ~BindOutput
        <5>1. \E h \in Globals : wlout[h].st # "none"
          <6>1. CASE SamePlaces
            BY <3>4, <6>1 DEF SamePlaces
          <6>2. ASSUME NEW p, Gone(p) PROVE \E h \in Globals : wlout[h].st # "none"
            BY <1>1, <2>1, <6>2 DEF Gone, TableOK
          <6> QED BY <2>1, <4>2, <6>1, <6>2
        <5>2. \A j \in 1..Len(wq) : wq[j].type \notin Services
          BY <3>1, <5>1
        <5> QED BY <3>2, <5>2 DEF Shorter, Longer
      <4> QED BY <4>1, <4>2
    <3> QED BY <3>3, <3>4
  <2>5. SurfacesMade'
    <3> SUFFICES ASSUME Without({"any_order", "close"}), NEW k \in Live(len'), buf'[k].surf = 0
                 PROVE  ~CanCreate'
      BY DEF SurfacesMade, Without
    <3>1. OrphanOK /\ \A i \in Live(len) : buf[i].surf = 0 => ~CanCreate
      BY <2>1 DEF OrphanInv, ServiceInv, SurfacesMade, Without
    <3>2. \A i \in Live(len) : bound' = bound
      <4> SUFFICES ASSUME NEW i \in Live(len), NEW t \in Services, BindService(t) PROVE FALSE
        BY <2>2
      <4>1. 1 \in 1..Len(wq) /\ wq[1].type \in Services
        BY <1>1, Taken DEF BindService, Take
      <4>2. \E g \in Globals : wlout[g].st # "none"
        BY <1>1, <2>1 DEF TableOK
      <4> QED BY <2>1, <4>1, <4>2 DEF ServiceInv, ServicesEarly, Without
    <3>3. CASE SamePlaces /\ (Quiet \/ out_name \/ ls_close)
      <4>1. k \in Live(len) /\ k \in Slots /\ ~ls_close
        BY <1>1, <3>1, <3>3, NoClose, LiveSlots DEF SamePlaces
      <4>2. CASE Quiet
        BY <3>1, <3>2, <4>1, <4>2 DEF Quiet, CanCreate
      <4>3. CASE out_name
        <5>1. buf'[k].surf = buf[k].surf
          <6>1. At \in Slots /\ out \in Output
            BY <1>1, <4>3, DeliverType DEF out_name, ListenerEvents
          <6>2. \E n : buf' = [buf EXCEPT ![At] = [out EXCEPT !.human_name = n]]
            BY <4>3 DEF out_name, out
          <6> QED BY <1>1, <4>1, <6>1, <6>2 DEF TypeOK, TableType, out, Output
        <5> QED BY <3>1, <3>2, <4>1, <5>1 DEF CanCreate
      <4> QED BY <3>3, <4>1, <4>2, <4>3
    <3>4. ASSUME NEW g, NEW s, Bound(g, s) PROVE ~CanCreate'
      <4>1. NewOutput(g, s).surf = s
        BY DEF NewOutput, Zero
      <4>2. k = len => ~CanCreate
        BY <3>4, <4>1 DEF Bound, Surfs
      <4>3. k # len => k \in Live(len) /\ buf[k].surf = 0
        BY <3>4 DEF Bound
      <4> QED BY <3>1, <3>4, <4>2, <4>3 DEF Bound, CanCreate
    <3>5. ASSUME NEW p, Gone(p) PROVE ~CanCreate'
      <4>1. PICK i \in Live(len) : buf'[k] = buf[i]
        BY <3>5 DEF Gone
      <4> QED BY <3>1, <3>2, <4>1 DEF CanCreate
    <3> QED BY <2>1, <3>3, <3>4, <3>5
  <2> QED BY <2>3, <2>4, <2>5 DEF ServiceInv
<1> QED BY <1>2, <1>3

-----------------------------------------------------------------------------
(* Knowledge.                                                              *)

\* A description that is handled is stored, and one that waits still does.
LEMMA KnownShorter ==
  ASSUME TypeOK, Shorter, NEW k \in Slots, buf'[k].wl_out = buf[k].wl_out,
         buf[k].human_name # NULL \/ (Ev.type = "name" /\ Ev.id = buf[k].wl_out)
           => buf'[k].human_name # NULL,
         buf[k].dim # 0 \/ (Ev.type = "mode" /\ Ev.id = buf[k].wl_out) => buf'[k].dim # 0,
         NEW n \in Nat, KnownBefore(k, n + 1)
  PROVE  KnownBefore(k, n)'
<1>1. NameBefore(k, n)'
  <2>1. CASE buf[k].human_name # NULL
    BY <2>1 DEF NameBefore
  <2>2. CASE \E j \in 1..Len(wq) : j < n + 1 /\ wq[j].type = "name" /\ wq[j].id = buf[k].wl_out
    <3>1. PICK j \in 1..Len(wq) : j < n + 1 /\ wq[j].type = "name" /\ wq[j].id = buf[k].wl_out
      BY <2>2
    <3>2. CASE j = 1
      BY <3>1, <3>2 DEF NameBefore, Shorter
    <3>3. CASE j # 1
      <4>1. j - 1 \in 1..Len(wq') /\ wq'[j - 1] = wq[j] /\ j - 1 < n
        BY <3>1, <3>3 DEF Shorter
      <4> QED BY <3>1, <4>1 DEF NameBefore
    <3> QED BY <3>2, <3>3
  <2> QED BY <2>1, <2>2 DEF KnownBefore, NameBefore
<1>2. SizeBefore(k, n)'
  <2>1. CASE buf[k].dim # 0
    BY <2>1 DEF SizeBefore
  <2>2. CASE \E j \in 1..Len(wq) : j < n + 1 /\ wq[j].type = "mode" /\ wq[j].id = buf[k].wl_out
    <3>1. PICK j \in 1..Len(wq) : j < n + 1 /\ wq[j].type = "mode" /\ wq[j].id = buf[k].wl_out
      BY <2>2
    <3>2. CASE j = 1
      BY <3>1, <3>2 DEF SizeBefore, Shorter
    <3>3. CASE j # 1
      <4>1. j - 1 \in 1..Len(wq') /\ wq'[j - 1] = wq[j] /\ j - 1 < n
        BY <3>1, <3>3 DEF Shorter
      <4> QED BY <3>1, <4>1 DEF SizeBefore
    <3> QED BY <3>2, <3>3
  <2> QED BY <2>1, <2>2 DEF KnownBefore, SizeBefore
<1> QED BY <1>1, <1>2 DEF KnownBefore

\* An output in its place is the one just bound, or was there and is known as
\* much as before: what its listeners store is stored in its slot.
LEMMA KnownHandled ==
  ASSUME PlaceInv, Born, Without({"oom"}), Dispatch, Running', NEW k \in Live(len'),
         wlout'[buf'[k].wl_out].data.slot = k
  PROVE  \/ BindOutput /\ buf'[k].wl_out = Ev.id /\ Ev.id \in Globals /\ wlout[Ev.id].st = "none"
         \/ /\ k \in Live(len) /\ buf'[k].wl_out = buf[k].wl_out /\ InPlace(k)
            /\ \A n \in Nat : KnownBefore(k, n + 1) => KnownBefore(k, n)'
<1> DEFINE Kept == /\ k \in Live(len) /\ buf'[k].wl_out = buf[k].wl_out /\ InPlace(k)
                   /\ \A n \in Nat : KnownBefore(k, n + 1) => KnownBefore(k, n)'
<1>1. /\ TypeOK /\ QueueOK /\ TableOK /\ Running /\ Serving /\ Shorter /\ Ev \in EventTypes
      /\ \/ Dropped \/ BindOutput \/ reg_del \/ out_mode \/ out_name
         \/ ls_conf \/ ls_close \/ buf_free
      /\ \/ SamePlaces /\ (Quiet \/ out_name \/ ls_close)
         \/ BindOutput /\ \E g, s : Bound(g, s)
         \/ reg_del /\ \E p : Gone(p)
  BY TableSteps, DispatchSteps DEF PlaceInv, TableInv, TypeInv, Next
<1>2. \A i \in Live(len) : i \in Slots /\ buf[i].wl_out \in Globals /\ wlout[buf[i].wl_out].st = "live"
  BY <1>1, LiveSlots DEF TableOK
<1>3. ASSUME k \in Live(len), buf'[k] = buf[k], wlout'[buf[k].wl_out].data = wlout[buf[k].wl_out].data,
             Ev.type \notin {"name", "mode"} \/ Discard
      PROVE  Kept
  <2>1. Ev.type \in {"name", "mode"} => Ev.id # buf[k].wl_out
    BY <1>2, <1>3 DEF Discard, Listening
  <2> QED BY <1>1, <1>2, <1>3, <2>1, KnownShorter DEF InPlace
<1>4. ASSUME SamePlaces,
             buf[k].human_name # NULL \/ (Ev.type = "name" /\ Ev.id = buf[k].wl_out)
               => buf'[k].human_name # NULL,
             buf[k].dim # 0 \/ (Ev.type = "mode" /\ Ev.id = buf[k].wl_out) => buf'[k].dim # 0
      PROVE  Kept
  BY <1>1, <1>2, <1>4, KnownShorter DEF InPlace, SamePlaces
<1>5. CASE Dropped
  <2>1. UNCHANGED <<buf, len, wlout>>
    BY <1>5, DroppedKeeps DEF table
  <2>2. Ev.type \notin {"name", "mode"} \/ Discard
    BY <1>5 DEF Dropped, reg_del_unknown, Roundtrip1, Roundtrip2, Synced, BindService, Take, Services
  <2> QED BY <1>3, <2>1, <2>2
<1>6. CASE BindOutput
  <2>1. PICK g, s : Bound(g, s)
    BY <1>6, BindSteps
  <2>2. CASE k = len
    <3>1. NewOutput(g, s).wl_out = g
      BY DEF NewOutput, Zero
    <3> QED BY <1>6, <2>1, <2>2, <3>1 DEF Bound
  <2>3. CASE k # len
    <3>1. k \in Live(len) /\ buf'[k] = buf[k]
      BY <2>1, <2>3 DEF Bound
    <3>2. buf[k].wl_out # g
      BY <1>2, <2>1, <3>1 DEF Bound
    <3>3. wlout'[buf[k].wl_out] = wlout[buf[k].wl_out] /\ Ev.type = "global"
      BY <1>2, <1>6, <2>1, <3>1, <3>2 DEF Bound, BindOutput, Take
    <3> QED BY <1>3, <3>1, <3>3
  <2> QED BY <2>2, <2>3
<1>7. CASE reg_del
  <2>1. PICK p : Gone(p)
    BY <1>7, RemoveSteps
  <2>2. PICK i \in Live(len) : (i = k \/ i = k + 1) /\ buf'[k] = buf[i]
    BY <2>1 DEF Gone
  <2>3. \A g \in Globals : wlout'[g].data = wlout[g].data
    BY <1>1, <2>1 DEF Gone, TypeOK, ObjectType, ProxyType
  <2>4. wlout[buf[i].wl_out].data.slot >= i
    BY <1>1 DEF PlaceInv, NotBelow
  <2>5. i = k
    BY <1>2, <2>2, <2>3, <2>4 DEF Live
  <2>6. Ev.type = "global_remove"
    BY <1>7 DEF reg_del, Take
  <2> QED BY <1>2, <1>3, <2>2, <2>3, <2>5, <2>6
<1>8. CASE out_mode
  <2>1. SamePlaces /\ Ev.type = "mode" /\ At \in Slots /\ out \in Output /\ At = wlout[Ev.id].data.slot
    BY <1>1, <1>8, DeliverType DEF out_mode, Deliver, Take, ListenerEvents, BindOutput, reg_del, At, Data
  <2>2. buf' = [buf EXCEPT ![At] = [out EXCEPT !.dim = Ev.arg]] /\ Ev.arg # 0
    BY <1>1, <1>8, <2>1, EventFields, EwdAssumption DEF EwdAssumption, out_mode, out
  <2>3. k \in Slots /\ k \in Live(len) /\ wlout[buf[k].wl_out].data.slot = k
    BY <1>2, <2>1 DEF SamePlaces
  <2>4. /\ \A i \in Slots : buf'[i].human_name = buf[i].human_name
        /\ \A i \in Slots : buf'[i].dim = IF i = At THEN Ev.arg ELSE buf[i].dim
    BY <1>1, <2>1, <2>2 DEF TypeOK, TableType, out, Output
  <2>5. Ev.id = buf[k].wl_out => At = k
    BY <2>1, <2>3
  <2> QED BY <1>4, <2>1, <2>2, <2>3, <2>4, <2>5
<1>9. CASE out_name
  <2>1. SamePlaces /\ Ev.type = "name" /\ At \in Slots /\ out \in Output /\ At = wlout[Ev.id].data.slot
    BY <1>1, <1>9, DeliverType DEF out_name, Deliver, Take, ListenerEvents, BindOutput, reg_del, At, Data
  <2>2. Connector[Ev.id] # NULL
    BY <1>1, <2>1, EventFields, EwdAssumption DEF EwdAssumption
  <2>3. buf' = [buf EXCEPT ![At] = [out EXCEPT !.human_name = Connector[Ev.id]]]
    BY <1>9 DEF out_name, out, Without
  <2>4. k \in Slots /\ k \in Live(len) /\ wlout[buf[k].wl_out].data.slot = k
    BY <1>2, <2>1 DEF SamePlaces
  <2>5. /\ \A i \in Slots : buf'[i].dim = buf[i].dim
        /\ \A i \in Slots : buf'[i].human_name = IF i = At THEN Connector[Ev.id] ELSE buf[i].human_name
    BY <1>1, <2>1, <2>3 DEF TypeOK, TableType, out, Output
  <2>6. Ev.id = buf[k].wl_out => At = k
    BY <2>1, <2>4
  <2> QED BY <1>4, <2>1, <2>2, <2>4, <2>5, <2>6
<1>10. CASE ls_conf
  <2>1. SamePlaces /\ Ev.type = "configure" /\ At \in Slots /\ out \in Output
    BY <1>1, <1>10, DeliverType DEF ls_conf, Deliver, Take, ListenerEvents, BindOutput, reg_del
  <2>2. Ev.arg # 0 /\ (buf' = [buf EXCEPT ![At] = Sized(out, Ev.arg)] \/ buf' = buf)
    BY <1>1, <1>10, <2>1, EventFields, EwdAssumption DEF EwdAssumption, ls_conf
  <2>3. Sized(out, Ev.arg).dim = Ev.arg /\ Sized(out, Ev.arg).human_name = out.human_name
    BY <2>1 DEF Sized, Output
  <2>4. \A i \in Slots : /\ buf'[i].human_name = buf[i].human_name
                         /\ buf'[i].dim = buf[i].dim \/ buf'[i].dim = Ev.arg
    BY <1>1, <2>1, <2>2, <2>3 DEF TypeOK, TableType, out
  <2> QED BY <1>2, <1>4, <2>1, <2>2, <2>4 DEF SamePlaces
<1>11. CASE ls_close
  <2>1. SamePlaces /\ Ev.type = "closed" /\ At \in Slots /\ out \in Output
    BY <1>1, <1>11, DeliverType DEF ls_close, Deliver, Take, ListenerEvents, BindOutput, reg_del
  <2>2. buf' = [buf EXCEPT ![At] = LayerFreed(out)] \/ buf' = buf
    BY <1>11 DEF ls_close
  <2>3. LayerFreed(out).dim = out.dim /\ LayerFreed(out).human_name = out.human_name
    BY <2>1 DEF LayerFreed, Output
  <2>4. \A i \in Slots : buf'[i].human_name = buf[i].human_name /\ buf'[i].dim = buf[i].dim
    BY <1>1, <2>1, <2>2, <2>3 DEF TypeOK, TableType, out
  <2> QED BY <1>2, <1>4, <2>1, <2>4 DEF SamePlaces
<1>12. CASE buf_free
  <2>1. SamePlaces /\ Ev.type = "release" /\ buf' = buf
    BY <1>1, <1>12 DEF buf_free, Deliver, Take, BindOutput, reg_del, table
  <2> QED BY <1>4, <2>1
<1> QED BY <1>1, <1>5, <1>6, <1>7, <1>8, <1>9, <1>10, <1>11, <1>12

\* A step that only adds events, by the compositor or while a message is
\* served, leaves what is known of the outputs alone.
LEMMA KnownSame ==
  ASSUME TypeInv, Serve \/ Compositor
  PROVE  /\ UNCHANGED <<len, wlout>> /\ \E T : Longer(T)
         /\ \A i \in Slots : /\ buf'[i].wl_out = buf[i].wl_out /\ buf'[i].dim = buf[i].dim
                             /\ buf'[i].human_name = buf[i].human_name
<1>1. TypeOK
  BY DEF TypeInv
<1>2. CASE Compositor
  <2>1. UNCHANGED <<buf, len, wlout>>
    BY <1>1, <1>2, CompositorSteps DEF table
  <2>2. \E T : Longer(T)
    BY <1>1, <1>2, CompositorSteps DEF Said
  <2> QED BY <2>1, <2>2
<1>3. CASE Serve
  <2>1. UNCHANGED <<len, wlout>> /\ Longer({"error"})
    BY <1>1, <1>3, ServeQueue
  <2>2. buf' = buf \/ (Selected /\ \E n, end : end \in {"memfd", "mmap", "pool", "buffer", "ok"}
                                     /\ buf' = [buf EXCEPT ![idx] = MkbufOutput(buf[idx], n, end)])
    <3>1. draw => Selected /\ buf' = [buf EXCEPT ![idx] = MkbufOutput(buf[idx], npix + 1, "ok")]
      BY DEF draw
    <3>2. mkbuf_fails => Selected /\ \E end \in {"memfd", "mmap", "pool", "buffer"} :
                           buf' = [buf EXCEPT ![idx] = MkbufOutput(buf[idx], npix + 1, end)]
      BY DEF mkbuf_fails, MkbufEnds
    <3>3. draw \/ mkbuf_fails \/ buf' = buf
      BY <1>3 DEF Serve, Accept, map_source, Unnamed, Skip, apply_done, table
    <3> QED BY <3>1, <3>2, <3>3
  <2>3. CASE buf' = buf
    BY <2>1, <2>3
  <2>4. ASSUME Selected, NEW n, NEW end \in {"memfd", "mmap", "pool", "buffer", "ok"},
               buf' = [buf EXCEPT ![idx] = MkbufOutput(buf[idx], n, end)]
        PROVE  \A i \in Slots : /\ buf'[i].wl_out = buf[i].wl_out /\ buf'[i].dim = buf[i].dim
                                /\ buf'[i].human_name = buf[i].human_name
    <3>1. idx \in Slots /\ buf[idx] \in Output
      BY <1>1, <2>4, LiveSlots DEF Selected
    <3>2. /\ MkbufOutput(buf[idx], n, end).wl_out = buf[idx].wl_out
          /\ MkbufOutput(buf[idx], n, end).dim = buf[idx].dim
          /\ MkbufOutput(buf[idx], n, end).human_name = buf[idx].human_name
      BY <3>1, <2>4 DEF MkbufOutput, Output
    <3> QED BY <1>1, <2>4, <3>1, <3>2 DEF TypeOK, TableType
  <2> QED BY <2>1, <2>2, <2>3, <2>4
<1> QED BY <1>2, <1>3

\* More events on their way change nothing about those that were.
LEMMA KnownLonger ==
  ASSUME NEW T, Longer(T), NEW k \in Slots, NEW m \in Nat, NEW n \in Nat, m <= n,
         buf'[k].wl_out = buf[k].wl_out, buf'[k].dim = buf[k].dim,
         buf'[k].human_name = buf[k].human_name, KnownBefore(k, m)
  PROVE  KnownBefore(k, n)'
<1>1. NameBefore(k, n)'
  <2>1. CASE buf[k].human_name # NULL
    BY <2>1 DEF NameBefore
  <2>2. CASE buf[k].human_name = NULL
    <3>1. PICK j \in 1..Len(wq) : j < m /\ wq[j].type = "name" /\ wq[j].id = buf[k].wl_out
      BY <2>2 DEF KnownBefore, NameBefore
    <3>2. j \in 1..Len(wq') /\ j < n /\ wq'[j] = wq[j]
      BY <3>1 DEF Longer
    <3> QED BY <3>1, <3>2 DEF NameBefore
  <2> QED BY <2>1, <2>2
<1>2. SizeBefore(k, n)'
  <2>1. CASE buf[k].dim # 0
    BY <2>1 DEF SizeBefore
  <2>2. CASE buf[k].dim = 0
    <3>1. PICK j \in 1..Len(wq) : j < m /\ wq[j].type = "mode" /\ wq[j].id = buf[k].wl_out
      BY <2>2 DEF KnownBefore, SizeBefore
    <3>2. j \in 1..Len(wq') /\ j < n /\ wq'[j] = wq[j]
      BY <3>1 DEF Longer
    <3> QED BY <3>1, <3>2 DEF SizeBefore
  <2> QED BY <2>1, <2>2
<1> QED BY <1>1, <1>2 DEF KnownBefore

\* What has been said of an output is known, or on its way, ever after.
LEMMA ToldNext ==
  ASSUME PlaceInv, Born, ToldKnown, [Next]_vars PROVE ToldKnown'
<1> SUFFICES ASSUME Without({"oom"}), Running'
             PROVE  /\ \A g \in told' : wlout'[g].st # "none"
                    /\ \A k \in Live(len') :
                         wlout'[buf'[k].wl_out].data.slot = k /\ buf'[k].wl_out \in told'
                           => KnownBefore(k, Len(wq) + 1)'
  BY DEF ToldKnown, InPlace, Without
<1>1. /\ TypeOK /\ TypeInv /\ QueueOK /\ TableOK /\ Running /\ Serving
      /\ \/ SamePlaces /\ (Quiet \/ out_name \/ ls_close)
         \/ BindOutput /\ \E g, s : Bound(g, s)
         \/ reg_del /\ \E p : Gone(p)
      /\ Dispatch \/ Serve \/ Compositor \/ UNCHANGED vars
  BY TableSteps, RunningSteps DEF PlaceInv, TableInv, TypeInv
<1>2. /\ \A g \in told : wlout[g].st # "none" /\ g \in Globals
      /\ \A i \in Live(len) : InPlace(i) /\ buf[i].wl_out \in told => KnownBefore(i, Len(wq) + 1)
  BY <1>1 DEF ToldKnown, TypeOK, CompositorType
<1>3. \A g \in told' : g \in told \/ (Describe(g) /\ g \in Globals)
  BY <1>1, GainedEvents DEF vars, compositor, Plug, Unplug, Describe
<1>4. \A g \in told' : wlout'[g].st # "none"
  <2>1. \A g \in Globals : wlout[g].st # "none" => wlout'[g].st # "none"
    BY <1>1 DEF SamePlaces, Bound, Gone, TypeOK, ObjectType, ProxyType
  <2> QED BY <1>2, <1>3, <2>1 DEF Describe
<1>5. ASSUME NEW k \in Live(len'), wlout'[buf'[k].wl_out].data.slot = k, buf'[k].wl_out \in told'
      PROVE  KnownBefore(k, Len(wq) + 1)'
  <2>1. CASE Dispatch
    <3>1. Shorter /\ UNCHANGED told
      BY <1>1, <2>1, DispatchSteps DEF compositor
    <3>2. ~(buf'[k].wl_out = Ev.id /\ wlout[Ev.id].st = "none")
      BY <1>2, <1>5, <3>1
    <3>3. /\ k \in Live(len) /\ buf'[k].wl_out = buf[k].wl_out /\ InPlace(k)
          /\ \A n \in Nat : KnownBefore(k, n + 1) => KnownBefore(k, n)'
      BY <1>1, <1>5, <2>1, <3>2, KnownHandled
    <3>4. KnownBefore(k, Len(wq) + 1)
      BY <1>2, <1>5, <3>1, <3>3
    <3>5. PICK n : n = Len(wq)
      OBVIOUS
    <3>6. n \in Nat /\ n = Len(wq') + 1
      BY <3>1, <3>5 DEF Shorter
    <3>7. KnownBefore(k, n)'
      BY <3>3, <3>4, <3>5, <3>6
    <3> QED BY <3>6, <3>7
  <2>2. CASE Serve \/ Compositor
    <3>1. /\ UNCHANGED <<len, wlout>> /\ \E T : Longer(T)
          /\ \A i \in Slots : /\ buf'[i].wl_out = buf[i].wl_out /\ buf'[i].dim = buf[i].dim
                              /\ buf'[i].human_name = buf[i].human_name
      BY <1>1, <2>2, KnownSame
    <3>2. k \in Slots /\ k \in Live(len) /\ InPlace(k) /\ buf'[k].wl_out = buf[k].wl_out
      BY <1>1, <1>5, <3>1, LiveSlots DEF InPlace
    <3>3. PICK n : n = Len(wq') + 1
      OBVIOUS
    <3>4. n \in Nat /\ Len(wq) \in Nat /\ Len(wq) + 1 <= n /\ Len(wq) + 1 \in Nat
      BY <3>1, <3>3 DEF Longer
    <3>5. CASE buf[k].wl_out \in told
      <4>1. KnownBefore(k, Len(wq) + 1)
        BY <1>2, <3>2, <3>5
      <4>2. KnownBefore(k, n)'
        BY <3>1, <3>2, <3>4, <4>1, KnownLonger
      <4> QED BY <3>3, <4>2
    <3>6. ASSUME NEW g \in Globals, Describe(g), g = buf'[k].wl_out PROVE KnownBefore(k, Len(wq) + 1)'
      <4>1. /\ Len(wq') = Len(wq) + 2
            /\ wq'[Len(wq) + 1].type = "mode" /\ wq'[Len(wq) + 1].id = g
            /\ wq'[Len(wq) + 2].type = "name" /\ wq'[Len(wq) + 2].id = g
        BY <1>1, <3>6, DescribeSends
      <4>2. /\ Len(wq) + 1 \in 1..Len(wq') /\ Len(wq) + 2 \in 1..Len(wq')
            /\ Len(wq) + 1 < n /\ Len(wq) + 2 < n
        BY <3>3, <3>4, <4>1
      <4>3. NameBefore(k, n)' /\ SizeBefore(k, n)'
        BY <3>6, <4>1, <4>2 DEF NameBefore, SizeBefore
      <4> QED BY <3>3, <4>3 DEF KnownBefore
    <3> QED BY <1>3, <1>5, <3>2, <3>5, <3>6
  <2>3. CASE UNCHANGED vars
    <3>1. UNCHANGED <<buf, wq, told, len, wlout>>
      BY <2>3 DEF vars, table, objects, compositor
    <3>2. KnownBefore(k, Len(wq) + 1)
      BY <1>2, <1>5, <3>1 DEF InPlace
    <3> QED BY <3>1, <3>2 DEF KnownBefore, NameBefore, SizeBefore
  <2> QED BY <1>1, <2>1, <2>2, <2>3
<1> QED BY <1>4, <1>5

\* Only an error reaches the daemon while it works on a message.
LEMMA QuietlyNext == ASSUME TypeInv, Quietly, [Next]_vars, Running' PROVE Quietly'
<1>1. TypeOK
  BY DEF TypeInv
<1>2. CASE Dispatch
  BY <1>1, <1>2, DispatchSteps DEF Dispatching, Quietly
<1>3. CASE Compositor
  BY <1>1, <1>3, CompositorSteps DEF Dispatching, Quietly
<1>4. CASE UNCHANGED vars
  BY <1>4 DEF vars, objects, compositor, Quietly
<1>5. CASE Serve
  <2>1. /\ Longer({"error"}) /\ UNCHANGED <<plug, told, wlout>> /\ pc \in {"loop", "map", "apply"}
        /\ pc = "loop" => wq' = wq /\ wq = <<>> /\ OnTime
    BY <1>1, <1>5, ServeQueue
  <2>2. \A k \in 1..Len(wq') : wq'[k].type = "error"
    <3>1. \A k \in 1..Len(wq) : wq[k].type = "error"
      BY <2>1 DEF Quietly
    <3> QED BY <2>1, <3>1 DEF Longer
  <2>3. Without({"late_info"}) => \A g \in Globals : wlout[g].st = "live" /\ plug[g] = "on" => g \in told
    BY <2>1 DEF Quietly, OnTime, Without
  <2> QED BY <2>1, <2>2, <2>3 DEF Quietly, Without
<1> QED BY <1>2, <1>3, <1>4, <1>5, RunningSteps

\* A roundtrip ends with its sync and with nothing else.
LEMMA SyncSteps ==
  ASSUME TypeInv, [Next]_vars, Running'
  PROVE  \/ pc' = pc /\ (Shorter => Ev.type # "sync" \/ pc \notin {"roundtrip1", "roundtrip2"})
         \/ Shorter /\ Ev.type = "sync" /\ pc = "roundtrip1" /\ pc' = "roundtrip2"
         \/ Shorter /\ Ev.type = "sync" /\ pc = "roundtrip2" /\ pc' = "loop"
         \/ Serve /\ pc \in {"loop", "map", "apply"} /\ pc' \in {"loop", "map", "apply"}
<1>1. TypeOK
  BY DEF TypeInv
<1>2. CASE Dispatch
  <2>1. Shorter /\ (Dropped \/ BindOutput \/ reg_del \/ out_mode \/ out_name \/ ls_conf \/ ls_close \/ buf_free)
    BY <1>1, <1>2, DispatchSteps
  <2>2. CASE Roundtrip1 \/ Roundtrip2
    BY <2>1, <2>2 DEF Roundtrip1, Roundtrip2, Synced, Take
  <2>3. CASE ~Roundtrip1 /\ ~Roundtrip2
    <3>1. pc' = pc
      BY <2>1, <2>3 DEF Running, Proceed, Dropped, Discard, reg_del_unknown, BindService, BindOutput, reg_del, out_mode, out_name, ls_conf, ls_close, buf_free
    <3>2. Ev.type # "sync"
      BY <2>1, <2>3 DEF Dropped, Discard, reg_del_unknown, BindService, BindOutput, reg_del, out_mode, out_name, ls_conf, ls_close, buf_free, Deliver, Take, ListenerEvents, Services
    <3> QED BY <3>1, <3>2
  <2> QED BY <2>2, <2>3
<1>3. CASE Serve
  BY <1>1, <1>3, ServeQueue DEF Running
<1>4. CASE Compositor
  <2>1. pc' = pc /\ \E T : Longer(T)
    BY <1>1, <1>4, CompositorSteps DEF Said
  <2>2. ~Shorter
    BY <2>1 DEF Longer, Shorter
  <2> QED BY <2>1, <2>2
<1>5. CASE UNCHANGED vars
  <2>1. wq' = wq /\ pc' = pc
    BY <1>5 DEF vars
  <2>2. ~Shorter
    BY <2>1 DEF Shorter
  <2> QED BY <2>1, <2>2
<1> QED BY <1>2, <1>3, <1>4, <1>5, RunningSteps

\* Who adds a sync, and who an announcement.
LEMMA SyncLonger ==
  ASSUME TypeInv, QueueOK, [Next]_vars, Running', ~Shorter
  PROVE  \E T : /\ Longer(T)
                /\ "sync" \in T => SyncReply /\ Len(wq') = Len(wq) + 1
                /\ "global" \in T => \E g \in Globals : Plug(g) /\ \A k \in 1..Len(wq') : k > Len(wq) => wq'[k].id = g
<1>1. TypeOK
  BY DEF TypeInv
<1>2. UNCHANGED vars => Longer({})
  BY <1>1 DEF vars, Longer, TypeOK, CompositorType
<1>3. ASSUME NEW g \in Globals, Plug(g)
      PROVE  Longer({"global"}) /\ \A k \in 1..Len(wq') : k > Len(wq) => wq'[k].id = g
  <2>1. PICK v \in Versions : Say(Event("global", g, v))
    BY <1>3 DEF Plug
  <2>2. PICK e \in EventTypes : e = Event("global", g, v)
    BY SaidTypes
  <2>3. Send(<<e>>) /\ e.type = "global" /\ e.id = g
    BY <2>1, <2>2 DEF Say, Event
  <2>4. Longer({e.type}) /\ Len(wq') = Len(wq) + 1 /\ wq'[Len(wq) + 1] = e
    BY <1>1, <2>3, SentOne
  <2>5. \A k \in 1..Len(wq') : k > Len(wq) => k = Len(wq) + 1
    BY <2>4 DEF Longer
  <2> QED BY <2>3, <2>4, <2>5
<1>4. SyncReply => Longer({"sync"}) /\ Len(wq') = Len(wq) + 1
  <2> SUFFICES ASSUME SyncReply PROVE Longer({"sync"}) /\ Len(wq') = Len(wq) + 1
    OBVIOUS
  <2>1. PICK e \in EventTypes : e = Event("sync", 0, 0)
    BY SaidTypes
  <2>2. Send(<<e>>) /\ e.type = "sync"
    BY <2>1 DEF SyncReply, Event
  <2>3. Longer({e.type}) /\ Len(wq') = Len(wq) + 1
    BY <1>1, <2>2, SentOne
  <2> QED BY <2>2, <2>3
<1> QED BY <1>2, <1>3, <1>4, GainedEvents

\* The answer to the second roundtrip comes behind the descriptions.
LEMMA SyncNext ==
  ASSUME PlaceInv, Born, ToldKnown, SyncInv, [Next]_vars PROVE SyncInv'
<1> SUFFICES ASSUME Running'
             PROVE  /\ OneSync' /\ InitialBound' /\ SyncKnown'
                    /\ \A g \in Initial : plug'[g] # "off"
                    /\ pc' \notin {"roundtrip1", "roundtrip2"} =>
                         \A k \in 1..Len(wq') : wq'[k].type # "sync"
  BY DEF SyncInv
<1>1. /\ TypeOK /\ TypeInv /\ QueueOK /\ TableOK /\ Running /\ Serving
      /\ Dispatch \/ Serve \/ Compositor \/ UNCHANGED vars
  BY RunningSteps DEF PlaceInv, TableInv, TypeInv
<1>2. /\ OneSync /\ InitialBound /\ SyncKnown /\ \A g \in Initial : plug[g] # "off"
      /\ pc \notin {"roundtrip1", "roundtrip2"} => \A k \in 1..Len(wq) : wq[k].type # "sync"
  BY <1>1 DEF SyncInv
<1>3. Initial \subseteq Globals
  BY EwdAssumption DEF EwdAssumption
<1>4. \A g \in Initial : plug'[g] # "off"
  BY <1>1, <1>2, <1>3, GainedEvents DEF vars, compositor, Plug, Unplug, TypeOK, CompositorType
<1>5. CASE Shorter
  <2>1. \A k \in 1..Len(wq') : /\ k + 1 \in 1..Len(wq) /\ wq'[k] = wq[k + 1] /\ k \in Nat
                               /\ k + 1 # 1
    BY <1>5 DEF Shorter
  <2>2. 1 \in 1..Len(wq) /\ Ev = wq[1] /\ ~Compositor /\ ~Serve /\ ~UNCHANGED vars
    <3>1. \A T : ~Longer(T)
      BY <1>5 DEF Shorter, Longer
    <3>2. wq' # wq
      BY <1>5 DEF Shorter
    <3> QED BY <1>1, <1>5, <3>1, <3>2, KnownSame DEF Shorter, vars
  <2>3. Dispatch
    BY <1>1, <2>2
  <2>4. OneSync'
    <3> SUFFICES ASSUME NEW k \in 1..Len(wq'), NEW l \in 1..Len(wq'), wq'[k].type = "sync",
                        wq'[l].type = "sync"
                 PROVE  k = l
      BY DEF OneSync
    <3>1. k + 1 = l + 1
      BY <1>2, <2>1 DEF OneSync
    <3> QED BY <2>1, <3>1
  <2>5. Ev.type = "sync" => \A k \in 1..Len(wq') : wq'[k].type # "sync"
    BY <1>2, <2>1, <2>2 DEF OneSync
  <2>6. InitialBound'
    <3> SUFFICES ASSUME NEW l \in 1..Len(wq'), wq'[l].type = "global", wq'[l].id \in Initial
                 PROVE  pc' = "roundtrip1" /\ \A k \in 1..Len(wq') : wq'[k].type = "sync" => l < k
      BY DEF InitialBound
    <3>1. pc = "roundtrip1" /\ \A k \in 1..Len(wq) : wq[k].type = "sync" => l + 1 < k
      BY <1>2, <2>1 DEF InitialBound
    <3>2. Ev.type # "sync"
      BY <2>1, <2>2, <3>1
    <3>3. \A k \in 1..Len(wq') : wq'[k].type = "sync" => l < k
      <4> SUFFICES ASSUME NEW k \in 1..Len(wq'), wq'[k].type = "sync" PROVE l < k
        OBVIOUS
      <4>1. l + 1 < k + 1
        BY <2>1, <3>1
      <4> QED BY <2>1, <4>1
    <3> QED BY <1>1, <3>1, <3>2, <3>3, SyncSteps
  <2>7. SyncKnown'
    <3> SUFFICES ASSUME Without({"oom"}), pc' = "roundtrip2", NEW n \in 1..Len(wq'), wq'[n].type = "sync",
                        NEW i \in Live(len'), wlout'[buf'[i].wl_out].data.slot = i,
                        buf'[i].wl_out \in Initial, plug'[buf'[i].wl_out] = "on"
                 PROVE  KnownBefore(i, n)'
      BY DEF SyncKnown, InPlace, Without
    <3>1. pc = "roundtrip2"
      BY <1>1, <2>5, SyncSteps
    <3>2. ~(BindOutput /\ Ev.id \in Initial)
      BY <1>2, <2>2, <3>1 DEF InitialBound, BindOutput, Take
    <3>3. /\ i \in Live(len) /\ buf'[i].wl_out = buf[i].wl_out /\ InPlace(i)
          /\ \A m \in Nat : KnownBefore(i, m + 1) => KnownBefore(i, m)'
      BY <1>1, <2>3, <3>2, KnownHandled
    <3>4. UNCHANGED plug
      BY <1>1, <2>3, DispatchSteps DEF compositor
    <3>5. n + 1 \in 1..Len(wq) /\ wq[n + 1].type = "sync" /\ n \in Nat
      BY <2>1
    <3>6. KnownBefore(i, n + 1)
      BY <1>2, <3>1, <3>3, <3>4, <3>5 DEF SyncKnown
    <3> QED BY <3>3, <3>5, <3>6
  <2>8. pc' \notin {"roundtrip1", "roundtrip2"} => \A k \in 1..Len(wq') : wq'[k].type # "sync"
    BY <1>1, <1>2, <2>1, <2>2, <2>5, SyncSteps
  <2> QED BY <1>4, <2>4, <2>6, <2>7, <2>8
<1>6. CASE ~Shorter
  <2>1. PICK T : /\ Longer(T)
                 /\ "sync" \in T => SyncReply /\ Len(wq') = Len(wq) + 1
                 /\ "global" \in T => \E g \in Globals :
                      Plug(g) /\ \A k \in 1..Len(wq') : k > Len(wq) => wq'[k].id = g
    BY <1>1, <1>6, SyncLonger
  <2>2. \A k \in 1..Len(wq') : \/ k \in 1..Len(wq) /\ wq'[k] = wq[k]
                               \/ k > Len(wq) /\ wq'[k].type \in T
    BY <2>1 DEF Longer
  <2>3. \A k \in 1..Len(wq') : k > Len(wq) /\ wq'[k].type = "sync" =>
          SyncReply /\ k = Len(wq) + 1 /\ \A j \in 1..Len(wq) : wq[j].type # "sync"
    BY <2>1, <2>2 DEF Longer, SyncReply
  <2>4. \A k \in 1..Len(wq') : k > Len(wq) /\ wq'[k].type = "global" => wq'[k].id \notin Initial
    BY <1>2, <2>1, <2>2 DEF Plug
  <2>5. \/ pc' = pc
        \/ pc \notin {"roundtrip1", "roundtrip2"} /\ pc' \notin {"roundtrip1", "roundtrip2"}
    BY <1>1, <1>6, SyncSteps
  <2>6. OneSync'
    BY <1>2, <2>2, <2>3 DEF OneSync
  <2>7. InitialBound'
    <3> SUFFICES ASSUME NEW l \in 1..Len(wq'), wq'[l].type = "global", wq'[l].id \in Initial
                 PROVE  pc' = "roundtrip1" /\ \A k \in 1..Len(wq') : wq'[k].type = "sync" => l < k
      BY DEF InitialBound
    <3>1. l \in 1..Len(wq) /\ wq'[l] = wq[l]
      BY <2>2, <2>4
    <3>2. pc = "roundtrip1" /\ \A k \in 1..Len(wq) : wq[k].type = "sync" => l < k
      BY <1>2, <3>1 DEF InitialBound
    <3>3. ~SyncReply
      BY <3>2 DEF SyncReply
    <3> QED BY <2>2, <2>3, <2>5, <3>2, <3>3
  <2>8. SyncKnown'
    <3> SUFFICES ASSUME Without({"oom"}), pc' = "roundtrip2", NEW n \in 1..Len(wq'), wq'[n].type = "sync",
                        NEW i \in Live(len'), wlout'[buf'[i].wl_out].data.slot = i,
                        buf'[i].wl_out \in Initial, plug'[buf'[i].wl_out] = "on"
                 PROVE  KnownBefore(i, n)'
      BY DEF SyncKnown, InPlace, Without
    <3>1. pc = "roundtrip2"
      BY <2>5
    <3>2. CASE UNCHANGED vars
      <4>1. UNCHANGED <<buf, wq, plug, len, wlout>>
        BY <3>2 DEF vars, table, objects, compositor
      <4>2. KnownBefore(i, n)
        BY <1>2, <3>1, <4>1 DEF SyncKnown, InPlace
      <4> QED BY <4>1, <4>2 DEF KnownBefore, NameBefore, SizeBefore
    <3>3. CASE Serve \/ Compositor
      <4>1. /\ UNCHANGED <<len, wlout>>
            /\ \A j \in Slots : /\ buf'[j].wl_out = buf[j].wl_out /\ buf'[j].dim = buf[j].dim
                                /\ buf'[j].human_name = buf[j].human_name
        BY <1>1, <3>3, KnownSame
      <4>2. i \in Live(len) /\ i \in Slots /\ InPlace(i) /\ buf'[i].wl_out = buf[i].wl_out /\ n \in Nat
        BY <1>1, <4>1, LiveSlots DEF InPlace
      <4>3. PICK g \in Globals : g = buf[i].wl_out
        BY <1>1, <4>2 DEF TableOK
      <4>4. plug[g] = "on"
        <5>1. plug'[g] = "on" /\ plug[g] # "off"
          BY <1>2, <4>2, <4>3
        <5> QED BY <1>1, <4>3, <5>1, GainedEvents DEF vars, compositor, Plug, Unplug, TypeOK, CompositorType
      <4>5. CASE n \in 1..Len(wq) /\ wq'[n] = wq[n]
        <5>1. KnownBefore(i, n)
          BY <1>2, <3>1, <4>2, <4>3, <4>4, <4>5 DEF SyncKnown
        <5> QED BY <2>1, <4>1, <4>2, <5>1, KnownLonger
      <4>6. CASE n > Len(wq)
        <5>1. SyncReply /\ n = Len(wq) + 1
          BY <2>3, <4>6
        <5>2. g \in told
          BY <1>1, <4>2, <4>3, <4>4, <5>1 DEF SyncReply, TableOK
        <5>3. KnownBefore(i, n)
          BY <1>1, <4>2, <4>3, <5>1, <5>2 DEF ToldKnown
        <5> QED BY <2>1, <4>1, <4>2, <5>3, KnownLonger
      <4> QED BY <2>2, <4>5, <4>6
    <3>4. ~Dispatch
      BY <1>1, <1>6, DispatchSteps
    <3> QED BY <1>1, <3>2, <3>3, <3>4
  <2>9. pc' \notin {"roundtrip1", "roundtrip2"} => \A k \in 1..Len(wq') : wq'[k].type # "sync"
    BY <1>2, <2>2, <2>3, <2>5 DEF SyncReply
  <2> QED BY <1>4, <2>6, <2>7, <2>8, <2>9
<1> QED BY <1>5, <1>6

-----------------------------------------------------------------------------
(* Errors.                                                                 *)

\* There is no error at first ...
LEMMA ErrorInit == Init => NoErrors
<1> SUFFICES ASSUME Init PROVE NoErrors
  OBVIOUS
<1>1. pc = "roundtrip1"
  BY DEF Init
<1>2. \A k \in 1..Len(wq) : wq[k].type # "error"
  <2>1. PICK offer \in SUBSET Services, ver \in [Services \cup {"global"} -> Versions] :
          \E q \in SetToSeqs(Advertised(offer, ver)) :
            /\ wq = Append(q, Event("sync", 0, 0)) /\ q \in Seq(EventTypes)
            /\ \A k \in 1..Len(q) : q[k] \in Advertised(offer, ver)
    BY FirstEvents
  <2>2. \A a \in Advertised(offer, ver) : a.type # "error"
    BY DEF Advertised, Event, Services
  <2>3. Event("sync", 0, 0) \in EventTypes /\ Event("sync", 0, 0).type = "sync"
    BY DEF Event, EventTypes, Old
  <2> QED BY <2>1, <2>2, <2>3
<1> QED BY <1>1, <1>2 DEF NoErrors

\* ... and none when surfaces are configured in time.
LEMMA ErrorNext == ASSUME TypeInv, QueueOK, NoErrors, [Next]_vars PROVE NoErrors'
<1> SUFFICES ASSUME Without({"late_configure"}), Running'
             PROVE  /\ \A k \in 1..Len(wq') : wq'[k].type # "error"
                    /\ pc' \in {"map", "apply"} =>
                         \A s \in Surfs : surf'[s].st = "created" => surf'[s].view = "closed"
  BY DEF NoErrors, Without
<1>1. TypeOK /\ Running /\ (Dispatch \/ Serve \/ Compositor \/ UNCHANGED vars)
  BY RunningSteps DEF TypeInv
<1>2. /\ \A k \in 1..Len(wq) : wq[k].type # "error"
      /\ pc \in {"map", "apply"} =>
           \A s \in Surfs : surf[s].st = "created" => surf[s].view = "closed"
  BY <1>1 DEF NoErrors
<1>3. ASSUME NEW T, Longer(T), "error" \notin T PROVE \A k \in 1..Len(wq') : wq'[k].type # "error"
  BY <1>2, <1>3 DEF Longer
<1>4. CASE Dispatch
  <2>1. Shorter /\ Dispatching'
    BY <1>1, <1>4, DispatchSteps
  <2> QED BY <1>2, <2>1 DEF Shorter, Dispatching
<1>5. CASE Compositor
  <2>1. Dispatching' /\ \E T : Longer(T) /\ "error" \notin T
    BY <1>1, <1>5, CompositorSteps DEF Said, Dispatching
  <2> QED BY <1>3, <2>1 DEF Dispatching
<1>6. CASE UNCHANGED vars
  BY <1>2, <1>6 DEF vars, objects
<1>7. CASE Serve
  <2>1. CASE draw
    <3>1. pc = "apply" /\ \A s \in Surfs : surf'[s].st = surf[s].st /\ surf'[s].view = surf[s].view
      BY <1>1, <2>1 DEF draw, Selected, TypeOK, ObjectType, SurfaceType
    <3>2. UNCHANGED wq
      <4>1. SurfaceFault(buf[idx].surf) = {} => buf[idx].surf # 0
        BY DEF SurfaceFault
      <4>2. buf[idx].surf \in Surfs \cup {0}
        BY <1>1, <2>1, LiveSlots DEF draw, Selected, Output
      <4> QED BY <1>2, <2>1, <3>1, <4>1, <4>2 DEF draw
    <3> QED BY <1>2, <3>1, <3>2
  <2>2. CASE ~draw
    <3>1. UNCHANGED <<wq, surf>>
      BY <1>7, <2>2 DEF Serve, Accept, map_source, Unnamed, Skip, mkbuf_fails, apply_done, objects
    <3>2. pc = "loop" => OnTime
      BY <1>1, <1>7, ServeQueue
    <3>3. pc \in {"loop", "map", "apply"}
      BY <1>1, <1>7, ServeQueue
    <3> QED BY <1>2, <3>1, <3>2, <3>3 DEF OnTime, Without
  <2> QED BY <2>1, <2>2
<1> QED BY <1>1, <1>4, <1>5, <1>6, <1>7

-----------------------------------------------------------------------------
(* Buffers.                                                                *)

ReleaseOf(b) == Event("release", b, 0)

\* The fields of a release.
LEMMA ReleaseFields ==
  /\ \A b : ReleaseOf(b).type = "release" /\ ReleaseOf(b).id = b
  /\ \A e \in EventTypes : e.type = "release" => e = ReleaseOf(e.id) /\ e.id \in Pixs
BY DEF ReleaseOf, Event, EventTypes, Services

\* Handling the release of a buffer ends its use, and no other event does.
LEMMA UseShorter ==
  ASSUME TypeOK, Shorter, ReleasedOnce, \A b \in Pixs : pix'[b].busy = pix[b].busy
  PROVE  /\ ReleasedOnce'
         /\ \A b \in Pixs : InUse(b)' <=> InUse(b) /\ Ev # ReleaseOf(b)
<1>1. ReleasedOnce'
  <2>1. \A b \in Pixs : pix'[b].busy => \A k \in 1..Len(wq') : wq'[k] # Event("release", b, 0)
    BY DEF ReleasedOnce, Shorter
  <2>2. ASSUME NEW k \in 1..Len(wq'), NEW l \in 1..Len(wq'), wq'[k].type = "release", wq'[l] = wq'[k]
        PROVE  k = l
    <3>1. k + 1 = l + 1
      BY <2>2 DEF ReleasedOnce, Shorter
    <3> QED BY <3>1
  <2> QED BY <2>1, <2>2 DEF ReleasedOnce
<1>2. ASSUME NEW b \in Pixs, InUse(b)' PROVE InUse(b) /\ Ev # ReleaseOf(b)
  <2>1. CASE pix'[b].busy
    BY <2>1 DEF InUse, ReleasedOnce, Shorter, ReleaseOf
  <2>2. CASE \E k \in 1..Len(wq') : wq'[k] = ReleaseOf(b)
    <3>1. PICK k \in 1..Len(wq') : wq'[k] = ReleaseOf(b)
      BY <2>2
    <3>2. k + 1 \in 1..Len(wq) /\ wq[k + 1] = ReleaseOf(b) /\ k + 1 # 1 /\ 1 \in 1..Len(wq)
      BY <3>1 DEF Shorter
    <3>3. wq[1] # ReleaseOf(b)
      BY <3>2, ReleaseFields DEF ReleasedOnce
    <3> QED BY <3>2, <3>3 DEF InUse, ReleaseOf, Shorter
  <2> QED BY <1>2, <2>1, <2>2 DEF InUse, ReleaseOf
<1>3. ASSUME NEW b \in Pixs, InUse(b), Ev # ReleaseOf(b) PROVE InUse(b)'
  <2>1. CASE pix[b].busy
    BY <2>1 DEF InUse
  <2>2. CASE \E k \in 1..Len(wq) : wq[k] = ReleaseOf(b)
    <3>1. PICK k \in 1..Len(wq) : wq[k] = ReleaseOf(b)
      BY <2>2
    <3>2. k - 1 \in 1..Len(wq') /\ wq'[k - 1] = wq[k]
      BY <1>3, <3>1 DEF Shorter
    <3> QED BY <3>1, <3>2 DEF InUse, ReleaseOf
  <2> QED BY <1>3, <2>1, <2>2 DEF InUse, ReleaseOf
<1> QED BY <1>1, <1>2, <1>3

\* Other events than releases leave the uses alone.
LEMMA UseLonger ==
  ASSUME ReleasedOnce, NEW T, Longer(T), "release" \notin T, NEW B \in SUBSET Pixs,
         \A b \in B : pix'[b].busy = pix[b].busy,
         \A b \in Pixs \ B : ~InUse(b)
  PROVE  ReleasedOnce' /\ \A b \in B : InUse(b)' <=> InUse(b)
<1>1. /\ \A k \in 1..Len(wq) : k \in 1..Len(wq') /\ wq'[k] = wq[k]
      /\ \A k \in 1..Len(wq') : (k \in 1..Len(wq) /\ wq'[k] = wq[k]) \/ wq'[k].type # "release"
  BY DEF Longer
<1>2. \A b \in Pixs : (\E k \in 1..Len(wq') : wq'[k] = ReleaseOf(b)) <=> \E k \in 1..Len(wq) : wq[k] = ReleaseOf(b)
  BY <1>1, ReleaseFields
<1>3. \A b \in B : InUse(b)' <=> InUse(b)
  BY <1>2 DEF InUse, ReleaseOf
<1>4. \A b \in Pixs : pix'[b].busy => \A k \in 1..Len(wq') : wq'[k] # ReleaseOf(b)
  <2> SUFFICES ASSUME NEW b \in Pixs, pix'[b].busy, NEW j \in 1..Len(wq'), wq'[j] = ReleaseOf(b) PROVE FALSE
    OBVIOUS
  <2>1. PICK k \in 1..Len(wq) : wq[k] = ReleaseOf(b)
    BY <1>2
  <2>2. InUse(b)
    BY <2>1 DEF InUse, ReleaseOf
  <2> QED BY <2>1, <2>2 DEF ReleasedOnce, ReleaseOf
<1>5. ReleasedOnce'
  BY <1>1, <1>4 DEF ReleasedOnce, ReleaseOf
<1> QED BY <1>3, <1>5

\* What the compositor releases is in use until that is handled.
LEMMA UseRelease ==
  ASSUME TypeOK, ReleasedOnce, NEW r \in Pixs, Release(r), Said("release", r),
         wq'[Len(wq) + 1] = ReleaseOf(r)
  PROVE  ReleasedOnce' /\ \A b \in Pixs : InUse(b)' <=> InUse(b)
<1>1. /\ pix[r].busy /\ ~pix'[r].busy
      /\ \A b \in Pixs : b # r => pix'[b].busy = pix[b].busy
  BY DEF Release, TypeOK, ObjectType, BufferType
<1>2. /\ \A k \in 1..Len(wq) : k \in 1..Len(wq') /\ wq'[k] = wq[k]
      /\ \A k \in 1..Len(wq') : (k \in 1..Len(wq) /\ wq'[k] = wq[k])
                                 \/ (k = Len(wq) + 1 /\ wq'[k] = ReleaseOf(r))
      /\ Len(wq) + 1 \in 1..Len(wq')
  BY DEF Said, Longer
<1>3. \A k \in 1..Len(wq) : wq[k] # ReleaseOf(r)
  BY <1>1 DEF ReleasedOnce, ReleaseOf
<1>4. \A b \in Pixs : b # r => ReleaseOf(b) # ReleaseOf(r)
  BY ReleaseFields
<1>5. ReleasedOnce'
  <2>1. \A b \in Pixs : pix'[b].busy => \A k \in 1..Len(wq') : wq'[k] # ReleaseOf(b)
    BY <1>1, <1>2, <1>4 DEF ReleasedOnce, ReleaseOf
  <2>2. \A k, l \in 1..Len(wq') : wq'[k].type = "release" /\ wq'[l] = wq'[k] => k = l
    BY <1>2, <1>3 DEF ReleasedOnce
  <2> QED BY <2>1, <2>2 DEF ReleasedOnce, ReleaseOf
<1>6. InUse(r) /\ InUse(r)'
  BY <1>1, <1>2 DEF InUse, ReleaseOf
<1>7. \A b \in Pixs : b # r => (InUse(b)' <=> InUse(b))
  BY <1>1, <1>2, <1>4 DEF InUse, ReleaseOf
<1> QED BY <1>5, <1>6, <1>7

\* What drawing does: the new buffer is the one of the slot at hand.
LEMMA DrawSteps ==
  ASSUME TypeInv, draw
  PROVE  LET n == npix + 1 IN
         /\ pc = "apply" /\ idx \in Live(len) /\ idx \in Slots /\ idx \in Nat /\ idx' = idx + 1
         /\ n \in Pixs /\ npix \in Nat /\ npix' = n /\ mapped' = mapped \cup {n}
         /\ buf'[idx].wl_buf = n /\ buf'[idx].map = n /\ buf'[idx].surf = buf[idx].surf
         /\ buf'[idx].dim = buf[idx].dim /\ buf'[idx].human_name = buf[idx].human_name
         /\ \A i \in Slots : i # idx => buf'[i] = buf[i]
         /\ pix'[n].st = "live" /\ pix'[n].data.slot = idx /\ pix'[n].img = msg.img
         /\ pix'[n].dim = buf[idx].dim
         /\ \A b \in Pixs : b # n => pix'[b] = pix[b]
         /\ \A s \in Surfs : surf'[s].content = IF s = buf[idx].surf THEN n ELSE surf[s].content
         /\ Longer({"error"}) /\ UNCHANGED <<len, wlout, msg>>
<1> DEFINE n == npix + 1
<1>1. TypeOK /\ Selected
  BY DEF TypeInv, draw
<1>2. pc = "apply" /\ idx \in Live(len) /\ idx \in Slots /\ idx \in Nat /\ buf[idx] \in Output
  BY <1>1, LiveSlots DEF Selected, Slots
<1>3. n \in Pixs /\ npix \in Nat
  BY <1>1, <1>2, EwdAssumption DEF EwdAssumption, TypeInv, Room, TypeOK, TableType, ObjectType, Live, Pixs
<1>4. /\ buf' = [buf EXCEPT ![idx] = MkbufOutput(buf[idx], n, "ok")]
      /\ pix' = [pix EXCEPT ![n] = NewPix(buf[idx], n)]
      /\ surf' = [s \in Surfs |-> IF s = buf[idx].surf THEN [surf[s] EXCEPT !.content = n] ELSE surf[s]]
      /\ npix' = n /\ mapped' = mapped \cup {n} /\ idx' = idx + 1 /\ UNCHANGED <<len, wlout, msg>>
  BY DEF draw
<1> HIDE DEF n
<1>5. LET o == MkbufOutput(buf[idx], n, "ok") IN
        /\ o.wl_buf = n /\ o.map = n /\ o.surf = buf[idx].surf /\ o.dim = buf[idx].dim
        /\ o.human_name = buf[idx].human_name
  BY <1>2 DEF MkbufOutput, Output
<1>6. /\ buf'[idx].wl_buf = n /\ buf'[idx].map = n /\ buf'[idx].surf = buf[idx].surf
      /\ buf'[idx].dim = buf[idx].dim /\ buf'[idx].human_name = buf[idx].human_name
      /\ \A i \in Slots : i # idx => buf'[i] = buf[i]
  BY <1>1, <1>2, <1>4, <1>5 DEF TypeOK, TableType
<1>7. LET x == NewPix(buf[idx], n) IN
        x.st = "live" /\ x.data.slot = idx /\ x.img = msg.img /\ x.dim = buf[idx].dim
  BY DEF NewPix
<1>8. /\ pix'[n].st = "live" /\ pix'[n].data.slot = idx /\ pix'[n].img = msg.img
      /\ pix'[n].dim = buf[idx].dim
      /\ \A b \in Pixs : b # n => pix'[b] = pix[b]
  BY <1>1, <1>3, <1>4, <1>7 DEF TypeOK, ObjectType, BufferType
<1>9. \A s \in Surfs : surf'[s].content = IF s = buf[idx].surf THEN n ELSE surf[s].content
  BY <1>1, <1>4 DEF TypeOK, ObjectType, SurfaceType
<1>10. Longer({"error"})
  BY <1>1, ServeQueue DEF Serve
<1> QED BY <1>2, <1>3, <1>4, <1>6, <1>8, <1>9, <1>10 DEF n

\* A mkbuf that fails gives up on the message.  Without a failing call it is
\* the size of the display that was not known.
LEMMA FailSteps ==
  ASSUME TypeInv, mkbuf_fails
  PROVE  /\ pc = "apply" /\ pc' = "loop" /\ idx \in Live(len) /\ idx \in Slots
         /\ Addressed(buf[idx], msg)
         /\ npix \in Nat /\ npix' \in Nat /\ npix' >= npix
         /\ \A b \in Pixs : b > npix' /\ b \in mapped' => b \in mapped
         /\ \A i \in Slots : i # idx => buf'[i] = buf[i]
         /\ Without({"oom"}) => /\ buf[idx].dim = 0 /\ UNCHANGED <<npix, mapped>>
                                /\ buf'[idx].wl_buf = buf[idx].wl_buf
         /\ UNCHANGED <<len, wlout, surf, pix, wq>>
<1>1. TypeOK /\ Selected /\ Done
  BY DEF TypeInv, mkbuf_fails
<1>2. pc = "apply" /\ pc' = "loop" /\ idx \in Live(len) /\ idx \in Slots /\ buf[idx] \in Output
      /\ Addressed(buf[idx], msg)
  BY <1>1, LiveSlots DEF Selected, Done
<1>3. PICK end \in MkbufEnds(buf[idx].dim) \ {"ok"} :
        /\ buf' = [buf EXCEPT ![idx] = MkbufOutput(buf[idx], npix + 1, end)]
        /\ IF end \in {"pool", "buffer"}
           THEN npix' = npix + 1 /\ mapped' = mapped \cup {npix'}
           ELSE UNCHANGED <<npix, mapped>>
  BY DEF mkbuf_fails
<1>4. \A i \in Slots : i # idx => buf'[i] = buf[i]
  BY <1>1, <1>2, <1>3 DEF TypeOK, TableType
<1>5. npix \in Nat /\ npix' \in Nat /\ npix' >= npix
  BY <1>1, <1>3 DEF TypeOK, ObjectType
<1>6. \A b \in Pixs : b > npix' /\ b \in mapped' => b \in mapped
  BY <1>3, <1>5 DEF Pixs
<1>7. ASSUME Without({"oom"})
      PROVE  /\ buf[idx].dim = 0 /\ UNCHANGED <<npix, mapped>>
             /\ buf'[idx].wl_buf = buf[idx].wl_buf
  <2>1. end = "mmap" /\ buf[idx].dim = 0
    BY <1>3, <1>7 DEF MkbufEnds, Without
  <2>2. MkbufOutput(buf[idx], npix + 1, end).wl_buf = buf[idx].wl_buf
    BY <1>2, <2>1 DEF MkbufOutput, Output
  <2> QED BY <1>1, <1>2, <1>3, <2>1, <2>2 DEF TypeOK, TableType
<1> QED BY <1>2, <1>4, <1>5, <1>6, <1>7 DEF mkbuf_fails

\* The handlers other than buf_free keep the buffers and who holds them, unless
\* an output leaves.
LEMMA BuffersKept ==
  ASSUME PlaceInv, Born, Dispatch, Running', ~buf_free
  PROVE  /\ UNCHANGED <<pix, npix, mapped>> /\ Shorter /\ Ev \in EventTypes
         /\ Ev.type = "release" => pix[Ev.id].st # "live"
         /\ Left => Left'
         /\ ~Left' => \A i \in Live(len) :
              i \in Live(len') /\ buf'[i].wl_buf = buf[i].wl_buf /\ buf'[i].map = buf[i].map
<1>1. /\ TypeOK /\ TableOK /\ Running /\ Serving /\ Shorter /\ Ev \in EventTypes
      /\ \/ SamePlaces /\ (Quiet \/ out_name \/ ls_close)
         \/ BindOutput /\ \E g, s : Bound(g, s)
         \/ reg_del /\ \E p : Gone(p)
      /\ Dropped \/ BindOutput \/ reg_del \/ out_mode \/ out_name \/ ls_conf \/ ls_close
  BY TableSteps, DispatchSteps DEF PlaceInv, TableInv, TypeInv, Next
<1>2. UNCHANGED <<pix, npix, mapped>>
  BY <1>1 DEF Dropped, Discard, reg_del_unknown, Roundtrip1, Roundtrip2, BindService, BindOutput, reg_del, out_mode, out_name, ls_conf, ls_close, objects
<1>3. Ev.type = "release" => pix[Ev.id].st # "live"
  BY <1>1 DEF Dropped, Discard, Listening, reg_del_unknown, Roundtrip1, Roundtrip2, Synced, BindService, BindOutput, reg_del, out_mode, out_name, ls_conf, ls_close, Deliver, Take, Services
<1>4. Left => Left'
  BY <1>1 DEF SamePlaces, Bound, Gone, Left
<1>5. ASSUME ~Left', NEW i \in Live(len)
      PROVE  i \in Live(len') /\ buf'[i].wl_buf = buf[i].wl_buf /\ buf'[i].map = buf[i].map
  <2>1. i \in Slots /\ buf[i] \in Output
    BY <1>1, LiveSlots
  <2>2. ~reg_del
    BY <1>5, RemoveSteps DEF Gone, Left
  <2>3. ASSUME NEW g, NEW s, Bound(g, s)
        PROVE  i \in Live(len') /\ buf'[i] = buf[i]
    BY <2>1, <2>3 DEF Bound, Live
  <2>4. CASE SamePlaces /\ buf' = buf
    BY <2>4 DEF SamePlaces
  <2>5. CASE SamePlaces /\ \E t \in ListenerEvents : Deliver(t)
    <3>1. At \in Slots /\ out \in Output
      BY <1>1, <2>5, DeliverType
    <3>2. ASSUME NEW o, buf' = [buf EXCEPT ![At] = o], o.wl_buf = out.wl_buf, o.map = out.map
          PROVE  buf'[i].wl_buf = buf[i].wl_buf /\ buf'[i].map = buf[i].map
      BY <1>1, <2>1, <3>1, <3>2 DEF TypeOK, TableType, out
    <3>3. CASE out_mode
      <4>1. buf' = [buf EXCEPT ![At] = [out EXCEPT !.dim = Ev.arg]]
        BY <3>3 DEF out_mode, out
      <4> QED BY <2>5, <3>1, <3>2, <4>1 DEF SamePlaces, Output
    <3>4. CASE out_name
      <4>1. PICK n : buf' = [buf EXCEPT ![At] = [out EXCEPT !.human_name = n]]
        BY <3>4 DEF out_name, out
      <4> QED BY <2>5, <3>1, <3>2, <4>1 DEF SamePlaces, Output
    <3>5. CASE ls_conf
      <4>1. Sized(out, Ev.arg).wl_buf = out.wl_buf /\ Sized(out, Ev.arg).map = out.map
        BY <3>1 DEF Sized, Output
      <4> QED BY <2>5, <3>2, <3>5, <4>1 DEF SamePlaces, ls_conf
    <3>6. CASE ls_close
      <4>1. LayerFreed(out).wl_buf = out.wl_buf /\ LayerFreed(out).map = out.map
        BY <3>1 DEF LayerFreed, Output
      <4> QED BY <2>5, <3>2, <3>6, <4>1 DEF SamePlaces, ls_close
    <3>7. CASE Dropped
      BY <2>5, <3>7, DroppedKeeps DEF SamePlaces, table
    <3>8. CASE BindOutput
      BY <2>3, <3>8, BindSteps
    <3> QED BY <1>1, <2>2, <3>3, <3>4, <3>5, <3>6, <3>7, <3>8
  <2>6. Dropped => buf' = buf
    BY DroppedKeeps DEF table
  <2>7. out_mode \/ out_name \/ ls_conf \/ ls_close => \E t \in ListenerEvents : Deliver(t)
    BY DEF out_mode, out_name, ls_conf, ls_close, ListenerEvents
  <2>8. CASE BindOutput
    BY <2>3, <2>8, BindSteps
  <2>9. CASE ~BindOutput
    <3>1. SamePlaces /\ (Dropped \/ out_mode \/ out_name \/ ls_conf \/ ls_close)
      BY <1>1, <2>2, <2>9
    <3>2. CASE Dropped
      BY <2>4, <2>6, <3>1, <3>2
    <3>3. CASE ~Dropped
      <4>1. \E t \in ListenerEvents : Deliver(t)
        BY <2>7, <3>1, <3>3
      <4> QED BY <2>5, <3>1, <4>1
    <3> QED BY <3>2, <3>3
  <2> QED BY <2>8, <2>9
<1> QED BY <1>1, <1>2, <1>3, <1>4, <1>5

\* buf_free, when it does not fail: the buffer of the slot is destroyed.
LEMMA FreeSteps ==
  ASSUME PlaceInv, ReleasedOnce, buf_free, Running'
  PROVE  LET w == out.wl_buf IN
         /\ w \in Pixs /\ pix[w].st = "live"
         /\ \A b \in Pixs : /\ pix'[b].st = IF b = w THEN "destroyed" ELSE pix[b].st
                            /\ pix'[b].data = pix[b].data /\ pix'[b].busy = pix[b].busy
         /\ mapped' = mapped \ {out.map} /\ UNCHANGED <<table, wlout, surf, npix>>
         /\ Shorter /\ Ev = ReleaseOf(Ev.id) /\ Ev.id \in Pixs /\ pix[Ev.id].st = "live"
         /\ InUse(Ev.id) /\ out = buf[Holder(Ev.id)]
<1>1. TypeOK
  BY DEF PlaceInv, TableInv, TypeInv
<1>2. At \in Slots /\ out \in Output /\ Ev \in EventTypes /\ Ev.type = "release" /\ Shorter
      /\ Listening(Ev)
  BY <1>1, DeliverType, TakenShorter DEF buf_free, Deliver, ListenerEvents
<1>3. Ev = ReleaseOf(Ev.id) /\ Ev.id \in Pixs /\ pix[Ev.id].st = "live"
  BY <1>2, ReleaseFields DEF Listening
<1>4. InUse(Ev.id)
  BY <1>2, <1>3 DEF Shorter, InUse, ReleaseOf
<1>5. out = buf[Holder(Ev.id)]
  BY <1>2 DEF out, At, Data, Holder
<1>6. BufferFault(out.wl_buf) = {}
  BY DEF buf_free, Proceed, Running
<1>7. out.wl_buf \in Pixs /\ pix[out.wl_buf].st = "live"
  BY <1>2, <1>6 DEF BufferFault, Output
<1>8. \A b \in Pixs : /\ pix'[b].st = IF b = out.wl_buf THEN "destroyed" ELSE pix[b].st
                      /\ pix'[b].data = pix[b].data /\ pix'[b].busy = pix[b].busy
  BY <1>1 DEF buf_free, TypeOK, ObjectType, BufferType
<1> QED BY <1>2, <1>3, <1>4, <1>5, <1>7, <1>8 DEF buf_free

BufferOK == Fresh /\ ReleasedOnce /\ BufferStays /\ BufferInUse /\ MemoryInUse

\* Content is of buffers that have been made.
LEMMA ContentMade ==
  ASSUME PlaceInv, Born, Fresh, [Next]_vars, Running', ~draw
  PROVE  \A s \in Surfs : surf'[s].content <= npix
<1>1. TypeOK /\ npix \in Nat /\ \A s \in Surfs : surf[s].content <= npix
  BY DEF PlaceInv, TableInv, TypeInv, TypeOK, ObjectType, Fresh
<1>2. CASE BindOutput
  <2>1. PICK g, s : Bound(g, s)
    BY <1>2, BindSteps
  <2>2. /\ s \notin Surfs \/ surf'[s].content = 0
        /\ \A r \in Surfs : r # s => surf'[r] = surf[r]
    BY <2>1 DEF Bound, Surfs
  <2> QED BY <1>1, <2>2
<1>3. CASE ~BindOutput
  BY <1>1, <1>3, ContentStep
<1> QED BY <1>2, <1>3

\* buf_free gives back the buffer in use.
LEMMA BufferFree == ASSUME PlaceInv, Born, BufferOK, buf_free, Running' PROVE BufferOK'
<1> PICK w : w = out.wl_buf
  OBVIOUS
<1> PICK e : e = Ev.id
  OBVIOUS
<1>1. /\ w \in Pixs /\ pix[w].st = "live"
      /\ \A b \in Pixs : /\ pix'[b].st = IF b = w THEN "destroyed" ELSE pix[b].st
                         /\ pix'[b].data = pix[b].data /\ pix'[b].busy = pix[b].busy
      /\ mapped' = mapped \ {out.map} /\ UNCHANGED <<table, wlout, surf, npix>>
      /\ Shorter /\ Ev = ReleaseOf(e) /\ e \in Pixs /\ pix[e].st = "live"
      /\ InUse(e) /\ out = buf[Holder(e)]
  BY FreeSteps DEF BufferOK
<1>2. TypeOK /\ Dispatching' /\ Fresh /\ ReleasedOnce /\ npix \in Nat
  BY DispatchSteps DEF PlaceInv, TableInv, TypeInv, BufferOK, Dispatch, TypeOK, ObjectType
<1>3. /\ ReleasedOnce'
      /\ \A b \in Pixs : InUse(b)' <=> InUse(b) /\ b # e
  <2>1. \A b \in Pixs : Ev = ReleaseOf(b) <=> b = e
    BY <1>1, ReleaseFields
  <2> QED BY <1>1, <1>2, <2>1, UseShorter
<1>4. Fresh'
  <2>1. \A b \in Pixs : b > npix => b # w
    BY <1>1, <1>2 DEF Fresh
  <2> QED BY <1>1, <1>2, <1>3, <2>1 DEF Fresh
<1>5. /\ UNCHANGED <<len, buf, npix>> /\ (Left' <=> Left) /\ \A b \in Pixs : Holder(b)' = Holder(b)
  BY <1>1 DEF table, Left, Holder
<1>6. BufferStays'
  BY <1>1, <1>5 DEF BufferOK, BufferStays, Without
<1>7. ASSUME ~Left, Without({"late_release"}) PROVE w = e
  BY <1>1, <1>7 DEF BufferOK, BufferInUse
<1>8. BufferInUse'
  <2> SUFFICES ASSUME ~Left, Without({"late_release"}), NEW b \in Pixs, InUse(b)'
               PROVE  /\ pix'[b].st = "live" /\ Holder(b)' \in Live(len') /\ buf'[Holder(b)'].wl_buf = b
    BY <1>2, <1>5 DEF BufferInUse, Dispatching, Without, Holder
  <2>1. InUse(b) /\ b # w
    BY <1>3, <1>7
  <2> QED BY <1>1, <1>5, <2>1 DEF BufferOK, BufferInUse
<1>9. MemoryInUse'
  <2> SUFFICES ASSUME ~Left, Without({"late_release", "oom"}), NEW b \in Pixs
               PROVE  /\ InUse(b)' => buf'[Holder(b)'].map = b
                      /\ b <= npix' => (pix'[b].st = "live" <=> InUse(b)') /\ (b \in mapped' <=> InUse(b)')
    BY <1>5 DEF MemoryInUse, Without, Holder
  <2>1. w = e /\ out.map = e
    BY <1>1, <1>7 DEF BufferOK, MemoryInUse, Without
  <2>2. /\ InUse(b) => buf[Holder(b)].map = b
        /\ b <= npix => (pix[b].st = "live" <=> InUse(b)) /\ (b \in mapped <=> InUse(b))
    BY DEF BufferOK, MemoryInUse
  <2> QED BY <1>1, <1>3, <1>5, <2>1, <2>2
<1> QED BY <1>3, <1>4, <1>6, <1>8, <1>9 DEF BufferOK

\* The other handlers leave the buffers alone.
LEMMA BufferDispatch ==
  ASSUME PlaceInv, Born, BufferOK, Dispatch, ~buf_free, Running' PROVE BufferOK'
<1>1. /\ UNCHANGED <<pix, npix, mapped>> /\ Shorter /\ Ev \in EventTypes
      /\ Ev.type = "release" => pix[Ev.id].st # "live"
      /\ Left => Left'
      /\ ~Left' => \A i \in Live(len) :
           i \in Live(len') /\ buf'[i].wl_buf = buf[i].wl_buf /\ buf'[i].map = buf[i].map
  BY BuffersKept
<1>2. TypeOK /\ Dispatching' /\ Fresh /\ ReleasedOnce /\ npix \in Nat
  BY DispatchSteps DEF PlaceInv, TableInv, TypeInv, BufferOK, TypeOK, ObjectType
<1>3. /\ ReleasedOnce'
      /\ \A b \in Pixs : InUse(b)' <=> InUse(b) /\ Ev # ReleaseOf(b)
  BY <1>1, <1>2, UseShorter
<1>4. \A s \in Surfs : surf'[s].content <= npix
  <2>1. ~draw
    BY <1>2 DEF draw, Selected, Dispatching, Proceed
  <2> QED BY <1>2, <2>1, ContentMade DEF Next
<1>5. Fresh'
  BY <1>1, <1>2, <1>3, <1>4 DEF Fresh
<1>6. \A b \in Pixs : Holder(b)' = Holder(b)
  BY <1>1 DEF Holder
<1>7. BufferStays'
  <2> SUFFICES ASSUME ~Left', Without({"oom"}), NEW b \in Pixs, pix'[b].st # "none"
               PROVE  Holder(b)' \in Live(len') /\ buf'[Holder(b)'].wl_buf # 0
    BY DEF BufferStays, Without, Holder
  <2>1. Holder(b) \in Live(len) /\ buf[Holder(b)].wl_buf # 0
    BY <1>1 DEF BufferOK, BufferStays
  <2> QED BY <1>1, <1>6, <2>1
<1>8. BufferInUse'
  <2> SUFFICES ASSUME ~Left', Without({"late_release"}), NEW b \in Pixs, InUse(b)'
               PROVE  /\ pix'[b].st = "live" /\ Holder(b)' \in Live(len') /\ buf'[Holder(b)'].wl_buf = b
    BY <1>2 DEF BufferInUse, Dispatching, Without, Holder
  <2>1. pix[b].st = "live" /\ Holder(b) \in Live(len) /\ buf[Holder(b)].wl_buf = b
    BY <1>1, <1>3 DEF BufferOK, BufferInUse
  <2> QED BY <1>1, <1>6, <2>1
<1>9. MemoryInUse'
  <2> SUFFICES ASSUME ~Left', Without({"late_release", "oom"}), NEW b \in Pixs
               PROVE  /\ InUse(b)' => buf'[Holder(b)'].map = b
                      /\ b <= npix' => (pix'[b].st = "live" <=> InUse(b)') /\ (b \in mapped' <=> InUse(b)')
    BY DEF MemoryInUse, Without, Holder
  <2>1. InUse(b) => pix[b].st = "live" /\ Holder(b) \in Live(len)
    BY <1>1 DEF BufferOK, BufferInUse, Without
  <2>2. Ev = ReleaseOf(b) => pix[b].st # "live"
    BY <1>1, ReleaseFields
  <2>3. InUse(b)' <=> InUse(b)
    BY <1>3, <2>1, <2>2
  <2>4. /\ InUse(b) => buf[Holder(b)].map = b
        /\ b <= npix => (pix[b].st = "live" <=> InUse(b)) /\ (b \in mapped <=> InUse(b))
    BY <1>1 DEF BufferOK, MemoryInUse
  <2> QED BY <1>1, <1>6, <2>1, <2>3, <2>4
<1> QED BY <1>3, <1>5, <1>7, <1>8, <1>9 DEF BufferOK

\* A release moves the use of a buffer from the compositor to the queue.
LEMMA BufferCompositor ==
  ASSUME PlaceInv, Born, BufferOK, Compositor, Running' PROVE BufferOK'
<1>1. TypeOK /\ Fresh /\ ReleasedOnce /\ npix \in Nat
  BY DEF PlaceInv, TableInv, TypeInv, BufferOK, TypeOK, ObjectType
<1>2. Dispatching' /\ UNCHANGED <<table, wlout, npix, mapped>>
  BY <1>1, CompositorSteps DEF Dispatching
<1>3. /\ ReleasedOnce' /\ \A b \in Pixs : InUse(b)' <=> InUse(b)
      /\ \A b \in Pixs : pix'[b].st = pix[b].st /\ pix'[b].data = pix[b].data
  <2>1. CASE \E r \in Pixs : Release(r)
    <3>1. PICK r \in Pixs : Release(r)
      BY <2>1
    <3>2. Said("release", r) /\ wq'[Len(wq) + 1] = ReleaseOf(r)
      <4>1. Send(<<ReleaseOf(r)>>)
        BY <3>1 DEF Release, ReleaseOf
      <4>2. PICK e \in EventTypes : e = ReleaseOf(r)
        BY SaidTypes DEF ReleaseOf
      <4>3. Longer({e.type}) /\ Len(wq') = Len(wq) + 1 /\ wq'[Len(wq) + 1] = e
        BY <1>1, <4>1, <4>2, SentOne
      <4> QED BY <4>2, <4>3, ReleaseFields DEF Said
    <3>3. \A b \in Pixs : pix'[b].st = pix[b].st /\ pix'[b].data = pix[b].data
      <4>1. pix' = [pix EXCEPT ![r] = [pix[r] EXCEPT !.busy = FALSE]]
        BY <3>1 DEF Release
      <4> QED BY <1>1, <4>1 DEF TypeOK, ObjectType, BufferType
    <3> QED BY <1>1, <3>1, <3>2, <3>3, UseRelease
  <2>2. CASE ~\E r \in Pixs : Release(r)
    <3>1. UNCHANGED pix
      BY <2>2 DEF Compositor, Plug, Unplug, Describe, Remode, Configure, Close, SyncReply
    <3>2. PICK T : Longer(T) /\ "release" \notin T
      BY <1>1, <2>2, CompositorSteps DEF Said
    <3> QED BY <1>1, <3>1, <3>2, UseLonger
  <2> QED BY <2>1, <2>2
<1>4. \A s \in Surfs : surf'[s].content <= npix
  <2>1. ~draw
    BY <1>2 DEF draw, Selected, Dispatching, Proceed
  <2> QED BY <1>1, <2>1, ContentMade DEF Next
<1>5. Fresh'
  BY <1>1, <1>2, <1>3, <1>4 DEF Fresh
<1>6. /\ UNCHANGED <<len, buf>> /\ (Left' <=> Left) /\ \A b \in Pixs : Holder(b)' = Holder(b)
  BY <1>2, <1>3 DEF table, Left, Holder
<1>7. BufferStays'
  BY <1>3, <1>6 DEF BufferOK, BufferStays, Without
<1>8. BufferInUse'
  <2> SUFFICES ASSUME ~Left, Without({"late_release"}), NEW b \in Pixs, InUse(b)'
               PROVE  /\ pix'[b].st = "live" /\ Holder(b)' \in Live(len') /\ buf'[Holder(b)'].wl_buf = b
    BY <1>2, <1>6 DEF BufferInUse, Dispatching, Without, Holder
  <2> QED BY <1>3, <1>6 DEF BufferOK, BufferInUse
<1>9. MemoryInUse'
  BY <1>2, <1>3, <1>6 DEF BufferOK, MemoryInUse, Without
<1> QED BY <1>3, <1>5, <1>7, <1>8, <1>9 DEF BufferOK

\* Drawing takes a new buffer, for a display that has none in use.
LEMMA BufferDraw ==
  ASSUME PlaceInv, Born, BufferOK, draw, Running' PROVE BufferOK'
<1> PICK n : n = npix + 1
  OBVIOUS
<1>1. /\ pc = "apply" /\ idx \in Live(len) /\ idx \in Slots /\ idx \in Nat /\ idx' = idx + 1
      /\ n \in Pixs /\ npix \in Nat /\ npix' = n /\ mapped' = mapped \cup {n}
      /\ buf'[idx].wl_buf = n /\ buf'[idx].map = n
      /\ \A i \in Slots : i # idx => buf'[i] = buf[i]
      /\ pix'[n].st = "live" /\ pix'[n].data.slot = idx
      /\ \A b \in Pixs : b # n => pix'[b] = pix[b]
      /\ \A s \in Surfs : surf'[s].content = IF s = buf[idx].surf THEN n ELSE surf[s].content
      /\ Longer({"error"}) /\ UNCHANGED <<len, wlout>>
  BY DrawSteps DEF PlaceInv, TableInv
<1>2. TypeOK /\ Fresh /\ ReleasedOnce /\ pc' = "apply"
  BY <1>1 DEF PlaceInv, TableInv, TypeInv, BufferOK, draw, Proceed, Running
<1>3. n > npix /\ ~InUse(n) /\ n \notin mapped /\ pix'[n].busy
  <2>1. pix' = [pix EXCEPT ![npix + 1] = NewPix(buf[idx], npix + 1)]
    BY DEF draw
  <2>2. pix'[n] = NewPix(buf[idx], n)
    BY <1>1, <1>2, <2>1 DEF TypeOK, ObjectType, BufferType
  <2> QED BY <1>1, <1>2, <2>2 DEF Fresh, NewPix
<1>4. /\ ReleasedOnce'
      /\ InUse(n)' /\ \A b \in Pixs : b # n => (InUse(b)' <=> InUse(b))
  <2>1. PICK B \in SUBSET Pixs : B = Pixs \ {n}
    OBVIOUS
  <2>2. ReleasedOnce' /\ \A b \in B : InUse(b)' <=> InUse(b)
    <3>1. Longer({"error"}) /\ "release" \notin {"error"}
      BY <1>1
    <3>2. \A b \in B : pix'[b].busy = pix[b].busy
      BY <1>1, <2>1
    <3>3. \A b \in Pixs \ B : ~InUse(b)
      BY <1>3, <2>1
    <3> QED BY <1>2, <2>1, <3>1, <3>2, <3>3, UseLonger
  <2> QED BY <1>3, <2>1, <2>2 DEF InUse
<1>5. Fresh'
  <2>1. \A s \in Surfs : surf'[s].content <= n
    <3>1. \A s \in Surfs : surf[s].content <= npix /\ surf[s].content \in Pixs \cup {0}
      BY <1>2 DEF Fresh, TypeOK, ObjectType, SurfaceType
    <3> QED BY <1>1, <3>1 DEF Pixs
  <2>2. \A b \in Pixs : b > n => b > npix /\ b # n
    BY <1>1 DEF Pixs
  <2> QED BY <1>1, <1>2, <1>4, <2>1, <2>2 DEF Fresh
<1>6. /\ Left' <=> Left
      /\ \A b \in Pixs : b # n => Holder(b)' = Holder(b)
      /\ Holder(n)' = idx
  BY <1>1 DEF Left, Holder
<1>7. BufferStays'
  <2> SUFFICES ASSUME ~Left, Without({"oom"}), NEW b \in Pixs, pix'[b].st # "none"
               PROVE  Holder(b)' \in Live(len) /\ buf'[Holder(b)'].wl_buf # 0
    BY <1>1, <1>6 DEF BufferStays, Without, Holder
  <2>1. CASE b = n
    BY <1>1, <1>6, <2>1 DEF Pixs
  <2>2. CASE b # n
    <3>1. Holder(b) \in Live(len) /\ buf[Holder(b)].wl_buf # 0
      BY <1>1, <2>2 DEF BufferOK, BufferStays
    <3>2. Holder(b) \in Slots /\ Holder(b)' = Holder(b)
      BY <1>2, <1>6, <2>2, <3>1, LiveSlots
    <3>3. n # 0
      BY <1>1 DEF Pixs
    <3>4. CASE Holder(b) = idx
      BY <1>1, <3>1, <3>2, <3>3, <3>4
    <3>5. CASE Holder(b) # idx
      BY <1>1, <3>1, <3>2, <3>5
    <3> QED BY <3>4, <3>5
  <2> QED BY <2>1, <2>2
<1>8. ASSUME ~Left, Without({"late_release"}), NEW b \in Pixs, b # n, InUse(b)
      PROVE  /\ pix[b].st = "live" /\ Holder(b) \in Live(len) /\ Holder(b) \in Slots
             /\ buf[Holder(b)].wl_buf = b /\ Holder(b) < idx /\ buf'[Holder(b)] = buf[Holder(b)]
  <2>1. /\ pix[b].st = "live" /\ Holder(b) \in Live(len)
        /\ buf[Holder(b)].wl_buf = b /\ Holder(b) < idx
    BY <1>1, <1>8 DEF BufferOK, BufferInUse
  <2>2. Holder(b) \in Slots
    BY <1>2, <2>1, LiveSlots
  <2>3. Holder(b) # idx
    BY <1>1, <2>1, <2>2 DEF Slots
  <2> QED BY <1>1, <2>1, <2>2, <2>3
<1>9. BufferInUse'
  <2> SUFFICES ASSUME ~Left, Without({"late_release"}), NEW b \in Pixs, InUse(b)'
               PROVE  /\ pix'[b].st = "live" /\ Holder(b)' \in Live(len) /\ buf'[Holder(b)'].wl_buf = b
                      /\ Holder(b)' < idx'
    BY <1>1, <1>2, <1>6 DEF BufferInUse, Without, Holder
  <2>1. CASE b = n
    BY <1>1, <1>6, <2>1
  <2>2. CASE b # n
    <3>1. InUse(b)
      BY <1>4, <2>2
    <3>2. /\ pix[b].st = "live" /\ Holder(b) \in Live(len) /\ Holder(b) \in Slots
          /\ buf[Holder(b)].wl_buf = b /\ Holder(b) < idx /\ buf'[Holder(b)] = buf[Holder(b)]
      BY <1>8, <2>2, <3>1
    <3>3. Holder(b) < idx'
      BY <1>1, <3>2 DEF Slots
    <3> QED BY <1>1, <1>6, <2>2, <3>2, <3>3
  <2> QED BY <2>1, <2>2
<1>10. MemoryInUse'
  <2> SUFFICES ASSUME ~Left, Without({"late_release", "oom"}), NEW b \in Pixs
               PROVE  /\ InUse(b)' => buf'[Holder(b)'].map = b
                      /\ b <= n => (pix'[b].st = "live" <=> InUse(b)') /\ (b \in mapped' <=> InUse(b)')
    BY <1>1, <1>6 DEF MemoryInUse, Without, Holder
  <2>1. CASE b = n
    BY <1>1, <1>4, <1>6, <2>1
  <2>2. CASE b # n
    <3>1. /\ InUse(b) => buf[Holder(b)].map = b
          /\ b <= npix => (pix[b].st = "live" <=> InUse(b)) /\ (b \in mapped <=> InUse(b))
      BY DEF BufferOK, MemoryInUse
    <3>2. InUse(b) => buf'[Holder(b)] = buf[Holder(b)]
      BY <1>8, <2>2 DEF Without
    <3>3. b <= n => b <= npix
      BY <1>1, <2>2 DEF Pixs
    <3>4. b \in mapped' <=> b \in mapped
      BY <1>1, <2>2
    <3> QED BY <1>1, <1>4, <1>6, <2>2, <3>1, <3>2, <3>3, <3>4
  <2> QED BY <2>1, <2>2
<1> QED BY <1>4, <1>5, <1>7, <1>9, <1>10 DEF BufferOK

\* The other steps of a message: those that begin and end it, and the one that
\* gives up.
LEMMA BufferServe ==
  ASSUME PlaceInv, Born, BufferOK, Serve, ~draw, Running' PROVE BufferOK'
<1>1. TypeOK /\ TypeInv /\ Fresh /\ ReleasedOnce /\ npix \in Nat
  BY DEF PlaceInv, TableInv, TypeInv, BufferOK, TypeOK, ObjectType
<1>2. /\ Longer({"error"}) /\ UNCHANGED <<len, wlout, pix>>
      /\ pc = "loop" => wq = <<>> /\ OnTime /\ pc' = "map"
  BY <1>1, ServeQueue DEF Serve, Accept, map_source, Unnamed, Skip, mkbuf_fails, apply_done, objects
<1>3. ReleasedOnce' /\ \A b \in Pixs : InUse(b)' <=> InUse(b)
  BY <1>1, <1>2, UseLonger
<1>4. /\ (Left' <=> Left) /\ \A b \in Pixs : Holder(b)' = Holder(b)
  BY <1>2 DEF Left, Holder
<1>5. \A s \in Surfs : surf'[s].content <= npix
  BY <1>1, ContentMade DEF Next
<1>6. CASE mkbuf_fails
  <2>1. /\ pc = "apply" /\ pc' = "loop" /\ idx \in Live(len) /\ idx \in Slots
        /\ npix \in Nat /\ npix' \in Nat /\ npix' >= npix
        /\ \A b \in Pixs : b > npix' /\ b \in mapped' => b \in mapped
        /\ \A i \in Slots : i # idx => buf'[i] = buf[i]
        /\ Without({"oom"}) => /\ buf[idx].dim = 0 /\ UNCHANGED <<npix, mapped>>
                               /\ buf'[idx].wl_buf = buf[idx].wl_buf
    BY <1>1, <1>6, FailSteps
  <2>2. Fresh'
    <3>1. \A b \in Pixs : b > npix' => b > npix
      BY <2>1 DEF Pixs
    <3>2. \A s \in Surfs : surf'[s].content <= npix'
      <4>1. \A s \in Surfs : surf'[s].content \in Nat
        BY <1>1, <1>6 DEF mkbuf_fails, TypeOK, ObjectType, SurfaceType, Pixs
      <4> QED BY <1>5, <2>1, <4>1
    <3> QED BY <1>1, <1>2, <1>3, <2>1, <3>1, <3>2 DEF Fresh
  <2>3. BufferStays'
    <3> SUFFICES ASSUME ~Left, Without({"oom"}), NEW b \in Pixs, pix[b].st # "none"
                 PROVE  Holder(b) \in Live(len) /\ buf'[Holder(b)].wl_buf # 0
      BY <1>2, <1>4 DEF BufferStays, Without, Holder
    <3>1. Holder(b) \in Live(len) /\ buf[Holder(b)].wl_buf # 0
      BY DEF BufferOK, BufferStays
    <3>2. Holder(b) \in Slots
      BY <1>1, <3>1, LiveSlots
    <3> QED BY <2>1, <3>1, <3>2
  <2>4. ASSUME ~Left, Without({"late_release"}), NEW b \in Pixs, InUse(b)
        PROVE  /\ pix[b].st = "live" /\ Holder(b) \in Live(len) /\ buf[Holder(b)].wl_buf = b
               /\ buf'[Holder(b)] = buf[Holder(b)]
    <3>1. /\ pix[b].st = "live" /\ Holder(b) \in Live(len)
          /\ buf[Holder(b)].wl_buf = b /\ Holder(b) < idx
      BY <2>1, <2>4 DEF BufferOK, BufferInUse
    <3>2. Holder(b) \in Slots
      BY <1>1, <3>1, LiveSlots
    <3>3. Holder(b) # idx
      BY <2>1, <3>1, <3>2 DEF Slots
    <3> QED BY <2>1, <3>1, <3>2, <3>3
  <2>5. BufferInUse'
    BY <1>2, <1>3, <1>4, <2>1, <2>4 DEF BufferInUse, Without, Holder
  <2>6. MemoryInUse'
    <3> SUFFICES ASSUME ~Left, Without({"late_release", "oom"}), NEW b \in Pixs
                 PROVE  /\ InUse(b) => buf'[Holder(b)].map = b
                        /\ b <= npix => (pix[b].st = "live" <=> InUse(b)) /\ (b \in mapped <=> InUse(b))
      BY <1>2, <1>3, <1>4, <2>1 DEF MemoryInUse, Without, Holder
    <3>1. /\ InUse(b) => buf[Holder(b)].map = b
          /\ b <= npix => (pix[b].st = "live" <=> InUse(b)) /\ (b \in mapped <=> InUse(b))
      BY DEF BufferOK, MemoryInUse
    <3>2. InUse(b) => buf'[Holder(b)] = buf[Holder(b)]
      BY <2>4 DEF Without
    <3> QED BY <3>1, <3>2
  <2> QED BY <1>3, <2>2, <2>3, <2>5, <2>6 DEF BufferOK
<1>7. CASE ~mkbuf_fails
  <2>1. UNCHANGED <<buf, npix, mapped>>
    BY <1>7 DEF Serve, Accept, map_source, Unnamed, Skip, apply_done, table, objects
  <2>2. Fresh'
    BY <1>1, <1>2, <1>3, <1>5, <2>1 DEF Fresh
  <2>3. BufferStays'
    BY <1>2, <1>4, <2>1 DEF BufferOK, BufferStays, Without
  <2>4. MemoryInUse'
    BY <1>2, <1>3, <1>4, <2>1 DEF BufferOK, MemoryInUse, Without
  <2>5. BufferInUse'
    <3> SUFFICES ASSUME ~Left, Without({"late_release"}), NEW b \in Pixs, InUse(b)
                 PROVE  /\ pix[b].st = "live" /\ Holder(b) \in Live(len) /\ buf[Holder(b)].wl_buf = b
                        /\ pc' # "map" /\ (pc' = "apply" => Holder(b) < idx')
      BY <1>2, <1>3, <1>4, <2>1 DEF BufferInUse, Without, Holder
    <3>1. /\ pix[b].st = "live" /\ Holder(b) \in Live(len) /\ buf[Holder(b)].wl_buf = b
          /\ pc # "map" /\ (pc = "apply" => Holder(b) < idx)
      BY DEF BufferOK, BufferInUse
    <3>2. pc # "loop"
      <4>1. pc = "loop" => ~pix[b].busy /\ Len(wq) = 0
        BY <1>2 DEF OnTime, Without
      <4> QED BY <4>1 DEF InUse
    <3>3. pc' # "map" /\ (pc' = "apply" => idx' >= idx)
      BY <1>1, <1>7, <3>1, <3>2 DEF Serve, Accept, map_source, Unnamed, Skip, apply_done, Done, Proceed, client, TypeOK, ControlType
    <3>4. Holder(b) \in Nat /\ idx \in Nat /\ idx' \in Nat
      <4>1. Holder(b) \in Nat /\ idx \in Nat
        BY <1>1, <3>1, LiveSlots DEF Slots, TypeOK, ControlType
      <4>2. TypeOK'
        BY <1>1, TypeServe DEF TypeInv
      <4> QED BY <4>1, <4>2 DEF TypeOK, ControlType
    <3>5. pc' = "apply" => pc = "apply"
      BY <1>7, <3>1, <3>2 DEF Serve, Accept, map_source, Unnamed, Skip, apply_done
    <3> QED BY <3>1, <3>3, <3>4, <3>5
  <2> QED BY <1>3, <2>2, <2>3, <2>4, <2>5 DEF BufferOK
<1> QED BY <1>6, <1>7

\* Every step keeps the buffers ...
LEMMA BufferNext == ASSUME PlaceInv, Born, BufferInv, [Next]_vars PROVE BufferInv'
<1> SUFFICES ASSUME Running' PROVE BufferOK'
  BY DEF BufferInv, BufferOK
<1>1. BufferOK /\ (Dispatch \/ Serve \/ Compositor \/ UNCHANGED vars)
  BY RunningSteps DEF BufferInv, BufferOK
<1>2. CASE UNCHANGED vars
  BY <1>1, <1>2 DEF vars, table, objects, client, compositor, BufferOK, Fresh, InUse, ReleasedOnce, BufferStays, BufferInUse, MemoryInUse, Holder, Left
<1> QED BY <1>1, <1>2, BufferFree, BufferDispatch, BufferDraw, BufferServe, BufferCompositor

\* ... of which there are none at first.
LEMMA BufferInit == Init => BufferInv
<1> SUFFICES ASSUME Init PROVE BufferOK
  BY DEF BufferInv, BufferOK
<1>1. \A b \in Pixs : pix[b].st = "none" /\ ~pix[b].busy
  BY DEF Init
<1>2. \A k \in 1..Len(wq) : wq[k].type # "release"
  <2>1. PICK offer \in SUBSET Services, ver \in [Services \cup {"global"} -> Versions] :
          \E q \in SetToSeqs(Advertised(offer, ver)) :
            /\ wq = Append(q, Event("sync", 0, 0)) /\ q \in Seq(EventTypes)
            /\ \A k \in 1..Len(q) : q[k] \in Advertised(offer, ver)
    BY FirstEvents
  <2>2. \A a \in Advertised(offer, ver) : a.type # "release"
    BY DEF Advertised, Event, Services
  <2>3. Event("sync", 0, 0) \in EventTypes /\ Event("sync", 0, 0).type = "sync"
    BY DEF Event, EventTypes, Old
  <2> QED BY <2>1, <2>2, <2>3
<1>3. \A b \in Pixs : ~InUse(b)
  BY <1>1, <1>2, ReleaseFields DEF InUse, ReleaseOf
<1>4. npix = 0 /\ mapped = {} /\ \A s \in Surfs : surf[s].content = 0
  BY DEF Init
<1> QED BY <1>1, <1>2, <1>3, <1>4 DEF BufferOK, Fresh, ReleasedOnce, BufferStays, BufferInUse, MemoryInUse

-----------------------------------------------------------------------------
(* All of it together.                                                     *)

\* At first nothing is known of any output, and the sync comes last.
LEMMA KnownInit == Init => SurfacesAlive /\ ToldKnown /\ Quietly /\ SyncInv
<1> SUFFICES ASSUME Init PROVE SurfacesAlive /\ ToldKnown /\ Quietly /\ SyncInv
  OBVIOUS
<1>1. Live(len) = {} /\ told = {} /\ pc = "roundtrip1" /\ \A g \in Initial : plug[g] # "off"
  BY EwdAssumption DEF EwdAssumption, Init, Live
<1>2. PICK q \in Seq(EventTypes) :
        /\ wq = Append(q, Event("sync", 0, 0))
        /\ \A k \in 1..Len(q) : q[k].type # "sync"
  <2>1. PICK offer \in SUBSET Services, ver \in [Services \cup {"global"} -> Versions] :
          \E q \in SetToSeqs(Advertised(offer, ver)) :
            /\ wq = Append(q, Event("sync", 0, 0)) /\ q \in Seq(EventTypes)
            /\ \A k \in 1..Len(q) : q[k] \in Advertised(offer, ver)
    BY FirstEvents
  <2>2. \A a \in Advertised(offer, ver) : a.type # "sync"
    BY DEF Advertised, Event, Services
  <2> QED BY <2>1, <2>2
<1>3. PICK e \in EventTypes : e = Event("sync", 0, 0) /\ e.type = "sync"
  BY SaidTypes DEF Event
<1>4. \A k \in 1..Len(wq) : IF k = Len(q) + 1 THEN wq[k].type = "sync" ELSE k < Len(q) + 1 /\ wq[k].type # "sync"
  <2>1. wq = Append(q, e) /\ Len(q) \in Nat
    BY <1>2, <1>3
  <2>2. \A k \in 1..Len(wq) : (k = Len(q) + 1 /\ wq[k] = e) \/ (k \in 1..Len(q) /\ wq[k] = q[k])
    BY <1>2, <2>1
  <2> QED BY <1>2, <1>3, <2>1, <2>2
<1>5. OneSync /\ InitialBound
  BY <1>1, <1>4 DEF OneSync, InitialBound
<1> QED BY <1>1, <1>5 DEF SurfacesAlive, ToldKnown, Quietly, SyncInv, SyncKnown, Without

\* The inductive invariant of this module.
FaultInv ==
  /\ PlaceInv /\ Born /\ OrphanInv /\ SlotInv /\ SurfacesAlive /\ ServiceInv
  /\ ToldKnown /\ (Running => Quietly) /\ SyncInv /\ NoErrors /\ BufferInv

\* It holds at first ...
LEMMA FaultInit == Init => FaultInv
BY PlaceInit, OrphanInit, SlotInit, ServiceInit, KnownInit, ErrorInit, BufferInit DEF FaultInv

\* ... and every step keeps it.
LEMMA FaultNext == ASSUME FaultInv, [Next]_vars PROVE FaultInv'
<1>1. PlaceInv /\ TypeInv /\ QueueOK
  BY DEF FaultInv, PlaceInv, TableInv
<1>2. PlaceInv'
  BY <1>1, PlaceNext
<1>3. Born' /\ OrphanInv' /\ SlotInv'
  BY BornNext, OrphanNext, SlotNext DEF FaultInv
<1>4. SurfacesAlive' /\ ServiceInv'
  BY AliveNext, ServiceNext DEF FaultInv
<1>5. ToldKnown' /\ SyncInv'
  BY ToldNext, SyncNext DEF FaultInv
<1>6. Running' => Quietly'
  <2> SUFFICES ASSUME Running' PROVE Quietly'
    OBVIOUS
  <2>1. Running
    BY RunningSteps
  <2> QED BY <1>1, <2>1, QuietlyNext DEF FaultInv
<1>7. NoErrors' /\ BufferInv'
  BY <1>1, ErrorNext, BufferNext DEF FaultInv
<1> QED BY <1>2, <1>3, <1>4, <1>5, <1>6, <1>7 DEF FaultInv

\* Whatever happens, the daemon keeps the slots, the services, the names and
\* the buffers of its outputs in order as the parts of FaultInv say.
THEOREM FaultInvariant == Spec => []FaultInv
BY FaultInit, FaultNext, PTL DEF Spec

\* With no output leaving and at most one buffer in use per output, the buffer
\* and the memory that buf_free gives back are those released: both live
\* exactly as long as the compositor uses them, however many are drawn.
THEOREM MemoryCorrect == Spec => []BuffersLiveInUse
<1>1. FaultInv => BuffersLiveInUse
  <2> SUFFICES ASSUME FaultInv, Running, Without({"unplug", "late_release", "oom"}), NEW b \in 1..npix
               PROVE  (InUse(b) <=> pix[b].st = "live") /\ (InUse(b) <=> b \in mapped)
    BY DEF BuffersLiveInUse
  <2>1. ~Left
    BY DEF FaultInv, SlotInv, NoneLeaves, Without
  <2>2. b \in Pixs /\ b <= npix
    BY EwdAssumption DEF EwdAssumption, FaultInv, PlaceInv, TableInv, TypeInv, TypeOK, ObjectType, Pixs
  <2> QED BY <2>1, <2>2 DEF FaultInv, BufferInv, MemoryInUse, Without
<1> QED BY <1>1, FaultInvariant, PTL

\* The two roundtrips of the start suffice: the sync that ends the second one
\* is behind the description of every output that was there at first, for any
\* number of outputs, in whatever order they are advertised.
THEOREM StartKnows == Spec => KnownWhenServing
<1> DEFINE Known == ~(pc \in {"loop", "map", "apply"}) /\ pc' = "loop" /\ Without({"oom"}) =>
             \A i \in Live(len) :
               buf[i].wl_out \in Initial /\ plug[buf[i].wl_out] = "on" /\ Settled(i) =>
                 buf[i].human_name = Connector[buf[i].wl_out] /\ buf[i].dim # 0
<1>1. FaultInv /\ [Next]_vars => [Known]_vars
  <2> SUFFICES ASSUME FaultInv, [Next]_vars, pc \notin {"loop", "map", "apply"}, pc' = "loop",
                      Without({"oom"}), NEW i \in Live(len), buf[i].wl_out \in Initial,
                      plug[buf[i].wl_out] = "on", Settled(i)
               PROVE  buf[i].human_name = Connector[buf[i].wl_out] /\ buf[i].dim # 0
    OBVIOUS
  <2>1. Running' /\ Running /\ Serving /\ TypeInv
    BY RunningSteps DEF Running, FaultInv, PlaceInv, TableInv
  <2>2. Shorter /\ Ev.type = "sync" /\ pc = "roundtrip2"
    BY <2>1, SyncSteps
  <2>3. 1 \in 1..Len(wq) /\ wq[1].type = "sync"
    BY <2>2 DEF Shorter
  <2>4. InPlace(i) /\ buf[i].human_name \in {NULL, Connector[buf[i].wl_out]}
    BY <2>1 DEF FaultInv, PlaceInv, ListenersInPlace, InPlace
  <2>5. KnownBefore(i, 1)
    BY <2>1, <2>2, <2>3, <2>4 DEF FaultInv, SyncInv, SyncKnown
  <2>6. buf[i].human_name # NULL /\ buf[i].dim # 0
    BY <2>5 DEF KnownBefore, NameBefore, SizeBefore
  <2> QED BY <2>4, <2>6
<1> QED BY <1>1, FaultInvariant, PTL DEF Spec, KnownWhenServing

-----------------------------------------------------------------------------
(* A message on the displays.                                              *)

\* While a message is worked on, the name and the size of every display are
\* known, if none has moved and the compositor has described them in time.
LEMMA KnownServing ==
  ASSUME FaultInv, pc \in {"map", "apply"}, ~Moved, Without({"late_info", "oom"}),
         Without({"unplug"}) \/ Without({"close"}), NEW i \in Live(len)
  PROVE  buf[i].human_name # NULL /\ buf[i].dim # 0
<1>1. Running /\ Serving /\ TypeOK /\ TableOK /\ QueueOK /\ Quietly
  BY DEF Running, Serving, FaultInv, PlaceInv, TableInv, TypeInv
<1>2. buf[i].wl_out \in Globals /\ wlout[buf[i].wl_out].st = "live"
  BY <1>1 DEF TableOK
<1>3. \A k \in 1..Len(wq) : wq[k].type = "error"
  BY <1>1 DEF Quietly
<1>4. plug[buf[i].wl_out] # "gone"
  <2>1. CASE Without({"unplug"})
    BY <1>1, <1>2, <2>1 DEF FaultInv, SlotInv, NoneLeaves
  <2>2. CASE Without({"close"})
    <3>1. GoneIsAnnounced
      BY <1>1, <2>2 DEF FaultInv, OrphanInv, OrphanOK
    <3>2. ~Leaving(buf[i].wl_out)
      BY <1>3, RemovalFields DEF Leaving
    <3> QED BY <3>1, <3>2 DEF GoneIsAnnounced
  <2> QED BY <2>1, <2>2
<1>5. plug[buf[i].wl_out] = "on"
  BY <1>1, <1>2, <1>4 DEF QueueOK, TypeOK, CompositorType
<1>6. buf[i].wl_out \in told
  BY <1>1, <1>2, <1>5 DEF Quietly, Without
<1>7. KnownBefore(i, Len(wq) + 1)
  BY <1>1, <1>6 DEF FaultInv, ToldKnown, InPlace, Moved, Without
<1> QED BY <1>3, <1>7 DEF KnownBefore, NameBefore, SizeBefore

\* A daemon that goes on has met no fault.
LEMMA FaultsSame == ASSUME TypeOK, [Next]_vars, Running' PROVE UNCHANGED faults
<1>1. CASE Dispatch
  <2>1. Dropped \/ BindOutput \/ reg_del \/ out_mode \/ out_name \/ ls_conf \/ ls_close \/ buf_free
    BY <1>1, DispatchSteps
  <2>2. Dropped => UNCHANGED faults
    BY DroppedKeeps
  <2> QED BY <2>1, <2>2 DEF Running, Proceed, BindOutput, reg_del, out_mode, out_name, ls_conf, ls_close, buf_free
<1>2. CASE Serve
  BY <1>2 DEF Running, Proceed, Serve, Accept, map_source, Unnamed, Skip, mkbuf_fails, draw, apply_done
<1>3. CASE Compositor
  BY <1>3, CompositorSteps
<1>4. CASE UNCHANGED vars
  BY <1>4 DEF vars
<1> QED BY <1>1, <1>2, <1>3, <1>4, RunningSteps

\* Drawing on one display leaves what is on the others.
LEMMA AppliedDraw == ASSUME FaultInv, AppliedSoFar, draw, Running' PROVE AppliedSoFar'
<1> PICK n : n = npix + 1
  OBVIOUS
<1>1. TypeInv /\ TypeOK /\ Fresh /\ PlaceInv /\ Running /\ Serving
  BY DEF FaultInv, PlaceInv, TableInv, TypeInv, BufferInv, draw, Selected, Running, Serving
<1>2. /\ pc = "apply" /\ idx \in Live(len) /\ idx \in Slots /\ idx \in Nat /\ idx' = idx + 1
      /\ n \in Pixs /\ npix \in Nat /\ n > npix
      /\ buf'[idx].surf = buf[idx].surf
      /\ buf'[idx].dim = buf[idx].dim /\ buf'[idx].human_name = buf[idx].human_name
      /\ \A i \in Slots : i # idx => buf'[i] = buf[i]
      /\ pix'[n].img = msg.img /\ pix'[n].dim = buf[idx].dim
      /\ \A b \in Pixs : b # n => pix'[b] = pix[b]
      /\ \A s \in Surfs : surf'[s].content = IF s = buf[idx].surf THEN n ELSE surf[s].content
      /\ UNCHANGED <<len, msg>>
  BY <1>1, DrawSteps
<1>3. buf[idx].surf \in Surfs /\ n # 0
  <2>1. SurfaceFault(buf[idx].surf) = {}
    BY DEF draw, Proceed, Running
  <2>2. buf[idx] \in Output
    BY <1>1, <1>2, LiveSlots
  <2> QED BY <1>2, <2>1, <2>2 DEF SurfaceFault, Output, Pixs
<1> SUFFICES ASSUME NEW i \in Live(len), i < idx + 1, Addressed(buf'[i], msg)
             PROVE  LET b == surf'[buf'[i].surf].content IN
                    buf'[i].surf # 0 /\ b # 0 /\ pix'[b].img = msg.img /\ pix'[b].dim = buf'[i].dim
  BY <1>2 DEF AppliedSoFar, Shows
<1>4. CASE i = idx
  BY <1>2, <1>3, <1>4 DEF Surfs
<1>5. CASE i # idx
  <2>1. i \in Slots /\ buf[i] \in Output /\ buf'[i] = buf[i]
    BY <1>1, <1>2, <1>5, LiveSlots
  <2>2. i < idx
    BY <1>2, <1>5, <2>1 DEF Slots
  <2>3. Shows(i)
    BY <1>2, <2>1, <2>2 DEF AppliedSoFar
  <2>4. buf[i].surf \in Surfs /\ buf[i].surf # buf[idx].surf
    BY <1>1, <1>2, <1>5, <2>1, <2>3, OwnSurfaces DEF Shows, Output
  <2> PICK b : b = surf[buf[i].surf].content
    OBVIOUS
  <2>5. surf'[buf[i].surf].content = b
    BY <1>2, <2>4
  <2>6. b \in Pixs /\ b # n /\ b # 0
    BY <1>1, <1>2, <2>3, <2>4 DEF Fresh, Shows, TypeOK, ObjectType, SurfaceType, Pixs
  <2>7. pix'[b] = pix[b]
    BY <1>2, <2>6
  <2> QED BY <2>1, <2>3, <2>5, <2>6, <2>7 DEF Shows
<1> QED BY <1>4, <1>5

\* The displays below the one at hand show the message, if it is for them.
LEMMA AppliedNext == ASSUME FaultInv, AppliedSoFar, [Next]_vars PROVE AppliedSoFar'
<1> SUFFICES ASSUME pc' = "apply" PROVE AppliedSoFar'
  BY DEF AppliedSoFar
<1>1. TypeOK /\ Running' /\ (Dispatch \/ Serve \/ Compositor \/ UNCHANGED vars)
  BY RunningSteps DEF FaultInv, PlaceInv, TableInv, TypeInv, Running
<1>2. ~Dispatch /\ ~Compositor
  BY <1>1, DispatchSteps, CompositorSteps DEF Dispatching
<1>3. CASE UNCHANGED vars
  BY <1>3 DEF vars, table, objects, client, AppliedSoFar, Shows
<1>4. CASE draw
  BY <1>1, <1>4, AppliedDraw
<1>5. CASE map_source
  <2>1. idx' = 0 /\ len' = len
    BY <1>5 DEF map_source, Done, table
  <2>2. \A i \in Live(len) : ~(i < 0)
    BY <1>1, LiveSlots DEF Slots
  <2> QED BY <2>1, <2>2 DEF AppliedSoFar
<1>6. CASE Skip
  <2>1. /\ pc = "apply" /\ idx \in Live(len) /\ ~Addressed(buf[idx], msg) /\ idx' = idx + 1
        /\ UNCHANGED <<buf, len, surf, pix, msg>>
    BY <1>6 DEF Skip, table, objects
  <2>2. \A i \in Live(len) : i < idx + 1 => i < idx \/ i = idx
    BY <1>1, <2>1, LiveSlots DEF Slots
  <2> QED BY <2>1, <2>2 DEF AppliedSoFar, Shows
<1>7. ~mkbuf_fails /\ ~apply_done /\ ~Unnamed
  BY DEF mkbuf_fails, apply_done, Done, Unnamed, Proceed
<1>8. \A m : ~Accept(m)
  BY DEF Accept
<1> QED BY <1>1, <1>2, <1>3, <1>4, <1>5, <1>6, <1>7, <1>8 DEF Serve

\* Nothing has been drawn and nothing has gone wrong at first.
LEMMA AppliedInit == Init => AppliedSoFar /\ FaultsStop
BY DEF Init, AppliedSoFar, FaultsStop

\* When the daemon is done with a message, it is on every display it names, in
\* the size of that display, however many displays there are: none is left out
\* and none drawn over by the next, as long as no call fails, no display leaves
\* and the compositor describes them in time.
THEOREM MessageApplied == Spec => Applied
<1> DEFINE Whole == pc = "apply" /\ pc' = "loop" /\ Without({"unplug", "late_info", "oom"}) =>
             \A i \in Live(len) : Addressed(buf[i], msg) =>
               LET b == surf[buf[i].surf].content
               IN  b # 0 /\ pix[b].img = msg.img /\ pix[b].dim = buf[i].dim
<1>1. FaultInv /\ AppliedSoFar /\ [Next]_vars => [Whole]_vars
  <2> SUFFICES ASSUME FaultInv, AppliedSoFar, [Next]_vars, pc = "apply", pc' = "loop",
                      Without({"unplug", "late_info", "oom"}),
                      NEW i \in Live(len), Addressed(buf[i], msg)
               PROVE  Shows(i)
    BY DEF Shows
  <2>1. TypeInv /\ TypeOK /\ Running /\ Running'
    BY DEF FaultInv, PlaceInv, TableInv, TypeInv, Running
  <2>2. ~Dispatch /\ ~Compositor
    BY <2>1, DispatchSteps, CompositorSteps DEF Dispatching
  <2>3. Serve
    BY <2>1, <2>2, RunningSteps DEF vars
  <2>4. ~mkbuf_fails
    <3>1. mkbuf_fails => idx \in Live(len) /\ buf[idx].dim = 0
      BY <2>1, FailSteps DEF Without
    <3>2. ~Moved
      BY <2>1 DEF FaultInv, SlotInv, NoneLeaves, NoneMoved, Without
    <3>3. \A k \in Live(len) : buf[k].dim # 0
      BY <3>2, KnownServing DEF Without
    <3> QED BY <3>1, <3>3
  <2>5. apply_done
    BY <2>3, <2>4 DEF Serve, Accept, map_source, Unnamed, Skip, draw, Proceed
  <2>6. idx = len /\ len \in Nat /\ i < len
    BY <2>1, <2>5, LiveSlots DEF apply_done, TypeOK, TableType, Live, Slots
  <2> QED BY <2>6 DEF AppliedSoFar
<1>2. FaultInv /\ AppliedSoFar /\ [Next]_vars => AppliedSoFar'
  BY AppliedNext
<1> QED BY <1>1, <1>2, AppliedInit, FaultInvariant, PTL DEF Spec, Applied

-----------------------------------------------------------------------------
(* What goes wrong.                                                        *)

\* The daemon does not go on after a fault.
LEMMA StopNext == ASSUME TypeOK, FaultsStop, [Next]_vars PROVE FaultsStop'
<1>1. CASE Running'
  BY <1>1, FaultsSame, RunningSteps DEF FaultsStop
<1>2. CASE ~Running'
  BY <1>2 DEF FaultsStop
<1> QED BY <1>1, <1>2

\* Which actions stop it, and with which fault.
LEMMA StoppingSteps ==
  ASSUME TypeOK, Next, Running, ~Running', faults = {}
  PROVE  \/ faults' = {"dangling"}
         \/ faults' = {"null_table"} /\ ~Without({"oom"})
         \/ Cleanup
         \/ reg_del /\ faults' = LayerFault(buf[Min(Named(Ev.id))])
         \/ ls_conf /\ faults' = SurfaceFault(out.surf) /\ UNCHANGED <<buf, len, wlout>>
         \/ /\ ls_close /\ faults' = LayerFault(out) /\ buf' = [buf EXCEPT ![At] = LayerFreed(out)]
            /\ UNCHANGED <<len, wlout>>
         \/ buf_free /\ faults' = BufferFault(out.wl_buf) /\ UNCHANGED wlout
         \/ Unnamed /\ faults' = {"null_name"} /\ UNCHANGED <<buf, len, wlout>>
         \/ draw /\ faults' = SurfaceFault(buf[idx].surf)
         \/ ProtocolError
<1>1. ~Compositor
  BY CompositorSteps DEF Running
<1>2. CASE Terminate
  BY <1>2 DEF Terminate
<1>3. CASE Serve
  <2>1. Unnamed \/ draw
    BY <1>3 DEF Running, Serve, Accept, map_source, Skip, mkbuf_fails, apply_done, Done
  <2>2. CASE Unnamed
    BY <2>2 DEF Unnamed, Proceed, table, objects
  <2>3. CASE draw
    BY <2>3 DEF draw, Proceed
  <2> QED BY <2>1, <2>2, <2>3
<1>4. CASE Dispatch
  <2>1. \/ Dangle \/ GrowFails \/ TooOld \/ Missing \/ reg_del \/ ls_conf \/ ls_close \/ buf_free
        \/ ProtocolError
    BY <1>4 DEF Running, Dispatch, Discard, BindService, BindOutput, reg_del_unknown, out_mode, out_name, Roundtrip1, Roundtrip2
  <2>2. CASE Dangle \/ GrowFails \/ TooOld \/ Missing \/ ProtocolError
    BY <2>2 DEF Dangle, GrowFails, Proceed, TooOld, Missing, ProtocolError, Without
  <2>3. CASE reg_del
    BY <2>3 DEF reg_del, Proceed
  <2>4. CASE ls_conf
    BY <2>4 DEF ls_conf, Proceed, Running
  <2>5. CASE ls_close
    BY <2>5 DEF ls_close, Proceed, Running
  <2>6. CASE buf_free
    BY <2>6 DEF buf_free, Proceed
  <2> QED BY <2>1, <2>2, <2>3, <2>4, <2>5, <2>6
<1> QED BY <1>1, <1>2, <1>3, <1>4 DEF Next

\* The surfaces of the table can be used, if none is closed early or none of
\* the outputs leaves.
LEMMA SurfacesUsable ==
  ASSUME FaultInv, Running, Without({"close"}) \/ Without({"unplug"}), NEW i \in Live(len)
  PROVE  LayerFault(buf[i]) = {} /\ SurfaceFault(buf[i].surf) \subseteq {"null_surface"}
BY DEF FaultInv, SurfacesAlive, Alive, LayerFault, SurfaceFault

\* The listener of a surface uses its surface, unless outputs have moved.
LEMMA ListenerUsable ==
  ASSUME FaultInv, Running, NEW t \in {"configure", "closed"}, Deliver(t), ~Moved
  PROVE  SurfaceFault(out.surf) = {} /\ LayerFault(out) = {}
<1>1. Ev.id \in Surfs /\ surf[Ev.id].st \in Alive /\ out.surf = Ev.id
  BY ListenerRight DEF FaultInv, out
<1> QED BY <1>1 DEF SurfaceFault, LayerFault, Alive, Surfs

\* Outputs move only when one leaves.
LEMMA MovedLeft == ASSUME FaultInv, Running, Moved PROVE Left /\ ~Without({"unplug"})
BY DEF FaultInv, SlotInv, NoneMoved, NoneLeaves

\* What buf_free finds to give back.
LEMMA BufferFound ==
  ASSUME FaultInv, Running, buf_free, ~Left
  PROVE  /\ Without({"late_release"}) => BufferFault(out.wl_buf) = {}
         /\ Without({"oom"}) => BufferFault(out.wl_buf) \subseteq {"freed_buffer"}
<1>1. TypeOK /\ BufferStays /\ BufferInUse
  BY DEF FaultInv, PlaceInv, TableInv, TypeInv, BufferInv
<1>2. Ev \in EventTypes /\ Ev.type = "release" /\ Shorter /\ Listening(Ev)
  BY <1>1, TakenShorter DEF buf_free, Deliver
<1>3. Ev = ReleaseOf(Ev.id) /\ Ev.id \in Pixs /\ pix[Ev.id].st = "live"
  BY <1>2, ReleaseFields DEF Listening
<1>4. InUse(Ev.id)
  BY <1>2, <1>3 DEF Shorter, InUse, ReleaseOf
<1>5. out = buf[Holder(Ev.id)]
  BY <1>2 DEF out, At, Data, Holder
<1>6. Without({"late_release"}) => out.wl_buf = Ev.id
  BY <1>1, <1>3, <1>4, <1>5 DEF BufferInUse
<1>7. Without({"oom"}) => out.wl_buf # 0
  BY <1>1, <1>3, <1>5 DEF BufferStays
<1> QED BY <1>3, <1>6, <1>7 DEF BufferFault, Pixs

\* A display is drawn on only if it has a surface.
LEMMA DrawnSurface ==
  ASSUME FaultInv, draw, Without({"close", "any_order"})
  PROVE  SurfaceFault(buf[idx].surf) = {}
<1>1. Running /\ pc = "apply" /\ idx \in Live(len)
  BY DEF draw, Selected, Running
<1>2. CanCreate
  BY <1>1 DEF FaultInv, ServiceInv, ServicesBound, CanCreate, Services
<1>3. buf[idx].surf # 0
  BY <1>1, <1>2 DEF FaultInv, ServiceInv, SurfacesMade, Without
<1>4. Without({"close"})
  BY DEF Without
<1> QED BY <1>1, <1>3, <1>4, SurfacesUsable DEF SurfaceFault

\* No fault but for its cause.
LEMMA CauseNext == ASSUME FaultInv, FaultsStop, FaultCause, [Next]_vars PROVE FaultCause'
<1>1. TypeOK /\ PlaceInv
  BY DEF FaultInv, PlaceInv, TableInv, TypeInv
<1>2. CASE UNCHANGED vars
  BY <1>2 DEF vars, table, objects, FaultCause, Moved, Left
<1>3. CASE Running'
  <2>1. faults' = {}
    BY <1>1, <1>3, FaultsSame, RunningSteps DEF FaultsStop
  <2> QED BY <2>1 DEF FaultCause
<1> SUFFICES ASSUME Next, Running, ~Running', faults = {} PROVE FaultCause'
  BY <1>2, <1>3, Ended DEF FaultsStop
<1>4. ASSUME faults' \subseteq {"null_surface", "freed_surface"},
             "null_surface" \in faults' => ~Without({"close", "any_order"}) \/ Moved',
             "freed_surface" \in faults' => ~Without({"unplug"}) /\ (~Without({"close"}) \/ Moved')
      PROVE  FaultCause'
  BY <1>4 DEF FaultCause, Without
<1>5. /\ \A o : LayerFault(o) \subseteq {"freed_surface"}
      /\ \A s : SurfaceFault(s) \subseteq {"null_surface", "freed_surface"}
  BY DEF LayerFault, SurfaceFault
<1>6. CASE Cleanup
  <2>1. faults' = UNION {LayerFault(buf[i]) : i \in Live(len)}
    BY <1>6 DEF Cleanup, CleanupAfter
  <2>2. faults' \subseteq {"freed_surface"}
    BY <1>5, <2>1
  <2>3. Without({"close"}) \/ Without({"unplug"}) => faults' = {}
    BY <2>1, SurfacesUsable
  <2> QED BY <1>4, <2>2, <2>3
<1>7. CASE reg_del /\ faults' = LayerFault(buf[Min(Named(Ev.id))])
  <2>1. Min(Named(Ev.id)) \in Live(len)
    BY <1>1, <1>7, RemovedName
  <2>2. Without({"close"}) \/ Without({"unplug"}) => faults' = {}
    BY <1>7, <2>1, SurfacesUsable
  <2> QED BY <1>4, <1>5, <1>7, <2>2
<1>8. CASE ls_conf /\ faults' = SurfaceFault(out.surf) /\ UNCHANGED <<buf, len, wlout>>
  <2>1. Moved' <=> Moved
    BY <1>8 DEF Moved
  <2>2. ~Moved => faults' = {}
    BY <1>8, ListenerUsable DEF ls_conf
  <2> QED BY <1>4, <1>5, <1>8, <2>1, <2>2, MovedLeft
<1>9. CASE /\ ls_close /\ faults' = LayerFault(out) /\ buf' = [buf EXCEPT ![At] = LayerFreed(out)]
           /\ UNCHANGED <<len, wlout>>
  <2>1. Moved' <=> Moved
    <3>1. At \in Slots /\ out \in Output
      BY <1>1, <1>9, DeliverType DEF ls_close, ListenerEvents
    <3>2. LayerFreed(out).wl_out = out.wl_out
      BY <3>1 DEF LayerFreed, Output
    <3>3. \A i \in Slots : buf'[i].wl_out = buf[i].wl_out
      BY <1>1, <1>9, <3>1, <3>2 DEF TypeOK, TableType, out
    <3> QED BY <1>1, <1>9, <3>3, LiveSlots DEF Moved
  <2>2. ~Moved => faults' = {}
    BY <1>9, ListenerUsable DEF ls_close
  <2> QED BY <1>4, <1>5, <1>9, <2>1, <2>2, MovedLeft
<1>10. CASE buf_free /\ faults' = BufferFault(out.wl_buf) /\ UNCHANGED wlout
  <2>1. faults' \subseteq {"null_buffer", "freed_buffer"} /\ (Left' <=> Left)
    BY <1>10 DEF BufferFault, Left
  <2>2. ~Left /\ Without({"late_release"}) => faults' = {}
    BY <1>10, BufferFound
  <2>3. ~Left /\ Without({"oom"}) => faults' \subseteq {"freed_buffer"}
    BY <1>10, BufferFound
  <2> QED BY <2>1, <2>2, <2>3 DEF FaultCause
<1>11. CASE Unnamed /\ faults' = {"null_name"} /\ UNCHANGED <<buf, len, wlout>>
  <2>1. Moved' <=> Moved
    BY <1>11 DEF Moved
  <2>2. pc = "apply" /\ idx \in Live(len) /\ buf[idx].human_name = NULL
    BY <1>11 DEF Unnamed
  <2>3. Moved \/ ~Without({"late_info", "oom"}) \/ (~Without({"unplug"}) /\ ~Without({"close"}))
    BY <2>2, KnownServing
  <2> QED BY <1>11, <2>1, <2>3 DEF FaultCause, Without
<1>12. CASE draw /\ faults' = SurfaceFault(buf[idx].surf)
  <2>1. Without({"close", "any_order"}) => faults' = {}
    BY <1>12, DrawnSurface
  <2>2. Without({"close"}) \/ Without({"unplug"}) => "freed_surface" \notin faults'
    BY <1>12, SurfacesUsable DEF draw, Selected
  <2> QED BY <1>4, <1>5, <1>12, <2>1, <2>2
<1>13. CASE ProtocolError
  <2>1. wq[1].type = "error" /\ 1 \in 1..Len(wq)
    BY <1>1, <1>13 DEF ProtocolError, Ev, TypeOK, CompositorType
  <2>2. ~Without({"late_configure"})
    BY <2>1 DEF FaultInv, NoErrors
  <2>3. faults' = {"protocol"} \cup UNION {LayerFault(buf[i]) : i \in Live(len)}
    BY <1>13 DEF ProtocolError, CleanupAfter
  <2>4. faults' \subseteq {"protocol", "freed_surface"}
    BY <1>5, <2>3
  <2>5. Without({"close"}) \/ Without({"unplug"}) => "freed_surface" \notin faults'
    BY <2>3, SurfacesUsable
  <2> QED BY <2>2, <2>4, <2>5 DEF FaultCause, Without
<1>14. CASE faults' = {"dangling"} \/ (faults' = {"null_table"} /\ ~Without({"oom"}))
  BY <1>14 DEF FaultCause, Without
<1> QED BY <1>1, <1>6, <1>7, <1>8, <1>9, <1>10, <1>11, <1>12, <1>13, <1>14, StoppingSteps

\* The daemon goes wrong for these causes and no others, for any number of
\* outputs and events: a listener run on another output only once outputs have
\* moved, a surface missing only when it may be closed or comes before its
\* services, a buffer given back twice only when two are in use, a display
\* without a name only when it is described late or left behind.
THEOREM CausesKnown == Spec => []FaultCause
<1>1. Init => FaultCause
  BY DEF Init, FaultCause
<1>2. FaultInv => TypeOK
  BY DEF FaultInv, PlaceInv, TableInv, TypeInv
<1> QED BY <1>1, <1>2, AppliedInit, StopNext, CauseNext, FaultInvariant, PTL DEF Spec
==============================================================================
