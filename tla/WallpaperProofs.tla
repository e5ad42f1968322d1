--------------------------- MODULE WallpaperProofs ---------------------------
(***************************************************************************)
(* The daemon keeps the promise of Wallpaper, for any number of displays,  *)
(* messages, surfaces and buffers, and whatever the compositor may do.     *)
(***************************************************************************)
EXTENDS EwdFaultProofs

-----------------------------------------------------------------------------
(* What the promise needs to know beyond FaultInv.                         *)

\* Only a display that has gone is taken out of the table.
GoneFirst ==
  Running =>
    /\ \A k \in 1..Len(wq) : wq[k].type = "global_remove" => plug[wq[k].id] = "gone"
    /\ \A g \in Globals : wlout[g].st = "released" => plug[g] = "gone"

\* Nothing has been drawn before the daemon serves.
Unpainted == pc \in {"roundtrip1", "roundtrip2"} => npix = 0

\* A surface the daemon is told of as closed is; none is without a cause.
ClosedSeen ==
  Running =>
    /\ \A k \in 1..Len(wq) : wq[k].type = "closed" => surf[wq[k].id].view = "closed"
    /\ Without({"close", "unplug"}) => \A s \in Surfs : surf[s].view # "closed"

\* As long as no output has left the table, each has its own name or none.
NamesRight ==
  Intact => \A i \in Live(len) : buf[i].human_name \in {NULL, Connector[buf[i].wl_out]}

\* What is drawn is an image.
Painting == pc = "apply" => msg.img # Clear

PromiseInv ==
  FaultInv /\ FaultsStop /\ GoneFirst /\ Unpainted /\ ClosedSeen /\ NamesRight /\ Painting

\* It holds at first.
LEMMA PromiseInit == Init => PromiseInv
<1> SUFFICES ASSUME Init PROVE PromiseInv
  OBVIOUS
<1>1. FaultInv /\ FaultsStop
  BY FaultInit, AppliedInit
<1>2. \A k \in 1..Len(wq) : wq[k].type \notin {"global_remove", "closed"}
  <2>1. PICK offer \in SUBSET Services, ver \in [Services \cup {"global"} -> Versions] :
          \E q \in SetToSeqs(Advertised(offer, ver)) :
            /\ wq = Append(q, Event("sync", 0, 0)) /\ q \in Seq(EventTypes)
            /\ \A k \in 1..Len(q) : q[k] \in Advertised(offer, ver)
    BY FirstEvents
  <2>2. PICK q : /\ wq = Append(q, Event("sync", 0, 0)) /\ q \in Seq(EventTypes)
                 /\ \A k \in 1..Len(q) : q[k] \in Advertised(offer, ver)
    BY <2>1
  <2>3. \A e \in Advertised(offer, ver) : e.type \notin {"global_remove", "closed"}
    BY DEF Advertised, Event, Services
  <2>4. \A k \in 1..Len(wq) : (k \in 1..Len(q) /\ wq[k] = q[k]) \/ wq[k] = Event("sync", 0, 0)
    BY <2>2
  <2> QED BY <2>2, <2>3, <2>4 DEF Event
<1>3. /\ len = 0 /\ pc = "roundtrip1" /\ npix = 0
      /\ \A g \in Globals : wlout[g].st = "none"
      /\ \A s \in Surfs : surf[s].view # "closed"
  BY DEF Init
<1>4. Live(len) = {}
  BY <1>3 DEF Live
<1>5. GoneFirst /\ ClosedSeen
  BY <1>2, <1>3 DEF GoneFirst, ClosedSeen
<1>6. NamesRight
  BY <1>4 DEF NamesRight
<1>7. Unpainted /\ Painting
  BY <1>3 DEF Unpainted, Painting
<1> QED BY <1>1, <1>5, <1>6, <1>7 DEF PromiseInv

\* What a step of the compositor does to a display.
LEMMA PlugSteps ==
  ASSUME PlaceInv, [Next]_vars, Running'
  PROVE  /\ \A g \in Globals : plug[g] = "gone" => plug'[g] = "gone"
         /\ \A k \in 1..Len(wq') : wq'[k].type = "global_remove" =>
              \/ \E l \in 1..Len(wq) : wq'[k] = wq[l]
              \/ wq'[k].id \in Globals /\ plug'[wq'[k].id] = "gone"
         /\ \A k \in 1..Len(wq') : wq'[k].type = "closed" =>
              \/ \E l \in 1..Len(wq) : wq'[k] = wq[l]
              \/ wq'[k].id \in Surfs /\ Close(wq'[k].id)
<1>1. TypeOK /\ (Dispatch \/ Serve \/ Compositor \/ UNCHANGED vars)
  BY RunningSteps DEF PlaceInv, TableInv, TypeInv
<1>2. plug \in [Globals -> {"off", "on", "gone"}]
  BY <1>1 DEF TypeOK, CompositorType
<1>3. CASE Dispatch
  BY <1>1, <1>3, DispatchSteps DEF Shorter, compositor
<1>4. CASE Serve
  BY <1>1, <1>4, ServeQueue DEF Longer
<1>5. CASE UNCHANGED vars
  BY <1>5 DEF vars, compositor
<1>6. CASE Compositor
  <2>1. CASE \E g \in Globals : Plug(g) /\ Said("global", g)
    BY <1>2, <2>1 DEF Plug, Said, Longer
  <2>2. ASSUME NEW g \in Globals, Unplug(g), Said("global_remove", g)
        PROVE  /\ \A h \in Globals : plug[h] = "gone" => plug'[h] = "gone"
               /\ plug'[g] = "gone" /\ wq'[Len(wq) + 1].id = g /\ Longer({"global_remove"})
               /\ Len(wq') = Len(wq) + 1
    BY <1>2, <2>2 DEF Unplug, Said
  <2>3. CASE \E g \in Globals : Unplug(g) /\ Said("global_remove", g)
    BY <2>2, <2>3 DEF Longer
  <2>4. CASE \E g \in Globals : Describe(g) /\ Longer({"mode", "name"})
    BY <2>4 DEF Describe, Longer
  <2>5. CASE \E g \in Globals : Remode(g) /\ Said("mode", g)
    BY <2>5 DEF Remode, Said, Longer
  <2>6. CASE \E s \in Surfs : Configure(s) /\ Said("configure", s)
    BY <2>6 DEF Configure, Said, Longer
  <2>7. CASE \E s \in Surfs : Close(s) /\ Said("closed", s)
    <3> PICK s \in Surfs : Close(s) /\ Said("closed", s)
      BY <2>7
    <3>1. plug' = plug /\ Longer({"closed"}) /\ Len(wq') = Len(wq) + 1 /\ wq'[Len(wq) + 1].id = s
      BY DEF Close, Said
    <3> QED BY <3>1 DEF Longer
  <2>8. CASE \E b \in Pixs : Release(b) /\ Said("release", b)
    BY <2>8 DEF Release, Said, Longer
  <2>9. CASE SyncReply /\ Said("sync", 0)
    BY <2>9 DEF SyncReply, Said, Longer
  <2> QED BY <1>1, <1>6, <2>1, <2>3, <2>4, <2>5, <2>6, <2>7, <2>8, <2>9, CompositorSteps
<1> QED BY <1>1, <1>3, <1>4, <1>5, <1>6

\* reg_del takes a display out of the table that has gone.
LEMMA GoneFirstNext ==
  ASSUME PlaceInv, Born, GoneFirst, [Next]_vars PROVE GoneFirst'
<1> SUFFICES ASSUME Running' PROVE GoneFirst'
  BY DEF GoneFirst
<1>1. TypeOK /\ Running
  BY RunningSteps DEF PlaceInv, TableInv, TypeInv
<1>2. \A k \in 1..Len(wq) : wq[k].type = "global_remove" => wq[k].id \in Globals
  BY <1>1, Waiting
<1>3. \A k \in 1..Len(wq') : wq'[k].type = "global_remove" => plug'[wq'[k].id] = "gone"
  BY <1>1, <1>2, PlugSteps DEF GoneFirst
<1>4. \A g \in Globals : wlout[g].st = "released" => plug'[g] = "gone"
  BY <1>1, PlugSteps DEF GoneFirst
<1>5. ASSUME NEW g \in Globals, wlout'[g].st = "released", wlout[g].st # "released"
      PROVE  plug'[g] = "gone"
  <2>1. ~SamePlaces
    BY <1>5 DEF SamePlaces
  <2>2. \A h, s : ~Bound(h, s)
    BY <1>5 DEF Bound
  <2>3. PICK p : Gone(p) /\ reg_del
    BY <2>1, <2>2, TableSteps
  <2>4. g = Ev.id
    BY <1>1, <1>5, <2>3 DEF Gone, TypeOK, ObjectType, ProxyType
  <2>5. 1 \in 1..Len(wq) /\ Ev = wq[1] /\ Ev.type = "global_remove"
    BY <1>1, <2>3, Taken DEF reg_del, Take
  <2>6. plug[g] = "gone"
    BY <1>1, <2>4, <2>5 DEF GoneFirst
  <2> QED BY <2>6, PlugSteps
<1> QED BY <1>3, <1>4, <1>5 DEF GoneFirst

\* The daemon does not change how the compositor sees a surface.
LEMMA ViewKept ==
  ASSUME TypeOK, Dispatch \/ Serve, ~BindOutput, Running'
  PROVE  \A s \in Surfs : surf'[s].view = surf[s].view
<1>1. ASSUME NEW S, surf' = SurfacesWithout(S) PROVE \A s \in Surfs : surf'[s].view = surf[s].view
  BY <1>1 DEF SurfacesWithout, TypeOK, ObjectType, SurfaceType
<1>2. CASE Serve
  <2>1. CASE draw
    BY <2>1 DEF draw, TypeOK, ObjectType, SurfaceType
  <2> QED BY <1>2, <2>1 DEF Serve, Accept, map_source, Unnamed, Skip, mkbuf_fails, apply_done, objects
<1>3. CASE Dispatch
  <2>1. CASE Dropped
    BY <2>1, DroppedKeeps
  <2>2. CASE reg_del
    BY <1>1, <2>2 DEF reg_del
  <2>3. CASE ls_close
    BY <1>1, <2>3 DEF ls_close
  <2>4. CASE ls_conf
    BY <2>4 DEF ls_conf, TypeOK, ObjectType, SurfaceType
  <2>5. CASE out_mode \/ out_name \/ buf_free
    BY <2>5 DEF out_mode, out_name, buf_free, objects
  <2> QED BY <1>3, <2>1, <2>2, <2>3, <2>4, <2>5, DispatchSteps
<1> QED BY <1>2, <1>3

\* A surface that is made is not closed.
LEMMA BoundPending ==
  ASSUME TypeOK, BindOutput, NEW g, NEW s, Bound(g, s), s \in Surfs, CanCreate
  PROVE  surf'[s].view = "pending"
<1>1. \E e : surf' = [surf EXCEPT ![nsurf + 1] = NewSurface(Ev.id, len, e)]
  BY DEF BindOutput
<1>2. surf'[s] # surf[s]
  BY DEF Bound
<1> QED BY <1>1, <1>2 DEF NewSurface, TypeOK, ObjectType, SurfaceType

\* A surface that is closed remains so, and only the compositor closes it.
LEMMA ViewSteps ==
  ASSUME PlaceInv, Born, [Next]_vars, Running'
  PROVE  \A s \in Surfs :
           /\ surf[s].view = "closed" /\ (surf[s].st # "none" \/ ~BindOutput) =>
                surf'[s].view = "closed"
           /\ surf'[s].view = "closed" => surf[s].view = "closed" \/ Close(s)
           /\ Close(s) => surf'[s].view = "closed"
<1>1. TypeOK /\ (Dispatch \/ Serve \/ Compositor \/ UNCHANGED vars)
  BY RunningSteps DEF PlaceInv, TableInv, TypeInv
<1>2. \A s \in Surfs : Close(s) => surf'[s].view = "closed"
  BY <1>1 DEF Close, TypeOK, ObjectType, SurfaceType
<1>3. CASE (Dispatch \/ Serve) /\ ~BindOutput
  BY <1>1, <1>2, <1>3, ViewKept
<1>4. CASE BindOutput
  <2>1. PICK g, s : Bound(g, s)
    BY <1>4, BindSteps
  <2>2. s \in Surfs /\ CanCreate => surf'[s].view = "pending"
    BY <1>1, <1>4, <2>1, BoundPending
  <2> QED BY <1>2, <1>4, <2>1, <2>2 DEF Bound, Surfs
<1>5. CASE UNCHANGED vars
  BY <1>2, <1>5 DEF vars, objects
<1>6. CASE Compositor
  <2>1. CASE \E s \in Surfs : Close(s)
    BY <1>1, <1>2, <2>1, SurfaceSeen DEF Close, TypeOK, ObjectType, SurfaceType
  <2>2. CASE \E s \in Surfs : Configure(s)
    BY <1>1, <1>2, <2>2, SurfaceSeen DEF Configure, TypeOK, ObjectType, SurfaceType
  <2>3. CASE surf' = surf
    BY <1>2, <2>3
  <2> QED BY <1>6, <2>1, <2>2, <2>3 DEF Compositor, Plug, Unplug, Describe, Remode, Release, SyncReply
<1> QED BY <1>1, <1>3, <1>4, <1>5, <1>6

\* A queued event that a surface is closed is right.
LEMMA ClosedSeenNext ==
  ASSUME FaultInv, ClosedSeen, [Next]_vars PROVE ClosedSeen'
<1> SUFFICES ASSUME Running' PROVE ClosedSeen'
  BY DEF ClosedSeen
<1>1. TypeOK /\ QueueOK /\ PlaceInv /\ Born /\ Running /\ Serving
  BY RunningSteps DEF FaultInv, PlaceInv, TableInv, TypeInv
<1>2. \A k \in 1..Len(wq) : wq[k].type = "closed" => wq[k].id \in Surfs /\ surf[wq[k].id].st # "none"
  BY <1>1, Waiting DEF QueueOK
<1>3. \A k \in 1..Len(wq') : wq'[k].type = "closed" => surf'[wq'[k].id].view = "closed"
  BY <1>1, <1>2, PlugSteps, ViewSteps DEF ClosedSeen
<1>4. ASSUME Without({"close", "unplug"}), NEW s \in Surfs PROVE surf'[s].view # "closed"
  <2>1. \A g \in Globals : plug[g] # "gone"
    BY <1>1, <1>4 DEF FaultInv, SlotInv, NoneLeaves, Without
  <2>2. ~Close(s)
    <3>1. Close(s) => surf[s].out \in Globals
      BY <1>1 DEF Close, Mapped, PlaceInv, SurfacesOwned, TableInv, TableOK, Surfs
    <3> QED BY <1>4, <2>1, <3>1 DEF Close, Without
  <2> QED BY <1>1, <1>4, <2>2, ViewSteps DEF ClosedSeen
<1> QED BY <1>3, <1>4 DEF ClosedSeen

\* Before the daemon serves it draws nothing; and it draws images.
LEMMA PaintNext ==
  ASSUME FaultInv, Unpainted, Painting, [Next]_vars, Running' PROVE Unpainted' /\ Painting'
<1>1. TypeOK /\ TypeInv /\ PlaceInv /\ Born /\ (Dispatch \/ Serve \/ Compositor \/ UNCHANGED vars)
  BY RunningSteps DEF FaultInv, PlaceInv, TableInv, TypeInv
<1>2. CASE Serve
  <2>1. Unpainted'
    BY <1>1, <1>2, ServeQueue DEF Unpainted
  <2>2. Painting'
    BY <1>2 DEF Serve, Accept, map_source, Unnamed, Skip, mkbuf_fails, draw, apply_done, Done,
                Proceed, Painting, client
  <2> QED BY <2>1, <2>2
<1>3. CASE Dispatch
  <2>1. npix' = npix
    BY <1>1, <1>3, BuffersKept DEF buf_free
  <2>2. pc' \in {"roundtrip1", "roundtrip2"} => pc \in {"roundtrip1", "roundtrip2"}
    BY <1>1, SyncSteps
  <2> QED BY <1>1, <1>3, <2>1, <2>2, DispatchSteps DEF Unpainted, Painting, Dispatching
<1>4. CASE Compositor
  BY <1>1, <1>4, CompositorSteps DEF Unpainted, Painting, client
<1>5. CASE UNCHANGED vars
  BY <1>5 DEF vars, objects, client, Unpainted, Painting
<1> QED BY <1>1, <1>2, <1>3, <1>4, <1>5

\* What a step does to the table of a daemon from which no output has been
\* removed, and none is removed by it.
LEMMA IntactSteps ==
  ASSUME PlaceInv, Born, [Next]_vars, Intact'
  PROVE  /\ Intact
         /\ \/ SamePlaces /\ (Quiet \/ out_name \/ ls_close)
            \/ BindOutput /\ \E g, s : Bound(g, s)
<1>1. Running' /\ ~Left'
  BY DEF Intact
<1>2. Running
  BY <1>1, TableSteps
<1>3. \A p : ~Gone(p)
  BY <1>1 DEF Gone, Left
<1>4. CASE SamePlaces
  BY <1>1, <1>2, <1>3, <1>4, TableSteps DEF Intact, Left, SamePlaces
<1>5. CASE \E g, s : Bound(g, s)
  <2>1. \A g \in Globals : wlout[g].st = "released" => wlout'[g].st = "released"
    BY <1>5 DEF Bound
  <2> QED BY <1>1, <1>2, <1>3, <2>1, TableSteps DEF Intact, Left
<1> QED BY <1>1, <1>3, <1>4, <1>5, TableSteps

\* The name that is stored is that of the output in the slot.
LEMMA NamesRightNext ==
  ASSUME FaultInv, NamesRight, [Next]_vars PROVE NamesRight'
<1> SUFFICES ASSUME Intact' PROVE NamesRight'
  BY DEF NamesRight
<1>1. TypeOK /\ PlaceInv /\ Born /\ TableOK /\ Running /\ Serving
  BY RunningSteps DEF FaultInv, PlaceInv, TableInv, TypeInv, Intact
<1>2. Intact /\ ~Moved
  BY <1>1, IntactSteps DEF FaultInv, SlotInv, NoneMoved, Intact
<1>3. CASE SamePlaces /\ Quiet
  BY <1>1, <1>2, <1>3, LiveSlots DEF Quiet, NamesRight
<1>4. CASE ls_close
  <2>1. At \in Slots /\ out \in Output
    BY <1>1, <1>4, DeliverType DEF ls_close, ListenerEvents
  <2>2. LayerFreed(out).wl_out = out.wl_out /\ LayerFreed(out).human_name = out.human_name
    BY <2>1 DEF LayerFreed, Output
  <2>3. \A i \in Slots : buf'[i].wl_out = buf[i].wl_out /\ buf'[i].human_name = buf[i].human_name
    BY <1>1, <1>4, <2>1, <2>2 DEF ls_close, TypeOK, TableType, out
  <2> QED BY <1>1, <1>2, <1>4, <2>3, LiveSlots DEF ls_close, NamesRight
<1>5. CASE out_name
  <2>1. At \in Slots /\ out \in Output /\ Ev \in EventTypes /\ Ev.type = "name"
    BY <1>1, <1>5, DeliverType DEF out_name, ListenerEvents
  <2>2. Ev.id \in Globals /\ wlout[Ev.id].st = "live" /\ At = wlout[Ev.id].data.slot
    BY <1>5, <2>1, EventFields DEF out_name, Deliver, Listening, At, Data
  <2>3. PICK i \in Live(len) : buf[i].wl_out = Ev.id
    BY <1>1, <2>2 DEF TableOK
  <2>4. At = i
    BY <1>2, <2>2, <2>3 DEF Moved
  <2>5. buf'[i].wl_out = Ev.id /\ buf'[i].human_name \in {NULL, Connector[Ev.id]}
    BY <1>1, <1>5, <2>1, <2>3, <2>4 DEF out_name, TypeOK, TableType, Output
  <2>6. \A k \in Slots : k # i => buf'[k] = buf[k]
    BY <1>1, <1>5, <2>4 DEF out_name, TypeOK, TableType
  <2> QED BY <1>1, <1>2, <1>5, <2>5, <2>6, LiveSlots DEF out_name, NamesRight
<1>6. CASE \E g, s : Bound(g, s)
  <2>1. \A g, s : NewOutput(g, s).human_name = NULL
    BY DEF NewOutput, Zero
  <2> QED BY <1>2, <1>6, <2>1 DEF Bound, NamesRight
<1> QED BY <1>1, <1>3, <1>4, <1>5, <1>6, IntactSteps

\* The inductive invariant.
LEMMA PromiseInvNext == ASSUME PromiseInv, [Next]_vars PROVE PromiseInv'
<1>1. FaultInv' /\ FaultsStop' /\ GoneFirst' /\ ClosedSeen' /\ NamesRight'
  BY FaultNext, StopNext, GoneFirstNext, ClosedSeenNext, NamesRightNext
  DEF PromiseInv, FaultInv, PlaceInv, TableInv, TypeInv
<1>2. CASE Running'
  BY <1>1, <1>2, PaintNext DEF PromiseInv
<1>3. CASE ~Running'
  BY <1>1, <1>3 DEF PromiseInv, Unpainted, Painting, Running
<1> QED BY <1>2, <1>3

-----------------------------------------------------------------------------
(***************************************************************************)
(* The mapping.  Slot(g) is the slot of display g; the displays, what they *)
(* show and what is to be done are read from the slots.                    *)
(***************************************************************************)
LostIn(i) == Lost(buf[i].surf)
ImageIn(i) == ImageOn(buf[i].surf)

\* The phase, before and after a step.
LEMMA PhaseIs ==
  /\ Intact /\ pc \in {"roundtrip1", "roundtrip2"} => Phase = "start"
  /\ Intact /\ pc \in {"loop", "map", "apply"} => Phase = "serving"
  /\ ~Intact /\ pc # "exited" => Phase = "broken"
  /\ pc = "exited" => Phase = IF faults = {} /\ (\A g \in Globals : plug[g] # "gone")
                              THEN "over" ELSE "broken"
BY DEF Phase, Intact, Running

LEMMA NextPhaseIs ==
  /\ Intact' /\ pc' \in {"roundtrip1", "roundtrip2"} => Phase' = "start"
  /\ Intact' /\ pc' \in {"loop", "map", "apply"} => Phase' = "serving"
  /\ ~Intact' /\ pc' # "exited" => Phase' = "broken"
  /\ pc' = "exited" => Phase' = IF faults' = {} /\ (\A g \in Globals : plug'[g] # "gone")
                                THEN "over" ELSE "broken"
BY DEF Phase, Intact, Running

\* The slots of the displays that are there.
LEMMA SlotIs ==
  ASSUME TableOK, Intact
  PROVE  /\ \A g \in Present : Slot(g) \in Live(len) /\ buf[Slot(g)].wl_out = g
         /\ \A i \in Live(len) : buf[i].wl_out \in Present /\ Slot(buf[i].wl_out) = i
<1>1. ASSUME NEW g \in Present PROVE Slot(g) \in Live(len) /\ buf[Slot(g)].wl_out = g
  <2>1. \E i \in Live(len) : buf[i].wl_out = g
    BY DEF Present, TableOK, Serving, Intact, Running
  <2> QED BY <2>1 DEF Slot
<1>2. ASSUME NEW i \in Live(len) PROVE buf[i].wl_out \in Present
  BY DEF Present, TableOK, Serving, Intact, Running
<1>3. \A i, j \in Live(len) : buf[i].wl_out = buf[j].wl_out => i = j
  BY DEF TableOK, Serving, Intact, Running
<1> QED BY <1>1, <1>2, <1>3

LEMMA NextSlotIs ==
  ASSUME TableOK', Intact'
  PROVE  /\ \A g \in Present' : Slot(g)' \in Live(len') /\ buf'[Slot(g)'].wl_out = g
         /\ \A i \in Live(len') : /\ buf'[i].wl_out \in Present'
                                  /\ \A g : g = buf'[i].wl_out => Slot(g)' = i
<1>1. ASSUME NEW g \in Present' PROVE Slot(g)' \in Live(len') /\ buf'[Slot(g)'].wl_out = g
  <2>1. \E i \in Live(len') : buf'[i].wl_out = g
    BY DEF Present, TableOK, Serving, Intact, Running
  <2> QED BY <2>1 DEF Slot
<1>2. ASSUME NEW i \in Live(len') PROVE buf'[i].wl_out \in Present'
  BY DEF Present, TableOK, Serving, Intact, Running
<1>3. \A i, j \in Live(len') : buf'[i].wl_out = buf'[j].wl_out => i = j
  BY DEF TableOK, Serving, Intact, Running
<1> QED BY <1>1, <1>2, <1>3

\* Steps that leave the outputs in their places leave the displays there.
LEMMA SamePresent ==
  ASSUME TableOK, TableOK', Intact, Intact', SamePlaces, TypeOK
  PROVE  Present' = Present /\ \A g \in Present : Slot(g)' = Slot(g)
<1>1. Present' = Present
  BY DEF Present, SamePlaces
<1>2. ASSUME NEW g \in Present PROVE Slot(g)' = Slot(g)
  <2>1. Slot(g) \in Live(len) /\ Slot(g) \in Slots /\ buf[Slot(g)].wl_out = g
    BY SlotIs, LiveSlots
  <2>2. Slot(g) \in Live(len') /\ buf'[Slot(g)].wl_out = g
    BY <2>1 DEF SamePlaces
  <2> QED BY <2>2, NextSlotIs
<1> QED BY <1>1, <1>2

\* If moreover the surfaces show the same, so do the displays.
LEMMA SameShown ==
  ASSUME TableOK, TableOK', Intact, Intact', SamePlaces, TypeOK,
         \A i \in Live(len) : ImageIn(i)' = ImageIn(i)
  PROVE  Shown' = Shown
<1>1. Present' = Present /\ \A g \in Present : Slot(g)' = Slot(g)
  BY SamePresent
<1>2. ASSUME NEW g \in Present PROVE ImageOn(SurfaceOf(g))' = ImageOn(SurfaceOf(g))
  <2>1. Slot(g) \in Live(len)
    BY SlotIs
  <2> PICK i \in Live(len) : i = Slot(g) /\ i = Slot(g)'
    BY <1>1, <2>1
  <2>2. ImageIn(i)' = ImageIn(i)
    OBVIOUS
  <2>3. SurfaceOf(g) = buf[i].surf /\ SurfaceOf(g)' = buf'[i].surf
    BY DEF SurfaceOf
  <2> QED BY <2>2, <2>3 DEF ImageIn, ImageOn, Lost
<1> QED BY <1>1, <1>2 DEF Shown

LEMMA SameDark ==
  ASSUME TableOK, TableOK', Intact, Intact', SamePlaces, TypeOK, Phase' = Phase,
         \/ Phase = "start"
         \/ \A i \in Live(len) : LostIn(i)' <=> LostIn(i)
  PROVE  Dark' = Dark
<1>1. Present' = Present /\ \A g \in Present : Slot(g)' = Slot(g)
  BY SamePresent
<1>2. CASE Phase = "start"
  BY <1>1, <1>2 DEF Dark
<1>3. CASE \A i \in Live(len) : LostIn(i)' <=> LostIn(i)
  <2>1. ASSUME NEW g \in Present PROVE Lost(SurfaceOf(g))' <=> Lost(SurfaceOf(g))
    <3>1. Slot(g) \in Live(len)
      BY SlotIs
    <3> PICK i \in Live(len) : i = Slot(g) /\ i = Slot(g)'
      BY <1>1, <3>1
    <3>2. LostIn(i)' <=> LostIn(i)
      BY <1>3
    <3>3. SurfaceOf(g) = buf[i].surf /\ SurfaceOf(g)' = buf'[i].surf
      BY DEF SurfaceOf
    <3> QED BY <3>2, <3>3 DEF LostIn, Lost
  <2> QED BY <1>1, <2>1 DEF Dark
<1> QED BY <1>2, <1>3

\* While no message is applied there is no order.
LEMMA NoOrders ==
  /\ pc # "apply" => Order = NoMsg /\ Todo = {}
  /\ pc' # "apply" => Order' = NoMsg /\ Todo' = {}
BY DEF Order, Todo

\* Nothing can be seen of a daemon that is not intact.
LEMMA NothingSeen ==
  /\ ~Intact => /\ Present = {} /\ Dark = {} /\ Shown = [g \in Globals |-> Clear]
                /\ Order = NoMsg /\ Todo = {}
  /\ ~Intact' => /\ Present' = {} /\ Dark' = {} /\ Shown' = [g \in Globals |-> Clear]
                 /\ Order' = NoMsg /\ Todo' = {}
BY DEF Present, Dark, Shown, Order, Todo

\* The images of buffers do not change: drawing makes a new one.
LEMMA ImagesKept ==
  ASSUME PlaceInv, Born, [Next]_vars, Running', ~draw
  PROVE  \A b \in Pixs : pix'[b].img = pix[b].img
<1>1. TypeOK /\ (Dispatch \/ Serve \/ Compositor \/ UNCHANGED vars)
  BY RunningSteps DEF PlaceInv, TableInv, TypeInv
<1>2. CASE Dispatch
  <2>1. CASE buf_free
    BY <1>1, <2>1 DEF buf_free, TypeOK, ObjectType, BufferType
  <2> QED BY <1>2, <2>1, BuffersKept
<1>3. CASE Serve
  BY <1>3 DEF Serve, Accept, map_source, Unnamed, Skip, mkbuf_fails, apply_done, objects
<1>4. CASE Compositor
  <2>1. CASE \E b \in Pixs : Release(b)
    BY <1>1, <2>1 DEF Release, TypeOK, ObjectType, BufferType
  <2> QED BY <1>4, <2>1 DEF Compositor, Plug, Unplug, Describe, Remode, Configure, Close, SyncReply
<1> QED BY <1>1, <1>2, <1>3, <1>4 DEF vars, objects

\* What is on a surface changes by drawing only, or by closing it.
LEMMA SurfaceKept ==
  ASSUME FaultInv, [Next]_vars, Running', ~BindOutput, ~draw, NEW s \in Surfs, ~Close(s)
  PROVE  (Lost(s)' <=> Lost(s)) /\ ImageOn(s)' = ImageOn(s)
<1>1. TypeOK /\ PlaceInv /\ Born /\ Running /\ Fresh
  BY RunningSteps DEF FaultInv, PlaceInv, TableInv, TypeInv, BufferInv
<1>2. surf'[s].view = "closed" <=> surf[s].view = "closed"
  BY <1>1, ViewSteps
<1>3. surf'[s].content = surf[s].content /\ surf[s].content \in Pixs \cup {0}
  BY <1>1, ContentStep DEF TypeOK, ObjectType, SurfaceType
<1>4. \A b \in Pixs : pix'[b].img = pix[b].img
  BY <1>1, ImagesKept
<1> QED BY <1>2, <1>3, <1>4 DEF Lost, ImageOn

\* ... and the same holds of the slots: ls_close takes from its output a surface
\* that has been closed already.
LEMMA SlotKept ==
  ASSUME PromiseInv, [Next]_vars, Intact', ~BindOutput, ~draw, \A s \in Surfs : ~Close(s)
  PROVE  /\ Intact /\ SamePlaces
         /\ \A i \in Live(len) : (LostIn(i)' <=> LostIn(i)) /\ ImageIn(i)' = ImageIn(i)
<1>1. /\ TypeOK /\ PlaceInv /\ Born /\ FaultInv /\ SlotInv /\ Running /\ Running'
  BY RunningSteps DEF PromiseInv, FaultInv, PlaceInv, TableInv, TypeInv, Intact
<1>2. Intact /\ ~Moved /\ SamePlaces /\ (Quiet \/ out_name \/ ls_close)
  BY <1>1, IntactSteps DEF SlotInv, NoneMoved, Intact
<1>3. ASSUME NEW i \in Live(len), buf'[i].surf = buf[i].surf
      PROVE  (LostIn(i)' <=> LostIn(i)) /\ ImageIn(i)' = ImageIn(i)
  <2> PICK s : s = buf[i].surf
    OBVIOUS
  <2>1. s \in Surfs \cup {0}
    BY <1>1, LiveSlots DEF Output
  <2>2. (Lost(s)' <=> Lost(s)) /\ ImageOn(s)' = ImageOn(s)
    BY <1>1, <2>1, SurfaceKept DEF Lost, ImageOn
  <2> QED BY <1>3, <2>2 DEF LostIn, ImageIn, Lost, ImageOn
<1>4. CASE Quiet
  BY <1>1, <1>2, <1>3, <1>4, LiveSlots DEF Quiet
<1>5. CASE out_name
  <2>1. At \in Slots /\ out \in Output
    BY <1>1, <1>5, DeliverType DEF out_name, ListenerEvents
  <2>2. \A i \in Slots : buf'[i].surf = buf[i].surf
    BY <1>1, <1>5, <2>1 DEF out_name, TypeOK, TableType, Output
  <2> QED BY <1>1, <1>2, <1>3, <2>2, LiveSlots
<1>6. CASE ls_close
  <2>1. Deliver("closed") /\ At \in Live(len) /\ At \in Slots /\ buf[At].surf = Ev.id /\ Ev.id \in Surfs
    BY <1>1, <1>2, <1>6, ListenerRight DEF ls_close
  <2>2. surf[Ev.id].view = "closed"
    BY <1>1, <2>1, TakenShorter DEF Deliver, Shorter, PromiseInv, ClosedSeen
  <2>3. buf' = buf \/ buf' = [buf EXCEPT ![At] = LayerFreed(out)]
    BY <1>6 DEF ls_close
  <2>4. ASSUME NEW i \in Live(len), i # At PROVE buf'[i].surf = buf[i].surf
    BY <1>1, <2>1, <2>3, <2>4, LiveSlots DEF TypeOK, TableType
  <2>5. CASE buf' = buf
    BY <1>2, <1>3, <2>5
  <2>6. CASE buf' = [buf EXCEPT ![At] = LayerFreed(out)]
    <3>1. buf'[At].surf = 0
      BY <1>1, <2>1, <2>6, LiveSlots DEF TypeOK, TableType, LayerFreed, out, Output
    <3> PICK p : p = At
      OBVIOUS
    <3>2. (LostIn(p)' <=> LostIn(p)) /\ ImageIn(p)' = ImageIn(p)
      BY <2>1, <2>2, <3>1 DEF LostIn, ImageIn, Lost, ImageOn
    <3> QED BY <1>2, <1>3, <2>4, <3>2
  <2> QED BY <2>3, <2>5, <2>6
<1> QED BY <1>2, <1>4, <1>5, <1>6

\* Such a step changes no picture.
LEMMA PictureKept ==
  ASSUME PromiseInv, PromiseInv', [Next]_vars, Intact', ~BindOutput, ~draw,
         \A s \in Surfs : ~Close(s)
  PROVE  /\ Intact /\ TypeOK /\ TableOK /\ TableOK' /\ SamePlaces
         /\ Present' = Present /\ (\A g \in Present : Slot(g)' = Slot(g))
         /\ Shown' = Shown /\ (Phase' = Phase => Dark' = Dark)
<1>1. TypeOK /\ TableOK /\ TableOK'
  BY DEF PromiseInv, FaultInv, PlaceInv, TableInv, TypeInv
<1> QED BY <1>1, SlotKept, SamePresent, SameShown, SameDark

-----------------------------------------------------------------------------
(***************************************************************************)
(* The steps of a daemon that stays intact.                                *)
(***************************************************************************)
\* While the daemon dispatches, displays may appear, and it may begin to serve.
LEMMA BeginSteps ==
  ASSUME PromiseInv, PromiseInv', [Next]_vars, Intact', Dispatch, ~BindOutput,
         \A s \in Surfs : ~Close(s)
  PROVE  Promise!Begin \/ UNCHANGED Promise!vars
<1>1. TypeOK /\ TypeInv /\ FaultInv /\ FaultInv' /\ TableOK' /\ ClosedSeen' /\ Running' /\ ~Left'
  BY DEF PromiseInv, FaultInv, PlaceInv, TableInv, TypeInv, Intact
<1>2. ~draw /\ Dispatching /\ Dispatching'
  <2>1. Dispatching /\ Dispatching'
    BY <1>1, DispatchSteps
  <2> QED BY <2>1 DEF draw, Selected, Dispatching
<1>3. /\ Intact /\ Present' = Present /\ Shown' = Shown /\ (Phase' = Phase => Dark' = Dark)
      /\ Order = NoMsg /\ Order' = NoMsg /\ Todo = {} /\ Todo' = {}
  BY <1>2, PictureKept, NoOrders DEF Dispatching
<1>4. CASE pc' = pc \/ pc' = "roundtrip2"
  <2>1. pc' = pc \/ (pc = "roundtrip1" /\ pc' = "roundtrip2")
    BY <1>1, <1>2, <1>4, SyncSteps DEF Dispatching
  <2>2. Phase' = Phase
    BY <1>2, <1>3, <2>1, PhaseIs, NextPhaseIs DEF Dispatching
  <2> QED BY <1>3, <2>2 DEF Promise!vars
<1>5. CASE pc = "roundtrip2" /\ pc' = "loop"
  <2>1. Phase = "start" /\ Phase' = "serving"
    BY <1>3, <1>5, PhaseIs, NextPhaseIs
  <2>2. Dark = {}
    BY <2>1 DEF Dark
  <2>3. Dark' \subseteq Present
    BY <1>3 DEF Dark
  <2>4. ASSUME ~MayLose, NEW g \in Present' PROVE ~Lost(SurfaceOf(g))'
    <3>1. Slot(g)' \in Live(len')
      BY <1>1, <2>4, NextSlotIs
    <3> PICK i \in Live(len') : i = Slot(g)'
      BY <3>1
    <3>2. Without({"any_order", "close"}) /\ Without({"close", "unplug"})
      BY <2>4 DEF MayLose, Without
    <3>3. bound' = Services
      BY <1>1, <1>5 DEF FaultInv, ServiceInv, ServicesBound
    <3>4. CanCreate'
      BY <3>3 DEF CanCreate, Services
    <3>5. buf'[i].surf # 0
      BY <1>1, <3>2, <3>4 DEF FaultInv, ServiceInv, SurfacesMade, Without
    <3>6. TypeOK'
      BY <1>1 DEF FaultInv, PlaceInv, TableInv, TypeInv
    <3>7. i \in Slots /\ buf'[i] \in Output
      BY <3>6, EwdAssumption DEF TypeOK, TableType, Live, Slots
    <3>8. buf'[i].surf \in Surfs
      BY <3>5, <3>7 DEF Output
    <3>9. surf'[buf'[i].surf].view # "closed"
      BY <1>1, <3>2, <3>8 DEF ClosedSeen, Without
    <3>10. SurfaceOf(g)' = buf'[i].surf
      BY DEF SurfaceOf
    <3> QED BY <3>5, <3>9, <3>10 DEF Lost
  <2>5. Dark' = Dark \/ (MayLose /\ Dark' \subseteq Present)
    BY <2>2, <2>3, <2>4 DEF Dark
  <2> QED BY <1>3, <2>1, <2>5 DEF Promise!Begin
<1> QED BY <1>1, <1>2, <1>4, <1>5, SyncSteps DEF Dispatching

\* An output that is bound is a display that appears, with nothing on it.
LEMMA AppearSteps ==
  ASSUME PromiseInv, PromiseInv', [Next]_vars, Intact', BindOutput
  PROVE  \E g \in Globals : Promise!Appear(g)
<1>1. /\ TypeOK /\ PlaceInv /\ Born /\ FaultInv /\ TableOK /\ TableOK' /\ Running' /\ ~Left'
      /\ Intact /\ Running
  BY IntactSteps DEF PromiseInv, FaultInv, PlaceInv, TableInv, TypeInv, Intact
<1>2. PICK g, s : Bound(g, s)
  BY <1>1, BindSteps
<1>3. Present' = Present \cup {g} /\ g \notin Present /\ g \in Globals
  BY <1>1, <1>2 DEF Bound, Present
<1>4. pc' = pc /\ Dispatching /\ Phase' = Phase /\ Phase \in {"start", "serving"}
  <2>1. pc' = pc /\ Dispatching
    BY <1>2 DEF Bound, BindOutput, Take
  <2> QED BY <1>1, <2>1, PhaseIs, NextPhaseIs DEF Dispatching
<1>5. Order' = Order /\ Todo' = Todo
  BY <1>4, NoOrders DEF Dispatching
<1>6. ASSUME NEW i \in Live(len)
      PROVE  /\ i \in Live(len') /\ buf'[i].wl_out = buf[i].wl_out
             /\ (LostIn(i)' <=> LostIn(i)) /\ ImageIn(i)' = ImageIn(i)
  <2>1. i \in Slots /\ buf[i] \in Output /\ i # len
    BY <1>1, <1>2, LiveSlots DEF Bound, Live
  <2>2. i \in Live(len') /\ buf'[i] = buf[i]
    BY <1>2, <2>1 DEF Bound, Live
  <2>3. buf[i].surf # s \/ s = 0
    BY <1>2, <2>1 DEF Bound
  <2>4. buf[i].surf # 0 => surf'[buf[i].surf] = surf[buf[i].surf]
    BY <1>2, <2>1, <2>3 DEF Bound, Output
  <2>5. pix' = pix
    BY <1>2 DEF Bound
  <2> QED BY <2>2, <2>4, <2>5 DEF LostIn, ImageIn, Lost, ImageOn
<1>7. ASSUME NEW h \in Present
      PROVE  /\ Lost(SurfaceOf(h))' <=> Lost(SurfaceOf(h))
             /\ ImageOn(SurfaceOf(h))' = ImageOn(SurfaceOf(h))
  <2>1. Slot(h) \in Live(len) /\ buf[Slot(h)].wl_out = h
    BY <1>1, SlotIs
  <2> PICK i \in Live(len) : i = Slot(h) /\ buf[i].wl_out = h
    BY <2>1
  <2>2. Slot(h)' = i
    BY <1>1, <1>6, NextSlotIs
  <2>3. SurfaceOf(h) = buf[i].surf /\ SurfaceOf(h)' = buf'[i].surf
    BY <2>2 DEF SurfaceOf
  <2>4. (LostIn(i)' <=> LostIn(i)) /\ ImageIn(i)' = ImageIn(i)
    BY <1>6
  <2> QED BY <2>3, <2>4 DEF LostIn, ImageIn, Lost, ImageOn
<1>8. SurfaceOf(g)' = s
  <2>1. len \in Live(len') /\ buf'[len].wl_out = g /\ buf'[len].surf = s
    BY <1>2 DEF Bound, Live, NewOutput, Zero
  <2> PICK n : n = len
    OBVIOUS
  <2>2. Slot(g)' = n
    BY <1>1, <2>1, NextSlotIs
  <2> QED BY <2>1, <2>2 DEF SurfaceOf
<1>9. ImageOn(SurfaceOf(g))' = Clear
  <2>1. s = 0 \/ surf'[s].content = 0
    BY <1>2 DEF Bound
  <2> QED BY <1>8, <2>1 DEF ImageOn, Lost
<1>10. Phase = "serving" => ~Lost(SurfaceOf(g))'
  <2> SUFFICES ASSUME Phase = "serving" PROVE ~Lost(SurfaceOf(g))'
    OBVIOUS
  <2>1. pc = "loop"
    BY <1>1, <1>4, PhaseIs DEF Dispatching
  <2>2. CanCreate
    BY <1>1, <2>1 DEF FaultInv, ServiceInv, ServicesBound, CanCreate, Services
  <2>3. s \in Surfs
    BY <1>2, <2>2 DEF Bound
  <2>4. surf'[s].view = "pending" /\ s # 0
    BY <1>1, <1>2, <2>2, <2>3, BoundPending DEF Surfs
  <2> QED BY <1>8, <2>4 DEF Lost
<1>11. Dark' = Dark
  BY <1>3, <1>4, <1>7, <1>10 DEF Dark
<1>12. Shown' = Shown
  BY <1>3, <1>7, <1>9 DEF Shown
<1> QED BY <1>3, <1>4, <1>5, <1>11, <1>12 DEF Promise!Appear, Promise!Ended

\* A surface that is closed takes the image from its display, unless the daemon
\* has not yet drawn on any.
LEMMA DarkenSteps ==
  ASSUME PromiseInv, PromiseInv', [Next]_vars, Intact', NEW s \in Surfs, Close(s)
  PROVE  (\E g \in Globals : Promise!Darken(g)) \/ UNCHANGED Promise!vars
<1>1. /\ TypeOK /\ PlaceInv /\ Born /\ FaultInv /\ TableOK /\ TableOK' /\ Running' /\ ~Left'
      /\ Intact /\ Running /\ Serving
  BY IntactSteps DEF PromiseInv, FaultInv, PlaceInv, TableInv, TypeInv, Intact, Running, Serving
<1>2. /\ UNCHANGED <<table, wlout, nsurf, pc, pix, faults>> /\ Dispatching
      /\ Mapped(s) /\ ("close" \in Behaviours \/ plug[surf[s].out] = "gone")
      /\ surf' = [surf EXCEPT ![s].view = "closed"]
  BY DEF Close, Say, Send
<1>3. PICK i \in Live(len) : buf[i].surf = s
  BY <1>1, <1>2 DEF Mapped, PlaceInv, SurfacesOwned
<1> PICK g : g = buf[i].wl_out
  OBVIOUS
<1>4. g \in Present /\ Slot(g) = i /\ g \in Globals /\ surf[s].out = g
  BY <1>1, <1>3, SlotIs DEF Present, PlaceInv, SurfacesOwned, Surfs
<1>5. SamePlaces
  BY <1>1, <1>2, SurfaceSeen DEF SamePlaces, table
<1>6. Present' = Present /\ \A h \in Present : Slot(h)' = Slot(h)
  BY <1>1, <1>5, SamePresent
<1>7. Phase' = Phase /\ Order' = Order /\ Todo' = Todo
  BY <1>1, <1>2, PhaseIs, NextPhaseIs, NoOrders DEF Dispatching
<1>8. ASSUME NEW h \in Present, h # g
      PROVE  /\ Lost(SurfaceOf(h))' <=> Lost(SurfaceOf(h))
             /\ ImageOn(SurfaceOf(h))' = ImageOn(SurfaceOf(h))
  <2>1. Slot(h) \in Live(len) /\ buf[Slot(h)].wl_out = h /\ Slot(h)' = Slot(h)
    BY <1>1, <1>6, SlotIs
  <2> PICK j \in Live(len) : j = Slot(h) /\ j = Slot(h)' /\ buf[j].wl_out = h
    BY <2>1
  <2>2. j # i /\ buf[j] \in Output
    BY <1>1, <1>8, LiveSlots
  <2>3. buf[j].surf # s
    BY <1>1, <1>3, <2>2, OwnSurfaces DEF Surfs
  <2>4. SurfaceOf(h) = buf[j].surf /\ SurfaceOf(h)' = buf[j].surf
    BY <1>2 DEF SurfaceOf, table
  <2>5. buf[j].surf # 0 => surf'[buf[j].surf] = surf[buf[j].surf]
    BY <1>1, <1>2, <2>2, <2>3 DEF Output, TypeOK, ObjectType, SurfaceType
  <2>6. pix' = pix
    BY <1>2
  <2> QED BY <2>4, <2>5, <2>6 DEF Lost, ImageOn
<1>9. SurfaceOf(g) = s /\ SurfaceOf(g)' = s /\ s # 0
  BY <1>2, <1>3, <1>4, <1>6 DEF SurfaceOf, table, Surfs
<1>10. ~Lost(SurfaceOf(g)) /\ Lost(SurfaceOf(g))' /\ ImageOn(SurfaceOf(g))' = Clear
  BY <1>1, <1>2, <1>9 DEF Mapped, Lost, ImageOn, TypeOK, ObjectType, SurfaceType
<1>11. CASE pc = "loop"
  <2>1. Phase = "serving"
    BY <1>1, <1>11, PhaseIs
  <2>2. Dark' = Dark \cup {g} /\ g \notin Dark
    BY <1>4, <1>6, <1>7, <1>8, <1>10, <2>1 DEF Dark
  <2>3. Shown' = [Shown EXCEPT ![g] = Clear]
    BY <1>4, <1>6, <1>8, <1>10 DEF Shown
  <2>4. MayLose
    BY <1>1, <1>2, <1>4 DEF MayLose, Without, FaultInv, SlotInv, NoneLeaves
  <2> QED BY <1>4, <1>6, <1>7, <2>2, <2>3, <2>4 DEF Promise!Darken
<1>12. CASE pc # "loop"
  <2>1. pc \in {"roundtrip1", "roundtrip2"} /\ npix = 0
    BY <1>2, <1>12 DEF Dispatching, PromiseInv, Unpainted
  <2>2. Phase = "start"
    BY <1>1, <2>1, PhaseIs
  <2>3. surf[s].content = 0
    BY <1>1, <2>1 DEF FaultInv, BufferInv, Fresh, TypeOK, ObjectType, SurfaceType, Pixs
  <2>4. ImageOn(SurfaceOf(g)) = Clear
    BY <1>9, <2>3 DEF ImageOn
  <2>5. Shown' = Shown
    BY <1>6, <1>8, <1>10, <2>4 DEF Shown
  <2>6. Dark' = Dark
    BY <1>7, <2>2 DEF Dark
  <2> QED BY <1>6, <1>7, <2>5, <2>6 DEF Promise!vars
<1> QED BY <1>11, <1>12

\* What a client has sent becomes an order once its image has been mapped.
LEMMA TakeSteps ==
  ASSUME PromiseInv, PromiseInv', [Next]_vars, Intact', \A s \in Surfs : ~Close(s),
         (\E m : Accept(m)) \/ map_source
  PROVE  (\E o \in Promise!Orders : Promise!Take(o)) \/ UNCHANGED Promise!vars
<1>1. TypeOK /\ TypeOK' /\ ~draw /\ ~BindOutput
  BY DEF PromiseInv, FaultInv, PlaceInv, TableInv, TypeInv, Accept, map_source, draw, Selected,
         BindOutput, Take
<1>2. /\ Intact /\ TableOK /\ TableOK' /\ Present' = Present /\ Shown' = Shown
      /\ (\A g \in Present : Slot(g)' = Slot(g)) /\ (Phase' = Phase => Dark' = Dark)
  BY <1>1, PictureKept
<1>3. pc \in {"loop", "map"} /\ pc' \in {"loop", "map", "apply"}
  BY DEF Accept, map_source, Done
<1>4. Phase = "serving" /\ Phase' = "serving" /\ Order = NoMsg /\ Todo = {}
  BY <1>2, <1>3, PhaseIs, NextPhaseIs, NoOrders
<1>5. CASE pc' # "apply"
  BY <1>2, <1>4, <1>5, NoOrders DEF Promise!vars
<1>6. CASE pc' = "apply"
  <2>1. msg.img # Clear /\ msg' = msg /\ idx' = 0
    BY <1>6 DEF Accept, map_source, Done
  <2>2. msg \in Promise!Orders
    BY <1>1, <2>1 DEF TypeOK, ControlType, Messages, Promise!Orders
  <2>3. Order' = msg
    BY <1>6, <2>1 DEF Order
  <2>4. \A g \in Present : Slot(g)' \in Nat
    <3>1. \A i \in Live(len) : i \in Nat
      BY <1>1, LiveSlots DEF Slots
    <3> QED BY <1>2, <3>1, SlotIs
  <2>5. Todo' = {g \in Present : Promise!Means(msg, g)}
    BY <1>2, <1>6, <2>1, <2>4 DEF Todo, Promise!Means
  <2> QED BY <1>2, <1>4, <2>2, <2>3, <2>5 DEF Promise!Take, Promise!NoOrder, NoMsg
<1> QED BY <1>5, <1>6

\* The slots of the displays are numbers below len.
LEMMA SlotNumbers ==
  ASSUME TypeOK, TableOK, Intact
  PROVE  \A g \in Present : Slot(g) \in Nat /\ Slot(g) < len
BY SlotIs, LiveSlots DEF Live, Slots, TypeOK, TableType

\* A display that is passed over is not one the order names.
LEMMA SkipSteps ==
  ASSUME PromiseInv, PromiseInv', [Next]_vars, Intact', \A s \in Surfs : ~Close(s), Skip
  PROVE  UNCHANGED Promise!vars
<1>1. TypeOK /\ TableOK /\ NamesRight /\ ~draw /\ ~BindOutput
  <2>1. ~BindOutput
    BY DEF Skip, BindOutput, Take, Dispatching
  <2>2. ~draw
    BY DEF Skip, draw, Selected
  <2> QED BY <2>1, <2>2 DEF PromiseInv, FaultInv, PlaceInv, TableInv, TypeInv
<1>2. /\ Intact /\ Present' = Present /\ Shown' = Shown
      /\ (\A g \in Present : Slot(g)' = Slot(g)) /\ (Phase' = Phase => Dark' = Dark)
  BY <1>1, PictureKept
<1>3. /\ pc = "apply" /\ pc' = "apply" /\ idx \in Live(len) /\ idx' = idx + 1 /\ msg' = msg
      /\ buf[idx].human_name # NULL /\ ~Addressed(buf[idx], msg)
  BY DEF Skip
<1>4. Phase' = Phase /\ Order' = Order
  BY <1>2, <1>3, PhaseIs, NextPhaseIs DEF Order
<1>5. ASSUME NEW g \in Present, msg.name \in {NULL, Connector[g]}
      PROVE  idx + 1 <= Slot(g) <=> idx <= Slot(g)
  <2>1. Slot(g) # idx
    <3>1. CASE Slot(g) = idx
      <4>1. buf[idx].wl_out = g
        BY <1>1, <1>2, <3>1, SlotIs
      <4>2. buf[idx].human_name = Connector[g]
        BY <1>1, <1>2, <1>3, <4>1 DEF NamesRight
      <4> QED BY <1>3, <1>5, <4>2 DEF Addressed
    <3> QED BY <3>1
  <2>2. Slot(g) \in Nat /\ idx \in Nat
    BY <1>1, <1>2, <1>3, SlotNumbers, LiveSlots DEF Slots
  <2> QED BY <2>1, <2>2
<1>6. Todo' = Todo
  BY <1>2, <1>3, <1>5 DEF Todo
<1> QED BY <1>2, <1>4, <1>6 DEF Promise!vars

\* When the last display has been reached, nothing is left to be done.
LEMMA FinishSteps ==
  ASSUME PromiseInv, PromiseInv', [Next]_vars, Intact', \A s \in Surfs : ~Close(s),
         apply_done \/ mkbuf_fails
  PROVE  IF apply_done THEN Promise!Finish ELSE Promise!GiveUp
<1>1. TypeOK /\ TypeInv /\ TableOK /\ FaultInv /\ Painting /\ Running
  BY RunningSteps DEF PromiseInv, FaultInv, PlaceInv, TableInv, TypeInv, Intact
<1>2. ~draw /\ ~BindOutput /\ pc = "apply" /\ pc' = "loop"
  BY DEF apply_done, mkbuf_fails, Done, draw, Selected, Proceed, BindOutput, Take, Dispatching
<1>3. /\ Intact /\ Present' = Present /\ Shown' = Shown /\ (Phase' = Phase => Dark' = Dark)
  BY <1>2, PictureKept
<1>4. Phase' = Phase /\ Order = msg /\ Order' = NoMsg /\ Todo' = {}
  BY <1>2, <1>3, PhaseIs, NextPhaseIs, NoOrders DEF Order
<1>5. msg # NoMsg
  BY <1>1, <1>2 DEF Painting, NoMsg
<1>6. CASE apply_done
  <2>1. idx = len
    BY <1>6 DEF apply_done
  <2>2. Todo = {}
    BY <1>1, <1>3, <2>1, SlotNumbers DEF Todo, TypeOK, TableType
  <2> QED BY <1>3, <1>4, <1>5, <1>6, <2>2 DEF Promise!Finish, Promise!NoOrder, NoMsg
<1>7. CASE ~apply_done
  <2>1. MayGiveUp
    <3> SUFFICES ASSUME ~MayGiveUp PROVE FALSE
      OBVIOUS
    <3>1. Without({"late_info", "oom"}) /\ (Without({"unplug"}) \/ Without({"close"}))
      BY DEF MayGiveUp, Without
    <3>2. ~Moved
      BY <1>1, <1>3 DEF FaultInv, SlotInv, NoneMoved, Intact
    <3>3. idx \in Live(len) /\ (Without({"oom"}) => buf[idx].dim = 0)
      BY <1>1, <1>7, FailSteps
    <3>4. buf[idx].dim # 0
      BY <1>1, <1>2, <3>1, <3>2, <3>3, KnownServing
    <3> QED BY <3>1, <3>3, <3>4 DEF Without
  <2> QED BY <1>3, <1>4, <1>5, <1>7, <2>1 DEF Promise!GiveUp, Promise!NoOrder, NoMsg
<1> QED BY <1>6, <1>7

\* Drawing shows the image on the display whose turn it is, and on no other.
LEMMA ShowSteps ==
  ASSUME PromiseInv, PromiseInv', [Next]_vars, Intact', draw
  PROVE  \E g \in Globals : Promise!Show(g)
<1> DEFINE n == npix + 1
<1>1. /\ TypeOK /\ TypeInv /\ PlaceInv /\ Born /\ FaultInv /\ TableOK /\ TableOK' /\ NamesRight
      /\ Fresh /\ Intact /\ Running /\ Serving /\ Running'
  BY IntactSteps DEF PromiseInv, FaultInv, PlaceInv, TableInv, TypeInv, Intact, Running, Serving,
                     BufferInv
<1>2. /\ pc = "apply" /\ idx \in Live(len) /\ idx \in Slots /\ idx \in Nat /\ idx' = idx + 1
      /\ n \in Pixs /\ npix \in Nat
      /\ pix'[n].img = msg.img
      /\ \A b \in Pixs : b # n => pix'[b] = pix[b]
      /\ \A s \in Surfs : surf'[s].content = IF s = buf[idx].surf THEN n ELSE surf[s].content
      /\ UNCHANGED <<len, wlout, msg>>
  BY <1>1, DrawSteps
<1>3. Dispatch \/ Serve
  BY DEF Serve
<1>4. ~BindOutput /\ pc' = "apply" /\ SurfaceFault(buf[idx].surf) = {} /\ Addressed(buf[idx], msg)
  BY <1>1, <1>2 DEF draw, Selected, Proceed, Running, BindOutput, Take, Dispatching
<1>5. SamePlaces
  BY <1>1, <1>4, IntactSteps
<1>6. Present' = Present /\ \A h \in Present : Slot(h)' = Slot(h)
  BY <1>1, <1>5, SamePresent
<1>7. \A s \in Surfs : surf'[s].view = surf[s].view
  BY <1>1, <1>3, <1>4, ViewKept
<1>8. Phase = "serving" /\ Phase' = "serving" /\ Order = msg /\ Order' = msg
  BY <1>1, <1>2, <1>4, PhaseIs, NextPhaseIs DEF Order
<1> PICK p : p = idx
  OBVIOUS
<1> PICK g : g = buf[p].wl_out
  OBVIOUS
<1>9. g \in Present /\ g \in Globals /\ Slot(g) = p /\ p \in Live(len) /\ buf[p] \in Output
  BY <1>1, <1>2, SlotIs, LiveSlots DEF Present
<1>10. buf[p].surf \in Surfs
  BY <1>4, <1>9 DEF SurfaceFault, Output
<1>11. buf'[p].surf = buf[p].surf
  BY <1>1, <1>2, DrawSteps
<1>12. g \in Todo
  <2>1. msg.name \in {NULL, Connector[g]}
    BY <1>1, <1>4, <1>9 DEF Addressed, NamesRight
  <2> QED BY <1>2, <1>9, <2>1 DEF Todo
<1>13. Todo' = Todo \ {g}
  <2>1. ASSUME NEW h \in Present PROVE idx + 1 <= Slot(h) <=> idx <= Slot(h) /\ h # g
    <3>1. Slot(h) \in Nat /\ (h # g => Slot(h) # p)
      BY <1>1, <1>9, SlotIs, SlotNumbers
    <3> QED BY <1>2, <1>9, <3>1
  <2> QED BY <1>2, <1>4, <1>6, <2>1 DEF Todo
<1>14. ASSUME NEW h \in Present
       PROVE  /\ Lost(SurfaceOf(h))' <=> Lost(SurfaceOf(h))
              /\ h # g => ImageOn(SurfaceOf(h))' = ImageOn(SurfaceOf(h))
  <2>1. Slot(h) \in Live(len) /\ buf[Slot(h)].wl_out = h /\ Slot(h)' = Slot(h)
    BY <1>1, <1>6, SlotIs
  <2> PICK j \in Live(len) : j = Slot(h) /\ j = Slot(h)' /\ buf[j].wl_out = h
    BY <2>1
  <2>2. buf[j] \in Output /\ j \in Slots
    BY <1>1, LiveSlots
  <2>3. buf'[j].surf = buf[j].surf
    BY <1>1, <1>2, <1>11, <2>2, DrawSteps
  <2> PICK s : s = buf[j].surf
    OBVIOUS
  <2>4. SurfaceOf(h) = s /\ SurfaceOf(h)' = s /\ s \in Surfs \cup {0}
    BY <2>2, <2>3 DEF SurfaceOf, Output
  <2>5. Lost(SurfaceOf(h))' <=> Lost(SurfaceOf(h))
    BY <1>7, <2>4 DEF Lost
  <2>6. ASSUME h # g, s # 0 PROVE ImageOn(s)' = ImageOn(s)
    <3>1. s # buf[p].surf
      BY <1>1, <1>9, <2>6, OwnSurfaces
    <3>2. s \in Surfs /\ surf'[s].content = surf[s].content
      BY <1>2, <2>4, <2>6, <3>1
    <3>3. surf[s].content \in Pixs \cup {0} /\ surf[s].content # n
      BY <1>1, <1>2, <3>2 DEF Fresh, TypeOK, ObjectType, SurfaceType, Pixs
    <3>4. surf[s].content # 0 => pix'[surf[s].content] = pix[surf[s].content]
      BY <1>2, <3>3
    <3> QED BY <1>7, <3>2, <3>4 DEF ImageOn, Lost
  <2>7. h # g => ImageOn(s)' = ImageOn(s)
    BY <2>6 DEF ImageOn, Lost
  <2> QED BY <2>4, <2>5, <2>7 DEF ImageOn, Lost
<1>15. Dark' = Dark
  BY <1>6, <1>8, <1>14 DEF Dark
<1>16. SurfaceOf(g) = buf[p].surf /\ SurfaceOf(g)' = buf[p].surf
  BY <1>6, <1>9, <1>11 DEF SurfaceOf
<1>17. ImageOn(SurfaceOf(g))' = IF Lost(SurfaceOf(g)) THEN Clear ELSE msg.img
  <2>1. surf'[buf[p].surf].content = n /\ n # 0
    BY <1>2, <1>10
  <2> QED BY <1>2, <1>7, <1>10, <1>16, <2>1 DEF ImageOn, Lost
<1>18. Shown' = IF g \in Dark THEN Shown ELSE [Shown EXCEPT ![g] = msg.img]
  <2>1. CASE g \in Dark
    <3>1. ImageOn(SurfaceOf(g))' = ImageOn(SurfaceOf(g))
      BY <1>17, <2>1 DEF ImageOn, Dark
    <3> QED BY <1>6, <1>14, <2>1, <3>1 DEF Shown
  <2>2. CASE g \notin Dark
    <3>1. ImageOn(SurfaceOf(g))' = msg.img
      BY <1>8, <1>9, <1>17, <2>2 DEF Dark
    <3> QED BY <1>6, <1>9, <1>14, <2>2, <3>1 DEF Shown
  <2> QED BY <2>1, <2>2
<1> QED BY <1>6, <1>8, <1>9, <1>12, <1>13, <1>15, <1>18 DEF Promise!Show

\* What a daemon does that stays intact.
LEMMA IntactKeeps ==
  ASSUME PromiseInv, PromiseInv', [Next]_vars, Intact'
  PROVE  Promise!Next \/ UNCHANGED Promise!vars
<1>1. TypeOK /\ TypeInv /\ (Dispatch \/ Serve \/ Compositor \/ UNCHANGED vars)
  BY RunningSteps DEF PromiseInv, FaultInv, PlaceInv, TableInv, TypeInv, Intact
<1>2. CASE \E s \in Surfs : Close(s)
  BY <1>2, DarkenSteps DEF Promise!Next
<1>3. CASE BindOutput
  BY <1>3, AppearSteps DEF Promise!Next
<1>4. CASE draw
  BY <1>4, ShowSteps DEF Promise!Next
<1> SUFFICES ASSUME \A s \in Surfs : ~Close(s), ~BindOutput, ~draw
             PROVE  Promise!Next \/ UNCHANGED Promise!vars
  BY <1>2, <1>3, <1>4
<1>5. CASE Dispatch
  BY <1>5, BeginSteps DEF Promise!Next
<1>6. CASE Serve
  <2>1. CASE (\E m : Accept(m)) \/ map_source
    BY <2>1, TakeSteps DEF Promise!Next
  <2>2. CASE Skip
    BY <2>2, SkipSteps
  <2>3. CASE apply_done \/ mkbuf_fails
    BY <2>3, FinishSteps DEF Promise!Next
  <2>4. CASE Unnamed
    BY <2>4 DEF Unnamed, Proceed, Intact, Running
  <2> QED BY <1>6, <2>1, <2>2, <2>3, <2>4 DEF Serve
<1>7. CASE Compositor \/ UNCHANGED vars
  <2>1. UNCHANGED <<pc, msg, idx>>
    BY <1>1, <1>7, CompositorSteps DEF vars, client
  <2>2. /\ Intact /\ Present' = Present /\ Shown' = Shown /\ (Phase' = Phase => Dark' = Dark)
        /\ \A g \in Present : Slot(g)' = Slot(g)
    BY PictureKept
  <2>3. Phase' = Phase
    BY <1>1, <2>1, <2>2, PhaseIs, NextPhaseIs DEF TypeOK, ControlType, Intact, Running
  <2>4. Order' = Order /\ Todo' = Todo
    BY <2>1, <2>2 DEF Order, Todo
  <2> QED BY <2>2, <2>3, <2>4 DEF Promise!vars
<1> QED BY <1>1, <1>5, <1>6, <1>7

-----------------------------------------------------------------------------
(***************************************************************************)
(* The end of a daemon, and of the promise when an output leaves.          *)
(***************************************************************************)

\* A daemon from which no output has been removed goes wrong for these reasons.
LEMMA BreakCause ==
  ASSUME PromiseInv, FaultCause, FaultCause', GrowthFaults', Next, Intact, ~Running', faults' # {}
  PROVE  MayBreak
<1>1. TypeOK /\ FaultInv /\ Running /\ ~Left /\ faults = {}
  BY DEF PromiseInv, FaultInv, PlaceInv, TableInv, TypeInv, Intact, FaultsStop
<1>2. ~Moved
  BY <1>1 DEF FaultInv, SlotInv, NoneMoved
<1> SUFFICES ASSUME Without({"unplug", "close", "any_order", "late_info", "late_configure",
                             "late_release", "oom"}),
                    ~(Cardinality(Globals) > InitCap)
             PROVE  FALSE
  BY DEF MayBreak, Without, AllBehaviours
<1>3. Without({"close"}) /\ Without({"unplug"}) /\ Without({"oom"}) /\ Without({"late_release"})
      /\ Without({"close", "any_order"}) /\ Without({"late_info", "oom"})
      /\ Without({"late_configure"})
  BY DEF Without
<1>4. \A i \in Live(len) : LayerFault(buf[i]) = {}
  BY <1>1, <1>3, SurfacesUsable
<1>5. ~Cleanup
  BY <1>1, <1>4 DEF Cleanup, CleanupAfter
<1>6. ~(reg_del /\ faults' = LayerFault(buf[Min(Named(Ev.id))]))
  BY <1>1, <1>4, RemovedName
<1>7. ~(ls_conf /\ faults' = SurfaceFault(out.surf)) /\ ~(ls_close /\ faults' = LayerFault(out))
  BY <1>1, <1>2, ListenerUsable DEF ls_conf, ls_close
<1>8. ~(buf_free /\ faults' = BufferFault(out.wl_buf))
  BY <1>1, <1>3, BufferFound
<1>9. ~(Unnamed /\ faults' = {"null_name"})
  BY <1>1, <1>2, <1>3, KnownServing DEF Unnamed
<1>10. ~(draw /\ faults' = SurfaceFault(buf[idx].surf))
  BY <1>1, <1>3, DrawnSurface
<1>11. "dangling" \notin faults' /\ "null_table" \notin faults' /\ "protocol" \notin faults'
  BY <1>3 DEF GrowthFaults, FaultCause
<1>12. ~ProtocolError
  BY <1>11 DEF ProtocolError, CleanupAfter
<1> QED BY <1>1, <1>5, <1>6, <1>7, <1>8, <1>9, <1>10, <1>11, <1>12, StoppingSteps

\* A daemon that ends does so on its own, and not over a message but for a fault.
LEMMA EndsAlone ==
  ASSUME TypeOK, [Next]_vars, Running, ~Running'
  PROVE  plug' = plug /\ (faults' = {} => pc # "apply" /\ pc' = "exited")
<1>1. Next /\ ~Compositor
  BY CompositorSteps DEF Running, vars
<1>2. CASE Dispatch
  <2>1. Dispatching /\ plug' = plug
    BY <1>2 DEF Dispatch, Discard, Dangle, BindService, BindOutput, GrowFails, TooOld, Cleanup,
                CleanupAfter, reg_del, reg_del_unknown, out_mode, out_name, ls_conf, ls_close, buf_free,
                Roundtrip1, Missing, Roundtrip2, ProtocolError, Synced, Take, Deliver, compositor,
                Dispatching
  <2>2. Dangle \/ GrowFails => faults' # {}
    BY DEF Dangle, GrowFails, Proceed
  <2>3. TooOld \/ Missing \/ ProtocolError => pc' = "exited"
    BY DEF TooOld, Missing, Cleanup, CleanupAfter, ProtocolError
  <2>4. reg_del \/ ls_conf \/ ls_close \/ buf_free => faults' # {}
    BY DEF reg_del, ls_conf, ls_close, buf_free, Proceed, Running
  <2>5. \/ Dangle \/ GrowFails \/ TooOld \/ Missing \/ ProtocolError
        \/ reg_del \/ ls_conf \/ ls_close \/ buf_free
    BY <1>2 DEF Dispatch, Discard, BindService, BindOutput, reg_del_unknown, out_mode, out_name,
                Roundtrip1, Roundtrip2, Running
  <2> QED BY <2>1, <2>2, <2>3, <2>4, <2>5 DEF Dispatching
<1>3. CASE Serve
  <2>1. Unnamed \/ draw
    BY <1>3 DEF Running, Serve, Accept, map_source, Skip, mkbuf_fails, apply_done, Done
  <2>2. faults' # {}
    BY <2>1 DEF Unnamed, draw, Proceed, Running
  <2> QED BY <2>1, <2>2 DEF Unnamed, draw, compositor
<1>4. CASE Terminate
  BY <1>4 DEF Terminate, Cleanup, CleanupAfter, compositor
<1> QED BY <1>1, <1>2, <1>3, <1>4 DEF Next

\* A step after which the daemon is not intact any more.
LEMMA EndKeeps ==
  ASSUME PromiseInv, PromiseInv', FaultCause, FaultCause', GrowthFaults', [Next]_vars, ~Intact'
  PROVE  Promise!Next \/ UNCHANGED Promise!vars
<1>1. TypeOK /\ PlaceInv /\ Born
  BY DEF PromiseInv, FaultInv, PlaceInv, TableInv, TypeInv
<1>2. /\ Present' = {} /\ Dark' = {} /\ Shown' = [g \in Globals |-> Clear]
      /\ Order' = NoMsg /\ Todo' = {}
  BY NothingSeen
<1>3. CASE ~Running
  <2>1. UNCHANGED vars
    BY <1>3, Ended
  <2>2. ~Intact
    BY <1>3 DEF Intact
  <2>3. Phase' = Phase
    BY <2>1 DEF Phase, Intact, Running, Left, vars, objects, compositor
  <2> QED BY <1>2, <2>2, <2>3, NothingSeen DEF Promise!vars
<1>4. CASE Running /\ Left
  <2>1. Phase = "broken" /\ ~Intact
    BY <1>4, PhaseIs DEF Intact, Running
  <2>2. PICK g \in Globals : wlout[g].st = "released" /\ plug[g] = "gone"
    BY <1>4 DEF Left, PromiseInv, GoneFirst
  <2>3. plug'[g] = "gone"
    <3>1. CASE Running'
      BY <1>1, <2>2, <3>1, PlugSteps
    <3>2. CASE ~Running'
      BY <1>1, <1>4, <2>2, <3>2, EndsAlone
    <3> QED BY <3>1, <3>2
  <2>4. Phase' = "broken"
    BY <2>3, NextPhaseIs
  <2> QED BY <1>2, <2>1, <2>4, NothingSeen DEF Promise!vars
<1>5. CASE Intact /\ Running'
  <2>1. Phase \in {"start", "serving"} /\ Phase' = "broken"
    BY <1>1, <1>5, PhaseIs, NextPhaseIs DEF TypeOK, ControlType, Intact, Running
  <2>2. MayBreak
    BY <1>5 DEF PromiseInv, FaultInv, SlotInv, NoneLeaves, Intact, MayBreak, Without, AllBehaviours
  <2> QED BY <1>2, <2>1, <2>2
          DEF Promise!Next, Promise!Break, Promise!Gone, Promise!Ended, Promise!NoOrder, NoMsg
<1>6. CASE Intact /\ ~Running'
  <2>1. Phase \in {"start", "serving"} /\ Phase' \in {"over", "broken"}
    BY <1>1, <1>6, PhaseIs, NextPhaseIs DEF TypeOK, ControlType, Intact, Running
  <2>2. Next
    BY <1>6 DEF Intact, Running, vars
  <2>3. CASE Phase' = "over"
    <3>1. pc # "apply"
      <4>1. pc' = "exited" /\ faults' = {}
        BY <1>6, <2>3, NextPhaseIs
      <4> QED BY <1>1, <1>6, <2>2, <4>1, EndsAlone DEF Intact
    <3>2. Order = NoMsg
      BY <3>1, NoOrders
    <3> QED BY <1>2, <2>1, <2>3, <3>2
            DEF Promise!Next, Promise!Quit, Promise!Gone, Promise!Ended, Promise!NoOrder, NoMsg
  <2>4. CASE Phase' = "broken"
    <3>1. ASSUME faults' # {} PROVE MayBreak
      BY <1>6, <2>2, <3>1, BreakCause
    <3>2. ASSUME faults' = {} PROVE MayBreak
      <4>1. \E g \in Globals : plug'[g] = "gone"
        <5>1. pc' = "exited"
          BY <1>1, <1>6, <2>2, <3>2, EndsAlone DEF Intact
        <5> QED BY <2>4, <3>2, <5>1, NextPhaseIs
      <4>2. \E g \in Globals : plug[g] = "gone"
        BY <1>1, <1>6, <2>2, <4>1, EndsAlone DEF Intact
      <4>3. ~Without({"unplug"})
        BY <1>6, <4>2 DEF PromiseInv, FaultInv, SlotInv, NoneLeaves, Intact
      <4> QED BY <4>3 DEF MayBreak, Without, AllBehaviours
    <3>3. MayBreak
      BY <3>1, <3>2
    <3> QED BY <1>2, <2>1, <2>4, <3>3
            DEF Promise!Next, Promise!Break, Promise!Gone, Promise!Ended, Promise!NoOrder, NoMsg
  <2> QED BY <2>1, <2>3, <2>4
<1> QED BY <1>3, <1>4, <1>5, <1>6 DEF Intact

-----------------------------------------------------------------------------
\* The daemon carries out what clients order, each order on all the displays it
\* names and on no other, for any number of displays, names, images, surfaces and
\* buffers and any order of events.  It breaks down, gives an order up or has a
\* display without a surface only for the causes MayBreak, MayGiveUp and MayLose.
THEOREM WallpaperIsKept == Spec => WallpaperKept
<1>1. Init => Promise!Init
  <2> SUFFICES ASSUME Init PROVE Promise!Init
    OBVIOUS
  <2>1. pc = "roundtrip1" /\ \A g \in Globals : wlout[g].st = "none"
    BY DEF Init
  <2>2. Phase = "start"
    BY <2>1, PhaseIs DEF Intact, Running, Left
  <2>3. Present = {}
    BY <2>1 DEF Present
  <2>4. Dark = {} /\ Shown = [g \in Globals |-> Clear]
    BY <2>3 DEF Dark, Shown
  <2> QED BY <2>1, <2>2, <2>3, <2>4, NoOrders DEF Promise!Init, Promise!NoOrder, NoMsg
<1>2. PromiseInv /\ PromiseInv' /\ FaultCause /\ FaultCause' /\ GrowthFaults' /\ [Next]_vars
        => [Promise!Next]_(Promise!vars)
  BY IntactKeeps, EndKeeps
<1>3. Spec => []PromiseInv
  BY PromiseInit, PromiseInvNext, PTL DEF Spec
<1> QED BY <1>1, <1>2, <1>3, CausesKnown, GrowthCorrect, PTL DEF Spec, WallpaperKept, Promise!Spec

=============================================================================
