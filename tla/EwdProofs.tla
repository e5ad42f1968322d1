----------------------------- MODULE EwdProofs ------------------------------
(***************************************************************************)
(* What holds of the daemon and its compositor for any number of outputs,  *)
(* any bounds and any behaviours: every variable has its type; the table   *)
(* holds every bound output exactly once, and its block moves only when    *)
(* there are more outputs than it was made for; surfaces have one owner,   *)
(* and the listeners of the outputs below the lowest slot ever vacated are *)
(* right, so images go to the displays named.                              *)
(***************************************************************************)
EXTENDS EwdProperties, FiniteSetTheorems, TLAPS

\* The number an event carries is that of an output, a surface or a buffer,
\* as its type says.
LEMMA EventFields ==
  ASSUME NEW e \in EventTypes
  PROVE  /\ e.type \in {"global", "global_remove", "mode", "name"} => e.id \in Globals
         /\ e.type \in {"configure", "closed"} => e.id \in Surfs
         /\ e.type = "release" => e.id \in Pixs
         /\ e.type \in {"mode", "configure"} => e.arg \in Dims
BY DEF EventTypes, Services

\* The event at the head is an event, and so are the others.
LEMMA TakeType ==
  ASSUME CompositorType, NEW t, Take(t)
  PROVE  Ev \in EventTypes /\ Ev.type = t /\ wq' \in Seq(EventTypes)
BY DEF CompositorType, Take, Ev

\* A listener runs on a slot of the block, on an output.
LEMMA DeliverType ==
  ASSUME TypeOK, NEW t \in ListenerEvents, Deliver(t)
  PROVE  /\ At \in Slots /\ out \in Output /\ wq' \in Seq(EventTypes)
         /\ Ev \in EventTypes /\ Ev.type = t
<1>1. Ev \in EventTypes /\ Ev.type = t /\ wq' \in Seq(EventTypes)
  BY TakeType DEF Deliver, TypeOK
<1>2. Data(Ev) \in Pointer
  BY <1>1, EventFields DEF Data, TypeOK, ObjectType, ProxyType, SurfaceType, BufferType, ListenerEvents
<1>3. At \in Slots
  BY <1>2 DEF At, Pointer
<1> QED BY <1>1, <1>3 DEF out, TypeOK, TableType

\* The room Accept asks for is enough for the whole message.
Room ==
  /\ pc = "map" => npix + len <= MaxBufs
  /\ pc = "apply" => idx <= len /\ npix + (len - idx) <= MaxBufs

TypeInv == TypeOK /\ Room

\* Min picks an element of the set.
LEMMA MinIn ==
  ASSUME NEW S \in SUBSET Nat, S # {} PROVE Min(S) \in S /\ \A k \in S : Min(S) <= k
<1>1. PICK x \in S : \A y \in S : ~(<<y, x>> \in OpToRel(<, Nat))
  BY NatLessThanWellFounded, WFMin
<1>2. ASSUME NEW y \in S PROVE x <= y
  <2>1. y < x => <<y, x>> \in OpToRel(<, Nat)
    BY DEF OpToRel
  <2>2. ~(y < x)
    BY <1>1, <2>1, Zenon
  <2> QED BY <2>2
<1> QED BY <1>2 DEF Min

\* The outputs the handlers store are outputs.
LEMMA OutputUpdates ==
  ASSUME NEW o \in Output, NEW d \in Dims, NEW n \in Names \cup {NULL}
  PROVE  /\ [o EXCEPT !.dim = d] \in Output /\ [o EXCEPT !.human_name = n] \in Output
         /\ Sized(o, d) \in Output
BY DEF Output, Sized

\* out_layer_free leaves an output.
LEMMA FreedOutput == ASSUME NEW o \in Output PROVE LayerFreed(o) \in Output
BY DEF Output, LayerFreed

\* Storing an output in a slot keeps the block's type.
LEMMA Stored ==
  ASSUME TableType, NEW i \in Slots, NEW o \in Output
  PROVE  [buf EXCEPT ![i] = o] \in [Slots -> Output]
BY DEF TableType

\* Freeing surfaces keeps their type.
LEMMA SurfacesType ==
  ASSUME TypeOK, NEW S PROVE SurfacesWithout(S) \in SurfaceType
BY DEF SurfacesWithout, TypeOK, ObjectType, SurfaceType

\* What goes wrong in a request on a surface or a buffer.
LEMMA FaultTypes ==
  ASSUME TypeOK, NEW s \in Surfs \cup {0}, NEW b \in Pixs \cup {0}
  PROVE  /\ SurfaceFault(s) \subseteq {"null_surface", "freed_surface"}
         /\ BufferFault(b) \subseteq {"null_buffer", "freed_buffer"}
BY DEF SurfaceFault, BufferFault

\* What goes wrong in out_layer_free.
LEMMA LayerFaultType ==
  ASSUME TypeOK, NEW o \in Output PROVE LayerFault(o) \subseteq {"null_surface", "freed_surface"}
BY DEF LayerFault, SurfaceFault

\* Carrying on or stopping keeps the types of pc and faults.
LEMMA ProceedType ==
  ASSUME ControlType, NEW f, NEW p, Proceed(f, p),
         f \subseteq {"dangling", "null_table", "null_surface", "freed_surface",
                       "null_buffer", "freed_buffer", "null_name", "protocol"},
         p \in {"roundtrip1", "roundtrip2", "loop", "map", "apply", "dead", "exited"}
  PROVE  /\ pc' \in {"roundtrip1", "roundtrip2", "loop", "map", "apply", "dead", "exited"}
         /\ faults' \subseteq {"dangling", "null_table", "null_surface", "freed_surface",
                       "null_buffer", "freed_buffer", "null_name", "protocol"}
BY DEF Proceed, ControlType

\* cleanup keeps all types.
LEMMA CleanupType ==
  ASSUME TypeOK, wq' \in Seq(EventTypes), Cleanup \/ CleanupAfter({"protocol"})
  PROVE  TypeOK'
<1>1. TableType' BY DEF Cleanup, CleanupAfter, table, TypeOK, TableType
<1>2. surf' \in SurfaceType BY SurfacesType DEF Cleanup, CleanupAfter
<1>3. wlout' \in ProxyType BY DEF Cleanup, CleanupAfter, TypeOK, ObjectType, ProxyType
<1>4. faults' \subseteq {"dangling", "null_table", "null_surface", "freed_surface",
                       "null_buffer", "freed_buffer", "null_name", "protocol"}
  <2>1. \A i \in Live(len) : buf[i] \in Output
    BY EwdAssumption DEF EwdAssumption, TypeOK, TableType, Live, Slots
  <2> QED BY <2>1, LayerFaultType DEF Cleanup, CleanupAfter, TypeOK, ControlType
<1> QED BY <1>1, <1>2, <1>3, <1>4 DEF Cleanup, CleanupAfter, TypeOK, ObjectType, ControlType, CompositorType, client, compositor, ProxyType, SurfaceType, BufferType

\* Every handler of an event keeps the types.
LEMMA TypeDispatch == TypeInv /\ Dispatch => TypeInv'
<1> SUFFICES ASSUME TypeInv, Dispatch PROVE TypeInv'
  OBVIOUS
<1> USE DEF TypeInv
<1>1. CASE Discard
  BY <1>1, TakeType DEF Discard, TypeOK, TableType, ObjectType, ControlType, CompositorType, table, objects, client, compositor, Room
<1>2. CASE Dangle
  BY <1>2, TakeType DEF Dangle, TypeOK, TableType, ObjectType, ControlType, CompositorType, table, objects, client, compositor, Room
<1>3. ASSUME NEW t \in Services, BindService(t) PROVE TypeInv'
  BY <1>3, TakeType DEF BindService, TypeOK, TableType, ObjectType, ControlType, CompositorType, table, objects, client, compositor, Room
<1>4. CASE BindOutput
  <2>1. Ev \in EventTypes /\ Ev.type = "global" /\ wq' \in Seq(EventTypes) /\ Ev.id \in Globals
    BY <1>4, TakeType, EventFields DEF BindOutput, TypeOK
  <2>2. ~(pc \in {"map", "apply"})
    BY <1>4 DEF BindOutput, Take, Dispatching
  <2> DEFINE s == IF CanCreate THEN nsurf + 1 ELSE 0
  <2>3. s \in Surfs \cup {0} /\ len \in Slots /\ len + 1 \in 0..MaxSlots
    BY <1>4, EwdAssumption DEF BindOutput, TypeOK, TableType, ObjectType, Slots, Surfs, EwdAssumption
  <2>4. NewOutput(Ev.id, s) \in Output
    BY <2>1, <2>3, EwdAssumption DEF NewOutput, Zero, Output
  <2>5. cap' \in Nat /\ gen' \in Nat
    BY <1>4 DEF BindOutput, TypeOK, TableType, Grown
  <2>6. buf' = [buf EXCEPT ![len] = NewOutput(Ev.id, s)]
    BY <1>4 DEF BindOutput, Appended
  <2> HIDE DEF s
  <2>7. TableType'
    BY <1>4, <2>3, <2>4, <2>5, <2>6, Stored DEF BindOutput, TypeOK, TableType
  <2>8. wlout' \in ProxyType
    BY <1>4, <2>1, <2>3, <2>5 DEF BindOutput, TypeOK, ObjectType, ProxyType, Pointer
  <2>9. surf' \in SurfaceType /\ nsurf' \in 0..MaxSurfs
    <3>1. CASE CanCreate
      <4>1. nsurf' = nsurf + 1 /\ nsurf + 1 \in Surfs
            /\ surf' = [surf EXCEPT ![nsurf + 1] = NewSurface(Ev.id, len, gen')]
        BY <1>4, <3>1, <2>3 DEF BindOutput, s, TypeOK, ObjectType, Surfs
      <4>2. NewSurface(Ev.id, len, gen') \in
              [st : {"none", "created", "configured", "destroyed"}, data : Pointer,
               out : Globals \cup {0}, view : {"pending", "configured", "closed"},
               content : Pixs \cup {0}]
        BY <2>1, <2>3, <2>5 DEF NewSurface, Pointer
      <4> QED BY <4>1, <4>2 DEF TypeOK, ObjectType, SurfaceType, Surfs
    <3> QED BY <1>4, <3>1 DEF BindOutput, TypeOK, ObjectType
  <2> QED BY <1>4, <2>1, <2>2, <2>7, <2>8, <2>9 DEF BindOutput, TypeOK, ObjectType, ControlType, CompositorType, client, compositor, Room
<1>5. CASE GrowFails
  BY <1>5, TakeType DEF GrowFails, Proceed, TypeOK, TableType, ObjectType, ControlType, CompositorType, table, objects, client, compositor, Room
<1>6. CASE TooOld
  BY <1>6, TakeType, CleanupType DEF TooOld, Cleanup, CleanupAfter, Room, TypeOK
<1>7. CASE reg_del
  <2>1. Ev \in EventTypes /\ wq' \in Seq(EventTypes)
    BY <1>7, TakeType DEF reg_del, TypeOK
  <2>2. ~(pc \in {"map", "apply"})
    BY <1>7 DEF reg_del, Take, Dispatching
  <2> DEFINE i == Min(Named(Ev.id))
  <2>3. i \in Live(len) /\ i \in Slots /\ len - 1 \in 0..MaxSlots
    <3>1. Named(Ev.id) \in SUBSET Nat /\ Named(Ev.id) # {} /\ Named(Ev.id) \subseteq Live(len)
      BY <1>7 DEF reg_del, Named, Live, TypeOK, TableType
    <3>2. i \in Live(len)
      BY <3>1, MinIn
    <3> HIDE DEF i
    <3> QED BY <3>2, EwdAssumption DEF Live, Slots, TypeOK, TableType, EwdAssumption
  <2>4. buf[i] \in Output
    BY <2>3 DEF TypeOK, TableType
  <2>5. TableType'
    <3> DEFINE b == [buf EXCEPT ![i] = LayerFreed(buf[i])]
    <3>1. b \in [Slots -> Output]
      BY <2>3, <2>4, FreedOutput, Stored DEF TypeOK
    <3>2. buf' = Removed(b, len, i) /\ len' = len - 1 /\ UNCHANGED <<cap, gen>>
      BY <1>7 DEF reg_del
    <3> HIDE DEF b, i
    <3>3. \A k \in Slots : i <= k /\ k + 1 < len => k + 1 \in Slots
      BY EwdAssumption DEF Slots, TypeOK, TableType, EwdAssumption
    <3>4. Removed(b, len, i) \in [Slots -> Output]
      BY <3>1, <2>3, <3>3 DEF Removed, RemovedRange, TypeOK, TableType, Slots, Live
    <3> QED BY <3>2, <3>4, <2>3 DEF TypeOK, TableType
  <2>6. surf' \in SurfaceType /\ wlout' \in ProxyType
    BY <1>7, SurfacesType DEF reg_del, TypeOK, ObjectType, ProxyType
  <2>7. Proceed(LayerFault(buf[i]), pc) /\ LayerFault(buf[i]) \subseteq {"null_surface", "freed_surface"}
    BY <1>7, <2>4, LayerFaultType DEF reg_del
  <2> HIDE DEF i
  <2> QED BY <1>7, <2>1, <2>2, <2>5, <2>6, <2>7 DEF reg_del, Proceed, TypeOK, ObjectType, ControlType, CompositorType, client, compositor, Room
<1>8. CASE reg_del_unknown
  BY <1>8, TakeType DEF reg_del_unknown, TypeOK, TableType, ObjectType, ControlType, CompositorType, table, objects, client, compositor, Room
<1>9. CASE out_mode
  <2>1. At \in Slots /\ out \in Output /\ wq' \in Seq(EventTypes) /\ Ev.arg \in Dims
    BY <1>9, DeliverType, EventFields DEF out_mode, ListenerEvents
  <2>2. TableType'
    BY <1>9, <2>1 DEF out_mode, TypeOK, TableType, Output
  <2> QED BY <1>9, <2>1, <2>2 DEF out_mode, TypeOK, ObjectType, ControlType, CompositorType, objects, client, compositor, Room
<1>10. CASE out_name
  <2>1. At \in Slots /\ out \in Output /\ wq' \in Seq(EventTypes) /\ Ev.id \in Globals
    BY <1>10, DeliverType, EventFields DEF out_name, ListenerEvents
  <2>2. TableType'
    <3>1. PICK n \in Names \cup {NULL} : buf' = [buf EXCEPT ![At] = [out EXCEPT !.human_name = n]]
      BY <1>10, <2>1, EwdAssumption DEF out_name, out, EwdAssumption
    <3>2. [out EXCEPT !.human_name = n] \in Output
      BY <2>1 DEF Output
    <3> QED BY <1>10, <2>1, <3>1, <3>2, Stored DEF out_name, TypeOK, TableType
  <2> QED BY <1>10, <2>1, <2>2 DEF out_name, TypeOK, ObjectType, ControlType, CompositorType, objects, client, compositor, Room
<1>11. CASE ls_conf
  <2>1. At \in Slots /\ out \in Output /\ wq' \in Seq(EventTypes) /\ Ev.arg \in Dims /\ Ev.id \in Surfs
    BY <1>11, DeliverType, EventFields DEF ls_conf, ListenerEvents
  <2>2. TableType'
    BY <1>11, <2>1, OutputUpdates, Stored DEF ls_conf, TypeOK, TableType
  <2>3. surf' \in SurfaceType
    <3>1. surf' = [surf EXCEPT ![Ev.id] = [surf[Ev.id] EXCEPT !.st = "configured"]]
      BY <1>11 DEF ls_conf
    <3>2. surf \in SurfaceType
      BY DEF TypeOK, ObjectType
    <3> QED BY <2>1, <3>1, <3>2 DEF SurfaceType
  <2>4. ~(pc \in {"map", "apply"})
    BY <1>11 DEF ls_conf, Deliver, Take, Dispatching
  <2>5. SurfaceFault(out.surf) \subseteq {"null_surface", "freed_surface"}
    BY DEF SurfaceFault
  <2> QED BY <1>11, <2>1, <2>2, <2>3, <2>4, <2>5 DEF ls_conf, Proceed, TypeOK, ObjectType, ControlType, CompositorType, client, compositor, Room
<1>12. CASE ls_close
  <2>1. At \in Slots /\ out \in Output /\ wq' \in Seq(EventTypes)
    BY <1>12, DeliverType DEF ls_close, ListenerEvents
  <2>2. TableType'
    BY <1>12, <2>1, FreedOutput, Stored DEF ls_close, TypeOK, TableType
  <2>3. surf' \in SurfaceType
    BY <1>12, SurfacesType DEF ls_close, TypeOK, ObjectType
  <2>4. ~(pc \in {"map", "apply"})
    BY <1>12 DEF ls_close, Deliver, Take, Dispatching
  <2>5. LayerFault(out) \subseteq {"null_surface", "freed_surface"}
    BY <2>1, LayerFaultType
  <2> QED BY <1>12, <2>1, <2>2, <2>3, <2>4, <2>5 DEF ls_close, Proceed, TypeOK, ObjectType, ControlType, CompositorType, client, compositor, Room
<1>13. CASE buf_free
  <2>1. At \in Slots /\ out \in Output /\ wq' \in Seq(EventTypes)
    BY <1>13, DeliverType DEF buf_free, ListenerEvents
  <2>2. pix' \in BufferType
    BY <1>13 DEF buf_free, TypeOK, ObjectType, BufferType
  <2>4. ~(pc \in {"map", "apply"})
    BY <1>13 DEF buf_free, Deliver, Take, Dispatching
  <2>5. BufferFault(out.wl_buf) \subseteq {"null_buffer", "freed_buffer"}
    BY DEF BufferFault
  <2> QED BY <1>13, <2>1, <2>2, <2>4, <2>5 DEF buf_free, Proceed, TypeOK, TableType, ObjectType, ControlType, CompositorType, table, client, compositor, Room
<1>14. CASE Roundtrip1
  BY <1>14, TakeType DEF Roundtrip1, Synced, TypeOK, TableType, ObjectType, ControlType, CompositorType, table, objects, client, compositor, Room
<1>15. CASE Missing
  BY <1>15, TakeType, CleanupType DEF Missing, Synced, Cleanup, CleanupAfter, Room, TypeOK
<1>16. CASE Roundtrip2
  BY <1>16, TakeType DEF Roundtrip2, Synced, TypeOK, TableType, ObjectType, ControlType, CompositorType, table, objects, client, compositor, Room
<1>17. CASE ProtocolError
  <2>1. wq' \in Seq(EventTypes)
    BY <1>17 DEF ProtocolError, TypeOK, CompositorType
  <2> QED BY <1>17, <2>1, CleanupType DEF ProtocolError, CleanupAfter, Room
<1> QED
  BY <1>1, <1>2, <1>3, <1>4, <1>5, <1>6, <1>7, <1>8, <1>9, <1>10, <1>11, <1>12, <1>13, <1>14, <1>15, <1>16, <1>17 DEF Dispatch

\* A message that is done with leaves none in hand.
LEMMA MsgDone ==
  ASSUME TypeOK, Done PROVE pc' = "loop" /\ msg' \in Messages /\ idx' \in 0..MaxSlots
BY EwdAssumption DEF Done, NoMsg, Messages, EwdAssumption

\* The buffer drawn is a buffer.
LEMMA NewPixType ==
  ASSUME TypeOK, NEW o \in Output, NEW n, idx \in Slots
  PROVE  NewPix(o, n) \in [st : {"none", "live", "destroyed"}, data : Pointer,
                           surf : Surfs \cup {0}, dim : Dims \cup {0},
                           img : Images \cup {Clear}, busy : BOOLEAN]
BY DEF NewPix, TypeOK, TableType, ControlType, Messages, Output, Pointer

\* Every step of a message keeps the types, and the room for its buffers.
LEMMA TypeServe == TypeInv /\ Serve => TypeInv'
<1> SUFFICES ASSUME TypeInv, Serve PROVE TypeInv'
  OBVIOUS
<1> USE DEF TypeInv
<1>1. ASSUME NEW name \in Names \cup {NULL}, NEW img \in Images \cup {Clear},
             Accept([name |-> name, img |-> img]) PROVE TypeInv'
  BY <1>1 DEF Accept, Messages, TypeOK, TableType, ObjectType, ControlType, CompositorType, table, objects, client, compositor, Room
<1>2. CASE map_source
  <2>1. CASE MapFails(msg) /\ Done
    BY <1>2, <2>1, MsgDone DEF map_source, TypeOK, TableType, ObjectType, ControlType, CompositorType, table, objects, compositor, Room
  <2>2. CASE pc' = "apply" /\ idx' = 0 /\ UNCHANGED msg
    BY <1>2, <2>2, EwdAssumption DEF map_source, EwdAssumption, TypeOK, TableType, ObjectType, ControlType, CompositorType, table, objects, compositor, Room
  <2> QED BY <1>2, <2>1, <2>2 DEF map_source
<1>3. CASE Unnamed
  BY <1>3 DEF Unnamed, Proceed, TypeOK, TableType, ObjectType, ControlType, CompositorType, table, objects, client, compositor, Room
<1>4. idx \in Live(len) => idx \in Slots /\ idx + 1 \in 0..MaxSlots /\ idx + 1 <= len /\ buf[idx] \in Output
  BY EwdAssumption DEF EwdAssumption, Live, Slots, TypeOK, TableType
<1>5. CASE Skip
  BY <1>4, <1>5, EwdAssumption DEF EwdAssumption, Live, Skip, TypeOK, TableType, ObjectType, ControlType, CompositorType, table, objects, compositor, Room
<1>6. Selected => npix + 1 \in Pixs /\ npix + 1 + (len - (idx + 1)) <= MaxBufs
  BY <1>4, EwdAssumption DEF EwdAssumption, Selected, Room, TypeOK, TableType, ObjectType, ControlType, Live, Pixs
<1>7. CASE mkbuf_fails
  <2>1. PICK end \in MkbufEnds(buf[idx].dim) \ {"ok"} :
          /\ buf' = [buf EXCEPT ![idx] = MkbufOutput(buf[idx], npix + 1, end)]
          /\ IF end \in {"pool", "buffer"}
             THEN npix' = npix + 1 /\ mapped' = mapped \cup {npix'}
             ELSE UNCHANGED <<npix, mapped>>
    BY <1>7 DEF mkbuf_fails
  <2>2. Selected /\ Done
    BY <1>7 DEF mkbuf_fails
  <2>3. end \in {"memfd", "mmap", "pool", "buffer"}
    BY <2>1 DEF MkbufEnds
  <2>4. MkbufOutput(buf[idx], npix + 1, end) \in Output
    BY <1>4, <1>6, <2>2, <2>3 DEF MkbufOutput, Output, Selected
  <2>5. TableType'
    BY <1>4, <1>7, <2>1, <2>2, <2>4, Stored DEF mkbuf_fails, Selected, TypeOK, TableType
  <2>6. npix' \in 0..MaxBufs /\ mapped' \subseteq Pixs
    <3>1. npix + 1 \in Pixs /\ npix + 1 \in 0..MaxBufs /\ npix \in 0..MaxBufs /\ mapped \subseteq Pixs
      BY <1>6, <2>2, EwdAssumption DEF EwdAssumption, TypeOK, ObjectType, Pixs
    <3>2. CASE end \in {"pool", "buffer"}
      BY <2>1, <3>1, <3>2
    <3>3. CASE end \notin {"pool", "buffer"}
      BY <2>1, <3>1, <3>3
    <3> QED BY <3>2, <3>3
  <2> QED BY <1>7, <2>2, <2>5, <2>6, MsgDone DEF mkbuf_fails, TypeOK, ObjectType, ControlType, CompositorType, compositor, Room
<1>8. CASE draw
  <2> DEFINE o == buf[idx] n == npix + 1 f == SurfaceFault(o.surf)
  <2>1. Selected /\ o \in Output /\ n \in Pixs /\ idx \in Slots
    BY <1>4, <1>6, <1>8 DEF draw, Selected
  <2>2. MkbufOutput(o, n, "ok") \in Output
    BY <2>1 DEF MkbufOutput, Output
  <2>3. TableType'
    BY <1>8, <2>1, <2>2, Stored DEF draw, TypeOK, TableType
  <2>4. pix' \in BufferType
    BY <1>8, <2>1, NewPixType DEF draw, TypeOK, ObjectType, BufferType
  <2>5. surf' \in SurfaceType
    BY <1>8, <2>1 DEF draw, TypeOK, ObjectType, SurfaceType
  <2>6. wq' \in Seq(EventTypes)
    <3>1. Event("error", 0, 0) \in EventTypes
      BY DEF Event, EventTypes, Old
    <3> QED BY <1>8, <3>1 DEF draw, TypeOK, CompositorType
  <2>7. f \subseteq {"null_surface", "freed_surface"}
    BY DEF SurfaceFault
  <2>8. Proceed(f, pc) /\ idx' = idx + 1 /\ npix' = n /\ mapped' = mapped \cup {n}
    BY <1>8 DEF draw
  <2> HIDE DEF f
  <2>9. ControlType'
    BY <1>4, <1>8, <2>1, <2>7, <2>8 DEF Proceed, draw, Selected, TypeOK, ControlType
  <2>10. Room'
    BY <1>4, <1>6, <1>8, <2>1, <2>8 DEF Proceed, draw, Selected, Room, TypeOK, TableType, ObjectType, ControlType
  <2> QED BY <1>8, <2>1, <2>3, <2>4, <2>5, <2>6, <2>8, <2>9, <2>10 DEF draw, TypeOK, ObjectType, CompositorType, compositor, Pixs
<1>9. CASE apply_done
  BY <1>9, MsgDone DEF apply_done, TypeOK, TableType, ObjectType, ControlType, CompositorType, table, objects, compositor, Room
<1> QED BY <1>1, <1>2, <1>3, <1>5, <1>7, <1>8, <1>9 DEF Serve

\* What the compositor sends are events.
LEMMA SendType ==
  ASSUME TypeOK, NEW es \in Seq(EventTypes), Send(es)
  PROVE  wq' \in Seq(EventTypes)
BY DEF Send, TypeOK, CompositorType

\* Every step of the compositor keeps the types.
LEMMA TypeCompositor == TypeInv /\ Compositor => TypeInv'
<1> SUFFICES ASSUME TypeInv, Compositor PROVE TypeInv'
  OBVIOUS
<1> USE DEF TypeInv
<1>0. ASSUME NEW es \in Seq(EventTypes), Send(es), plug' \in [Globals -> {"off", "on", "gone"}],
             told' \subseteq Globals, surf' \in SurfaceType, pix' \in BufferType
      PROVE  TypeInv'
  BY <1>0, SendType DEF Send, table, client, TypeOK, TableType, ObjectType, ControlType, CompositorType, Room
<1>a. surf \in SurfaceType /\ pix \in BufferType /\ plug \in [Globals -> {"off", "on", "gone"}] /\ told \subseteq Globals
  BY DEF TypeOK, ObjectType, CompositorType
<1>b. \A e \in EventTypes : <<e>> \in Seq(EventTypes)
  OBVIOUS
<1>1. ASSUME NEW g \in Globals, Plug(g) PROVE TypeInv'
  <2>1. PICK v \in Versions : Say(Event("global", g, v))
    BY <1>1 DEF Plug
  <2>2. Event("global", g, v) \in EventTypes
    BY <2>1 DEF Event, EventTypes, Versions
  <2> QED BY <1>0, <1>1, <1>a, <1>b, <2>1, <2>2 DEF Plug, Say
<1>2. ASSUME NEW g \in Globals, Unplug(g) PROVE TypeInv'
  <2>1. Event("global_remove", g, 0) \in EventTypes
    BY DEF Event, EventTypes
  <2> QED BY <1>0, <1>2, <1>a, <1>b, <2>1 DEF Unplug, Say
<1>3. ASSUME NEW g \in Globals, Describe(g) PROVE TypeInv'
  <2>1. PICK d \in Dims : Send(<<Event("mode", g, d), Event("name", g, 0)>>)
    BY <1>3 DEF Describe
  <2>2. Event("mode", g, d) \in EventTypes /\ Event("name", g, 0) \in EventTypes
    BY DEF Event, EventTypes
  <2>3. <<Event("mode", g, d), Event("name", g, 0)>> \in Seq(EventTypes)
    BY <2>2
  <2> QED BY <1>0, <1>3, <1>a, <2>1, <2>3 DEF Describe
<1>4. ASSUME NEW g \in Globals, Remode(g) PROVE TypeInv'
  <2>1. PICK d \in Dims : Say(Event("mode", g, d))
    BY <1>4 DEF Remode
  <2>2. Event("mode", g, d) \in EventTypes
    BY DEF Event, EventTypes
  <2> QED BY <1>0, <1>4, <1>a, <1>b, <2>1, <2>2 DEF Remode, Say
<1>5. ASSUME NEW s \in Surfs, Configure(s) PROVE TypeInv'
  <2>1. PICK d \in Dims : Say(Event("configure", s, d))
    BY <1>5 DEF Configure
  <2>2. Event("configure", s, d) \in EventTypes
    BY DEF Event, EventTypes
  <2>3. surf' \in SurfaceType
    BY <1>5, <1>a DEF Configure, SurfaceType
  <2> QED BY <1>0, <1>5, <1>a, <1>b, <2>1, <2>2, <2>3 DEF Configure, Say
<1>6. ASSUME NEW s \in Surfs, Close(s) PROVE TypeInv'
  <2>2. Event("closed", s, 0) \in EventTypes
    BY DEF Event, EventTypes
  <2>3. surf' \in SurfaceType
    BY <1>6, <1>a DEF Close, SurfaceType
  <2> QED BY <1>0, <1>6, <1>a, <1>b, <2>2, <2>3 DEF Close, Say
<1>7. ASSUME NEW b \in Pixs, Release(b) PROVE TypeInv'
  <2>2. Event("release", b, 0) \in EventTypes
    BY DEF Event, EventTypes
  <2>3. pix' \in BufferType
    BY <1>7, <1>a DEF Release, BufferType
  <2> QED BY <1>0, <1>7, <1>a, <1>b, <2>2, <2>3 DEF Release
<1>8. CASE SyncReply
  <2>2. Event("sync", 0, 0) \in EventTypes
    BY DEF Event, EventTypes, Old
  <2> QED BY <1>0, <1>8, <1>a, <1>b, <2>2 DEF SyncReply
<1> QED BY <1>1, <1>2, <1>3, <1>4, <1>5, <1>6, <1>7, <1>8 DEF Compositor

\* The registry advertises finitely many globals ...
LEMMA AdvertisedFinite ==
  ASSUME NEW offer \in SUBSET Services, NEW ver
  PROVE  IsFiniteSet(Advertised(offer, ver))
<1>1. IsFiniteSet(Services)
  <2>1. Services = {"comp"} \cup {"shm"} \cup {"lshell"}
    BY DEF Services
  <2> QED BY <2>1, FS_Singleton, FS_Union
<1>2. IsFiniteSet(offer) /\ IsFiniteSet(Initial)
  BY <1>1, FS_Subset, EwdAssumption DEF EwdAssumption
<1> DEFINE f == [t \in offer |-> Event(t, 0, ver[t])]
           h == [g \in Initial |-> Event("global", g, ver["global"])]
           F == {Event(t, 0, ver[t]) : t \in offer}
           H == {Event("global", g, ver["global"]) : g \in Initial}
<1>3. f \in Surjection(offer, F) /\ h \in Surjection(Initial, H)
  BY DEF Surjection
<1>4. IsFiniteSet(F) /\ IsFiniteSet(H)
  BY <1>2, <1>3, FS_Surjection
<1> QED BY <1>4, FS_Union DEF Advertised

\* ... and they are events.
LEMMA AdvertisedType ==
  ASSUME NEW offer \in SUBSET Services, NEW ver \in [Services \cup {"global"} -> Versions]
  PROVE  Advertised(offer, ver) \subseteq EventTypes
BY EwdAssumption DEF EwdAssumption, Advertised, Event, EventTypes, Versions, Services

\* What Init says of the queue.
LEMMA FirstEvents ==
  ASSUME Init
  PROVE  \E offer \in SUBSET Services, ver \in [Services \cup {"global"} -> Versions] :
           \E q \in SetToSeqs(Advertised(offer, ver)) :
             /\ wq = Append(q, Event("sync", 0, 0))
             /\ q \in Seq(EventTypes)
             /\ \A k \in 1..Len(q) : q[k] \in Advertised(offer, ver)
             /\ \A k, l \in 1..Len(q) : q[k] = q[l] => k = l
             /\ "any_order" \in Behaviours \/ ServicesFirst(q)
<1>1. PICK offer \in SUBSET Services, ver \in [Services \cup {"global"} -> Versions] :
        \E q \in SetToSeqs(Advertised(offer, ver)) :
          /\ "any_order" \in Behaviours \/ ServicesFirst(q)
          /\ wq = Append(q, Event("sync", 0, 0))
  BY DEF Init
<1>2. PICK q \in SetToSeqs(Advertised(offer, ver)) :
        /\ "any_order" \in Behaviours \/ ServicesFirst(q)
        /\ wq = Append(q, Event("sync", 0, 0))
  BY <1>1
<1> DEFINE A == Advertised(offer, ver) n == Cardinality(A)
<1>3. n \in Nat
  BY AdvertisedFinite, FS_CardinalityType
<1>4. q \in [1..n -> A] /\ \A k, l \in 1..n : k # l => q[k] # q[l]
  BY DEF SetToSeqs
<1>5. A \subseteq EventTypes
  BY AdvertisedType
<1> HIDE DEF n, A
<1>6. q \in Seq(A) /\ q \in Seq(EventTypes) /\ Len(q) = n
  BY <1>3, <1>4, <1>5
<1>7. \A k \in 1..Len(q) : q[k] \in A
  BY <1>4, <1>6
<1> QED BY <1>2, <1>4, <1>6, <1>7 DEF A

\* The types hold when the daemon has connected.
LEMMA TypeInit == Init => TypeInv
<1> SUFFICES ASSUME Init PROVE TypeInv
  OBVIOUS
<1>1. wq \in Seq(EventTypes)
  <2>1. Event("sync", 0, 0) \in EventTypes
    BY DEF Event, EventTypes, Old
  <2> QED BY <2>1, FirstEvents
<1>2. TableType
  BY EwdAssumption DEF EwdAssumption, Init, TableType, Zero, Output
<1>3. wlout \in ProxyType /\ surf \in SurfaceType /\ pix \in BufferType
  <2>1. Nowhere \in Pointer
    BY EwdAssumption DEF EwdAssumption, Nowhere, Pointer, Slots
  <2> QED BY <2>1 DEF Init, ProxyType, SurfaceType, BufferType
<1> QED
  BY <1>1, <1>2, <1>3, EwdAssumption DEF EwdAssumption, Init, TypeInv, TypeOK, ObjectType, ControlType, CompositorType, Room, NoMsg, Messages

\* Every step keeps the types.
LEMMA TypeNext == TypeInv /\ [Next]_vars => TypeInv'
<1>1. ASSUME TypeInv, UNCHANGED vars PROVE TypeInv'
  BY <1>1 DEF vars, TypeInv, table, objects, client, compositor, TypeOK, TableType, ObjectType, ControlType, CompositorType, Room
<1>2. ASSUME TypeInv, Terminate PROVE TypeInv'
  <2>1. wq' \in Seq(EventTypes)
    BY <1>2 DEF Terminate, TypeInv, TypeOK, CompositorType
  <2> QED BY <1>2, <2>1, CleanupType DEF Terminate, TypeInv, Cleanup, CleanupAfter, Room
<1> QED BY <1>1, <1>2, TypeDispatch, TypeServe, TypeCompositor DEF Next

\* Type correctness of the daemon and its compositor: no slot, surface or
\* buffer number runs past its bound.  The invariant that carries the proof
\* adds the room that Accept asks for, without which a draw could run out.
THEOREM TypeCorrect == Spec => []TypeOK
<1>1. Spec => []TypeInv
  BY TypeInit, TypeNext, PTL DEF Spec
<1> QED BY <1>1, PTL DEF TypeInv

-----------------------------------------------------------------------------
(***************************************************************************)
(* The table.  Most steps are quiet: they leave the outputs, their order,  *)
(* their names and their surfaces alone.                                   *)
(***************************************************************************)
Alive == {"created", "configured"}

\* Each output is announced at most once, before it is bound; the events of a
\* surface come after it has been created.
QueueOK ==
  Serving =>
    /\ \A k \in 1..Len(wq) : wq[k].type = "global" =>
         wlout[wq[k].id].st = "none" /\ plug[wq[k].id] # "off"
    /\ \A k, l \in 1..Len(wq) :
         wq[k].type = "global" /\ wq[l].type = "global" /\ wq[k].id = wq[l].id => k = l
    /\ \A g \in Globals : plug[g] = "off" => wlout[g].st = "none"
    /\ \A k \in 1..Len(wq) : wq[k].type \in {"configure", "closed"} =>
         surf[wq[k].id].st # "none"

\* What a step does to the queue.
Sent(es) ==
  /\ es \in Seq(EventTypes) /\ wq' = wq \o es
  /\ \A k \in 1..Len(es) : es[k].type # "global"
  /\ \A k \in 1..Len(es) : es[k].type \in {"configure", "closed"} => surf[es[k].id].st # "none"
  /\ \A g \in Globals : plug'[g] = "off" <=> plug[g] = "off"

QueueStep ==
  \/ UNCHANGED <<wq, plug>>
  \/ wq # <<>> /\ wq' = Tail(wq) /\ UNCHANGED plug
  \/ \E es : Sent(es)
  \/ \E g \in Globals : Plug(g)

Quiet ==
  /\ UNCHANGED <<len, cap, gen, wlout, nsurf>>
  /\ \A i \in Slots : /\ buf'[i].wl_out = buf[i].wl_out /\ buf'[i].name = buf[i].name
                      /\ buf'[i].surf = buf[i].surf
                      /\ buf'[i].human_name = buf[i].human_name
  /\ \A s \in Surfs : /\ surf'[s].data = surf[s].data /\ surf'[s].out = surf[s].out
                      /\ surf'[s].st \in Alive <=> surf[s].st \in Alive
                      /\ surf'[s].st = "none" <=> surf[s].st = "none"
  /\ pc = "exited" => pc' = "exited"
  /\ QueueStep

\* What the compositor says of its own accord, apart from globals, keeps to
\* the rules of the queue.
LEMMA SayStep ==
  ASSUME TypeOK, NEW e \in EventTypes, Say(e), e.type # "global",
         e.type \in {"configure", "closed"} => surf[e.id].st # "none",
         \A g \in Globals : plug'[g] = "off" <=> plug[g] = "off"
  PROVE  QueueStep
<1>1. <<e>> \in Seq(EventTypes) /\ \A k \in 1..Len(<<e>>) : <<e>>[k] = e
  OBVIOUS
<1>2. Sent(<<e>>)
  BY <1>1 DEF Sent, Say, Send
<1> QED BY <1>2 DEF QueueStep

\* A handler is quiet, or one of the five that change the table.
LEMMA QuietDispatch ==
  ASSUME TypeOK, QueueOK, Dispatch
  PROVE  Quiet \/ BindOutput \/ reg_del \/ ls_close \/ out_name \/ pc' = "exited"
<1>1. CASE Discard
  BY <1>1 DEF Discard, Take, table, objects, compositor, Quiet, QueueStep, Dispatching
<1>2. CASE Dangle
  BY <1>2 DEF Dangle, Take, table, objects, compositor, Quiet, QueueStep, Dispatching
<1>3. ASSUME NEW t \in Services, BindService(t) PROVE Quiet
  BY <1>3 DEF BindService, Take, table, compositor, Quiet, QueueStep, Dispatching
<1>5. CASE GrowFails
  BY <1>5 DEF GrowFails, Proceed, Take, table, objects, compositor, Quiet, QueueStep, Dispatching
<1>6. CASE TooOld
  BY <1>6 DEF TooOld, Cleanup, CleanupAfter
<1>8. CASE reg_del_unknown
  BY <1>8 DEF reg_del_unknown, Take, table, objects, compositor, Quiet, QueueStep, Dispatching
<1>9. CASE out_mode
  <2>1. At \in Slots /\ out \in Output
    BY <1>9, DeliverType DEF out_mode, ListenerEvents
  <2>2. buf' = [buf EXCEPT ![At] = [out EXCEPT !.dim = Ev.arg]]
    BY <1>9 DEF out_mode, out
  <2> QED BY <1>9, <2>1, <2>2 DEF out_mode, Deliver, Take, objects, compositor, Quiet, QueueStep, Dispatching, TypeOK, TableType, out, Output
<1>11. CASE ls_conf
  <2>1. At \in Slots /\ out \in Output /\ Ev.id \in Surfs /\ Ev \in EventTypes
    BY <1>11, DeliverType, EventFields DEF ls_conf, ListenerEvents
  <2>2. buf' = [buf EXCEPT ![At] = Sized(out, Ev.arg)] \/ buf' = buf
    BY <1>11 DEF ls_conf
  <2>3. \A i \in Slots : /\ buf'[i].wl_out = buf[i].wl_out /\ buf'[i].name = buf[i].name
                         /\ buf'[i].surf = buf[i].surf
                         /\ buf'[i].human_name = buf[i].human_name
    <3>1. LET o == Sized(out, Ev.arg) IN
            /\ o.wl_out = out.wl_out /\ o.name = out.name
            /\ o.surf = out.surf /\ o.human_name = out.human_name
      BY <2>1 DEF Sized, Output
    <3>2. CASE buf' = [buf EXCEPT ![At] = Sized(out, Ev.arg)]
      BY <2>1, <3>1, <3>2 DEF TypeOK, TableType, out
    <3> QED BY <2>2, <3>2
  <2>4. surf[Ev.id].st \in Alive
    <3>1. wq # <<>> /\ Ev = wq[1] /\ Ev.type = "configure" /\ surf[Ev.id].st # "destroyed"
      <4>1. wq # <<>> /\ Ev.type = "configure" /\ Listening(Ev)
        BY <1>11 DEF ls_conf, Deliver, Take
      <4>2. Ev = wq[1]
        BY <4>1 DEF Ev, TypeOK, CompositorType
      <4>3. surf[Ev.id].st # "destroyed"
        BY <4>1 DEF Listening
      <4> QED BY <4>1, <4>2, <4>3
    <3>2. 1 \in 1..Len(wq)
      BY <3>1 DEF TypeOK, CompositorType
    <3>3. Serving
      BY <1>11 DEF ls_conf, Deliver, Take, Dispatching, Serving
    <3> QED BY <2>1, <3>1, <3>2, <3>3 DEF QueueOK, Alive, TypeOK, ObjectType, SurfaceType
  <2>5. surf' = [surf EXCEPT ![Ev.id] = [surf[Ev.id] EXCEPT !.st = "configured"]]
    BY <1>11 DEF ls_conf
  <2>6. \A s \in Surfs : /\ surf'[s].data = surf[s].data /\ surf'[s].out = surf[s].out
                         /\ surf'[s].st \in Alive <=> surf[s].st \in Alive
                         /\ surf'[s].st = "none" <=> surf[s].st = "none"
    BY <2>1, <2>4, <2>5 DEF Alive, TypeOK, ObjectType, SurfaceType
  <2> QED BY <1>11, <2>3, <2>6 DEF ls_conf, Deliver, Take, compositor, Quiet, QueueStep, Dispatching
<1>13. CASE buf_free
  BY <1>13 DEF buf_free, Deliver, Take, table, compositor, Quiet, QueueStep, Dispatching
<1>14. CASE Roundtrip1
  BY <1>14 DEF Roundtrip1, Synced, Take, table, objects, compositor, Quiet, QueueStep
<1>15. CASE Missing
  BY <1>15 DEF Missing, Cleanup, CleanupAfter
<1>16. CASE Roundtrip2
  BY <1>16 DEF Roundtrip2, Synced, Take, table, objects, compositor, Quiet, QueueStep
<1>17. CASE ProtocolError
  BY <1>17 DEF ProtocolError, CleanupAfter
<1> QED
  BY <1>1, <1>2, <1>3, <1>5, <1>6, <1>8, <1>9, <1>11, <1>13, <1>14, <1>15, <1>16, <1>17 DEF Dispatch

\* Every step of a message is quiet.
LEMMA QuietServe == ASSUME TypeInv, Serve PROVE Quiet
<1> USE DEF TypeInv
<1>1. ASSUME NEW m, Accept(m) PROVE Quiet
  BY <1>1 DEF Accept, table, objects, compositor, Quiet, QueueStep
<1>2. CASE map_source
  BY <1>2 DEF map_source, table, objects, compositor, Quiet, QueueStep
<1>3. CASE Unnamed
  BY <1>3 DEF Unnamed, table, objects, compositor, Quiet, QueueStep
<1>4. CASE Skip
  BY <1>4 DEF Skip, table, objects, compositor, Quiet, QueueStep
<1>5. Selected => idx \in Slots /\ buf[idx] \in Output
  BY EwdAssumption DEF EwdAssumption, Selected, Live, Slots, TypeOK, TableType
<1>6. ASSUME Selected, NEW end, NEW n, buf' = [buf EXCEPT ![idx] = MkbufOutput(buf[idx], n, end)],
             end \in {"memfd", "mmap", "pool", "buffer", "ok"}
      PROVE  \A i \in Slots : /\ buf'[i].wl_out = buf[i].wl_out /\ buf'[i].name = buf[i].name
                              /\ buf'[i].surf = buf[i].surf
                              /\ buf'[i].human_name = buf[i].human_name
  <2>1. LET o == MkbufOutput(buf[idx], n, end) IN
          /\ o.wl_out = buf[idx].wl_out /\ o.name = buf[idx].name
          /\ o.surf = buf[idx].surf /\ o.human_name = buf[idx].human_name
    BY <1>5, <1>6 DEF MkbufOutput, Output
  <2> QED BY <1>5, <1>6, <2>1 DEF TypeOK, TableType
<1>7. CASE mkbuf_fails
  <2>1. PICK end \in MkbufEnds(buf[idx].dim) \ {"ok"} :
          buf' = [buf EXCEPT ![idx] = MkbufOutput(buf[idx], npix + 1, end)]
    BY <1>7 DEF mkbuf_fails
  <2>2. end \in {"memfd", "mmap", "pool", "buffer", "ok"} /\ Selected
    BY <1>7, <2>1 DEF MkbufEnds, mkbuf_fails
  <2>3. \A i \in Slots : /\ buf'[i].wl_out = buf[i].wl_out /\ buf'[i].name = buf[i].name
                         /\ buf'[i].surf = buf[i].surf
                         /\ buf'[i].human_name = buf[i].human_name
    BY <1>6, <2>1, <2>2
  <2> QED BY <1>7, <2>2, <2>3 DEF mkbuf_fails, Selected, compositor, Quiet, QueueStep
<1>8. CASE draw
  <2>1. buf' = [buf EXCEPT ![idx] = MkbufOutput(buf[idx], npix + 1, "ok")] /\ Selected
    BY <1>8 DEF draw
  <2>2. \A i \in Slots : /\ buf'[i].wl_out = buf[i].wl_out /\ buf'[i].name = buf[i].name
                         /\ buf'[i].surf = buf[i].surf
                         /\ buf'[i].human_name = buf[i].human_name
    BY <1>6, <2>1
  <2>3. surf' = [s \in Surfs |-> IF s = buf[idx].surf
                                 THEN [surf[s] EXCEPT !.content = npix + 1] ELSE surf[s]]
    BY <1>8 DEF draw
  <2>4. \A s \in Surfs : /\ surf'[s].data = surf[s].data /\ surf'[s].out = surf[s].out
                         /\ surf'[s].st = surf[s].st
    BY <2>3 DEF TypeOK, ObjectType, SurfaceType
  <2>5. QueueStep
    <3>1. CASE wq' = Append(wq, Event("error", 0, 0))
      <4>1. Event("error", 0, 0) \in EventTypes /\ Event("error", 0, 0).type = "error"
        BY DEF Event, EventTypes, Old
      <4>2. <<Event("error", 0, 0)>> \in Seq(EventTypes)
        BY <4>1
      <4>3. \A k \in 1..Len(<<Event("error", 0, 0)>>) : <<Event("error", 0, 0)>>[k].type = "error"
        BY <4>1
      <4>4. wq' = wq \o <<Event("error", 0, 0)>>
        BY <3>1, <4>1 DEF TypeOK, CompositorType
      <4>5. Sent(<<Event("error", 0, 0)>>)
        BY <1>8, <4>2, <4>3, <4>4 DEF Sent, draw, compositor
      <4> QED BY <4>5 DEF QueueStep
    <3>2. CASE UNCHANGED wq
      BY <1>8, <3>2 DEF draw, compositor, QueueStep
    <3> QED BY <1>8, <3>1, <3>2 DEF draw
  <2> QED BY <1>8, <2>1, <2>2, <2>4, <2>5 DEF draw, Selected, Quiet
<1>9. CASE apply_done
  BY <1>9 DEF apply_done, table, objects, compositor, Quiet, QueueStep
<1> QED BY <1>1, <1>2, <1>3, <1>4, <1>7, <1>8, <1>9 DEF Serve

\* Every step of the compositor is quiet.
LEMMA QuietCompositor == ASSUME TypeOK, Compositor PROVE Quiet
<1>1. ASSUME NEW es, Send(es), QueueStep,
             \A s \in Surfs : /\ surf'[s].data = surf[s].data /\ surf'[s].out = surf[s].out
                              /\ surf'[s].st = surf[s].st
      PROVE  Quiet
  BY <1>1 DEF Send, Dispatching, table, Quiet
<1>2. ASSUME NEW e \in EventTypes, Say(e), e.type # "global",
             e.type \in {"configure", "closed"} => surf[e.id].st # "none",
             \A g \in Globals : plug'[g] = "off" <=> plug[g] = "off",
             \A s \in Surfs : /\ surf'[s].data = surf[s].data /\ surf'[s].out = surf[s].out
                              /\ surf'[s].st = surf[s].st
      PROVE  Quiet
  BY <1>1, <1>2, SayStep DEF Say
<1>3. ASSUME NEW g \in Globals, Plug(g) PROVE Quiet
  <2>1. PICK v \in Versions : Say(Event("global", g, v))
    BY <1>3 DEF Plug
  <2> QED BY <1>1, <1>3, <2>1 DEF Plug, Say, QueueStep
<1>4. ASSUME NEW g \in Globals, Unplug(g) PROVE Quiet
  <2>1. Event("global_remove", g, 0) \in EventTypes
        /\ Event("global_remove", g, 0).type = "global_remove"
    BY DEF Event, EventTypes
  <2>2. \A h \in Globals : plug'[h] = "off" <=> plug[h] = "off"
    BY <1>4 DEF Unplug, TypeOK, CompositorType
  <2> QED BY <1>2, <1>4, <2>1, <2>2 DEF Unplug
<1>5. ASSUME NEW g \in Globals, Describe(g) PROVE Quiet
  <2>1. PICK d \in Dims : Send(<<Event("mode", g, d), Event("name", g, 0)>>)
    BY <1>5 DEF Describe
  <2> DEFINE m == Event("mode", g, d) n == Event("name", g, 0)
  <2>2. m \in EventTypes /\ n \in EventTypes /\ m.type = "mode" /\ n.type = "name"
    BY DEF Event, EventTypes
  <2>3. wq' = wq \o <<m, n>> /\ UNCHANGED plug
    BY <1>5, <2>1 DEF Send, Describe
  <2> HIDE DEF m, n
  <2>4. <<m, n>> \in Seq(EventTypes) /\ \A k \in 1..Len(<<m, n>>) : <<m, n>>[k] \in {m, n}
    BY <2>2
  <2>5. Sent(<<m, n>>)
    BY <2>2, <2>3, <2>4 DEF Sent
  <2> QED BY <1>1, <1>5, <2>1, <2>5 DEF Describe, QueueStep
<1>6. ASSUME NEW g \in Globals, Remode(g) PROVE Quiet
  <2>1. PICK d \in Dims : Say(Event("mode", g, d))
    BY <1>6 DEF Remode
  <2>2. Event("mode", g, d) \in EventTypes /\ Event("mode", g, d).type = "mode"
    BY DEF Event, EventTypes
  <2> QED BY <1>2, <1>6, <2>1, <2>2 DEF Remode
<1>7. ASSUME NEW s \in Surfs, Configure(s) PROVE Quiet
  <2>1. PICK d \in Dims : Say(Event("configure", s, d))
    BY <1>7 DEF Configure
  <2>2. Event("configure", s, d) \in EventTypes /\ Event("configure", s, d).id = s
        /\ Event("configure", s, d).type = "configure"
    BY DEF Event, EventTypes
  <2>3. surf[s].st # "none" /\ surf' = [surf EXCEPT ![s] = [surf[s] EXCEPT !.view = "configured"]]
    BY <1>7 DEF Configure, Mapped
  <2>4. \A r \in Surfs : /\ surf'[r].data = surf[r].data /\ surf'[r].out = surf[r].out
                         /\ surf'[r].st = surf[r].st
    BY <2>3 DEF TypeOK, ObjectType, SurfaceType
  <2> QED BY <1>2, <1>7, <2>1, <2>2, <2>3, <2>4 DEF Configure
<1>8. ASSUME NEW s \in Surfs, Close(s) PROVE Quiet
  <2>2. Event("closed", s, 0) \in EventTypes /\ Event("closed", s, 0).id = s
        /\ Event("closed", s, 0).type = "closed"
    BY DEF Event, EventTypes
  <2>3. surf[s].st # "none" /\ surf' = [surf EXCEPT ![s] = [surf[s] EXCEPT !.view = "closed"]]
    BY <1>8 DEF Close, Mapped
  <2>4. \A r \in Surfs : /\ surf'[r].data = surf[r].data /\ surf'[r].out = surf[r].out
                         /\ surf'[r].st = surf[r].st
    BY <2>3 DEF TypeOK, ObjectType, SurfaceType
  <2> QED BY <1>2, <1>8, <2>2, <2>3, <2>4 DEF Close
<1>9. ASSUME NEW e \in EventTypes, Send(<<e>>), e.type \in {"release", "sync"},
             UNCHANGED <<surf, plug>>
      PROVE  Quiet
  <2>1. <<e>> \in Seq(EventTypes) /\ \A k \in 1..Len(<<e>>) : <<e>>[k] = e
    OBVIOUS
  <2>2. Sent(<<e>>)
    BY <1>9, <2>1 DEF Send, Sent
  <2> QED BY <1>1, <1>9, <2>2 DEF QueueStep
<1>10. ASSUME NEW b \in Pixs, Release(b) PROVE Quiet
  <2>1. Event("release", b, 0) \in EventTypes /\ Event("release", b, 0).type = "release"
    BY DEF Event, EventTypes
  <2> QED BY <1>9, <1>10, <2>1 DEF Release
<1>11. CASE SyncReply
  <2>1. Event("sync", 0, 0) \in EventTypes /\ Event("sync", 0, 0).type = "sync"
    BY DEF Event, EventTypes, Old
  <2> QED BY <1>9, <1>11, <2>1 DEF SyncReply
<1> QED BY <1>3, <1>4, <1>5, <1>6, <1>7, <1>8, <1>10, <1>11 DEF Compositor

\* Every step is one of these.
LEMMA StepKinds ==
  ASSUME TypeInv, QueueOK, [Next]_vars
  PROVE  Quiet \/ BindOutput \/ reg_del \/ ls_close \/ out_name \/ pc' = "exited"
<1>1. CASE UNCHANGED vars
  BY <1>1 DEF vars, table, objects, compositor, Quiet, QueueStep
<1>2. CASE Terminate
  BY <1>2 DEF Terminate, Cleanup, CleanupAfter
<1> QED BY <1>1, <1>2, QuietDispatch, QuietServe, QuietCompositor DEF Next, TypeInv

-----------------------------------------------------------------------------
(* The queue.                                                              *)

\* What a handler does to the queue.
LEMMA Taken ==
  ASSUME TypeOK, NEW t, Take(t)
  PROVE  /\ Serving /\ wq # <<>> /\ wq' = Tail(wq) /\ Ev = wq[1] /\ 1 \in 1..Len(wq)
         /\ Len(wq') = Len(wq) - 1
         /\ \A k \in 1..Len(wq') : wq'[k] = wq[k + 1] /\ k + 1 \in 1..Len(wq)
BY DEF TypeOK, CompositorType, Take, Ev, Dispatching, Serving

\* A shorter queue keeps the rules, as long as no output becomes unbound, none
\* is bound that is still announced, and no surface becomes unborn.
LEMMA QueueShrinks ==
  ASSUME TypeOK, QueueOK, Serving, wq # <<>>, wq' = Tail(wq), UNCHANGED plug,
         \A g \in Globals : plug[g] = "off" /\ wlout[g].st = "none" => wlout'[g].st = "none",
         \A k \in 2..Len(wq) : wq[k].type = "global" /\ wlout[wq[k].id].st = "none"
                                 => wlout'[wq[k].id].st = "none",
         \A s \in Surfs : surf[s].st # "none" => surf'[s].st # "none"
  PROVE  QueueOK'
<1>1. /\ Len(wq') = Len(wq) - 1 /\ Len(wq) \in Nat
      /\ \A k \in 1..Len(wq') : /\ wq'[k] = wq[k + 1] /\ k + 1 \in 1..Len(wq)
                                /\ k + 1 \in 2..Len(wq)
  BY DEF TypeOK, CompositorType
<1>2. \A k \in 1..Len(wq) : wq[k].type \in {"configure", "closed"} => wq[k].id \in Surfs
  BY EventFields DEF TypeOK, CompositorType
<1>3. \A k \in 1..Len(wq') : wq'[k].type = "global" =>
         wlout'[wq'[k].id].st = "none" /\ plug'[wq'[k].id] # "off"
  BY <1>1 DEF QueueOK
<1>4. \A k, l \in 1..Len(wq') :
         wq'[k].type = "global" /\ wq'[l].type = "global" /\ wq'[k].id = wq'[l].id => k = l
  <2> SUFFICES ASSUME NEW k \in 1..Len(wq'), NEW l \in 1..Len(wq'), wq'[k].type = "global",
                      wq'[l].type = "global", wq'[k].id = wq'[l].id
               PROVE  k = l
    OBVIOUS
  <2>1. k + 1 = l + 1
    BY <1>1 DEF QueueOK
  <2> QED BY <2>1, <1>1
<1>5. \A k \in 1..Len(wq') : wq'[k].type \in {"configure", "closed"} =>
         surf'[wq'[k].id].st # "none"
  BY <1>1, <1>2 DEF QueueOK
<1>6. \A g \in Globals : plug'[g] = "off" => wlout'[g].st = "none"
  BY DEF QueueOK
<1> QED BY <1>3, <1>4, <1>5, <1>6 DEF QueueOK

\* A quiet step keeps the rules of the queue.
LEMMA QueueQuiet ==
  ASSUME TypeOK, QueueOK, Quiet, Serving PROVE QueueOK'
<1>0. /\ UNCHANGED wlout /\ \A s \in Surfs : surf'[s].st = "none" <=> surf[s].st = "none"
  BY DEF Quiet
<1>1. \A k \in 1..Len(wq) : /\ wq[k].type \in {"configure", "closed"} => wq[k].id \in Surfs
                            /\ wq[k].type = "global" => wq[k].id \in Globals
  BY EventFields DEF TypeOK, CompositorType
<1>2. CASE UNCHANGED <<wq, plug>>
  BY <1>0, <1>1, <1>2 DEF QueueOK
<1>3. CASE wq # <<>> /\ wq' = Tail(wq) /\ UNCHANGED plug
  BY <1>0, <1>3, QueueShrinks
<1>4. ASSUME NEW es, Sent(es) PROVE QueueOK'
  <2>1. es \in Seq(EventTypes) /\ wq' = wq \o es /\ wq \in Seq(EventTypes)
    BY <1>4 DEF Sent, TypeOK, CompositorType
  <2>2. \A k \in 1..Len(wq') :
          \/ k \in 1..Len(wq) /\ wq'[k] = wq[k]
          \/ \E l \in 1..Len(es) : wq'[k] = es[l]
    <3> SUFFICES ASSUME NEW k \in 1..Len(wq'), ~(k \in 1..Len(wq))
                 PROVE  \E l \in 1..Len(es) : wq'[k] = es[l]
      BY <2>1
    <3>1. k - Len(wq) \in 1..Len(es) /\ wq'[k] = es[k - Len(wq)]
      BY <2>1
    <3> QED BY <3>1
  <2>3. \A k \in 1..Len(es) :
          /\ es[k].type # "global"
          /\ es[k].type \in {"configure", "closed"} =>
               es[k].id \in Surfs /\ surf[es[k].id].st # "none"
    BY <1>4, <2>1, EventFields DEF Sent
  <2>4. \A k \in 1..Len(wq') : wq'[k].type = "global" =>
           k \in 1..Len(wq) /\ wq'[k] = wq[k]
    BY <2>2, <2>3
  <2>5. \A g \in Globals : plug'[g] = "off" <=> plug[g] = "off"
    BY <1>4 DEF Sent
  <2>6. \A k \in 1..Len(wq') : wq'[k].type = "global" =>
           wlout'[wq'[k].id].st = "none" /\ plug'[wq'[k].id] # "off"
    BY <1>0, <1>1, <2>4, <2>5 DEF QueueOK
  <2>7. \A k, l \in 1..Len(wq') :
           wq'[k].type = "global" /\ wq'[l].type = "global" /\ wq'[k].id = wq'[l].id => k = l
    BY <2>4 DEF QueueOK
  <2>8. \A k \in 1..Len(wq') : wq'[k].type \in {"configure", "closed"} =>
           surf'[wq'[k].id].st # "none"
    BY <1>0, <1>1, <2>2, <2>3 DEF QueueOK
  <2>9. \A g \in Globals : plug'[g] = "off" => wlout'[g].st = "none"
    BY <1>0, <2>5 DEF QueueOK
  <2> QED BY <2>6, <2>7, <2>8, <2>9 DEF QueueOK
<1>5. ASSUME NEW g \in Globals, Plug(g) PROVE QueueOK'
  <2>1. PICK v \in Versions : Say(Event("global", g, v))
    BY <1>5 DEF Plug
  <2> DEFINE e == Event("global", g, v)
  <2>2. e.type = "global" /\ e.id = g
    BY DEF Event
  <2>3. wq' = wq \o <<e>> /\ wq \in Seq(EventTypes)
    BY <2>1 DEF Say, Send, TypeOK, CompositorType
  <2>4. plug[g] = "off" /\ plug' = [plug EXCEPT ![g] = "on"] /\ wlout[g].st = "none"
    BY <1>5 DEF Plug, QueueOK
  <2> HIDE DEF e
  <2>5. /\ Len(wq') = Len(wq) + 1 /\ wq'[Len(wq) + 1] = e /\ Len(wq) \in Nat
        /\ \A k \in 1..Len(wq) : wq'[k] = wq[k]
    BY <2>3
  <2>6. \A h \in Globals : plug'[h] = "off" => plug[h] = "off" /\ h # g
    BY <2>4 DEF TypeOK, CompositorType
  <2>7. \A k \in 1..Len(wq) : wq[k].type = "global" => wq[k].id # g
    BY <1>1, <2>4 DEF QueueOK
  <2>8. \A k \in 1..Len(wq') : wq'[k].type = "global" =>
           wlout'[wq'[k].id].st = "none" /\ plug'[wq'[k].id] # "off"
    BY <1>0, <1>1, <2>2, <2>4, <2>5, <2>6 DEF QueueOK
  <2>9. \A k, l \in 1..Len(wq') :
           wq'[k].type = "global" /\ wq'[l].type = "global" /\ wq'[k].id = wq'[l].id => k = l
    <3> SUFFICES ASSUME NEW k \in 1..Len(wq'), NEW l \in 1..Len(wq'), wq'[k].type = "global",
                        wq'[l].type = "global", wq'[k].id = wq'[l].id
                 PROVE  k = l
      OBVIOUS
    <3>1. (k \in 1..Len(wq) \/ k = Len(wq) + 1) /\ (l \in 1..Len(wq) \/ l = Len(wq) + 1)
      BY <2>5
    <3> QED BY <2>2, <2>5, <2>7, <3>1 DEF QueueOK
  <2>10. \A k \in 1..Len(wq') : wq'[k].type \in {"configure", "closed"} =>
           surf'[wq'[k].id].st # "none"
    BY <1>0, <1>1, <2>2, <2>5 DEF QueueOK
  <2>11. \A h \in Globals : plug'[h] = "off" => wlout'[h].st = "none"
    BY <1>0, <2>6 DEF QueueOK
  <2> QED BY <2>8, <2>9, <2>10, <2>11 DEF QueueOK
<1> QED BY <1>2, <1>3, <1>4, <1>5 DEF Quiet, QueueStep

-----------------------------------------------------------------------------
(* The slots.                                                              *)

\* da_remove: what lies below the slot stays, what lies above moves down.
LEMMA RemovedSlots ==
  ASSUME TypeOK, NEW b \in [Slots -> Output], NEW i \in Live(len)
  PROVE  \A k \in Live(len - 1) :
           /\ k \in Slots /\ k + 1 \in Live(len) /\ k \in Live(len)
           /\ Removed(b, len, i)[k] = IF k < i THEN b[k] ELSE b[k + 1]
BY EwdAssumption DEF EwdAssumption, TypeOK, TableType, Live, Slots, Removed, RemovedRange

\* A live slot is a slot, and holds an output.
LEMMA LiveSlots ==
  ASSUME TypeOK PROVE \A i \in Live(len) : i \in Slots /\ buf[i] \in Output
BY EwdAssumption DEF EwdAssumption, TypeOK, TableType, Live, Slots

\* reg_del removes a live slot that has the name it was given.
LEMMA RemovedName ==
  ASSUME TypeOK, reg_del
  PROVE  LET i == Min(Named(Ev.id)) IN i \in Live(len) /\ buf[i].name = Ev.id /\ Ev.id \in Globals
<1> DEFINE i == Min(Named(Ev.id))
<1>1. Named(Ev.id) \in SUBSET Nat /\ Named(Ev.id) # {}
  BY DEF reg_del, Named, Live, TypeOK, TableType
<1>2. i \in Named(Ev.id)
  BY <1>1, MinIn
<1>3. Ev.id \in Globals
  BY TakeType, EventFields DEF reg_del, TypeOK
<1> HIDE DEF i
<1> QED BY <1>2, <1>3 DEF i, Named

\* The invariant that carries the proof.
TableInv == TypeInv /\ QueueOK /\ TableOK

\* The output reg_add binds is not in the table, nor anywhere else in the queue.
LEMMA TableBind == TableInv /\ BindOutput => QueueOK' /\ TableOK'
<1> SUFFICES ASSUME TableInv, BindOutput PROVE QueueOK' /\ TableOK'
  OBVIOUS
<1> DEFINE g == Ev.id s == IF CanCreate THEN nsurf + 1 ELSE 0
<1>1. TypeOK /\ QueueOK /\ TableOK
  BY DEF TableInv, TypeInv
<1>2. Take("global") /\ UNCHANGED <<plug, pc>>
  BY DEF BindOutput, compositor
<1>3. /\ Serving /\ wq # <<>> /\ wq' = Tail(wq) /\ 1 \in 1..Len(wq)
      /\ wq[1].type = "global" /\ wq[1].id = g /\ g \in Globals
  BY <1>1, <1>2, Taken, TakeType, EventFields DEF TypeOK
<1>4. wlout[g].st = "none" /\ plug[g] # "off"
  BY <1>1, <1>3 DEF QueueOK
<1>5. wlout' = [wlout EXCEPT ![g] = [st |-> "live", data |-> [gen |-> gen', slot |-> len]]]
  BY DEF BindOutput
<1>6. /\ wlout'[g].st = "live"
      /\ \A h \in Globals \ {g} : wlout'[h] = wlout[h]
  BY <1>1, <1>3, <1>5 DEF TypeOK, ObjectType, ProxyType
<1>7. \A r \in Surfs : surf[r].st # "none" => surf'[r].st # "none"
  <2>1. CASE CanCreate
    <3>1. surf' = [surf EXCEPT ![nsurf + 1] = NewSurface(Ev.id, len, gen')]
      BY <2>1 DEF BindOutput
    <3> QED BY <1>1, <3>1 DEF NewSurface, TypeOK, ObjectType, SurfaceType
  <2> QED BY <2>1 DEF BindOutput
<1>8. QueueOK'
  <2>1. \A k \in 2..Len(wq) : wq[k].type = "global" => wq[k].id \in Globals \ {g}
    <3> SUFFICES ASSUME NEW k \in 2..Len(wq), wq[k].type = "global"
                 PROVE  wq[k].id \in Globals /\ wq[k].id # g
      OBVIOUS
    <3>1. k \in 1..Len(wq) /\ k # 1
      OBVIOUS
    <3> QED BY <1>1, <1>3, <3>1, EventFields DEF QueueOK, TypeOK, CompositorType
  <2> QED BY <1>1, <1>2, <1>3, <1>4, <1>6, <1>7, <2>1, QueueShrinks
<1>9. TableOK'
  <2>1. /\ buf' = [buf EXCEPT ![len] = NewOutput(g, s)] /\ len' = len + 1
        /\ len \in Slots
    BY <1>1, EwdAssumption DEF EwdAssumption, BindOutput, Appended, TypeOK, TableType, Slots
  <2>2. NewOutput(g, s).wl_out = g /\ NewOutput(g, s).name = g
    BY DEF NewOutput, Zero
  <2> HIDE DEF g, s
  <2>3. /\ buf'[len].wl_out = g /\ buf'[len].name = g
        /\ \A i \in Live(len) : buf'[i] = buf[i] /\ i # len /\ i \in Slots
        /\ \A i \in Live(len') : i = len \/ i \in Live(len)
        /\ len \in Live(len') /\ \A i \in Live(len) : i \in Live(len')
    BY <1>1, <2>1, <2>2, LiveSlots DEF TypeOK, TableType, Live
  <2>4. /\ \A i \in Live(len) :
             /\ buf[i].wl_out \in Globals /\ wlout[buf[i].wl_out].st = "live"
             /\ buf[i].name \in {0, buf[i].wl_out}
        /\ \A i, j \in Live(len) : buf[i].wl_out = buf[j].wl_out => i = j
        /\ \A h \in Globals : wlout[h].st = "live" => \E i \in Live(len) : buf[i].wl_out = h
    BY <1>1, <1>3 DEF TableOK
  <2>5. \A i \in Live(len) : buf[i].wl_out \in Globals \ {g}
    BY <1>4, <2>4
  <2>6. \A i \in Live(len') :
          /\ buf'[i].wl_out \in Globals /\ wlout'[buf'[i].wl_out].st = "live"
          /\ buf'[i].name \in {0, buf'[i].wl_out}
    BY <1>3, <1>6, <2>3, <2>4, <2>5
  <2>7. \A i, j \in Live(len') : buf'[i].wl_out = buf'[j].wl_out => i = j
    BY <2>3, <2>4, <2>5
  <2>8. \A h \in Globals : wlout'[h].st = "live" => \E i \in Live(len') : buf'[i].wl_out = h
    BY <1>6, <2>3, <2>4
  <2> QED BY <2>6, <2>7, <2>8 DEF TableOK
<1> QED BY <1>8, <1>9

\* reg_del removes an output the table holds once, and moves the others.
LEMMA TableRemove == TableInv /\ reg_del => QueueOK' /\ TableOK'
<1> SUFFICES ASSUME TableInv, reg_del PROVE QueueOK' /\ TableOK'
  OBVIOUS
<1> DEFINE p == Min(Named(Ev.id)) g == buf[p].wl_out b == [buf EXCEPT ![p] = LayerFreed(buf[p])]
<1>1. TypeOK /\ QueueOK /\ TableOK
  BY DEF TableInv, TypeInv
<1>2. Take("global_remove") /\ UNCHANGED plug
  BY DEF reg_del, compositor
<1>3. Serving /\ wq # <<>> /\ wq' = Tail(wq)
  BY <1>1, <1>2, Taken
<1>4. /\ p \in Live(len) /\ p \in Slots /\ buf[p] \in Output
      /\ g \in Globals /\ wlout[g].st = "live"
  <2>1. p \in Live(len)
    BY <1>1, RemovedName
  <2> HIDE DEF p
  <2> QED BY <1>1, <1>3, <2>1, LiveSlots DEF TableOK
<1>5. wlout' = [wlout EXCEPT ![g] = [wlout[g] EXCEPT !.st = "released"]]
  BY DEF reg_del
<1>6. /\ buf' = Removed(b, len, p) /\ len' = len - 1
      /\ surf' = SurfacesWithout({buf[p].surf})
  BY DEF reg_del
<1>7. b \in [Slots -> Output]
  BY <1>1, <1>4, FreedOutput, Stored DEF TypeOK
<1>8. \A i \in Slots : b[i].wl_out = buf[i].wl_out /\ (i # p => b[i] = buf[i])
  BY <1>1, <1>4 DEF LayerFreed, TypeOK, TableType, Output
<1> HIDE DEF p, b, g
<1>9. /\ wlout'[g].st = "released"
      /\ \A h \in Globals \ {g} : wlout'[h] = wlout[h]
  BY <1>1, <1>4, <1>5 DEF TypeOK, ObjectType, ProxyType
<1>10. QueueOK'
  <2>1. \A r \in Surfs : surf[r].st # "none" => surf'[r].st # "none"
    BY <1>1, <1>6 DEF SurfacesWithout, TypeOK, ObjectType, SurfaceType
  <2>2. \A k \in 2..Len(wq) : wq[k].type = "global" => wq[k].id \in Globals
    BY <1>1, EventFields DEF TypeOK, CompositorType
  <2>3. \A h \in Globals : wlout[h].st = "none" => wlout'[h].st = "none"
    BY <1>4, <1>9
  <2> QED BY <1>1, <1>2, <1>3, <2>1, <2>2, <2>3, QueueShrinks
<1>11. TableOK'
  <2>1. \A k \in Live(len') :
          \E i \in Live(len) : /\ i # p /\ i \in Slots /\ buf'[k] = buf[i]
                               /\ i = IF k < p THEN k ELSE k + 1
    <3> SUFFICES ASSUME NEW k \in Live(len')
                 PROVE  LET i == IF k < p THEN k ELSE k + 1 IN
                          i \in Live(len) /\ i # p /\ i \in Slots /\ buf'[k] = buf[i]
      OBVIOUS
    <3>1. /\ k + 1 \in Live(len) /\ k \in Live(len)
          /\ buf'[k] = IF k < p THEN b[k] ELSE b[k + 1]
      BY <1>1, <1>4, <1>6, <1>7, RemovedSlots
    <3>2. k + 1 \in Slots /\ k \in Slots /\ p \in Nat /\ k \in Nat
      BY <1>1, <1>4, <3>1, LiveSlots DEF Slots
    <3> QED BY <1>8, <3>1, <3>2
  <2>2. \A i \in Live(len) \ {p} : \E k \in Live(len') : buf'[k] = buf[i]
    <3> SUFFICES ASSUME NEW i \in Live(len), i # p
                 PROVE  \E k \in Live(len') : buf'[k] = buf[i]
      OBVIOUS
    <3> DEFINE k == IF i < p THEN i ELSE i - 1
    <3>1. k \in Live(len') /\ i = IF k < p THEN k ELSE k + 1
      BY <1>1, <1>4, <1>6 DEF Live, TypeOK, TableType
    <3> HIDE DEF k
    <3> QED BY <2>1, <3>1
  <2>3. /\ \A i \in Live(len) :
             /\ buf[i].wl_out \in Globals /\ wlout[buf[i].wl_out].st = "live"
             /\ buf[i].name \in {0, buf[i].wl_out}
        /\ \A i, j \in Live(len) : buf[i].wl_out = buf[j].wl_out => i = j
        /\ \A h \in Globals : wlout[h].st = "live" => \E i \in Live(len) : buf[i].wl_out = h
    BY <1>1, <1>3 DEF TableOK
  <2>4. \A i \in Live(len) \ {p} : buf[i].wl_out \in Globals \ {g}
    BY <1>4, <2>3 DEF g
  <2>5. \A i \in Live(len') :
          /\ buf'[i].wl_out \in Globals /\ wlout'[buf'[i].wl_out].st = "live"
          /\ buf'[i].name \in {0, buf'[i].wl_out}
    BY <1>9, <2>1, <2>3, <2>4
  <2>6. \A k, l \in Live(len') : buf'[k].wl_out = buf'[l].wl_out => k = l
    <3> SUFFICES ASSUME NEW k \in Live(len'), NEW l \in Live(len'),
                        buf'[k].wl_out = buf'[l].wl_out
                 PROVE  k = l
      OBVIOUS
    <3>1. (IF k < p THEN k ELSE k + 1) = (IF l < p THEN l ELSE l + 1)
      BY <2>1, <2>3
    <3> QED BY <1>1, <1>4, <3>1 DEF Live, TypeOK, TableType
  <2>7. \A h \in Globals : wlout'[h].st = "live" => \E i \in Live(len') : buf'[i].wl_out = h
    <3> SUFFICES ASSUME NEW h \in Globals, wlout'[h].st = "live"
                 PROVE  \E i \in Live(len') : buf'[i].wl_out = h
      OBVIOUS
    <3>1. h # g /\ wlout[h].st = "live"
      BY <1>9
    <3>2. PICK i \in Live(len) : buf[i].wl_out = h
      BY <2>3, <3>1
    <3> QED BY <2>2, <3>1, <3>2 DEF g
  <2> QED BY <2>5, <2>6, <2>7 DEF TableOK
<1> QED BY <1>10, <1>11

\* A quiet step leaves the table as it is.
LEMMA TableQuiet == TableInv /\ Quiet => QueueOK' /\ TableOK'
<1> SUFFICES ASSUME TableInv, Quiet PROVE QueueOK' /\ TableOK'
  OBVIOUS
<1>1. TypeOK /\ QueueOK /\ TableOK /\ (Serving' => Serving)
  BY DEF TableInv, TypeInv, Quiet, Serving
<1>2. CASE Serving
  <2>1. QueueOK'
    BY <1>1, <1>2, QueueQuiet
  <2>2. /\ UNCHANGED <<len, wlout>>
        /\ \A i \in Live(len) : buf'[i].wl_out = buf[i].wl_out /\ buf'[i].name = buf[i].name
    BY <1>1, LiveSlots DEF Quiet
  <2>3. TableOK'
    BY <1>1, <1>2, <2>2 DEF TableOK
  <2> QED BY <2>1, <2>3
<1>3. CASE ~Serving
  BY <1>1, <1>3 DEF QueueOK, TableOK
<1> QED BY <1>2, <1>3

\* ls_close clears a name at most, and out_name touches neither name nor proxy.
LEMMA TableListeners == TableInv /\ (ls_close \/ out_name) => QueueOK' /\ TableOK'
<1> SUFFICES ASSUME TableInv, ls_close \/ out_name PROVE QueueOK' /\ TableOK'
  OBVIOUS
<1>1. TypeOK /\ QueueOK /\ TableOK
  BY DEF TableInv, TypeInv
<1>2. /\ Serving /\ wq # <<>> /\ wq' = Tail(wq) /\ At \in Slots /\ out \in Output
      /\ UNCHANGED <<plug, wlout, len>>
  BY <1>1, Taken, DeliverType DEF ls_close, out_name, Deliver, ListenerEvents, compositor, objects
<1>3. \A r \in Surfs : surf[r].st # "none" => surf'[r].st # "none"
  <2>1. surf' = surf \/ \E S : surf' = SurfacesWithout(S)
    BY DEF ls_close, out_name, objects
  <2> QED BY <1>1, <2>1 DEF SurfacesWithout, TypeOK, ObjectType, SurfaceType
<1>4. \A i \in Slots : buf'[i].wl_out = buf[i].wl_out /\ buf'[i].name \in {0, buf[i].name}
  <2>1. \/ buf' = buf
        \/ buf' = [buf EXCEPT ![At] = LayerFreed(out)]
        \/ \E n : buf' = [buf EXCEPT ![At] = [out EXCEPT !.human_name = n]]
    BY DEF ls_close, out_name, out
  <2>2. LayerFreed(out).wl_out = out.wl_out /\ LayerFreed(out).name = 0
    BY <1>2 DEF LayerFreed, Output
  <2> QED BY <1>1, <1>2, <2>1, <2>2 DEF TypeOK, TableType, out, Output
<1>5. QueueOK'
  BY <1>1, <1>2, <1>3, QueueShrinks
<1>6. TableOK'
  <2>1. \A i \in Live(len) : buf'[i].wl_out = buf[i].wl_out /\ buf'[i].name \in {0, buf[i].name}
    BY <1>1, <1>4, LiveSlots
  <2> QED BY <1>1, <1>2, <2>1 DEF TableOK
<1> QED BY <1>5, <1>6

\* The table is right, and each output is announced once, before any step.
LEMMA TableInit == Init => TableInv
<1> SUFFICES ASSUME Init PROVE TableInv
  OBVIOUS
<1>1. TypeInv
  BY TypeInit
<1>2. TableOK
  <2>1. len = 0 /\ \A g \in Globals : wlout[g].st = "none"
    BY DEF Init
  <2> QED BY <2>1 DEF TableOK, Live
<1>3. QueueOK
  <2>1. PICK offer \in SUBSET Services, ver \in [Services \cup {"global"} -> Versions] :
          \E q \in SetToSeqs(Advertised(offer, ver)) :
            /\ wq = Append(q, Event("sync", 0, 0))
            /\ q \in Seq(EventTypes)
            /\ \A k \in 1..Len(q) : q[k] \in Advertised(offer, ver)
            /\ \A k, l \in 1..Len(q) : q[k] = q[l] => k = l
            /\ "any_order" \in Behaviours \/ ServicesFirst(q)
    BY FirstEvents
  <2>2. PICK q :
            /\ wq = Append(q, Event("sync", 0, 0))
            /\ q \in Seq(EventTypes)
            /\ \A k \in 1..Len(q) : q[k] \in Advertised(offer, ver)
            /\ \A k, l \in 1..Len(q) : q[k] = q[l] => k = l
    BY <2>1
  <2> DEFINE e == Event("sync", 0, 0)
  <2>3. \A a \in Advertised(offer, ver) :
          /\ a.type \in Services \cup {"global"}
          /\ a.type = "global" => a.id \in Initial /\ a = Event("global", a.id, ver["global"])
    BY DEF Advertised, Event, Services
  <2>4. e.type = "sync" /\ e \in EventTypes
    BY DEF Event, EventTypes, Old
  <2> HIDE DEF e
  <2>5. \A k \in 1..Len(wq) :
          \/ k \in 1..Len(q) /\ wq[k] = q[k]
          \/ wq[k].type = "sync"
    <3>1. \A k \in 1..Len(wq) : (k \in 1..Len(q) /\ wq[k] = q[k]) \/ wq[k] = e
      BY <2>2, <2>4 DEF e
    <3> QED BY <2>4, <3>1
  <2>6. \A k \in 1..Len(wq) : ~(wq[k].type \in {"configure", "closed"})
    BY <2>2, <2>3, <2>5 DEF Services
  <2>7. \A k \in 1..Len(wq) : wq[k].type = "global" =>
          /\ k \in 1..Len(q) /\ wq[k] = q[k] /\ wq[k].id \in Initial
          /\ wq[k] = Event("global", wq[k].id, ver["global"])
    BY <2>2, <2>3, <2>5
  <2>8. \A g \in Globals : wlout[g].st = "none" /\ (g \in Initial => plug[g] # "off")
    BY DEF Init
  <2>9. \A k, l \in 1..Len(wq) :
          wq[k].type = "global" /\ wq[l].type = "global" /\ wq[k].id = wq[l].id => k = l
    <3> SUFFICES ASSUME NEW k \in 1..Len(wq), NEW l \in 1..Len(wq), wq[k].type = "global",
                        wq[l].type = "global", wq[k].id = wq[l].id
                 PROVE  k = l
      OBVIOUS
    <3>1. q[k] = q[l] /\ k \in 1..Len(q) /\ l \in 1..Len(q)
      BY <2>7
    <3> QED BY <2>2, <3>1
  <2>10. \A k \in 1..Len(wq) : wq[k].type = "global" =>
           wlout[wq[k].id].st = "none" /\ plug[wq[k].id] # "off"
    BY <2>7, <2>8, EwdAssumption DEF EwdAssumption
  <2> QED BY <2>6, <2>8, <2>9, <2>10 DEF QueueOK
<1> QED BY <1>1, <1>2, <1>3 DEF TableInv

\* Every step keeps the table right.
LEMMA TableNext == TableInv /\ [Next]_vars => TableInv'
<1> SUFFICES ASSUME TableInv, [Next]_vars PROVE TableInv'
  OBVIOUS
<1>1. TypeInv'
  BY TypeNext DEF TableInv
<1>2. pc' = "exited" => QueueOK' /\ TableOK'
  BY DEF QueueOK, TableOK, Serving
<1> QED BY <1>1, <1>2, StepKinds, TableQuiet, TableBind, TableRemove, TableListeners DEF TableInv

\* The table holds every bound output exactly once, and nothing else, for any
\* number of outputs that come and go and close their surfaces in any order.
THEOREM TableCorrect == Spec => []TableOK
<1>1. Spec => []TableInv
  BY TableInit, TableNext, PTL DEF Spec
<1> QED BY <1>1, PTL DEF TableInv

-----------------------------------------------------------------------------
(***************************************************************************)
(* Growth.  With no more outputs than da_init makes room for, no listener  *)
(* is left with a pointer into a freed block, and da_append never fails.   *)
(***************************************************************************)
GrowthKinds == {"dangling", "null_table"}

\* Listeners registered before the block has moved are all of its first place.
FirstPlace ==
  /\ \A g \in Globals : wlout[g].data.gen = 0
  /\ \A s \in Surfs : surf[s].data.gen = 0
  /\ \A b \in Pixs : pix[b].data.gen = 0

GrowthInv ==
  /\ TableInv /\ cap >= InitCap
  /\ gen = 0 => FirstPlace
  /\ gen > 0 => Cardinality(Globals) > InitCap
  /\ GrowthFaults

\* A step that leaves the block and the listeners where they are.
Still ==
  /\ UNCHANGED <<cap, gen>>
  /\ \A g \in Globals : wlout'[g].data = wlout[g].data
  /\ \A s \in Surfs : surf'[s].data = surf[s].data
  /\ \A b \in Pixs : pix'[b].data = pix[b].data \/ pix'[b].data.gen = gen
  /\ \A f \in GrowthKinds : f \in faults' => f \in faults

\* Freeing surfaces and releasing outputs moves no listener.
LEMMA StillSurfaces ==
  ASSUME TypeOK, NEW S, surf' = SurfacesWithout(S)
  PROVE  \A s \in Surfs : surf'[s].data = surf[s].data
BY DEF SurfacesWithout, TypeOK, ObjectType, SurfaceType

\* What requests on surfaces and buffers can do wrong has nothing to do with it.
LEMMA OtherFaults ==
  /\ \A s : \A f \in GrowthKinds : ~(f \in SurfaceFault(s))
  /\ \A o : \A f \in GrowthKinds : ~(f \in LayerFault(o))
  /\ \A b : \A f \in GrowthKinds : ~(f \in BufferFault(b))
BY DEF GrowthKinds, SurfaceFault, LayerFault, BufferFault

\* cleanup is still.
LEMMA StillCleanup ==
  ASSUME TypeOK, Cleanup \/ CleanupAfter({"protocol"}) PROVE Still
<1>1. \A s \in Surfs : surf'[s].data = surf[s].data
  BY StillSurfaces DEF Cleanup, CleanupAfter
<1>2. \A g \in Globals : wlout'[g].data = wlout[g].data
  BY DEF Cleanup, CleanupAfter, TypeOK, ObjectType, ProxyType
<1>3. \A f \in GrowthKinds : f \in faults' => f \in faults
  BY OtherFaults DEF Cleanup, CleanupAfter, GrowthKinds
<1> QED BY <1>1, <1>2, <1>3 DEF Cleanup, CleanupAfter, table, Still

\* Every handler but the three is still.
LEMMA StillDispatch ==
  ASSUME TypeOK, Dispatch, ~BindOutput, ~GrowFails, ~Dangle PROVE Still
<1>1. CASE TooOld \/ Missing \/ ProtocolError
  BY <1>1, StillCleanup DEF TooOld, Missing, ProtocolError
<1>2. CASE reg_del
  <2>1. wlout' = [wlout EXCEPT ![buf[Min(Named(Ev.id))].wl_out] =
                    [wlout[buf[Min(Named(Ev.id))].wl_out] EXCEPT !.st = "released"]]
    BY <1>2 DEF reg_del
  <2>2. \A g \in Globals : wlout'[g].data = wlout[g].data
    BY <2>1 DEF TypeOK, ObjectType, ProxyType
  <2>3. \A s \in Surfs : surf'[s].data = surf[s].data
    BY <1>2, StillSurfaces DEF reg_del
  <2>4. \A f \in GrowthKinds : f \in faults' => f \in faults
    BY <1>2, OtherFaults DEF reg_del, Proceed
  <2> QED BY <1>2, <2>2, <2>3, <2>4 DEF reg_del, Still
<1>3. CASE ls_close
  <2>1. \A s \in Surfs : surf'[s].data = surf[s].data
    BY <1>3, StillSurfaces DEF ls_close
  <2>2. \A f \in GrowthKinds : f \in faults' => f \in faults
    BY <1>3, OtherFaults DEF ls_close, Proceed
  <2> QED BY <1>3, <2>1, <2>2 DEF ls_close, Still
<1>4. CASE ls_conf
  <2>1. surf' = [surf EXCEPT ![Ev.id] = [surf[Ev.id] EXCEPT !.st = "configured"]]
    BY <1>4 DEF ls_conf
  <2>2. \A s \in Surfs : surf'[s].data = surf[s].data
    BY <2>1 DEF TypeOK, ObjectType, SurfaceType
  <2>3. \A f \in GrowthKinds : f \in faults' => f \in faults
    BY <1>4, OtherFaults DEF ls_conf, Proceed
  <2> QED BY <1>4, <2>2, <2>3 DEF ls_conf, Still
<1>5. CASE buf_free
  <2>1. \A b \in Pixs : pix'[b].data = pix[b].data
    BY <1>5 DEF buf_free, TypeOK, ObjectType, BufferType
  <2>2. \A f \in GrowthKinds : f \in faults' => f \in faults
    BY <1>5, OtherFaults DEF buf_free, Proceed
  <2> QED BY <1>5, <2>1, <2>2 DEF buf_free, table, Still
<1>6. CASE UNCHANGED <<cap, gen, wlout, surf, pix, faults>>
  BY <1>6 DEF Still
<1> QED
  BY <1>1, <1>2, <1>3, <1>4, <1>5, <1>6 DEF Dispatch, Discard, BindService, reg_del_unknown, out_mode, out_name, Roundtrip1, Roundtrip2, table, objects

\* So is every step of a message: a new buffer's listener is of this block.
LEMMA StillServe == ASSUME TypeOK, Serve PROVE Still
<1>1. CASE draw
  <2>1. pix' = [pix EXCEPT ![npix + 1] = NewPix(buf[idx], npix + 1)]
    BY <1>1 DEF draw
  <2>2. \A b \in Pixs : pix'[b].data = pix[b].data \/ pix'[b].data.gen = gen
    BY <2>1 DEF NewPix, TypeOK, ObjectType, BufferType
  <2>3. \A s \in Surfs : surf'[s].data = surf[s].data
    BY <1>1 DEF draw, TypeOK, ObjectType, SurfaceType
  <2>4. \A f \in GrowthKinds : f \in faults' => f \in faults
    BY <1>1, OtherFaults DEF draw, Proceed
  <2> QED BY <1>1, <2>2, <2>3, <2>4 DEF draw, Still
<1>2. CASE Unnamed
  BY <1>2 DEF Unnamed, Proceed, table, objects, Still, GrowthKinds
<1>3. CASE mkbuf_fails
  BY <1>3 DEF mkbuf_fails, Still
<1>4. CASE UNCHANGED <<cap, gen, wlout, surf, pix, faults>>
  BY <1>4 DEF Still
<1> QED
  BY <1>1, <1>2, <1>3, <1>4 DEF Serve, Accept, map_source, Skip, apply_done, table, objects

\* And every step of the compositor.
LEMMA StillCompositor == ASSUME TypeOK, Compositor PROVE Still
<1>1. UNCHANGED <<cap, gen, wlout, faults>>
  BY DEF Compositor, Plug, Unplug, Describe, Remode, Configure, Close, Release, SyncReply, Say, Send, table
<1>2. ASSUME NEW s \in Surfs, Configure(s) \/ Close(s)
      PROVE  (\A r \in Surfs : surf'[r].data = surf[r].data) /\ UNCHANGED pix
  <2>1. \E v : surf' = [surf EXCEPT ![s] = [surf[s] EXCEPT !.view = v]]
    BY <1>2 DEF Configure, Close
  <2> QED BY <1>2, <2>1 DEF Configure, Close, TypeOK, ObjectType, SurfaceType
<1>3. ASSUME NEW b \in Pixs, Release(b)
      PROVE  (\A c \in Pixs : pix'[c].data = pix[c].data) /\ UNCHANGED surf
  <2>1. pix' = [pix EXCEPT ![b] = [pix[b] EXCEPT !.busy = FALSE]]
    BY <1>3 DEF Release
  <2> QED BY <1>3, <2>1 DEF Release, TypeOK, ObjectType, BufferType
<1> QED
  BY <1>1, <1>2, <1>3 DEF Compositor, Plug, Unplug, Describe, Remode, SyncReply, Still

\* Every step but those three is still.
LEMMA StillStep ==
  ASSUME TypeOK, [Next]_vars, ~BindOutput, ~GrowFails, ~Dangle PROVE Still
<1>1. CASE UNCHANGED vars
  BY <1>1 DEF vars, table, objects, Still
<1> QED
  BY <1>1, StillDispatch, StillServe, StillCompositor, StillCleanup DEF Next, Terminate

-----------------------------------------------------------------------------
(* The table has room for the outputs there are.                           *)

\* While an output is still to be bound, the table does not hold them all.
LEMMA TableRoom ==
  ASSUME TypeOK, TableOK, Serving, NEW g \in Globals, wlout[g].st = "none"
  PROVE  len < Cardinality(Globals)
<1> DEFINE f == [i \in 0..len |-> IF i < len THEN buf[i].wl_out ELSE g]
<1>1. len \in Nat /\ IsFiniteSet(Globals) /\ Cardinality(Globals) \in Nat
  BY FS_CardinalityType, EwdAssumption DEF EwdAssumption, TypeOK, TableType
<1>2. \A i \in 0..len : i < len => i \in Live(len)
  BY <1>1 DEF Live
<1>3. f \in [0..len -> Globals]
  BY <1>2 DEF TableOK
<1>4. \A i, j \in 0..len : f[i] = f[j] => i = j
  <2> SUFFICES ASSUME NEW i \in 0..len, NEW j \in 0..len, f[i] = f[j] PROVE i = j
    OBVIOUS
  <2>1. i < len => f[i] # g /\ f[i] = buf[i].wl_out
    BY <1>2 DEF TableOK
  <2>2. j < len => f[j] # g /\ f[j] = buf[j].wl_out
    BY <1>2 DEF TableOK
  <2>3. (~(i < len) => f[i] = g /\ i = len) /\ (~(j < len) => f[j] = g /\ j = len)
    BY <1>1
  <2> HIDE DEF f
  <2>4. CASE i < len /\ j < len
    BY <1>2, <2>1, <2>2, <2>4 DEF TableOK
  <2>5. CASE ~(i < len /\ j < len)
    BY <2>1, <2>2, <2>3, <2>5
  <2> QED BY <2>4, <2>5
<1> HIDE DEF f
<1>5. f \in Injection(0..len, Globals)
  BY <1>3, <1>4 DEF Injection, IsInjective
<1>6. Cardinality(0..len) <= Cardinality(Globals)
  BY <1>1, <1>5, FS_Injection
<1>7. Cardinality(0..len) = len + 1
  <2>1. 0 \in Int /\ len \in Int /\ ~(0 > len) /\ len - 0 + 1 = len + 1
    BY <1>1
  <2> QED BY <2>1, FS_Interval
<1> QED BY <1>1, <1>6, <1>7

\* A full table means there are more outputs than it was made for.
LEMMA FullTable ==
  ASSUME GrowthInv, Take("global"), len >= cap PROVE Cardinality(Globals) > InitCap
<1>1. TypeOK /\ QueueOK /\ TableOK /\ cap >= InitCap
  BY DEF GrowthInv, TableInv, TypeInv
<1>2. /\ Serving /\ 1 \in 1..Len(wq) /\ wq[1].type = "global" /\ wq[1].id = Ev.id
      /\ Ev.id \in Globals
  BY <1>1, Taken, TakeType, EventFields DEF TypeOK
<1>3. len < Cardinality(Globals)
  BY <1>1, <1>2, TableRoom DEF QueueOK
<1>4. len \in Nat /\ cap \in Nat /\ InitCap \in Nat /\ Cardinality(Globals) \in Nat
  BY <1>1, FS_CardinalityType, EwdAssumption DEF EwdAssumption, TypeOK, TableType
<1> QED BY <1>1, <1>3, <1>4

\* Binding an output moves the block only when the table is full.
LEMMA GrowthBind ==
  ASSUME GrowthInv, BindOutput
  PROVE  cap' >= InitCap /\ (gen' = 0 => FirstPlace') /\ (gen' > 0 => Cardinality(Globals) > InitCap)
<1>1. TypeOK
  BY DEF GrowthInv, TableInv, TypeInv
<1>2. len \in Nat /\ cap \in Nat /\ gen \in Nat /\ InitCap \in Nat
  BY <1>1, EwdAssumption DEF EwdAssumption, TypeOK, TableType
<1>3. cap' = Grown(len, cap) /\ gen' \in (IF cap' # cap THEN {gen, gen + 1} ELSE {gen})
  BY DEF BindOutput
<1>4. cap' >= InitCap /\ (cap' # cap => len >= cap)
  BY <1>2, <1>3 DEF Grown, GrowthInv
<1>5. gen' > 0 => Cardinality(Globals) > InitCap
  BY <1>2, <1>3, <1>4, FullTable DEF BindOutput, GrowthInv
<1>6. ASSUME gen' = 0 PROVE FirstPlace'
  <2>1. FirstPlace
    BY <1>2, <1>3, <1>6 DEF GrowthInv
  <2>2. wlout' = [wlout EXCEPT ![Ev.id] = [st |-> "live", data |-> [gen |-> gen', slot |-> len]]]
    BY DEF BindOutput
  <2>3. \/ surf' = surf
        \/ surf' = [surf EXCEPT ![nsurf + 1] = NewSurface(Ev.id, len, gen')]
    BY DEF BindOutput
  <2>4. \A g \in Globals : wlout'[g].data.gen = 0
    BY <1>1, <1>6, <2>1, <2>2 DEF FirstPlace, TypeOK, ObjectType, ProxyType
  <2>5. \A s \in Surfs : surf'[s].data.gen = 0
    BY <1>1, <1>6, <2>1, <2>3 DEF FirstPlace, NewSurface, TypeOK, ObjectType, SurfaceType
  <2>6. UNCHANGED pix
    BY DEF BindOutput
  <2> QED BY <2>1, <2>4, <2>5, <2>6 DEF FirstPlace
<1> QED BY <1>4, <1>5, <1>6

\* A pointer into a freed block takes a block that has moved.
LEMMA GrowthDangle == ASSUME GrowthInv, Dangle PROVE Cardinality(Globals) > InitCap
<1>1. TypeOK
  BY DEF GrowthInv, TableInv, TypeInv
<1>2. PICK t \in ListenerEvents : Take(t) /\ Data(Ev).gen # gen
  BY DEF Dangle
<1>3. Ev \in EventTypes /\ Ev.type = t
  BY <1>1, <1>2, TakeType DEF TypeOK
<1>4. FirstPlace => Data(Ev).gen = 0
  BY <1>3, EventFields DEF FirstPlace, Data, ListenerEvents
<1>5. gen \in Nat
  BY <1>1 DEF TypeOK, TableType
<1> QED BY <1>2, <1>4, <1>5 DEF GrowthInv

\* At first nothing has moved, and nothing has gone wrong.
LEMMA GrowthInit == Init => GrowthInv
<1> SUFFICES ASSUME Init PROVE GrowthInv
  OBVIOUS
<1>1. FirstPlace
  BY DEF Init, FirstPlace, Nowhere
<1>2. cap >= InitCap /\ gen = 0 /\ faults = {}
  BY EwdAssumption DEF EwdAssumption, Init
<1> QED BY <1>1, <1>2, TableInit DEF GrowthInv, GrowthFaults

\* Every step keeps the invariant.
LEMMA GrowthNext == GrowthInv /\ [Next]_vars => GrowthInv'
<1> SUFFICES ASSUME GrowthInv, [Next]_vars PROVE GrowthInv'
  OBVIOUS
<1>1. TableInv' /\ TypeOK
  BY TableNext DEF GrowthInv, TableInv, TypeInv
<1>2. CASE BindOutput
  <2>1. UNCHANGED faults
    BY <1>2 DEF BindOutput
  <2> QED BY <1>1, <1>2, <2>1, GrowthBind DEF GrowthInv, GrowthFaults
<1>3. CASE GrowFails
  <2>1. Cardinality(Globals) > InitCap /\ UNCHANGED <<table, objects>>
    BY <1>3, FullTable DEF GrowFails
  <2> QED BY <1>1, <2>1 DEF GrowthInv, GrowthFaults, FirstPlace, table, objects
<1>4. CASE Dangle
  <2>1. Cardinality(Globals) > InitCap /\ UNCHANGED <<table, objects>>
    BY <1>4, GrowthDangle DEF Dangle
  <2> QED BY <1>1, <2>1 DEF GrowthInv, GrowthFaults, FirstPlace, table, objects
<1>5. CASE ~BindOutput /\ ~GrowFails /\ ~Dangle
  <2>1. Still
    BY <1>1, <1>5, StillStep
  <2>2. gen' = 0 => FirstPlace'
    BY <2>1 DEF Still, FirstPlace, GrowthInv
  <2> QED BY <1>1, <2>1, <2>2 DEF Still, GrowthInv, GrowthFaults, GrowthKinds
<1> QED BY <1>2, <1>3, <1>4, <1>5

\* Without more outputs than da_init makes room for, no event is ever given to
\* a pointer into a freed block, and no failing realloc loses the table: the
\* block moves only when the table is full, and then it lacks an output.
THEOREM GrowthCorrect == Spec => []GrowthFaults
<1>1. Spec => []GrowthInv
  BY GrowthInit, GrowthNext, PTL DEF Spec
<1> QED BY <1>1, PTL DEF GrowthInv

-----------------------------------------------------------------------------
(* Places.                                                                 *)

\* Surfaces are numbered in order, and none has content before it is created;
\* outputs only ever move to lower slots than their listener remembers.
Numbered ==
  Serving =>
    /\ \A i \in Live(len) : buf[i].surf <= nsurf
    /\ \A s \in Surfs : s > nsurf => surf[s].content = 0

NotBelow == Serving => \A i \in Live(len) : wlout[buf[i].wl_out].data.slot >= i

PlaceInv == TableInv /\ Numbered /\ NotBelow /\ SurfacesOwned /\ ListenersInPlace

-----------------------------------------------------------------------------
(* Content.                                                                *)

\* Only draw and the creation of a surface give it another content.
LEMMA ContentDispatch ==
  ASSUME TypeOK, Dispatch, ~BindOutput
  PROVE  \A s \in Surfs : surf'[s].content = surf[s].content
<1>1. \A S : surf' = SurfacesWithout(S) =>
        \A s \in Surfs : surf'[s].content = surf[s].content
  BY DEF SurfacesWithout, TypeOK, ObjectType, SurfaceType
<1>2. CASE TooOld \/ Missing
  BY <1>1, <1>2 DEF TooOld, Missing, Cleanup, CleanupAfter
<1>3. CASE reg_del
  BY <1>1, <1>3 DEF reg_del
<1>4. CASE ls_close
  BY <1>1, <1>4 DEF ls_close
<1>5. CASE ProtocolError
  BY <1>1, <1>5 DEF ProtocolError, CleanupAfter
<1>6. CASE ls_conf
  <2>1. surf' = [surf EXCEPT ![Ev.id] = [surf[Ev.id] EXCEPT !.st = "configured"]]
    BY <1>6 DEF ls_conf
  <2> QED BY <2>1 DEF TypeOK, ObjectType, SurfaceType
<1>7. CASE UNCHANGED surf
  BY <1>7
<1> QED
  BY <1>2, <1>3, <1>4, <1>5, <1>6, <1>7 DEF Dispatch, Discard, Dangle, BindService, GrowFails, reg_del_unknown, out_mode, out_name, buf_free, Roundtrip1, Roundtrip2, objects

\* The compositor gives no surface another content ...
LEMMA ContentCompositor ==
  ASSUME TypeOK, Compositor PROVE \A s \in Surfs : surf'[s].content = surf[s].content
<1>1. CASE UNCHANGED surf
  BY <1>1
<1>2. ASSUME NEW s \in Surfs, Configure(s) \/ Close(s)
      PROVE  \A r \in Surfs : surf'[r].content = surf[r].content
  <2>1. \E v : surf' = [surf EXCEPT ![s] = [surf[s] EXCEPT !.view = v]]
    BY <1>2 DEF Configure, Close
  <2> QED BY <2>1 DEF TypeOK, ObjectType, SurfaceType
<1> QED
  BY <1>1, <1>2 DEF Compositor, Plug, Unplug, Describe, Remode, Release, SyncReply

\* ... nor does any other step but these two.
LEMMA ContentStep ==
  ASSUME TypeOK, [Next]_vars, ~BindOutput, ~draw
  PROVE  \A s \in Surfs : surf'[s].content = surf[s].content
<1>1. CASE Terminate
  BY <1>1 DEF Terminate, Cleanup, CleanupAfter, SurfacesWithout, TypeOK, ObjectType, SurfaceType
<1>2. CASE Serve
  BY <1>2 DEF Serve, Accept, map_source, Unnamed, Skip, mkbuf_fails, apply_done, objects
<1>3. CASE UNCHANGED vars
  BY <1>3 DEF vars, objects
<1> QED BY <1>1, <1>2, <1>3, ContentDispatch, ContentCompositor DEF Next

\* draw is for the surface of the output at hand.
LEMMA ContentDraw ==
  ASSUME TypeOK, draw
  PROVE  /\ idx \in Live(len) /\ Addressed(buf[idx], msg) /\ Serving
         /\ \A s \in Surfs : s # buf[idx].surf => surf'[s].content = surf[s].content
BY DEF draw, Selected, Serving, TypeOK, ObjectType, SurfaceType

-----------------------------------------------------------------------------
(* The steps.                                                              *)

\* A quiet step keeps every output, surface and listener where it is.
LEMMA PlaceQuiet ==
  PlaceInv /\ Quiet /\ [Next]_vars => Numbered' /\ NotBelow' /\ SurfacesOwned' /\ ListenersInPlace'
<1> SUFFICES ASSUME PlaceInv, Quiet, [Next]_vars
             PROVE  Numbered' /\ NotBelow' /\ SurfacesOwned' /\ ListenersInPlace'
  OBVIOUS
<1>1. TypeOK /\ TableOK
  BY DEF PlaceInv, TableInv, TypeInv
<1>2. CASE Serving
  <2>1. /\ UNCHANGED <<len, gen, wlout, nsurf>>
        /\ \A i \in Live(len) : /\ buf'[i].wl_out = buf[i].wl_out /\ buf'[i].surf = buf[i].surf
                                /\ buf'[i].human_name = buf[i].human_name
        /\ \A s \in Surfs : /\ surf'[s].data = surf[s].data /\ surf'[s].out = surf[s].out
                            /\ surf'[s].st \in Alive <=> surf[s].st \in Alive
    BY <1>1, LiveSlots DEF Quiet
  <2>2. \A i \in Live(len) : buf[i].surf \in Surfs \cup {0}
    BY <1>1, LiveSlots DEF Output
  <2>3. Numbered'
    <3>1. ~BindOutput
      BY <1>1, <2>1 DEF BindOutput, TypeOK, TableType
    <3>2. CASE draw
      <4>1. \A s \in Surfs : s > nsurf => s # buf[idx].surf
        BY <1>1, <1>2, <2>2, <3>2, ContentDraw DEF PlaceInv, Numbered, TypeOK, ObjectType, Surfs
      <4> QED BY <1>1, <1>2, <2>1, <3>2, <4>1, ContentDraw DEF PlaceInv, Numbered
    <3>3. CASE ~draw
      BY <1>1, <1>2, <2>1, <3>1, <3>3, ContentStep DEF PlaceInv, Numbered
    <3> QED BY <3>2, <3>3
  <2>4. NotBelow'
    BY <1>2, <2>1 DEF PlaceInv, NotBelow
  <2>5. SurfacesOwned'
    BY <1>2, <2>1, <2>2 DEF PlaceInv, SurfacesOwned, Alive
  <2>6. \A i : Settled(i)' <=> Settled(i)
    BY <2>1 DEF Settled
  <2>7. ListenersInPlace'
    BY <1>2, <2>1, <2>2, <2>6 DEF PlaceInv, ListenersInPlace
  <2> QED BY <2>3, <2>4, <2>5, <2>7
<1>3. CASE ~Serving
  BY <1>3 DEF Quiet, Serving, Numbered, NotBelow, SurfacesOwned, ListenersInPlace
<1> QED BY <1>2, <1>3

\* A new output has the last slot, and so have its listeners.
LEMMA PlaceBind ==
  PlaceInv /\ BindOutput => Numbered' /\ NotBelow' /\ SurfacesOwned' /\ ListenersInPlace'
<1> SUFFICES ASSUME PlaceInv, BindOutput
             PROVE  Numbered' /\ NotBelow' /\ SurfacesOwned' /\ ListenersInPlace'
  OBVIOUS
<1> DEFINE g == Ev.id s == IF CanCreate THEN nsurf + 1 ELSE 0
<1>1. TypeOK /\ QueueOK /\ TableOK
  BY DEF PlaceInv, TableInv, TypeInv
<1>2. Serving /\ g \in Globals /\ wlout[g].st = "none"
  <2>1. Take("global")
    BY DEF BindOutput
  <2>2. Serving /\ 1 \in 1..Len(wq) /\ wq[1].type = "global" /\ wq[1].id = g /\ g \in Globals
    BY <1>1, <2>1, Taken, TakeType, EventFields DEF TypeOK
  <2> QED BY <1>1, <2>2 DEF QueueOK
<1>3. /\ buf' = [buf EXCEPT ![len] = NewOutput(g, s)] /\ len' = len + 1 /\ len \in Slots
      /\ gen' \in {gen, gen + 1} /\ gen \in Nat /\ len \in Nat
  BY <1>1, EwdAssumption DEF EwdAssumption, BindOutput, Appended, TypeOK, TableType, Slots
<1>4. /\ wlout' = [wlout EXCEPT ![g] = [st |-> "live", data |-> [gen |-> gen', slot |-> len]]]
  BY DEF BindOutput
<1>5. /\ s = 0 => UNCHANGED <<surf, nsurf>>
      /\ s # 0 => /\ s = nsurf + 1 /\ s \in Surfs /\ nsurf' = s
                  /\ surf' = [surf EXCEPT ![s] = NewSurface(g, len, gen')]
      /\ nsurf \in Nat /\ nsurf' \in Nat /\ nsurf' >= nsurf
  <2>1. nsurf \in Nat /\ nsurf < MaxSurfs /\ nsurf + 1 \in Surfs /\ nsurf + 1 # 0
    BY <1>1, EwdAssumption DEF EwdAssumption, BindOutput, TypeOK, ObjectType, Surfs
  <2>2. CASE CanCreate
    <3>1. s = nsurf + 1
      BY <2>2
    <3>2. nsurf' = nsurf + 1 /\ surf' = [surf EXCEPT ![nsurf + 1] = NewSurface(Ev.id, len, gen')]
      BY <2>2 DEF BindOutput
    <3> HIDE DEF s
    <3> QED BY <2>1, <3>1, <3>2
  <2>3. CASE ~CanCreate
    <3>1. s = 0 /\ UNCHANGED <<surf, nsurf>>
      BY <2>3 DEF BindOutput
    <3> HIDE DEF s
    <3> QED BY <2>1, <3>1
  <2> QED BY <2>2, <2>3
<1>6. /\ NewOutput(g, s).wl_out = g /\ NewOutput(g, s).surf = s /\ NewOutput(g, s).human_name = NULL
      /\ NewSurface(g, len, gen').out = g /\ NewSurface(g, len, gen').data.slot = len
      /\ NewSurface(g, len, gen').content = 0
  BY DEF NewOutput, Zero, NewSurface
<1> HIDE DEF g, s
<1>7. /\ buf'[len] = NewOutput(g, s)
      /\ \A i \in Live(len) : buf'[i] = buf[i] /\ i # len /\ i \in Live(len')
      /\ \A i \in Live(len') : i \in Live(len) \/ i = len
      /\ len \in Live(len')
  BY <1>1, <1>3, LiveSlots DEF TypeOK, TableType, Live
<1>8. /\ wlout'[g] = [st |-> "live", data |-> [gen |-> gen', slot |-> len]]
      /\ \A h \in Globals \ {g} : wlout'[h] = wlout[h]
  BY <1>1, <1>2, <1>4 DEF TypeOK, ObjectType, ProxyType
<1>9. \A i \in Live(len) : buf[i].wl_out \in Globals \ {g} /\ buf[i].surf \in Surfs \cup {0}
                           /\ buf[i].surf <= nsurf
  BY <1>1, <1>2, LiveSlots DEF TableOK, PlaceInv, Numbered, Output
<1>10. /\ \A r \in Surfs : r # s => surf'[r] = surf[r]
       /\ s # 0 => surf'[s] = NewSurface(g, len, gen')
       /\ \A i \in Live(len) : buf[i].surf # 0 => buf[i].surf # s
  <2>1. \A i \in Live(len) : buf[i].surf # 0 => buf[i].surf # s
    BY <1>5, <1>9 DEF Surfs
  <2>2. CASE s = 0
    BY <1>5, <2>1, <2>2 DEF Surfs
  <2>3. CASE s # 0
    BY <1>1, <1>5, <2>1, <2>3 DEF TypeOK, ObjectType, SurfaceType
  <2> QED BY <2>2, <2>3
<1>11. Numbered'
  <2>1. s \in Surfs \cup {0} /\ s <= nsurf'
    BY <1>5
  <2>2. \A i \in Live(len') : buf'[i].surf <= nsurf'
    BY <1>5, <1>6, <1>7, <1>9, <2>1 DEF Surfs
  <2>3. \A r \in Surfs : r > nsurf' => surf'[r].content = 0
    BY <1>2, <1>5, <1>6, <1>10 DEF PlaceInv, Numbered, Surfs
  <2> QED BY <2>2, <2>3 DEF Numbered
<1>12. NotBelow'
  BY <1>2, <1>3, <1>6, <1>7, <1>8, <1>9 DEF PlaceInv, NotBelow
<1>13. SurfacesOwned'
  <2>1. \A i \in Live(len') : buf'[i].surf # 0 => surf'[buf'[i].surf].out = buf'[i].wl_out
    BY <1>2, <1>6, <1>7, <1>9, <1>10 DEF PlaceInv, SurfacesOwned
  <2>2. ASSUME NEW r \in Surfs, surf'[r].st \in {"created", "configured"}
        PROVE  \E i \in Live(len') : buf'[i].surf = r
    <3>1. CASE r = s
      BY <1>6, <1>7, <3>1
    <3>2. CASE r # s
      BY <1>2, <1>7, <1>10, <2>2, <3>2 DEF PlaceInv, SurfacesOwned
    <3> QED BY <3>1, <3>2
  <2> QED BY <2>1, <2>2 DEF SurfacesOwned
<1>14. ListenersInPlace'
  <2> SUFFICES ASSUME NEW i \in Live(len'), Settled(i)'
               PROVE  /\ wlout'[buf'[i].wl_out].data.slot = i
                      /\ buf'[i].surf # 0 => surf'[buf'[i].surf].data.slot = i
                      /\ buf'[i].human_name \in {NULL, Connector[buf'[i].wl_out]}
    BY DEF ListenersInPlace
  <2>1. CASE i = len
    BY <1>6, <1>7, <1>8, <1>10, <2>1
  <2>2. CASE i \in Live(len)
    <3>1. gen = 0
      BY <1>3 DEF Settled
    <3>2. Settled(i)
      BY <1>2, <1>8, <3>1 DEF Settled
    <3> QED BY <1>2, <1>7, <1>8, <1>9, <1>10, <2>2, <3>2 DEF PlaceInv, ListenersInPlace
  <2> QED BY <1>7, <2>1, <2>2
<1> QED BY <1>11, <1>12, <1>13, <1>14

\* An output that leaves takes its listener's slot with it, which was its own
\* or a higher one: what lies below stays right.
LEMMA PlaceRemove ==
  PlaceInv /\ reg_del => Numbered' /\ NotBelow' /\ SurfacesOwned' /\ ListenersInPlace'
<1> SUFFICES ASSUME PlaceInv, reg_del
             PROVE  Numbered' /\ NotBelow' /\ SurfacesOwned' /\ ListenersInPlace'
  OBVIOUS
<1> DEFINE p == Min(Named(Ev.id)) g == buf[p].wl_out b == [buf EXCEPT ![p] = LayerFreed(buf[p])]
           z == buf[p].surf
<1>1. TypeOK /\ TableOK
  BY DEF PlaceInv, TableInv, TypeInv
<1>2. Serving
  BY <1>1, Taken DEF reg_del
<1>3. /\ p \in Live(len) /\ p \in Slots /\ buf[p] \in Output
      /\ g \in Globals /\ wlout[g].st = "live" /\ z \in Surfs \cup {0}
  <2>1. p \in Live(len)
    BY <1>1, RemovedName
  <2> HIDE DEF p
  <2> QED BY <1>1, <1>2, <2>1, LiveSlots DEF TableOK, Output
<1>4. /\ wlout' = [wlout EXCEPT ![g] = [wlout[g] EXCEPT !.st = "released"]]
      /\ buf' = Removed(b, len, p) /\ len' = len - 1 /\ UNCHANGED <<gen, nsurf>>
      /\ surf' = SurfacesWithout({z})
  BY DEF reg_del
<1>5. b \in [Slots -> Output] /\ \A i \in Slots : i # p => b[i] = buf[i]
  BY <1>1, <1>3, FreedOutput, Stored DEF TypeOK, TableType
<1> HIDE DEF p, b, g, z
<1>6. /\ wlout'[g].st = "released" /\ wlout'[g].data = wlout[g].data
      /\ \A h \in Globals \ {g} : wlout'[h] = wlout[h]
  BY <1>1, <1>3, <1>4 DEF TypeOK, ObjectType, ProxyType
<1>7. /\ \A r \in Surfs : /\ surf'[r].out = surf[r].out /\ surf'[r].data = surf[r].data
                          /\ surf'[r].content = surf[r].content
      /\ \A r \in Surfs : surf'[r].st \in {"created", "configured"} => r # z /\ surf'[r] = surf[r]
  BY <1>1, <1>4 DEF SurfacesWithout, TypeOK, ObjectType, SurfaceType
<1>8. \A k \in Live(len') :
        LET i == IF k < p THEN k ELSE k + 1 IN
          i \in Live(len) /\ i # p /\ i \in Slots /\ buf'[k] = buf[i]
  <2> SUFFICES ASSUME NEW k \in Live(len')
               PROVE  LET i == IF k < p THEN k ELSE k + 1 IN
                        i \in Live(len) /\ i # p /\ i \in Slots /\ buf'[k] = buf[i]
    OBVIOUS
  <2>1. /\ k + 1 \in Live(len) /\ k \in Live(len)
        /\ buf'[k] = IF k < p THEN b[k] ELSE b[k + 1]
    BY <1>1, <1>3, <1>4, <1>5, RemovedSlots
  <2>2. k + 1 \in Slots /\ k \in Slots
    BY <1>1, <2>1, LiveSlots
  <2>3. p \in Nat /\ k \in Nat
    BY <1>3, <2>2 DEF Slots
  <2> QED BY <1>5, <2>1, <2>2, <2>3
<1>9. \A i \in Live(len) \ {p} : \E k \in Live(len') : buf'[k] = buf[i]
  <2> SUFFICES ASSUME NEW i \in Live(len), i # p
               PROVE  \E k \in Live(len') : buf'[k] = buf[i]
    OBVIOUS
  <2> DEFINE k == IF i < p THEN i ELSE i - 1
  <2>1. k \in Live(len') /\ i = IF k < p THEN k ELSE k + 1
    BY <1>1, <1>3, <1>4 DEF Live, TypeOK, TableType
  <2> HIDE DEF k
  <2> QED BY <1>8, <2>1
<1>10. \A i \in Live(len) \ {p} : /\ buf[i].wl_out \in Globals \ {g} /\ i \in Slots
                                  /\ buf[i].surf \in Surfs \cup {0}
  BY <1>1, <1>2, <1>3, LiveSlots DEF TableOK, g, Output
<1>11. Numbered'
  BY <1>2, <1>4, <1>7, <1>8 DEF PlaceInv, Numbered
<1>12. NotBelow'
  <2> SUFFICES ASSUME NEW k \in Live(len') PROVE wlout'[buf'[k].wl_out].data.slot >= k
    BY DEF NotBelow
  <2> DEFINE i == IF k < p THEN k ELSE k + 1
  <2>1. i \in Live(len) /\ i # p /\ buf'[k] = buf[i] /\ i >= k /\ k \in Nat /\ i \in Nat
    BY <1>1, <1>3, <1>4, <1>8 DEF Live, TypeOK, TableType
  <2> HIDE DEF i
  <2>2. wlout'[buf[i].wl_out] = wlout[buf[i].wl_out] /\ wlout[buf[i].wl_out].data.slot \in Nat
    BY <1>1, <1>6, <1>10, <2>1 DEF TypeOK, ObjectType, ProxyType, Pointer, Slots
  <2>3. wlout[buf[i].wl_out].data.slot >= i
    BY <1>2, <2>1 DEF PlaceInv, NotBelow
  <2> QED BY <2>1, <2>2, <2>3
<1>13. SurfacesOwned'
  <2>1. \A k \in Live(len') : buf'[k].surf # 0 => surf'[buf'[k].surf].out = buf'[k].wl_out
    BY <1>2, <1>7, <1>8, <1>10 DEF PlaceInv, SurfacesOwned
  <2>2. ASSUME NEW r \in Surfs, surf'[r].st \in {"created", "configured"}
        PROVE  \E k \in Live(len') : buf'[k].surf = r
    <3>1. r # z /\ surf[r].st \in {"created", "configured"}
      BY <1>7, <2>2
    <3>2. PICK i \in Live(len) : buf[i].surf = r
      BY <1>2, <3>1 DEF PlaceInv, SurfacesOwned
    <3> QED BY <1>9, <3>1, <3>2 DEF z
  <2> QED BY <2>1, <2>2 DEF SurfacesOwned
<1>14. ListenersInPlace'
  <2> SUFFICES ASSUME NEW k \in Live(len'), Settled(k)'
               PROVE  /\ wlout'[buf'[k].wl_out].data.slot = k
                      /\ buf'[k].surf # 0 => surf'[buf'[k].surf].data.slot = k
                      /\ buf'[k].human_name \in {NULL, Connector[buf'[k].wl_out]}
    BY DEF ListenersInPlace
  <2>1. k \in Nat /\ p \in Nat /\ wlout[g].data.slot \in Nat
    BY <1>1, <1>3 DEF TypeOK, ObjectType, ProxyType, Pointer, Slots, Live
  <2>2. wlout[g].data.slot > k /\ gen = 0
    BY <1>3, <1>4, <1>6 DEF Settled
  <2>3. \A h \in Globals : wlout[h].st = "released" => wlout[h].data.slot > k
    BY <1>3, <1>6 DEF Settled
  <2>4. k < p
    <3> SUFFICES ASSUME p <= k PROVE FALSE
      BY <2>1
    <3>1. Settled(p)
      <4>1. \A h \in Globals : wlout[h].data.slot \in Nat
        BY <1>1 DEF TypeOK, ObjectType, ProxyType, Pointer, Slots
      <4> QED BY <2>1, <2>2, <2>3, <4>1 DEF Settled
    <3>2. wlout[g].data.slot = p
      BY <1>2, <1>3, <3>1 DEF PlaceInv, ListenersInPlace, g
    <3> QED BY <2>1, <2>2, <3>2
  <2>5. k \in Live(len) /\ k # p /\ buf'[k] = buf[k]
    BY <1>8, <2>4
  <2>6. Settled(k)
    BY <2>2, <2>3 DEF Settled
  <2> QED BY <1>2, <1>6, <1>7, <1>10, <2>5, <2>6 DEF PlaceInv, ListenersInPlace
<1> QED BY <1>11, <1>12, <1>13, <1>14

\* ls_close frees the surface of the output it is given, wherever that is.
LEMMA PlaceClose ==
  PlaceInv /\ ls_close => Numbered' /\ NotBelow' /\ SurfacesOwned' /\ ListenersInPlace'
<1> SUFFICES ASSUME PlaceInv, ls_close
             PROVE  Numbered' /\ NotBelow' /\ SurfacesOwned' /\ ListenersInPlace'
  OBVIOUS
<1>1. TypeOK /\ TableOK
  BY DEF PlaceInv, TableInv, TypeInv
<1>2. Serving /\ At \in Slots /\ out \in Output /\ UNCHANGED <<len, gen, wlout, nsurf>>
  BY <1>1, Taken, DeliverType DEF ls_close, Deliver, ListenerEvents
<1>3. CASE UNCHANGED <<surf, buf>>
  BY <1>2, <1>3 DEF PlaceInv, Numbered, NotBelow, SurfacesOwned, ListenersInPlace, Settled
<1>4. CASE surf' = SurfacesWithout({out.surf}) /\ buf' = [buf EXCEPT ![At] = LayerFreed(out)]
  <2>1. /\ LayerFreed(out).wl_out = out.wl_out /\ LayerFreed(out).surf = 0
        /\ LayerFreed(out).human_name = out.human_name
    BY <1>2 DEF LayerFreed, Output
  <2>2. /\ \A i \in Slots : /\ buf'[i].wl_out = buf[i].wl_out
                            /\ buf'[i].surf = IF i = At THEN 0 ELSE buf[i].surf
                            /\ buf'[i].human_name = buf[i].human_name
    BY <1>1, <1>2, <1>4, <2>1 DEF TypeOK, TableType, out
  <2>3. /\ \A r \in Surfs : /\ surf'[r].out = surf[r].out /\ surf'[r].data = surf[r].data
                            /\ surf'[r].content = surf[r].content
        /\ \A r \in Surfs : surf'[r].st \in {"created", "configured"} =>
             r # out.surf /\ surf'[r] = surf[r]
    BY <1>1, <1>4 DEF SurfacesWithout, TypeOK, ObjectType, SurfaceType
  <2>4. \A i \in Live(len) : i \in Slots /\ buf[i].surf \in Surfs \cup {0}
    BY <1>1, LiveSlots DEF Output
  <2>5. nsurf \in Nat
    BY <1>1 DEF TypeOK, ObjectType
  <2>6. Numbered'
    BY <1>2, <2>2, <2>3, <2>4, <2>5 DEF PlaceInv, Numbered
  <2>7. NotBelow'
    BY <1>2, <2>2, <2>4 DEF PlaceInv, NotBelow
  <2>8. SurfacesOwned'
    <3>1. \A i \in Live(len) : buf'[i].surf # 0 => surf'[buf'[i].surf].out = buf'[i].wl_out
      BY <1>2, <2>2, <2>3, <2>4 DEF PlaceInv, SurfacesOwned
    <3>2. ASSUME NEW r \in Surfs, surf'[r].st \in {"created", "configured"}
          PROVE  \E i \in Live(len) : buf'[i].surf = r
      <4>1. r # out.surf /\ surf[r].st \in {"created", "configured"}
        BY <2>3, <3>2
      <4>2. PICK i \in Live(len) : buf[i].surf = r
        BY <1>2, <4>1 DEF PlaceInv, SurfacesOwned
      <4>3. i # At
        BY <4>1, <4>2 DEF out
      <4> QED BY <2>2, <2>4, <4>2, <4>3
    <3> QED BY <1>2, <3>1, <3>2 DEF SurfacesOwned
  <2>9. ListenersInPlace'
    <3>1. \A i : Settled(i)' <=> Settled(i)
      BY <1>2 DEF Settled
    <3> QED BY <1>2, <2>2, <2>3, <2>4, <3>1 DEF PlaceInv, ListenersInPlace
  <2> QED BY <2>6, <2>7, <2>8, <2>9
<1> QED BY <1>3, <1>4 DEF ls_close

\* A name arrives at the slot its output has, as far as that is settled: an
\* output that had moved there from above would have left its listener behind.
LEMMA PlaceName ==
  PlaceInv /\ out_name => Numbered' /\ NotBelow' /\ SurfacesOwned' /\ ListenersInPlace'
<1> SUFFICES ASSUME PlaceInv, out_name
             PROVE  Numbered' /\ NotBelow' /\ SurfacesOwned' /\ ListenersInPlace'
  OBVIOUS
<1>1. TypeOK /\ TableOK
  BY DEF PlaceInv, TableInv, TypeInv
<1>2. /\ Serving /\ At \in Slots /\ out \in Output
      /\ Ev.type = "name" /\ Ev.id \in Globals
      /\ UNCHANGED <<len, gen, wlout, nsurf, surf>>
  BY <1>1, Taken, DeliverType, EventFields DEF out_name, Deliver, ListenerEvents, objects
<1>3. At = wlout[Ev.id].data.slot /\ wlout[Ev.id].st = "live"
  BY <1>2 DEF out_name, Deliver, At, Data, Listening
<1>4. PICK n : n \in {NULL, Connector[Ev.id]} /\ buf' = [buf EXCEPT ![At] = [out EXCEPT !.human_name = n]]
  BY DEF out_name, out
<1>5. \A i \in Slots : /\ buf'[i].wl_out = buf[i].wl_out /\ buf'[i].surf = buf[i].surf
                       /\ buf'[i].human_name = IF i = At THEN n ELSE buf[i].human_name
  BY <1>1, <1>2, <1>4 DEF TypeOK, TableType, out, Output
<1>6. \A i \in Live(len) : i \in Slots
  BY <1>1, LiveSlots
<1>7. PICK j \in Live(len) : buf[j].wl_out = Ev.id
  BY <1>1, <1>2, <1>3 DEF TableOK
<1>8. \A i : Settled(i)' <=> Settled(i)
  BY <1>2 DEF Settled
<1>9. ASSUME NEW i \in Live(len), Settled(i), i = At PROVE j = i
  <2>1. j <= i /\ j \in Nat /\ i \in Nat
    BY <1>1, <1>2, <1>3, <1>7, <1>9, <1>6 DEF PlaceInv, NotBelow, Slots
  <2>2. Settled(j)
    <3>1. \A h \in Globals : wlout[h].data.slot \in Nat
      BY <1>1 DEF TypeOK, ObjectType, ProxyType, Pointer, Slots
    <3> QED BY <1>9, <2>1, <3>1 DEF Settled
  <2>3. wlout[buf[j].wl_out].data.slot = j
    BY <1>2, <2>2 DEF PlaceInv, ListenersInPlace
  <2> QED BY <1>3, <1>7, <1>9, <2>3
<1>10. Numbered' /\ NotBelow' /\ SurfacesOwned'
  BY <1>2, <1>5, <1>6 DEF PlaceInv, Numbered, NotBelow, SurfacesOwned
<1>11. ListenersInPlace'
  <2> SUFFICES ASSUME NEW i \in Live(len), Settled(i)
               PROVE  /\ wlout[buf'[i].wl_out].data.slot = i
                      /\ buf'[i].surf # 0 => surf[buf'[i].surf].data.slot = i
                      /\ buf'[i].human_name \in {NULL, Connector[buf'[i].wl_out]}
    BY <1>2, <1>8 DEF ListenersInPlace
  <2>1. /\ wlout[buf[i].wl_out].data.slot = i
        /\ buf[i].surf # 0 => surf[buf[i].surf].data.slot = i
        /\ buf[i].human_name \in {NULL, Connector[buf[i].wl_out]}
    BY <1>2 DEF PlaceInv, ListenersInPlace
  <2>2. CASE i = At
    BY <1>4, <1>5, <1>6, <1>7, <1>9, <2>1, <2>2
  <2>3. CASE i # At
    BY <1>5, <1>6, <2>1, <2>3
  <2> QED BY <2>2, <2>3
<1> QED BY <1>10, <1>11

-----------------------------------------------------------------------------
(* The theorems.                                                           *)

\* There are no outputs and no surfaces at first.
LEMMA PlaceInit == Init => PlaceInv
<1> SUFFICES ASSUME Init PROVE PlaceInv
  OBVIOUS
<1>1. /\ Live(len) = {} /\ \A s \in Surfs : surf[s].content = 0 /\ surf[s].st = "none"
  BY DEF Init, Live
<1> QED BY <1>1, TableInit DEF PlaceInv, Numbered, NotBelow, SurfacesOwned, ListenersInPlace

\* Every step keeps the invariant.
LEMMA PlaceNext == PlaceInv /\ [Next]_vars => PlaceInv'
<1> SUFFICES ASSUME PlaceInv, [Next]_vars PROVE PlaceInv'
  OBVIOUS
<1>1. TableInv'
  BY TableNext DEF PlaceInv
<1>2. pc' = "exited" => Numbered' /\ NotBelow' /\ SurfacesOwned' /\ ListenersInPlace'
  BY DEF Numbered, NotBelow, SurfacesOwned, ListenersInPlace, Serving
<1>3. Quiet \/ BindOutput \/ reg_del \/ ls_close \/ out_name \/ pc' = "exited"
  BY StepKinds DEF PlaceInv, TableInv
<1>4. Numbered' /\ NotBelow' /\ SurfacesOwned' /\ ListenersInPlace'
  BY <1>2, <1>3, PlaceQuiet, PlaceBind, PlaceRemove, PlaceClose, PlaceName
<1> QED BY <1>1, <1>4 DEF PlaceInv

\* No step loses a surface or gives it to another output, although ls_close
\* may free it through a pointer that has gone stale.
THEOREM SurfacesCorrect == Spec => []SurfacesOwned
<1>1. Spec => []PlaceInv
  BY PlaceInit, PlaceNext, PTL DEF Spec
<1> QED BY <1>1, PTL DEF PlaceInv

\* Below the lowest slot vacated, and until realloc moves the block, every
\* listener points to its own output, whatever else has come and gone.
THEOREM ListenersCorrect == Spec => []ListenersInPlace
<1>1. Spec => []PlaceInv
  BY PlaceInit, PlaceNext, PTL DEF Spec
<1> QED BY <1>1, PTL DEF PlaceInv

\* An image is only ever attached on a display the client has named, as far as
\* the outputs are settled.
THEOREM ImagesRight == Spec => RightDisplay
<1> DEFINE Right == \A s \in Surfs : surf'[s].content # surf[s].content /\ Settled(idx) =>
                      msg.name \in {NULL, Connector[surf[s].out]}
<1>1. PlaceInv /\ [Next]_vars => [Right]_vars
  <2> SUFFICES ASSUME PlaceInv, [Next]_vars, NEW s \in Surfs,
                      surf'[s].content # surf[s].content, Settled(idx)
               PROVE  msg.name \in {NULL, Connector[surf[s].out]}
    OBVIOUS
  <2>1. TypeOK
    BY DEF PlaceInv, TableInv, TypeInv
  <2>2. ~BindOutput
    <3> SUFFICES ASSUME BindOutput PROVE FALSE
      OBVIOUS
    <3>1. CASE CanCreate
      <4>1. surf' = [surf EXCEPT ![nsurf + 1] = NewSurface(Ev.id, len, gen')]
        BY <3>1 DEF BindOutput
      <4>2. s = nsurf + 1 /\ surf'[s].content = 0
        BY <2>1, <4>1 DEF TypeOK, ObjectType, SurfaceType, NewSurface
      <4>3. surf[s].content = 0
        <5>1. Take("global")
          BY DEF BindOutput
        <5>2. Serving /\ nsurf \in Nat
          BY <2>1, <5>1, Taken DEF TypeOK, ObjectType
        <5> QED BY <4>2, <5>2 DEF PlaceInv, Numbered
      <4> QED BY <4>2, <4>3
    <3> QED BY <3>1 DEF BindOutput
  <2>3. draw
    BY <2>1, <2>2, ContentStep
  <2>4. s = buf[idx].surf /\ idx \in Live(len) /\ Addressed(buf[idx], msg) /\ Serving
    BY <2>1, <2>3, ContentDraw
  <2>5. surf[s].out = buf[idx].wl_out
    BY <2>4 DEF PlaceInv, SurfacesOwned, Surfs
  <2>6. buf[idx].human_name \in {NULL, Connector[buf[idx].wl_out]}
    BY <2>4 DEF PlaceInv, ListenersInPlace
  <2> QED BY <2>4, <2>5, <2>6 DEF Addressed
<1>2. Spec => []PlaceInv
  BY PlaceInit, PlaceNext, PTL DEF Spec
<1> QED BY <1>1, <1>2, PTL DEF Spec, RightDisplay
=============================================================================
