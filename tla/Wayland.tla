------------------------------ MODULE Wayland -------------------------------
(***************************************************************************)
(* The daemon of Ewd together with the compositor it talks to.             *)
(***************************************************************************)
EXTENDS Ewd

(***************************************************************************)
(* The compositor.  It takes the daemon's requests in order, so it answers *)
(* a sync after it has described the outputs bound before; it says no more *)
(* after a protocol error.                                                 *)
(***************************************************************************)
Versions == {Recent} \cup (IF "deficient" \in Behaviours THEN {Old} ELSE {})

Send(es) ==
  /\ Dispatching
  /\ \A k \in 1..Len(wq) : wq[k].type # "error"
  /\ wq' = wq \o es
  /\ UNCHANGED <<table, wlout, nsurf, npix, mapped, bound, client, pc, faults>>

\* ... of its own accord, and within the bound.
Say(e) == Len(wq) < MaxQueue /\ Send(<<e>>)

Plug(g) ==
  /\ "hotplug" \in Behaviours /\ plug[g] = "off"
  /\ \E v \in Versions : Say(Event("global", g, v))
  /\ plug' = [plug EXCEPT ![g] = "on"]
  /\ UNCHANGED <<told, surf, pix>>

Unplug(g) ==
  /\ "unplug" \in Behaviours /\ plug[g] = "on"
  /\ Say(Event("global_remove", g, 0))
  /\ plug' = [plug EXCEPT ![g] = "gone"]
  /\ UNCHANGED <<told, surf, pix>>

\* The events of a wl_output the daemon has bound.
Describe(g) ==
  /\ wlout[g].st = "live" /\ plug[g] = "on" /\ g \notin told
  /\ \E d \in Dims : Send(<<Event("mode", g, d), Event("name", g, 0)>>)
  /\ told' = told \cup {g}
  /\ UNCHANGED <<plug, surf, pix>>

Remode(g) ==
  /\ "resize" \in Behaviours
  /\ wlout[g].st = "live" /\ plug[g] = "on" /\ g \in told
  /\ \E d \in Dims : Say(Event("mode", g, d))
  /\ UNCHANGED <<plug, told, surf, pix>>

Mapped(s) == surf[s].st \in {"created", "configured"} /\ surf[s].view # "closed"

Configure(s) ==
  /\ Mapped(s) /\ plug[surf[s].out] = "on"
  /\ surf[s].view = "pending" \/ "resize" \in Behaviours
  /\ \E d \in Dims : Say(Event("configure", s, d))
  /\ surf' = [surf EXCEPT ![s].view = "configured"]
  /\ UNCHANGED <<plug, told, pix>>

Close(s) ==
  /\ Mapped(s) /\ ("close" \in Behaviours \/ plug[surf[s].out] = "gone")
  /\ Say(Event("closed", s, 0))
  /\ surf' = [surf EXCEPT ![s].view = "closed"]
  /\ UNCHANGED <<plug, told, pix>>

Release(b) ==
  /\ pix[b].busy
  /\ Send(<<Event("release", b, 0)>>)
  /\ pix' = [pix EXCEPT ![b].busy = FALSE]
  /\ UNCHANGED <<plug, told, surf>>

SyncReply ==
  /\ pc = "roundtrip2" /\ \A k \in 1..Len(wq) : wq[k].type # "sync"
  /\ \A g \in Globals : wlout[g].st = "live" /\ plug[g] = "on" => g \in told
  /\ Send(<<Event("sync", 0, 0)>>)
  /\ UNCHANGED <<plug, told, surf, pix>>

-----------------------------------------------------------------------------
(* What the registry advertises first: some of the services, and Initial.  *)

Advertised(offer, ver) ==
  {Event(t, 0, ver[t]) : t \in offer} \cup {Event("global", g, ver["global"]) : g \in Initial}

ServicesFirst(q) ==
  \A k, l \in DOMAIN q : k < l /\ q[k].type = "global" => q[l].type = "global"

Init ==
  /\ buf = [i \in Slots |-> Zero] /\ len = 0 /\ cap = InitCap /\ gen = 0
  /\ wlout = [g \in Globals |-> [st |-> "none", data |-> Nowhere]]
  /\ surf = [s \in Surfs |-> [st |-> "none", data |-> Nowhere, out |-> 0,
                              view |-> "pending", content |-> 0]]
  /\ pix = [b \in Pixs |-> [st |-> "none", data |-> Nowhere, surf |-> 0,
                            dim |-> 0, img |-> Clear, busy |-> FALSE]]
  /\ nsurf = 0 /\ npix = 0 /\ mapped = {} /\ bound = {}
  /\ plug = [g \in Globals |-> IF g \in Initial THEN "on" ELSE "off"] /\ told = {}
  /\ pc = "roundtrip1" /\ msg = NoMsg /\ idx = 0 /\ faults = {}
  /\ \E offer \in (IF "deficient" \in Behaviours THEN SUBSET Services ELSE {Services}),
        ver \in [Services \cup {"global"} -> Versions] :
       \E q \in SetToSeqs(Advertised(offer, ver)) :
         /\ "any_order" \in Behaviours \/ ServicesFirst(q)
         /\ wq = Append(q, Event("sync", 0, 0))

Compositor ==
  \/ \E g \in Globals : Plug(g) \/ Unplug(g) \/ Describe(g) \/ Remode(g)
  \/ \E s \in Surfs : Configure(s) \/ Close(s)
  \/ \E b \in Pixs : Release(b)
  \/ SyncReply

Next == Dispatch \/ Serve \/ Terminate \/ Compositor

Spec == Init /\ [][Next]_vars

(***************************************************************************)
(* Liveness.  The daemon dispatches what is there and serves what it has   *)
(* accepted; the compositor answers: it describes outputs, replies to a    *)
(* sync whatever else it has to say, and releases buffers.                 *)
(***************************************************************************)
Fairness ==
  /\ WF_vars(Dispatch) /\ WF_vars(pc # "loop" /\ Serve)
  /\ \A g \in Globals : SF_vars(Describe(g))
  /\ SF_vars(SyncReply) /\ \A b \in Pixs : SF_vars(Release(b))

FairSpec == Spec /\ Fairness
=============================================================================
