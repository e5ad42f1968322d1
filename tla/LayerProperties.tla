--------------------------- MODULE LayerProperties ---------------------------
(***************************************************************************)
(* What is to hold of ewd and its layer surfaces.                          *)
(***************************************************************************)
EXTENDS LayerShell

Wallpapers == [surface : {"none", "live", "dead"}, role : {"none", "live", "dead"},
               layer : {-1, BACKGROUND}, zone : {0, -1}, anchor : {0, Anchors},
               begun : BOOLEAN, open : SUBSET (1..(MaxLayers + MaxRepeats)),
               acked : BOOLEAN, attached : BOOLEAN, closed : BOOLEAN]

\* Whatever can be asked for through the bindings.
LayerRequests ==
  UNION {{zwlr_layer_surface_v1_set_size(n, d) : d \in Sizes}
         \cup {zwlr_layer_surface_v1_set_anchor(n, a) : a \in 0..15}
         \cup {zwlr_layer_surface_v1_set_exclusive_zone(n, z) : z \in {-1, 0}}
         \cup {zwlr_layer_surface_v1_set_margin(n, 0),
               zwlr_layer_surface_v1_set_keyboard_interactivity(n, 0),
               zwlr_layer_surface_v1_get_popup(n, 0), zwlr_layer_surface_v1_destroy(n)}
         \cup {zwlr_layer_surface_v1_ack_configure(n, s) : s \in 1..serial}
         \cup {zwlr_layer_surface_v1_set_layer(n, l) : l \in 0..3} : n \in 1..made}
ShellRequests ==
  {zwlr_layer_shell_v1_get_layer_surface(n, l) : n \in 1..made, l \in 0..3}
    \cup {zwlr_layer_shell_v1_destroy}
SurfaceRequests ==
  {Surface(n, name) : n \in 1..made, name \in {"create", "attach", "commit", "destroy"}}

\* Types of all variables: in particular every request names a wallpaper that has been
\* made, and every answer a configure event that has been sent.
TypeOK ==
  /\ pc \in {"loop", "ended"} /\ lshell \in {0, 2} /\ outs \subseteq Outputs
  /\ layer \in [Outputs -> 0..made] /\ safe \in [Outputs -> BOOLEAN]
  /\ size \in [Outputs -> Sizes \cup {0}] /\ made \in 0..MaxLayers
  /\ hasty \subseteq 1..made /\ wall \in [Layers -> Wallpapers] /\ shell \in BOOLEAN
  /\ \A i \in DOMAIN reqs :
       IF reqs[i].kind = "surface" THEN reqs[i] \in SurfaceRequests
       ELSE reqs[i] \in LayerRequests \cup ShellRequests
  /\ \A i \in DOMAIN evs : evs[i].n \in 1..made /\ evs[i].op \in {0, 1}
  /\ serial \in 0..(MaxLayers + MaxRepeats) /\ repeats \in 0..MaxRepeats
  /\ error \in Errors \cup {"none"}

\* Does the request exist in the version of its object, by what the header says?
Known(r) ==
  /\ r.kind = "shell" => ShellSince[Meaning(r).name] <= r.ver
  /\ r.kind = "layer" => LayerSince[Meaning(r).name] <= r.ver

\* The only mistakes ewd makes in the protocol: it draws while safe_to_draw is false
\* (had draw looked at it, no wallpaper would have come too early), and it destroys the
\* layer shell at the end, by a request younger than the version it has bound.
ErrorCause ==
  /\ pc = "loop" => \A i \in DOMAIN reqs : Known(reqs[i])
  /\ error \in {"none", "unconfigured", "version"}
  /\ error = "unconfigured" => hasty # {}
  /\ error = "version" => pc = "ended"

\* When nothing is under way both ends agree which wallpapers there are, each is where
\* a wallpaper belongs, and safe_to_draw says whether it may be drawn on.
InSync ==
  pc = "loop" /\ Live /\ reqs = <<>> /\ evs = <<>> =>
    /\ \A n \in Layers : wall[n].role = "live" <=> \E o \in outs : layer[o] = n
    /\ \A n \in Layers : wall[n].surface = "live" <=> wall[n].role = "live"
    /\ \A o \in outs : layer[o] # 0 =>
         LET w == wall[layer[o]] IN
         /\ w.layer = BACKGROUND /\ w.zone = -1 /\ w.anchor = Anchors
         /\ safe[o] <=> w.acked
         /\ w.open = {}

\* Every configure event is answered, unless the wallpaper goes.
Answered ==
  \A n \in Layers :
    (wall[n].open # {}) ~> (wall[n].open = {} \/ wall[n].role # "live" \/ ~Live \/ pc = "ended")

\* An output that has a wallpaper gets as far as to be drawn on, unless it goes.
Ready ==
  \A o \in Outputs, n \in Layers :
    (layer[o] = n) ~> (layer[o] # n \/ safe[o] \/ ~Live \/ pc = "ended")

\* A wallpaper is attended to: its configure events and its output get their answer.
Attended == Answered /\ Ready
=============================================================================
