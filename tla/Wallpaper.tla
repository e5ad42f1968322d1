------------------------------ MODULE Wallpaper ------------------------------
(***************************************************************************)
(* What the users of ewd may rely on.  A display shows an image, or        *)
(* nothing.  Orders are carried out one after the other, each on all the   *)
(* displays it names, once, and on no other; an order that has been begun  *)
(* is finished before the daemon ends.  What may keep it from that is      *)
(* named by Fragile, Forgetful and Shaky.                                  *)
(***************************************************************************)
CONSTANTS
  Displays,   \* displays that there may be
  Names,      \* their names
  Connector,  \* Connector[d]: the name of display d
  Everyone,   \* the name that stands for all displays
  Images,
  Nothing,    \* what a display shows before anything else
  Fragile,    \* may the daemon break down?
  Forgetful,  \* may it give up an order?
  Shaky       \* may it lose a display?

VARIABLES
  phase,  \* "start", "serving", "over", or "broken"
  there,  \* the displays that are there
  dark,   \* those of them that can show nothing
  shown,  \* shown[d]: what display d shows
  order,  \* the order that is being carried out
  todo    \* the displays on which that is still to be done

vars == <<phase, there, dark, shown, order, todo>>

Orders == [name : Names \cup {Everyone}, img : Images]
NoOrder == [name |-> Everyone, img |-> Nothing]
Means(o, d) == o.name \in {Everyone, Connector[d]}

Ended == phase \in {"over", "broken"}

Init ==
  /\ phase = "start" /\ there = {} /\ dark = {} /\ shown = [d \in Displays |-> Nothing]
  /\ order = NoOrder /\ todo = {}

Begin ==
  /\ phase = "start" /\ phase' = "serving"
  /\ dark' = dark \/ (Shaky /\ dark' \subseteq there)
  /\ UNCHANGED <<there, shown, order, todo>>

\* A display is connected: it shows nothing yet.
Appear(d) ==
  /\ ~Ended /\ d \notin there /\ there' = there \cup {d}
  /\ UNCHANGED <<phase, dark, shown, order, todo>>

\* The compositor takes the image away, for good.
Darken(d) ==
  /\ Shaky /\ d \in there \ dark /\ dark' = dark \cup {d}
  /\ shown' = [shown EXCEPT ![d] = Nothing]
  /\ UNCHANGED <<phase, there, order, todo>>

Take(o) ==
  /\ phase = "serving" /\ order = NoOrder
  /\ order' = o /\ todo' = {d \in there : Means(o, d)}
  /\ UNCHANGED <<phase, there, dark, shown>>

Show(d) ==
  /\ d \in todo /\ todo' = todo \ {d}
  /\ shown' = IF d \in dark THEN shown ELSE [shown EXCEPT ![d] = order.img]
  /\ UNCHANGED <<phase, there, dark, order>>

Finish ==
  /\ order # NoOrder /\ todo = {} /\ order' = NoOrder
  /\ UNCHANGED <<phase, there, dark, shown, todo>>

GiveUp ==
  /\ Forgetful /\ order # NoOrder /\ order' = NoOrder /\ todo' = {}
  /\ UNCHANGED <<phase, there, dark, shown>>

\* The daemon is gone, and all that it has shown with it.
Gone ==
  /\ there' = {} /\ dark' = {} /\ shown' = [d \in Displays |-> Nothing]
  /\ order' = NoOrder /\ todo' = {}

Quit == ~Ended /\ order = NoOrder /\ phase' = "over" /\ Gone

Break == Fragile /\ ~Ended /\ phase' = "broken" /\ Gone

Next ==
  \/ Begin \/ Finish \/ GiveUp \/ Quit \/ Break
  \/ \E d \in Displays : Appear(d) \/ Darken(d) \/ Show(d)
  \/ \E o \in Orders : Take(o)

Spec == Init /\ [][Next]_vars

-----------------------------------------------------------------------------
\* The start comes to an end, and so does every order.
Progress ==
  /\ <>(phase # "start")
  /\ order # NoOrder ~> order = NoOrder
=============================================================================
