------------------------------ MODULE DynArray ------------------------------
(***************************************************************************)
(* The growable array of src/ewd/da.h.  The memory block behind an array   *)
(* is a function from slots to contents; the first `len' slots are live    *)
(* and the others hold whatever was last written to them.  Slots count     *)
(* from 0, as in the code.  A definition Name_Slip is Name with a mistake  *)
(* one could make there; it is used only to see the properties catch it.   *)
(***************************************************************************)
EXTENDS Integers

\* The slots da_foreach visits.
Live(len) == 0..(len - 1)

\* Slip: makes room one item too early.
Grown_Early(len, cap) == IF len + 1 >= cap THEN cap * 2 + 1 ELSE cap

\* da_append: the capacity after making room for one more item.
Grown(len, cap) == IF len >= cap THEN cap * 2 + 1 ELSE cap

\* Slip: stores the item over the last one.
Appended_Last(buf, len, x) == [buf EXCEPT ![IF len = 0 THEN 0 ELSE len - 1] = x]

\* da_append: the block once x has been stored in the first free slot.
Appended(buf, len, x) == [buf EXCEPT ![len] = x]

\* da_remove_range: the memmove of the len - j items from slot j down to
\* slot i.  Slots the move does not write keep their old contents, the ones
\* above the new length included.
RemovedRange(buf, len, i, j) ==
  [k \in DOMAIN buf |-> IF i <= k /\ k + (j - i) < len
                        THEN buf[k + (j - i)] ELSE buf[k]]

\* Slips: removes the item after, the first item, or moves nothing.
Removed_After(buf, len, i) == RemovedRange(buf, len, i + 1, i + 2)
Removed_First(buf, len, i) == RemovedRange(buf, len, 0, 1)
Removed_Nothing(buf, len, i) == buf

\* da_remove: removes the one item at slot i.
Removed(buf, len, i) == RemovedRange(buf, len, i, i + 1)
=============================================================================
