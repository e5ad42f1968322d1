-------------------------- MODULE PictureProperties --------------------------
(***************************************************************************)
(* What is to hold of a picture on its way.                                *)
(***************************************************************************)
EXTENDS Picture

\* The picture that is decoded is the whole file, however it has been read.
DecodedWhole == pix # NoPicture => len = FileSize

\* The pixels that an output shows.
Seen == {shown.view[p] : p \in Pixels(shown.dim)} \ {Nowhere}
Place(p) == p[2] * pix[1] + p[1]

\* ewd reads pixels only where it has mapped the memory, as long as the number of
\* pixels fits into 32 bits, and no pixel that ewctl has not put into order.
SeenInOrder ==
  \A p \in Seen :
    /\ Area(pix) < Word => (Place(p) + 1) * xrgb <= Mapping
    /\ Place(p) < shown.ordered

\* A picture that is smaller than the screen is seen as a whole; one that is as
\* high or as wide loses its first row and column, by which it is moved.
SeenWhole ==
  shown # NotShown /\ pix[1] <= shown.dim[1] /\ pix[2] <= shown.dim[2] =>
    LET first == IF pix[1] < shown.dim[1] /\ pix[2] < shown.dim[2] THEN 0 ELSE 1
    IN  Seen = (first .. pix[1] - 1) \X (first .. pix[2] - 1)

\* A picture comes as it is: read to the end, converted before anybody looks at it,
\* and read by ewd where it is mapped only.
PictureRight == DecodedWhole /\ SeenInOrder /\ SeenWhole
=============================================================================
