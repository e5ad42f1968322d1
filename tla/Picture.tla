------------------------------- MODULE Picture -------------------------------
(***************************************************************************)
(* The way of one picture from a file to a screen: ewctl reads the file,   *)
(* decodes it, puts the bytes of its pixels into order and sends its size  *)
(* with a descriptor of the memory; ewd maps that memory and scales it.    *)
(* Both have the memory at the same time.  When a step may be taken is up  *)
(* to Session, with which PictureSession composes this module.  The        *)
(* decoder and pixman are external.  A pixel of the picture is its column  *)
(* and row.  Name_Slip is Name with a mistake in it, used to see that the  *)
(* properties notice.                                                      *)
(***************************************************************************)
EXTENDS Integers

CONSTANTS
  Word,      \* 2^32: how many values a u32 has
  Pictures,  \* sizes that pictures may have: width and height
  Screens,   \* sizes that outputs may have
  FileSize,  \* of the encoded image
  Blksize    \* st_blksize of the file

ASSUME PictureAssumption ==
  /\ Word \in Nat \ {0} /\ FileSize \in Nat /\ Blksize \in Nat \ {0}
  /\ Pictures \subseteq (Nat \ {0}) \X (Nat \ {0})
  /\ Screens \subseteq (Nat \ {0}) \X (Nat \ {0})

VARIABLES
  len,     \* bytes of the file that have been read
  eof,     \* has process seen the end of it?
  pix,     \* width and height of the decoded picture; 0 and 0 if there is none
  swapped, \* how many pixels of it have been put into order
  shown    \* what an output shows: its size, what of the picture is where, and
           \* how many pixels were in order when they were read

vars_picture == <<len, eof, pix, swapped, shown>>

NoPicture == <<0, 0>>
Area(dim) == dim[1] * dim[2]
Pixels(dim) == (0 .. dim[1] - 1) \X (0 .. dim[2] - 1)

Nowhere == <<-1, -1>>
NotShown == [dim |-> NoPicture, view |-> <<>>, ordered |-> 0]

-----------------------------------------------------------------------------
(* ewctl.                                                                  *)

\* Slip: takes a read that comes short for the end of the file.
process_Short ==
  /\ ~eof
  /\ \E nr \in 0 .. Blksize :
       /\ nr <= FileSize - len /\ (nr = 0 => len = FileSize)
       /\ len' = len + nr /\ eof' = (nr < Blksize)
  /\ UNCHANGED <<pix, swapped, shown>>

\* One round of process: read returns up to a block, and nothing at the end only.
process ==
  /\ ~eof
  /\ \E nr \in 0 .. Blksize :
       /\ nr <= FileSize - len /\ (nr = 0 => len = FileSize)
       /\ len' = len + nr /\ eof' = (nr = 0)
  /\ UNCHANGED <<pix, swapped, shown>>

\* jxl_decode returns the dimensions that the decoder tells.
jxl_decode == pix' \in Pictures /\ UNCHANGED <<len, eof, swapped, shown>>

\* One round of abgr2argb, which changes the memory that ewd is going to map.
abgr2argb ==
  /\ swapped < Area(pix) /\ swapped' = swapped + 1
  /\ UNCHANGED <<len, eof, pix, shown>>

\* Slip: main sends the message and converts the picture then.
Converted_Later == TRUE

\* main converts the picture before it sends the message.
Converted == swapped = Area(pix)

-----------------------------------------------------------------------------
(* ewd.                                                                    *)

xrgb == 4

\* Slip: maps a byte for each pixel.
Mapping_Pixels == Area(pix) % Word

\* The length that main maps: w * h is a u32, its product with a size_t is not.
Mapping == (Area(pix) % Word) * xrgb

\* scale: the picture is made smaller or larger by s = num / den, so that it fits
\* both ways, and moved by the whole part of s.  Outside of it the screen is black.
\* The middle of a pixel tells what pixman looks at.
scale(dst, src) ==
  LET wide == src[1] * dst[2] >= src[2] * dst[1]
      num == IF wide THEN src[1] ELSE src[2]
      den == IF wide THEN dst[1] ELSE dst[2]
      At(v) == ((2 * (v + num \div den) + 1) * num) \div (2 * den)
  IN  [p \in Pixels(dst) |->
         IF At(p[1]) < src[1] /\ At(p[2]) < src[2] THEN <<At(p[1]), At(p[2])>> ELSE Nowhere]

\* The memory is mapped, unless its length is 0, and drawn on an output.
Show ==
  /\ IF Mapping = 0 THEN UNCHANGED shown
     ELSE \E dim \in Screens :
            shown' = [dim |-> dim, view |-> scale(dim, pix), ordered |-> swapped]
  /\ UNCHANGED <<len, eof, pix, swapped>>

Init_picture ==
  len = 0 /\ eof = FALSE /\ pix = NoPicture /\ swapped = 0 /\ shown = NotShown
=============================================================================
