------------------------------ MODULE MCPicture ------------------------------
(* Values for the constants of PictureSession.                             *)
EXTENDS MCSession, PictureSession, PictureProperties

\* Small pictures; one that has as many pixels as a word can count, and one that
\* has more.
SmallPictures == {<<1, 1>>, <<2, 2>>, <<3, 2>>, <<4, 4>>, <<5, 4>>}
SmallScreens == {<<2, 2>>, <<3, 2>>, <<3, 3>>}
=============================================================================
