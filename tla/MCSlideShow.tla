----------------------------- MODULE MCSlideShow ------------------------------
(* Three slides, the second of which is hidden.                            *)
EXTENDS SlideShow

MCOrder == <<0, 2>>
=============================================================================
