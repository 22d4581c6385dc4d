--------------------------- MODULE MCAudioControl ---------------------------
(***************************************************************************)
(* Two levels, and two set frames: one changes everything, the other only  *)
(* part of it.                                                             *)
(***************************************************************************)
EXTENDS AudioControl

MCFrames == {<<2, 2, 2>>, <<1, 2, 1>>}
=============================================================================
