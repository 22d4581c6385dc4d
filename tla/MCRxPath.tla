------------------------------ MODULE MCRxPath ------------------------------
(***************************************************************************)
(* A buffer of two halves of three bytes in front of a ring of four slots. *)
(***************************************************************************)
EXTENDS RxPath

LOCAL INSTANCE SequencesExt

MCData == 1..MaxBytes

MCChunks == SeqOf(MCData, Half) \ {<<>>}
=============================================================================
