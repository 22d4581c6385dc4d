---------------------------- MODULE MCSppBridge -----------------------------
(***************************************************************************)
(* Frames with a command, with a payload that looks like the start of a    *)
(* frame, too short, too long and without a command, and a bare command.   *)
(***************************************************************************)
EXTENDS SppBridge

Framed(payload) == <<SYNC0, SYNC1, 0, Len(payload)>> \o payload

MCMessages ==
    { [bytes |-> Framed(<<CMD, 1>>), bare |-> FALSE, cmd |-> <<CMD, 1>>],
      [bytes |-> Framed(<<CMD, 2, SYNC0, SYNC1>>), bare |-> FALSE,
       cmd |-> <<CMD, 2, SYNC0, SYNC1>>],
      [bytes |-> Framed(<<CMD>>), bare |-> FALSE, cmd |-> <<>>],
      [bytes |-> Framed(<<7, 7, 7, 7, SYNC0>>), bare |-> FALSE, cmd |-> <<>>],
      [bytes |-> <<CMD, 3>>, bare |-> TRUE, cmd |-> <<CMD, 3>>] }
=============================================================================
