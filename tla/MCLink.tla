------------------------------- MODULE MCLink -------------------------------
(***************************************************************************)
(* Instances of BackendLink for TLC.                                       *)
(***************************************************************************)
EXTENDS LinkProperties, TLC

CONSTANT old    \* the turn of the stored session

PastTurns == <<old>>
=============================================================================
