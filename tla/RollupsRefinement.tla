------------------------ MODULE RollupsRefinement ------------------------
(***************************************************************************)
(* The rollups model with its mutex, its row-by-row writes, its inspects   *)
(* and its crashes implements InputLifecycle, for a reader that looks at   *)
(* the outputs of accepted inputs.  The commit point is the write of the   *)
(* input row.                                                              *)
(***************************************************************************)
EXTENDS Rollups

(* The current input stops being current when its row gets the final       *)
(* status, although `state` holds it until the next one is picked.         *)
Current ==
  IF state.mode = "advance" /\ inputs[state.input] = "Unprocessed"
  THEN state.input ELSE 0

EmittedByCurrent ==
  IF Current = 0 THEN {}
  ELSE Elements(state.outs["voucher"]) \cup Elements(state.outs["notice"])

Published ==
  {out \in Elements(outputs) :
     out.kind # "report" /\ inputs[out.input] = "Accepted"}

Abstract == INSTANCE InputLifecycle WITH
  status    <- inputs,
  rank      <- indices,
  current   <- Current,
  emitted   <- EmittedByCurrent,
  published <- Published,
  broken    <- dbErrors > 0

(* Every behaviour of the rollups model is one of InputLifecycle: until a  *)
(* statement fails, inputs by Index, one at a time, one status for each    *)
(* Index, and outputs published whole.                                     *)
ImplementsLifecycle == Abstract!Spec
=============================================================================
