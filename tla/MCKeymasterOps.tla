--------------------------- MODULE MCKeymasterOps ---------------------------
(* KeymasterOps with bounds and the symmetry of its handles, for TLC. *)
EXTENDS KeymasterOps, TLC

HandleSymmetry == Permutations(Handles)

(* Bound: only the first operation is given bytes. It may have to share    *)
(* its handle with another, whatever that is.                              *)
OneStream == call.pc = "idle" /\ call'.op > 1 => call'.size = 0

StreamSpec == Init /\ [][Next /\ OneStream]_vars /\ WF_vars(HalSteps)
=============================================================================
