----------------------------- MODULE ChipUsers -----------------------------
(* The AuthSecret HAL and the validation tool at work on one chip: the HAL *)
(* reboots it while the tool is in the middle of a command.                *)
EXTENDS AuthSecret, ValidationTool

vars == <<halVars, toolVars, chip, faults>>

Init == ChipInit /\ HalInit /\ ToolInit

Next ==
  \/ HalNext /\ UNCHANGED toolVars
  \/ ToolNext /\ UNCHANGED halVars

Spec == Init /\ [][Next]_vars

(* Chip calls return, and every user unlocks again and again.  Nothing     *)
(* else makes the chip reboot, and nobody has to run the tool.             *)
FairSpec ==
  /\ Spec
  /\ WF_vars(HalSteps /\ UNCHANGED toolVars)
  /\ \A s \in Secrets : SF_vars(PrimaryUserCredential(s) /\ UNCHANGED toolVars)

TypeOK == ChipTypeOK /\ HalTypeOK
=============================================================================
