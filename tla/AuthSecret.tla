----------------------------- MODULE AuthSecret -----------------------------
(***************************************************************************)
(* The AuthSecret HAL (hals/authsecret/AuthSecret.cpp).  Each time the     *)
(* primary user gives the credential, the HAL derives a password from it,  *)
(* tries to enroll it with the chip, tries to enable a firmware update     *)
(* with it, and reboots the chip if that enabled a new image.              *)
(***************************************************************************)
EXTENDS Chip

CONSTANTS
  MaxWrites,    \* bound: images written to the chip
  MaxResets     \* bound: resets of the chip that the HAL did not ask for

ASSUME AuthSecretAssumption == {MaxWrites, MaxResets} \subseteq Nat

VARIABLES
  pc,        \* which call of the chip primaryUserCredential() is making
  secret,    \* its argument
  writes,    \* history: images written
  resets,    \* history: resets by others
  reboots    \* history: reboots the HAL asked for, counted to MaxWrites + 1

halVars == <<pc, secret, writes, resets, reboots>>

HalInit ==
  /\ pc = "idle"
  /\ secret \in Secrets
  /\ writes = 0 /\ resets = 0 /\ reboots = 0

Counted(n) == IF n > MaxWrites THEN MaxWrites + 1 ELSE n
-----------------------------------------------------------------------------
(* External: others write an update to the bank, or reset the chip. *)

WriteImage ==
  /\ writes < MaxWrites
  /\ bank' = "written"
  /\ writes' = writes + 1
  /\ UNCHANGED <<pc, secret, password, oldFirmware, analog, resets, reboots, faults>>

(* A message in flight that the reset destroys is one of the faults.       *)
ChipResets ==
  /\ resets < MaxResets
  /\ Boot
  /\ resets' = resets + 1
  /\ UNCHANGED <<pc, secret, writes, reboots, faults>>
-----------------------------------------------------------------------------
(* The HAL *)

PrimaryUserCredential(s) ==
  /\ pc = "idle"
  /\ secret' = s
  /\ pc' = "enroll"
  /\ UNCHANGED <<chip, writes, resets, reboots, faults>>

(* Mutant: the two passwords of the message are swapped. *)
EnrollSwapped ==
  /\ pc = "enroll"
  /\ \/ ChangePassword(secret, Default) /\ UNCHANGED faults
     \/ Fault /\ UNCHANGED chip
  /\ pc' = "enable"
  /\ UNCHANGED <<secret, writes, resets, reboots>>

(* TryEnrollCitadelUpdatePassword: whatever the answer, go on. *)
Enroll ==
  /\ pc = "enroll"
  /\ \/ ChangePassword(Default, secret) /\ UNCHANGED faults
     \/ Fault /\ (ChangePassword(Default, secret) \/ UNCHANGED chip)
  /\ pc' = "enable"
  /\ UNCHANGED <<secret, writes, resets, reboots>>

(* Mutant: an answer without error is taken for an enabled update. *)
AnySuccessMeansChanged == password = secret

(* Mutants: half of the test below is missing. *)
OnlyIfReplySaysSo == password = secret /\ ~ oldFirmware /\ bank = "written"
OnlyIfReplyIsEmpty == password = secret /\ oldFirmware

(* buffer.empty() || buffer[0] *)
HeadersChanged == password = secret /\ (oldFirmware \/ bank = "written")

(* TryEnablingCitadelUpdate, up to RebootCitadel: with the wrong password, *)
(* and after any error, it returns.                                        *)
Enable ==
  /\ pc = "enable"
  /\ \/ /\ EnableUpdate(secret)
        /\ IF HeadersChanged
           THEN pc' = "reboot" /\ reboots' = Counted(reboots + 1)
           ELSE pc' = "idle" /\ UNCHANGED reboots
        /\ UNCHANGED faults
     \/ /\ Fault
        /\ EnableUpdate(secret) \/ UNCHANGED chip
        /\ pc' = "idle"
        /\ UNCHANGED reboots
  /\ UNCHANGED <<secret, writes, resets>>

(* RebootCitadel: a failure is logged. *)
Reboot ==
  /\ pc = "reboot"
  /\ \/ Boot /\ UNCHANGED faults
     \/ Fault /\ (Boot \/ UNCHANGED chip)
  /\ pc' = "idle"
  /\ UNCHANGED <<secret, writes, resets, reboots>>

HalDies ==
  /\ pc # "idle"
  /\ Fault
  /\ pc' = "idle"
  /\ UNCHANGED <<secret, chip, writes, resets, reboots>>
-----------------------------------------------------------------------------
HalSteps == Enroll \/ Enable \/ Reboot

HalNext ==
  \/ \E s \in Secrets : PrimaryUserCredential(s)
  \/ HalSteps
  \/ HalDies
  \/ WriteImage
  \/ ChipResets
-----------------------------------------------------------------------------
HalTypeOK ==
  /\ pc \in {"idle", "enroll", "enable", "reboot"}
  /\ secret \in Secrets
  /\ writes \in 0 .. MaxWrites
  /\ resets \in 0 .. MaxResets
  /\ reboots \in 0 .. MaxWrites + 1

(* Apart from old firmware, which must be rebooted on a mere suspicion,    *)
(* the HAL never reboots the chip more often than there were updates,      *)
(* however often the user unlocks and whatever is lost (AuthSecret.cpp:142)*)
RebootsAreForUpdates == ~ oldFirmware => reboots <= writes

(* A written image is enabled in the end, by the user whose password is    *)
(* enrolled, whatever is lost in the meantime.                             *)
UpdatesAreEnabled == bank = "written" ~> bank # "written"

(* An enabled image is booted, with either firmware and whenever the chip  *)
(* resets, unless something was lost.                                      *)
UpdatesTakeEffect == bank = "enabled" /\ faults = 0 ~> bank # "enabled" \/ faults > 0
=============================================================================
