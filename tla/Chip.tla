-------------------------------- MODULE Chip --------------------------------
(***************************************************************************)
(* Citadel, as the AuthSecret HAL and the validation tool use it: all of   *)
(* it is external.                                                         *)
(*                                                                         *)
(* Its bank is where updates are written: it takes a password only in      *)
(* place of the default one, enables an image only with the password it    *)
(* has, and boots an enabled image at its next reboot.  A reboot also sets *)
(* its registers back.  The battery monitors give no right alerts until    *)
(* they have been on for a while, and the temperature sensor takes a       *)
(* sample some time after its trigger goes from 0 to 1.                    *)
(***************************************************************************)
EXTENDS Naturals

CONSTANTS
  Secrets,      \* the credentials; a factory reset gives the user another
  Default,      \* the password of a new chip, all 0xff
  ResetValue,   \* what stands in a register after a reset
  MaxFaults     \* bound: messages lost, calls refused, deaths of the HAL

ASSUME ChipAssumption ==
  /\ Default \notin Secrets
  /\ MaxFaults \in Nat

VARIABLES
  password,     \* the update password
  oldFirmware,  \* the firmware sends no reply to ENABLE_UPDATE
  bank,         \* what the other bank holds
  regs,         \* the registers the tool writes
  sample,       \* the temperature sensor: "stale", "pending" or "fresh"
  settled,      \* the battery monitors have been on for a while
  booted,       \* history: it rebooted since the tool's command began
  faults        \* history: faults

update == <<password, oldFirmware, bank>>
analog == <<regs, sample, settled, booted>>
chip == <<update, analog>>

MonitorRegisters == {"TRNG_MONITOR_STATS", "TRNG_CAMO_EN", "PMU_SW_PDB_SECURE"}
TemperatureRegisters == {
  "TEMP_ADC_OPERATION", "TEMP_ADC_POWER_DOWN_B", "TEMP_ADC_CLKDIV2_ENABLE",
  "TEMP_ADC_ANALOG_CTRL", "TEMP_ADC_FSM_CTRL", "TEMP_ADC_ONESHOT_ACQ"}
Registers == MonitorRegisters \cup TemperatureRegisters \cup {"PMU_PWRDN_SCRATCH16"}

AfterReset == [r \in Registers |-> ResetValue]

(* What earlier runs of the tool may have left: alerts on, sensor on. *)
AllOn ==
  [AfterReset EXCEPT
     !["TRNG_MONITOR_STATS"] = \h3, !["TRNG_CAMO_EN"] = \h1, !["PMU_SW_PDB_SECURE"] = \h3f,
     !["TEMP_ADC_OPERATION"] = \h3, !["TEMP_ADC_POWER_DOWN_B"] = \h1,
     !["TEMP_ADC_CLKDIV2_ENABLE"] = \h1, !["TEMP_ADC_ANALOG_CTRL"] = \h33,
     !["TEMP_ADC_FSM_CTRL"] = \h3986e, !["TEMP_ADC_ONESHOT_ACQ"] = \h1]

MonitorsRun(values) == values["PMU_SW_PDB_SECURE"] \in {\h15, \h3f}

ChipInit ==
  /\ password = Default
  /\ oldFirmware \in BOOLEAN
  /\ bank = "old"
  /\ regs \in {AfterReset, AllOn}
  /\ sample = "stale"
  /\ settled = MonitorsRun(regs)
  /\ booted = FALSE
  /\ faults = 0

Fault == faults < MaxFaults /\ faults' = faults + 1
-----------------------------------------------------------------------------
ChangePassword(old, new) ==
  /\ password' = IF password = old THEN new ELSE password
  /\ UNCHANGED <<bank, oldFirmware, analog>>

EnableUpdate(p) ==
  /\ bank' = IF password = p /\ bank = "written" THEN "enabled" ELSE bank
  /\ UNCHANGED <<password, oldFirmware, analog>>

Boot ==
  /\ bank' = IF bank = "enabled" THEN "old" ELSE bank
  /\ regs' = AfterReset
  /\ sample' = "stale"
  /\ settled' = FALSE
  /\ booted' = TRUE
  /\ UNCHANGED <<password, oldFirmware>>

(* The sensor is triggered when it is on and configured. *)
Triggers(r, value) ==
  /\ r = "TEMP_ADC_ONESHOT_ACQ"
  /\ regs[r] = 0 /\ value = 1
  /\ \A q \in TemperatureRegisters \ {r} : regs[q] = AllOn[q]

Write32(r, value) ==
  /\ regs' = [regs EXCEPT ![r] = value]
  /\ sample' = IF Triggers(r, value) THEN "pending"
               ELSE IF r \in TemperatureRegisters THEN "stale" ELSE sample
  /\ settled' = (settled /\ MonitorsRun(regs'))
  /\ UNCHANGED <<update, booted>>

(* A wait that is long enough for the monitors and the sensor. *)
Elapse ==
  /\ sample' = IF sample = "pending" THEN "fresh" ELSE sample
  /\ settled' = MonitorsRun(regs)
  /\ UNCHANGED <<update, regs, booted>>
-----------------------------------------------------------------------------
ChipTypeOK ==
  /\ password \in Secrets \cup {Default}
  /\ oldFirmware \in BOOLEAN
  /\ bank \in {"old", "written", "enabled"}
  /\ faults \in 0 .. MaxFaults
=============================================================================
