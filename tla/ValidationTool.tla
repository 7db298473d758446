--------------------------- MODULE ValidationTool ---------------------------
(***************************************************************************)
(* The validation tool (citadel/validation/citadel_validation_tool.cpp): a *)
(* process that runs one command and exits with its verdict.               *)
(*                                                                         *)
(* A command is a list of transactions with the chip, through citadeld,    *)
(* each of which can fail.  Others use the chip meanwhile, and one of them *)
(* reboots it.                                                             *)
(***************************************************************************)
EXTENDS Chip, Integers, Sequences

CONSTANTS
  Word,          \* 2^32: the chip's counters and the tool's arithmetic wrap
  Acquisitions,  \* samples get-temp takes: 16 in the code
  Randoms,       \* the values stress-spi writes
  MaxCount,      \* bound: the argument of stress-spi
  Samples,       \* what the temperature sensor may measure: a register of few bits
  Fuses          \* what the fuse of its calibration may hold

ASSUME ToolAssumption ==
  /\ {Word, Acquisitions} \subseteq Nat \ {0}
  /\ MaxCount \in Nat
  /\ ResetValue \notin Randoms
  /\ Fuses \subseteq Nat
  /\ \A s \in Samples : s \in Nat /\ 8 * s < Word

VARIABLES
  cmd,        \* the command, "none" before main() runs one
  count,      \* the argument of stress-spi
  step,       \* the transaction it is at, 0 when it has ended
  ret,        \* health-check's variable of that name
  exit,       \* "running", or how it ended
  value,      \* the last value written at random, or measured
  fuse,       \* the fuse
  degrees,    \* what get-temp prints
  disturbed   \* history: what the verdict should be about went wrong

toolVars == <<cmd, count, step, ret, exit, value, fuse, degrees, disturbed>>

Commands == {"stress-spi", "health-check", "reset", "enable-alerts", "disable-alerts", "get-temp"}

ToolInit ==
  /\ cmd = "none"
  /\ count = 0 /\ step = 1
  /\ ret = "success" /\ exit = "running"
  /\ value = 0 /\ fuse \in Fuses /\ degrees = 0
  /\ disturbed = FALSE
-----------------------------------------------------------------------------
(* The commands *)

Write(r, v) == [op |-> "write", reg |-> r, to |-> v]
Do(op) == [op |-> op]

(* The readings at the edges of a check stand for all. *)
Check(r, min, max, inside) ==
  [op |-> "check", reg |-> r, readings |-> {min - 1, min, max, max + 1} \cap Nat,
   min |-> min, max |-> max, inside |-> inside]

InRange(r, min, max) == Check(r, min, max, TRUE)
NotInRange(r, min, max) == Check(r, min, max, FALSE)

Times(n, script) == [i \in 1..n * Len(script) |-> script[((i - 1) % Len(script)) + 1]]

CmdStressSpi == Times(count \div 2, <<Do("writeRandom"), Do("readBack")>>)

CmdHealthCheck == <<
  NotInRange("TRNG_FSM_STATE", \h1, \h1),
  InRange("TRNG_MAX_VALUE", \h0, \hfffe),
  InRange("TRNG_MIN_VALUE", \h10, \h200),
  InRange("TRNG_CUR_NUM_ONES", \h334, \h4cc),
  InRange("PMU_RSTSRC", \h0, \h3),
  InRange("GLOBALSEC_ALERT_INTR_STS0", \h0, \h0),
  InRange("GLOBALSEC_ALERT_INTR_STS1", \h0, \h0)>>

CmdReset == <<Do("reset"), Do("readCycles")>>

(* Mutant: the monitors are not given time to settle. *)
CmdEnableAlertsAtOnce == <<
  Write("TRNG_MONITOR_STATS", \h3), Write("TRNG_CAMO_EN", \h1),
  Write("PMU_SW_PDB_SECURE", \h15), Write("PMU_SW_PDB_SECURE", \h3f)>>

CmdEnableAlerts == <<
  Write("TRNG_MONITOR_STATS", \h3), Write("TRNG_CAMO_EN", \h1),
  Write("PMU_SW_PDB_SECURE", \h15), Do("wait"), Write("PMU_SW_PDB_SECURE", \h3f)>>

CmdDisableAlerts == <<
  Write("TRNG_MONITOR_STATS", \h1), Write("TRNG_CAMO_EN", \h0),
  Write("PMU_SW_PDB_SECURE", \h0)>>

(* Mutant: the trigger is not taken back before it is pulled again. *)
AcquireUp == <<Write("TEMP_ADC_ONESHOT_ACQ", \h1), Do("wait"), Do("readSample")>>

Acquire == <<
  Write("TEMP_ADC_ONESHOT_ACQ", \h0), Write("TEMP_ADC_ONESHOT_ACQ", \h1),
  Do("wait"), Do("readSample")>>

CmdGetTemp ==
  << Write("TEMP_ADC_OPERATION", \h0), Write("TEMP_ADC_POWER_DOWN_B", \h0),
     Write("TEMP_ADC_CLKDIV2_ENABLE", \h1), Write("TEMP_ADC_ANALOG_CTRL", \h33),
     Write("TEMP_ADC_FSM_CTRL", \h3986e), Write("TEMP_ADC_POWER_DOWN_B", \h1),
     Write("TEMP_ADC_OPERATION", \h1), Write("TEMP_ADC_OPERATION", \h3),
     Write("TEMP_ADC_ONESHOT_ACQ", \h0)>>
    \o Times(Acquisitions, Acquire) \o <<Do("readFuse")>>

Script(c) ==
  CASE c = "stress-spi" -> CmdStressSpi
    [] c = "health-check" -> CmdHealthCheck
    [] c = "reset" -> CmdReset
    [] c = "enable-alerts" -> CmdEnableAlerts
    [] c = "disable-alerts" -> CmdDisableAlerts
    [] c = "get-temp" -> CmdGetTemp

(* (((current_temp - temp_offset) << 3) / slope) >> 3, in 32 bits.         *)
Slope == (875 * 8) \div 1000

TempDegC(current_temp, temp_offset) ==
  (((((current_temp - temp_offset) % Word) * 8) % Word) \div Slope) \div 8
-----------------------------------------------------------------------------
At(op) == cmd # "none" /\ exit = "running" /\ Script(cmd)[step].op = op

Here == Script(cmd)[step]

Exits(how) == exit' = how /\ step' = 0

(* A command's last transaction ends it, with its verdict by then. *)
GoesWith(verdict) ==
  IF step = Len(Script(cmd)) THEN Exits(verdict) ELSE step' = step + 1 /\ UNCHANGED exit

Goes == GoesWith(ret)

(* An odd count is refused, and one of no transactions passes. *)
Main(c, n) ==
  /\ cmd = "none"
  /\ c # "stress-spi" => n = 0
  /\ cmd' = c
  /\ count' = n
  /\ booted' = FALSE
  /\ exit' = IF n % 2 # 0 THEN "failure"
             ELSE IF c = "stress-spi" /\ n = 0 THEN "success" ELSE "running"
  /\ UNCHANGED <<step, ret, value, fuse, degrees, disturbed>>
  /\ UNCHANGED <<update, regs, sample, settled, faults>>

(* WriteRegister *)
ToolWrites ==
  /\ At("write")
  /\ \/ Write32(Here.reg, Here.to) /\ Goes /\ UNCHANGED faults
     \/ Fault /\ (Write32(Here.reg, Here.to) \/ UNCHANGED chip) /\ Exits("failure")
  /\ UNCHANGED <<cmd, count, ret, value, fuse, degrees, disturbed>>

(* The same on the scratch register; a fault may be that the chip gets     *)
(* another value.                                                          *)
ToolWritesRandom ==
  /\ At("writeRandom")
  /\ value' \in Randoms
  /\ \/ Write32("PMU_PWRDN_SCRATCH16", value') /\ Goes /\ UNCHANGED <<faults, disturbed>>
     \/ /\ Fault
        /\ \E v \in Randoms \ {value'} : Write32("PMU_PWRDN_SCRATCH16", v)
        /\ Goes
        /\ disturbed' = TRUE
     \/ Fault /\ UNCHANGED <<chip, disturbed>> /\ Exits("failure")
  /\ UNCHANGED <<cmd, count, ret, fuse, degrees>>

(* Mutant: the values are not compared. *)
VerdictAny(read) == "same"

Verdict(read) == IF read = value THEN "same" ELSE "mismatch"

(* ReadRegister of what was written; a fault may be that another value is  *)
(* read.                                                                   *)
ToolReadsBack ==
  /\ At("readBack")
  /\ \/ \E read \in {regs["PMU_PWRDN_SCRATCH16"]} \cup Randoms :
          /\ IF read = regs["PMU_PWRDN_SCRATCH16"]
             THEN UNCHANGED <<faults, disturbed>>
             ELSE Fault /\ disturbed' = TRUE
          /\ IF Verdict(read) = "same" THEN Goes ELSE Exits("mismatch")
     \/ Fault /\ Exits("failure") /\ UNCHANGED disturbed
  /\ UNCHANGED <<cmd, count, ret, value, fuse, degrees, chip>>

(* usleep *)
ToolWaits ==
  /\ At("wait")
  /\ Elapse
  /\ Goes
  /\ UNCHANGED <<cmd, count, ret, value, fuse, degrees, disturbed, faults>>

(* Mutant: the last check decides. *)
CheckedLast(passes) == IF passes THEN "success" ELSE "failure"

Checked(passes) == IF passes THEN ret ELSE "failure"

Passes(check, reading) ==
  IF check.inside THEN ~ (reading < check.min \/ reading > check.max)
  ELSE ~ (reading >= check.min /\ reading <= check.max)

(* CheckRegisterInRange, CheckRegisterNotInRange: after one that fails the *)
(* others are made, too.                                                   *)
ToolChecks ==
  /\ At("check")
  /\ \/ \E reading \in Here.readings :
          /\ ret' = Checked(Passes(Here, reading))
          /\ disturbed' = (disturbed \/ (reading \in Here.min..Here.max) # Here.inside)
          /\ UNCHANGED faults
     \/ ret' = Checked(FALSE) /\ disturbed' = TRUE /\ Fault
  /\ GoesWith(ret')
  /\ UNCHANGED <<cmd, count, value, fuse, degrees, chip>>

(* citadeld.reset(); a fault may be that the chip does not reset and yet   *)
(* the driver says so.                                                     *)
ToolResets ==
  /\ At("reset")
  /\ \/ Boot /\ Goes /\ UNCHANGED faults
     \/ Fault /\ UNCHANGED chip /\ Goes
     \/ Fault /\ (Boot \/ UNCHANGED chip) /\ Exits("failure")
  /\ UNCHANGED <<cmd, count, ret, value, fuse, degrees, disturbed>>

Limit == (100 * 1000 * 105) \div 100

(* How long the chip may have been up, in microseconds: only a chip that   *)
(* booted meanwhile is within the limit.                                   *)
Uptimes == {t \in {0, Limit, Limit + 1, Word, Word + Limit + 1} : t <= Limit => booted}

(* Mutant: the chip need not be quick. *)
TooLongEver(cycles) == FALSE

TooLong(cycles) == cycles > Limit

(* CyclesSinceBoot; the chip counts in 32 bits. *)
ToolReadsCycles ==
  /\ At("readCycles")
  /\ \/ \E uptime \in Uptimes :
          /\ value' = uptime
          /\ IF TooLong(uptime % Word) THEN Exits("failure") ELSE Goes
          /\ UNCHANGED faults
     \/ Fault /\ Exits("failure") /\ UNCHANGED value
  /\ UNCHANGED <<cmd, count, ret, fuse, degrees, disturbed, chip>>

(* The value read is a measurement only if the sensor made one. *)
ToolReadsSample ==
  /\ At("readSample")
  /\ \/ value' \in Samples /\ disturbed' = (sample # "fresh") /\ Goes /\ UNCHANGED faults
     \/ Fault /\ Exits("failure") /\ UNCHANGED <<value, disturbed>>
  /\ UNCHANGED <<cmd, count, ret, fuse, degrees, chip>>

ToolReadsFuse ==
  /\ At("readFuse")
  /\ \/ degrees' = TempDegC(value, fuse % \h1000) /\ Goes /\ UNCHANGED faults
     \/ Fault /\ Exits("failure") /\ UNCHANGED degrees
  /\ UNCHANGED <<cmd, count, ret, value, fuse, disturbed, chip>>

ToolSteps ==
  \/ ToolWrites \/ ToolWritesRandom \/ ToolReadsBack \/ ToolWaits \/ ToolChecks
  \/ ToolResets \/ ToolReadsCycles \/ ToolReadsSample \/ ToolReadsFuse

ToolNext ==
  \/ \E c \in Commands, n \in 0..MaxCount : Main(c, n)
  \/ ToolSteps
-----------------------------------------------------------------------------
Says(how) == exit = "running" /\ exit' = how

(* When the tool says that alerts are enabled, and the chip did not reboot *)
(* meanwhile, all of them are, whatever an earlier command left, and the   *)
(* monitors had settled before their alerts were turned on (line 333);     *)
(* when it says that they are disabled, all are off.                       *)
AlertsAsAsked ==
  [][/\ cmd = "enable-alerts" /\ Says("success") /\ ~ booted =>
          settled /\ \A r \in MonitorRegisters : regs'[r] = AllOn[r]
     /\ cmd = "disable-alerts" /\ Says("success") /\ ~ booted =>
          ~ MonitorsRun(regs') /\ \A r \in MonitorRegisters : regs'[r] # AllOn[r]]_<<chip, toolVars>>

(* stress-spi misses no corruption of a value, unless a second one undoes  *)
(* it or the chip rebooted, and sees none where there was none.            *)
StressVerdict ==
  cmd = "stress-spi" =>
    /\ exit = "success" /\ ~ booted /\ faults <= 1 => ~ disturbed
    /\ exit = "mismatch" => disturbed \/ booted

(* health-check passes exactly if no register was out of its range or      *)
(* could not be read, whichever of them it was.                            *)
HealthVerdict ==
  cmd = "health-check" /\ exit # "running" => (exit = "success" <=> ~ disturbed)

(* reset is verified only by a chip that did boot, or whose counter of     *)
(* microseconds has wrapped.                                               *)
ResetVerified == cmd = "reset" /\ exit = "success" => booted \/ value >= Word

(* The temperature get-temp prints was measured after it was asked for,    *)
(* unless the chip rebooted, and is the distance of the measurement from   *)
(* its calibration, when it is not below that.                             *)
TempMeasured ==
  cmd = "get-temp" /\ exit = "success" =>
    LET above == value - (fuse % \h1000)
    IN /\ disturbed => booted
       /\ above >= 0 => degrees \in 0..above /\ above - Slope * degrees \in 0..Slope - 1
=============================================================================
