-------------------------- MODULE ChipUsers_proofs --------------------------
(***************************************************************************)
(* Theorems about the AuthSecret HAL and the validation tool on one chip,  *)
(* for any credentials, updates, arguments of the tool and faults.         *)
(***************************************************************************)
EXTENDS ChipUsers, SequenceTheorems, TLAPS

(* The AuthSecret HAL: the number of its reboots is bounded because an     *)
(* update that has not been enabled yet is one the HAL has not asked for a *)
(* reboot for: Inv counts it.  The tool's reset may boot an enabled image, *)
(* but enables none.                                                       *)
NotYetEnabled == IF bank = "written" THEN 1 ELSE 0

Inv == TypeOK /\ (~ oldFirmware => reboots + NotYetEnabled <= writes)

LEMMA InvInit == Init => Inv
BY AuthSecretAssumption, ChipAssumption
   DEF Init, ChipInit, HalInit, Inv, TypeOK, ChipTypeOK, HalTypeOK, NotYetEnabled

(* The steps that change neither the counts nor the bank, except that an   *)
(* enabled image may get booted.                                           *)
LEMMA Quiet ==
  ASSUME Inv, UNCHANGED <<writes, reboots, oldFirmware>>,
         \/ bank' = bank
         \/ bank # "written" /\ bank' # "written"
         \/ bank = "written" /\ bank' = "enabled",
         TypeOK'
  PROVE  Inv'
BY AuthSecretAssumption DEF Inv, TypeOK, ChipTypeOK, HalTypeOK, NotYetEnabled

(* What the tool does to the bank is at most a boot. *)
LEMMA ToolLeavesBank ==
  ASSUME ToolNext
  PROVE  /\ UNCHANGED <<password, oldFirmware>>
         /\ \/ bank' = bank
            \/ bank = "enabled" /\ bank' = "old"
         /\ faults' = faults \/ Fault
<1> USE DEF Write32, Elapse, Boot, chip, update, analog
<1>1. CASE \E c \in Commands, n \in 0..MaxCount : Main(c, n)
  BY <1>1 DEF Main
<1>2. CASE ToolWrites \/ ToolWritesRandom
  BY <1>2 DEF ToolWrites, ToolWritesRandom
<1>3. CASE ToolReadsBack \/ ToolWaits \/ ToolChecks
  BY <1>3 DEF ToolReadsBack, ToolWaits, ToolChecks
<1>4. CASE ToolResets
  BY <1>4 DEF ToolResets
<1>5. CASE ToolReadsCycles \/ ToolReadsSample \/ ToolReadsFuse
  BY <1>5 DEF ToolReadsCycles, ToolReadsSample, ToolReadsFuse
<1> QED BY <1>1, <1>2, <1>3, <1>4, <1>5 DEF ToolNext, ToolSteps

LEMMA TypeNext == TypeOK /\ [Next]_vars => TypeOK'
<1> SUFFICES ASSUME TypeOK, [Next]_vars PROVE TypeOK'
  OBVIOUS
<1> USE AuthSecretAssumption, ChipAssumption
    DEF TypeOK, ChipTypeOK, HalTypeOK, chip, update, Fault, ChangePassword, EnableUpdate, Boot
<1>1. CASE \E s \in Secrets : PrimaryUserCredential(s)
  BY <1>1 DEF PrimaryUserCredential
<1>2. CASE Enroll
  BY <1>2 DEF Enroll
<1>3. CASE Enable
  BY <1>3 DEF Enable, Counted
<1>4. CASE Reboot
  BY <1>4 DEF Reboot
<1>5. CASE HalDies
  BY <1>5 DEF HalDies
<1>6. CASE WriteImage
  BY <1>6 DEF WriteImage
<1>7. CASE ChipResets
  BY <1>7 DEF ChipResets
<1>8. CASE UNCHANGED vars
  BY <1>8 DEF vars, halVars
<1>9. CASE ToolNext /\ UNCHANGED halVars
  BY <1>9, ToolLeavesBank DEF halVars
<1> QED BY <1>1, <1>2, <1>3, <1>4, <1>5, <1>6, <1>7, <1>8, <1>9 DEF Next, HalNext, HalSteps

LEMMA InvNext == Inv /\ [Next]_vars => Inv'
<1> SUFFICES ASSUME Inv, [Next]_vars PROVE Inv'
  OBVIOUS
<1>0. TypeOK'
  BY TypeNext DEF Inv
<1> USE AuthSecretAssumption DEF chip, update, ChangePassword, EnableUpdate, Boot
<1>1. CASE \E s \in Secrets : PrimaryUserCredential(s)
  BY <1>0, <1>1, Quiet DEF PrimaryUserCredential
<1>2. CASE Enroll
  BY <1>0, <1>2, Quiet DEF Enroll
<1>3. CASE Enable
  <2>1. CASE UNCHANGED reboots
    BY <1>0, <1>3, <2>1, Quiet DEF Enable
  <2>2. CASE HeadersChanged /\ EnableUpdate(secret) /\ reboots' = Counted(reboots + 1)
    <3>1. UNCHANGED <<writes, oldFirmware>>
      BY <1>3, <2>2 DEF Enable, EnableUpdate
    <3>2. ~ oldFirmware => bank = "written" /\ bank' = "enabled"
      BY <2>2 DEF HeadersChanged
    <3> QED BY <1>0, <2>2, <3>1, <3>2 DEF Inv, TypeOK, ChipTypeOK, HalTypeOK, NotYetEnabled, Counted
  <2> QED BY <1>3, <2>1, <2>2 DEF Enable
<1>4. CASE Reboot
  BY <1>0, <1>4, Quiet DEF Reboot
<1>5. CASE HalDies
  BY <1>0, <1>5, Quiet DEF HalDies
<1>6. CASE WriteImage
  BY <1>0, <1>6 DEF WriteImage, Inv, TypeOK, ChipTypeOK, HalTypeOK, NotYetEnabled
<1>7. CASE ChipResets
  BY <1>0, <1>7, Quiet DEF ChipResets
<1>8. CASE UNCHANGED vars
  BY <1>0, <1>8, Quiet DEF vars, halVars
<1>9. CASE ToolNext /\ UNCHANGED halVars
  BY <1>0, <1>9, ToolLeavesBank, Quiet DEF halVars
<1> QED BY <1>1, <1>2, <1>3, <1>4, <1>5, <1>6, <1>7, <1>8, <1>9 DEF Next, HalNext, HalSteps

(* The HAL reboots the chip at most once for each image that was written   *)
(* (TryEnablingCitadelUpdate), whatever is lost and whoever unlocks.       *)
THEOREM RebootsBounded == Spec => []RebootsAreForUpdates
<1>1. Inv => RebootsAreForUpdates
  BY AuthSecretAssumption DEF Inv, TypeOK, ChipTypeOK, HalTypeOK, NotYetEnabled, RebootsAreForUpdates
<1> QED BY <1>1, InvInit, InvNext, PTL DEF Spec
-----------------------------------------------------------------------------
(* What the validation tool is in the middle of.                           *)
Scratch == "PMU_PWRDN_SCRATCH16"
Trigger == "TEMP_ADC_ONESHOT_ACQ"

Running == cmd # "none" /\ exit = "running"

ToolTypeOK ==
  /\ cmd \in Commands \cup {"none"}
  /\ count \in Nat
  /\ ret \in {"success", "failure"}
  /\ exit \in {"running", "success", "failure", "mismatch"}
  /\ disturbed \in BOOLEAN /\ booted \in BOOLEAN
  /\ fuse \in Nat
  /\ regs = [r \in Registers |-> regs[r]]

Started ==
  /\ cmd = "none" => exit = "running" /\ ret = "success" /\ step = 1 /\ disturbed = FALSE
  /\ Running => step \in 1..Len(Script(cmd))

(* A value that was corrupted is still there to be seen, unless the chip   *)
(* rebooted or there was a second fault.                                   *)
StressInv ==
  cmd = "stress-spi" =>
    /\ ret = "success"
    /\ disturbed => faults >= 1
    /\ exit = "running" /\ ~ booted =>
         /\ disturbed /\ faults <= 1 => step % 2 = 0 /\ regs[Scratch] # value
         /\ ~ disturbed /\ step % 2 = 0 => regs[Scratch] = value

HealthInv ==
  cmd = "health-check" =>
    /\ ret = "success" <=> ~ disturbed
    /\ exit # "running" => exit = ret

(* The four transactions of an acquisition, from 10 on. *)
Phase(k) == IF k \in 10..9 + 4 * Acquisitions THEN ((k - 10) % 4) + 1 ELSE 0

(* The sensor is configured register by register; then each acquisition    *)
(* sees the trigger go from 0 to 1 and waits.                              *)
Configured(k, f) ==
  /\ k > 3 => f["TEMP_ADC_CLKDIV2_ENABLE"] = \h1
  /\ k > 4 => f["TEMP_ADC_ANALOG_CTRL"] = \h33
  /\ k > 5 => f["TEMP_ADC_FSM_CTRL"] = \h3986e
  /\ k > 6 => f["TEMP_ADC_POWER_DOWN_B"] = \h1
  /\ k > 8 => f["TEMP_ADC_OPERATION"] = \h3

Acquiring(k, f, s) ==
  /\ Phase(k) = 2 => f[Trigger] = 0
  /\ Phase(k) = 3 => s = "pending"
  /\ Phase(k) = 4 => s = "fresh"

TempInv ==
  cmd = "get-temp" =>
    /\ ret = "success"
    /\ disturbed => booted
    /\ exit = "running" => (step > 13 => value \in Samples)
    /\ exit = "running" /\ ~ booted => Configured(step, regs) /\ Acquiring(step, regs, sample)
    /\ exit = "success" => value \in Samples /\ degrees = TempDegC(value, fuse % \h1000)

AlertsInv ==
  /\ cmd = "enable-alerts" /\ exit = "running" /\ ~ booted =>
       /\ step > 1 => regs["TRNG_MONITOR_STATS"] = \h3
       /\ step > 2 => regs["TRNG_CAMO_EN"] = \h1
       /\ step > 3 => regs["PMU_SW_PDB_SECURE"] = \h15
       /\ step > 4 => settled = TRUE
  /\ cmd = "disable-alerts" /\ exit = "running" /\ ~ booted =>
       /\ step > 1 => regs["TRNG_MONITOR_STATS"] = \h1
       /\ step > 2 => regs["TRNG_CAMO_EN"] = \h0

ToolInv ==
  /\ ToolTypeOK /\ Started
  /\ StressInv /\ StressVerdict
  /\ HealthInv /\ ResetVerified /\ TempInv /\ AlertsInv
-----------------------------------------------------------------------------
(* What each command does at each step.                                    *)
LEMMA StressScript ==
  ASSUME count \in Nat, NEW k \in 1..Len(CmdStressSpi)
  PROVE  /\ k % 2 = 1 => CmdStressSpi[k] = Do("writeRandom") /\ k # Len(CmdStressSpi)
         /\ k % 2 = 0 => CmdStressSpi[k] = Do("readBack")
<1> DEFINE n == count \div 2
           pair == <<Do("writeRandom"), Do("readBack")>>
<1>1. n \in Nat /\ Len(pair) = 2
  OBVIOUS
<1> HIDE DEF n, pair
<1>2. CmdStressSpi = [i \in 1..n * 2 |-> pair[((i - 1) % 2) + 1]]
  BY <1>1 DEF CmdStressSpi, Times, n, pair
<1>3. n * 2 \in Nat /\ (n * 2) % 2 = 0
  BY <1>1
<1>4. Len(CmdStressSpi) = n * 2
  BY <1>2, <1>3
<1>5. CmdStressSpi[k] = pair[((k - 1) % 2) + 1]
  BY <1>2, <1>4
<1>6. /\ k % 2 = 1 => ((k - 1) % 2) + 1 = 1
      /\ k % 2 = 0 => ((k - 1) % 2) + 1 = 2
  BY <1>3, <1>4
<1> QED BY <1>3, <1>4, <1>5, <1>6 DEF pair

LEMMA PairsLength ==
  ASSUME NEW n \in Nat, NEW a, NEW b
  PROVE  Len(Times(n, <<a, b>>)) = n * 2
<1>1. n * 2 \in Nat /\ Len(<<a, b>>) = 2
  OBVIOUS
<1> QED BY <1>1 DEF Times

LEMMA StressLength == ASSUME count \in Nat PROVE Len(CmdStressSpi) = (count \div 2) * 2
<1>1. count \div 2 \in Nat
  OBVIOUS
<1> QED BY <1>1, PairsLength DEF CmdStressSpi

IsCheck(c) ==
  \E r : \E inside \in BOOLEAN : \E min \in Nat : \E max \in Nat : c = Check(r, min, max, inside)

LEMMA HealthScript ==
  /\ Len(CmdHealthCheck) = 7
  /\ \A k \in 1..7 : IsCheck(CmdHealthCheck[k])
<1>1. ASSUME NEW r, NEW min \in Nat, NEW max \in Nat
      PROVE  IsCheck(InRange(r, min, max)) /\ IsCheck(NotInRange(r, min, max))
  <2>1. TRUE \in BOOLEAN /\ FALSE \in BOOLEAN
    OBVIOUS
  <2> QED BY ONLY <2>1, Zenon DEF IsCheck, InRange, NotInRange
<1>2. \A min \in Nat : \A max \in Nat :
        /\ IsCheck(NotInRange("TRNG_FSM_STATE", min, max))
        /\ IsCheck(InRange("TRNG_MAX_VALUE", min, max))
        /\ IsCheck(InRange("TRNG_MIN_VALUE", min, max))
        /\ IsCheck(InRange("TRNG_CUR_NUM_ONES", min, max))
        /\ IsCheck(InRange("PMU_RSTSRC", min, max))
        /\ IsCheck(InRange("GLOBALSEC_ALERT_INTR_STS0", min, max))
        /\ IsCheck(InRange("GLOBALSEC_ALERT_INTR_STS1", min, max))
  BY ONLY <1>1, Zenon
<1>3. /\ IsCheck(CmdHealthCheck[1]) /\ IsCheck(CmdHealthCheck[2]) /\ IsCheck(CmdHealthCheck[3])
      /\ IsCheck(CmdHealthCheck[4]) /\ IsCheck(CmdHealthCheck[5]) /\ IsCheck(CmdHealthCheck[6])
      /\ IsCheck(CmdHealthCheck[7])
  BY <1>2 DEF CmdHealthCheck
<1>4. Len(CmdHealthCheck) = 7
  BY DEF CmdHealthCheck
<1> QED BY <1>3, <1>4

LEMMA ResetScript ==
  Len(CmdReset) = 2 /\ CmdReset[1] = Do("reset") /\ CmdReset[2] = Do("readCycles")
BY DEF CmdReset

LEMMA EnableScript ==
  /\ Len(CmdEnableAlerts) = 5
  /\ CmdEnableAlerts[1] = Write("TRNG_MONITOR_STATS", \h3)
  /\ CmdEnableAlerts[2] = Write("TRNG_CAMO_EN", \h1)
  /\ CmdEnableAlerts[3] = Write("PMU_SW_PDB_SECURE", \h15)
  /\ CmdEnableAlerts[4] = Do("wait")
  /\ CmdEnableAlerts[5] = Write("PMU_SW_PDB_SECURE", \h3f)
BY DEF CmdEnableAlerts

LEMMA DisableScript ==
  /\ Len(CmdDisableAlerts) = 3
  /\ CmdDisableAlerts[1] = Write("TRNG_MONITOR_STATS", \h1)
  /\ CmdDisableAlerts[2] = Write("TRNG_CAMO_EN", \h0)
  /\ CmdDisableAlerts[3] = Write("PMU_SW_PDB_SECURE", \h0)
BY DEF CmdDisableAlerts

LEMMA AcquireScript ==
  /\ Len(Acquire) = 4
  /\ Acquire[1] = Write(Trigger, \h0)
  /\ Acquire[2] = Write(Trigger, \h1)
  /\ Acquire[3] = Do("wait")
  /\ Acquire[4] = Do("readSample")
BY DEF Acquire, Trigger

LEMMA ListIsSeq ==
  ASSUME NEW n \in Nat, NEW f, f = [i \in 1..n |-> f[i]]
  PROVE  f \in Seq({f[i] : i \in 1..n})
<1>1. f \in [1..n -> {f[i] : i \in 1..n}]
  OBVIOUS
<1> QED BY ONLY <1>1, n \in Nat, SeqDef

LEMMA Joined ==
  ASSUME NEW T, NEW s \in Seq(T), NEW t \in Seq(T)
  PROVE  /\ s \o t \in Seq(T) /\ Len(s \o t) = Len(s) + Len(t)
         /\ \A i \in 1..Len(s) : (s \o t)[i] = s[i]
         /\ \A i \in 1..Len(t) : (s \o t)[Len(s) + i] = t[i]
<1> DEFINE u == s \o t
           n == Len(s)
           m == Len(t)
<1>1. /\ u \in Seq(T) /\ Len(u) = n + m
      /\ \A i \in 1..n + m : u[i] = IF i <= n THEN s[i] ELSE t[i - n]
  BY ConcatProperties
<1>2. n \in Nat /\ m \in Nat
  BY LenProperties
<1> HIDE DEF u, n, m
<1>3. \A i \in 1..n : u[i] = s[i]
  BY <1>1, <1>2
<1>4. ASSUME NEW i \in 1..m PROVE u[n + i] = t[i]
  <2>1. n + i \in 1..n + m /\ ~ (n + i <= n) /\ (n + i) - n = i
    BY <1>2
  <2> QED BY <1>1, <2>1
<1> QED BY <1>1, <1>3, <1>4 DEF u, n, m

LEMMA TempScript ==
  ASSUME NEW k \in 1..10 + 4 * Acquisitions
  PROVE  /\ Len(CmdGetTemp) = 10 + 4 * Acquisitions
         /\ k = 1 => CmdGetTemp[k] = Write("TEMP_ADC_OPERATION", \h0)
         /\ k = 2 => CmdGetTemp[k] = Write("TEMP_ADC_POWER_DOWN_B", \h0)
         /\ k = 3 => CmdGetTemp[k] = Write("TEMP_ADC_CLKDIV2_ENABLE", \h1)
         /\ k = 4 => CmdGetTemp[k] = Write("TEMP_ADC_ANALOG_CTRL", \h33)
         /\ k = 5 => CmdGetTemp[k] = Write("TEMP_ADC_FSM_CTRL", \h3986e)
         /\ k = 6 => CmdGetTemp[k] = Write("TEMP_ADC_POWER_DOWN_B", \h1)
         /\ k = 7 => CmdGetTemp[k] = Write("TEMP_ADC_OPERATION", \h1)
         /\ k = 8 => CmdGetTemp[k] = Write("TEMP_ADC_OPERATION", \h3)
         /\ k = 9 => CmdGetTemp[k] = Write(Trigger, \h0)
         /\ k \in 10..9 + 4 * Acquisitions => CmdGetTemp[k] = Acquire[Phase(k)] /\ Phase(k) \in 1..4
         /\ k = 10 + 4 * Acquisitions => CmdGetTemp[k] = Do("readFuse")
<1> DEFINE A == Acquisitions
           pre == << Write("TEMP_ADC_OPERATION", \h0), Write("TEMP_ADC_POWER_DOWN_B", \h0),
                     Write("TEMP_ADC_CLKDIV2_ENABLE", \h1), Write("TEMP_ADC_ANALOG_CTRL", \h33),
                     Write("TEMP_ADC_FSM_CTRL", \h3986e), Write("TEMP_ADC_POWER_DOWN_B", \h1),
                     Write("TEMP_ADC_OPERATION", \h1), Write("TEMP_ADC_OPERATION", \h3),
                     Write("TEMP_ADC_ONESHOT_ACQ", \h0)>>
           mid == Times(A, Acquire)
           end == <<Do("readFuse")>>
<1>1. A \in Nat /\ A * 4 \in Nat
  BY ToolAssumption
<1>2. Len(pre) = 9 /\ Len(end) = 1 /\ end[1] = Do("readFuse")
  OBVIOUS
<1>3. /\ pre[1] = Write("TEMP_ADC_OPERATION", \h0)
      /\ pre[2] = Write("TEMP_ADC_POWER_DOWN_B", \h0)
      /\ pre[3] = Write("TEMP_ADC_CLKDIV2_ENABLE", \h1)
      /\ pre[4] = Write("TEMP_ADC_ANALOG_CTRL", \h33)
      /\ pre[5] = Write("TEMP_ADC_FSM_CTRL", \h3986e)
      /\ pre[6] = Write("TEMP_ADC_POWER_DOWN_B", \h1)
      /\ pre[7] = Write("TEMP_ADC_OPERATION", \h1)
      /\ pre[8] = Write("TEMP_ADC_OPERATION", \h3)
      /\ pre[9] = Write(Trigger, \h0)
  BY DEF Trigger
<1>4. mid = [i \in 1..A * 4 |-> Acquire[((i - 1) % 4) + 1]]
  BY AcquireScript DEF Times
<1>5. /\ Len(mid) = A * 4
      /\ \A i \in 1..A * 4 : mid[i] = Acquire[((i - 1) % 4) + 1]
  BY <1>1, <1>4
<1>6. /\ pre \in Seq({pre[i] : i \in 1..9})
      /\ mid \in Seq({mid[i] : i \in 1..A * 4})
      /\ end \in Seq({Do("readFuse")})
  <2>1. pre = [i \in 1..9 |-> pre[i]]
    OBVIOUS
  <2>2. pre \in Seq({pre[i] : i \in 1..9})
    BY ONLY <2>1, ListIsSeq
  <2>m. mid = [i \in 1..A * 4 |-> mid[i]]
    BY <1>4
  <2> HIDE DEF mid
  <2>3. mid \in Seq({mid[i] : i \in 1..A * 4})
    BY ONLY <1>1, <2>m, ListIsSeq
  <2> QED BY <2>2, <2>3
<1>7. CmdGetTemp = pre \o mid \o end
  BY DEF CmdGetTemp
<1> HIDE DEF pre, mid, end
<1> DEFINE T == {pre[i] : i \in 1..9} \cup {mid[i] : i \in 1..A * 4} \cup {Do("readFuse")}
<1>8. pre \in Seq(T) /\ mid \in Seq(T) /\ end \in Seq(T)
  BY <1>6
<1> HIDE DEF T
<1>9. /\ Len(CmdGetTemp) = 10 + 4 * A
      /\ \A i \in 1..9 : CmdGetTemp[i] = pre[i]
      /\ \A i \in 1..A * 4 : CmdGetTemp[9 + i] = mid[i]
      /\ CmdGetTemp[10 + 4 * A] = end[1]
  <2>1. /\ pre \o mid \in Seq(T) /\ Len(pre \o mid) = 9 + A * 4
        /\ \A i \in 1..9 : (pre \o mid)[i] = pre[i]
        /\ \A i \in 1..A * 4 : (pre \o mid)[9 + i] = mid[i]
    <3>1. /\ pre \o mid \in Seq(T) /\ Len(pre \o mid) = Len(pre) + Len(mid)
          /\ \A i \in 1..Len(pre) : (pre \o mid)[i] = pre[i]
          /\ \A i \in 1..Len(mid) : (pre \o mid)[Len(pre) + i] = mid[i]
      BY ONLY <1>8, Joined
    <3> QED BY <1>2, <1>5, <3>1
  <2> DEFINE w == pre \o mid
  <2>2. /\ Len(w \o end) = 10 + 4 * A
        /\ \A i \in 1..9 + A * 4 : (w \o end)[i] = w[i]
        /\ (w \o end)[10 + 4 * A] = end[1]
    <3>1. /\ w \in Seq(T) /\ end \in Seq(T) /\ Len(w) = 9 + A * 4 /\ Len(end) = 1
          /\ 1 \in 1..1
          /\ 9 + A * 4 + 1 = 10 + 4 * A
      BY <1>1, <1>2, <1>8, <2>1
    <3> HIDE DEF w
    <3>0. w \in Seq(T) /\ end \in Seq(T)
      BY <3>1
    <3>2. /\ Len(w \o end) = Len(w) + Len(end)
          /\ \A i \in 1..Len(w) : (w \o end)[i] = w[i]
          /\ \A i \in 1..Len(end) : (w \o end)[Len(w) + i] = end[i]
      BY ONLY <3>0, Joined
    <3> DEFINE u == w \o end
    <3> HIDE DEF u
    <3>3. \A i \in 1..Len(end) : u[Len(w) + i] = end[i]
      BY <3>2 DEF u
    <3>4. u[(9 + A * 4) + 1] = end[1]
      BY ONLY <3>1, <3>3
    <3>5. u[10 + 4 * A] = end[1]
      BY ONLY <3>1, <3>4
    <3> QED BY ONLY <3>1, <3>2, <3>5 DEF u
  <2>3. CmdGetTemp = w \o end
    BY <1>7
  <2>4. /\ \A i \in 1..9 : w[i] = pre[i]
        /\ \A i \in 1..A * 4 : w[9 + i] = mid[i]
    BY <2>1
  <2>5. /\ \A i \in 1..9 : i \in 1..9 + A * 4
        /\ \A i \in 1..A * 4 : 9 + i \in 1..9 + A * 4
    BY <1>1
  <2> DEFINE u == w \o end
  <2> HIDE DEF u, w
  <2> QED BY ONLY <2>2, <2>3, <2>4, <2>5 DEF u
<1>10. ASSUME k \in 10..9 + 4 * A
       PROVE  CmdGetTemp[k] = Acquire[Phase(k)] /\ Phase(k) \in 1..4
  <2> DEFINE i == k - 9
  <2>1. i \in 1..A * 4 /\ k = 9 + i
    BY <1>1, <1>10
  <2>2. CmdGetTemp[k] = Acquire[((i - 1) % 4) + 1]
    BY <1>5, <1>9, <2>1
  <2>3. Phase(k) = ((i - 1) % 4) + 1 /\ i - 1 \in Nat
    BY <1>1, <1>10 DEF Phase
  <2> QED BY <2>2, <2>3
<1>11. k \in 1..9 => CmdGetTemp[k] = pre[k]
  BY ONLY <1>9
<1>12. k = 10 + 4 * A => CmdGetTemp[k] = Do("readFuse")
  BY ONLY <1>2, <1>9
<1>13. 1 \in 1..9 /\ 2 \in 1..9 /\ 3 \in 1..9 /\ 4 \in 1..9 /\ 5 \in 1..9
       /\ 6 \in 1..9 /\ 7 \in 1..9 /\ 8 \in 1..9 /\ 9 \in 1..9
  OBVIOUS
<1>14. /\ k = 1 => CmdGetTemp[k] = Write("TEMP_ADC_OPERATION", \h0)
       /\ k = 2 => CmdGetTemp[k] = Write("TEMP_ADC_POWER_DOWN_B", \h0)
       /\ k = 3 => CmdGetTemp[k] = Write("TEMP_ADC_CLKDIV2_ENABLE", \h1)
       /\ k = 4 => CmdGetTemp[k] = Write("TEMP_ADC_ANALOG_CTRL", \h33)
       /\ k = 5 => CmdGetTemp[k] = Write("TEMP_ADC_FSM_CTRL", \h3986e)
       /\ k = 6 => CmdGetTemp[k] = Write("TEMP_ADC_POWER_DOWN_B", \h1)
       /\ k = 7 => CmdGetTemp[k] = Write("TEMP_ADC_OPERATION", \h1)
       /\ k = 8 => CmdGetTemp[k] = Write("TEMP_ADC_OPERATION", \h3)
       /\ k = 9 => CmdGetTemp[k] = Write(Trigger, \h0)
  BY ONLY <1>3, <1>11, <1>13
<1>15. Len(CmdGetTemp) = 10 + 4 * Acquisitions
  BY ONLY <1>9
<1> QED BY ONLY <1>10, <1>12, <1>14, <1>15

LEMMA ScriptLength ==
  ASSUME ToolTypeOK, cmd # "none"
  PROVE  Len(Script(cmd)) \in Nat
<1>1. CASE cmd = "stress-spi"
  BY <1>1, StressLength DEF ToolTypeOK, Script
<1>2. CASE cmd = "health-check"
  BY <1>2, HealthScript DEF Script
<1>3. CASE cmd = "reset"
  BY <1>3, ResetScript DEF Script
<1>4. CASE cmd = "enable-alerts"
  BY <1>4, EnableScript DEF Script
<1>5. CASE cmd = "disable-alerts"
  BY <1>5, DisableScript DEF Script
<1>6. CASE cmd = "get-temp"
  <2>1. 1 \in 1..10 + 4 * Acquisitions /\ 10 + 4 * Acquisitions \in Nat
    BY ToolAssumption
  <2> QED BY <1>6, <2>1, TempScript DEF Script
<1> QED BY <1>1, <1>2, <1>3, <1>4, <1>5, <1>6 DEF ToolTypeOK, Commands
-----------------------------------------------------------------------------
(* What a step does for any command.                                       *)

(* The registers are left alone but by a boot, which is remembered.        *)
BootAtMost == UNCHANGED analog \/ (booted' = TRUE /\ regs' = AfterReset)

LEMMA HalBootsAtMost ==
  ASSUME HalNext
  PROVE  BootAtMost /\ (faults' = faults \/ faults' = faults + 1)
<1> USE DEF BootAtMost, Fault, ChangePassword, EnableUpdate, Boot, chip, analog
<1>1. CASE \E s \in Secrets : PrimaryUserCredential(s)
  BY <1>1 DEF PrimaryUserCredential
<1>2. CASE Enroll
  BY <1>2 DEF Enroll
<1>3. CASE Enable
  BY <1>3 DEF Enable
<1>4. CASE Reboot
  BY <1>4 DEF Reboot
<1>5. CASE HalDies
  BY <1>5 DEF HalDies
<1>6. CASE WriteImage
  BY <1>6 DEF WriteImage
<1>7. CASE ChipResets
  BY <1>7 DEF ChipResets
<1> QED BY <1>1, <1>2, <1>3, <1>4, <1>5, <1>6, <1>7 DEF HalNext, HalSteps

(* A step that is none of the tool's.                                      *)
Aside == /\ UNCHANGED toolVars /\ BootAtMost
         /\ (faults' = faults \/ faults' = faults + 1)

LEMMA Steps ==
  ASSUME [Next]_vars
  PROVE  Aside \/ (\E c \in Commands, n \in 0..MaxCount : Main(c, n)) \/ ToolSteps
<1>1. CASE HalNext /\ UNCHANGED toolVars
  BY <1>1, HalBootsAtMost DEF Aside
<1>2. CASE UNCHANGED vars
  BY <1>2 DEF vars, Aside, BootAtMost, chip
<1> QED BY <1>1, <1>2 DEF Next, ToolNext

(* A transaction is followed by the next, or ends the command.             *)
Advances ==
  /\ Running
  /\ cmd' = cmd /\ count' = count /\ fuse' = fuse
  /\ \/ step # Len(Script(cmd)) /\ step' = step + 1 /\ exit' = exit
     \/ exit' \in {"success", "failure", "mismatch"}

LEMMA StepsAdvance == ASSUME ToolTypeOK, ToolSteps PROVE Advances
<1> USE DEF ToolTypeOK, Advances, Running, At, Goes, GoesWith, Exits
<1>1. CASE ToolWrites
  BY <1>1 DEF ToolWrites
<1>2. CASE ToolWritesRandom
  BY <1>2 DEF ToolWritesRandom
<1>3. CASE ToolReadsBack
  BY <1>3 DEF ToolReadsBack
<1>4. CASE ToolWaits
  BY <1>4 DEF ToolWaits
<1>5. CASE ToolChecks
  <2>1. ret' \in {"success", "failure"}
    BY <1>5 DEF ToolChecks, Checked
  <2> QED BY <1>5, <2>1 DEF ToolChecks
<1>6. CASE ToolResets
  BY <1>6 DEF ToolResets
<1>7. CASE ToolReadsCycles
  BY <1>7 DEF ToolReadsCycles
<1>8. CASE ToolReadsSample
  BY <1>8 DEF ToolReadsSample
<1>9. CASE ToolReadsFuse
  BY <1>9 DEF ToolReadsFuse
<1> QED BY <1>1, <1>2, <1>3, <1>4, <1>5, <1>6, <1>7, <1>8, <1>9 DEF ToolSteps

LEMMA ScriptStays == ASSUME cmd' = cmd, count' = count PROVE Script(cmd)' = Script(cmd)
BY DEF Script, CmdStressSpi

LEMMA AllOnIs == AllOn = [r \in Registers |-> AllOn[r]]
BY DEF AllOn, AfterReset

LEMMA ToolTypeInit == Init => ToolTypeOK
<1> SUFFICES ASSUME Init PROVE ToolTypeOK
  OBVIOUS
<1>1. AfterReset = [r \in Registers |-> AfterReset[r]]
  BY DEF AfterReset
<1>2. regs = [r \in Registers |-> regs[r]]
  <2>1. regs = AfterReset \/ regs = AllOn
    BY DEF Init, ChipInit
  <2> QED BY ONLY <1>1, <2>1, AllOnIs
<1>3. booted = FALSE /\ fuse \in Nat
  BY ToolAssumption DEF Init, ChipInit, ToolInit
<1> QED BY <1>2, <1>3 DEF Init, ToolInit, ToolTypeOK

LEMMA RegsNext ==
  ASSUME ToolTypeOK, [Next]_vars
  PROVE  /\ booted' \in BOOLEAN
         /\ regs' = [r \in Registers |-> regs'[r]]
<1> USE DEF ToolTypeOK, Boot, Write32, Elapse, chip, analog
<1>1. CASE Aside
  BY <1>1 DEF Aside, BootAtMost, AfterReset
<1>2. CASE \E c \in Commands, n \in 0..MaxCount : Main(c, n)
  BY <1>2 DEF Main
<1>3. CASE ToolWrites
  BY <1>3 DEF ToolWrites
<1>4. CASE ToolWritesRandom
  BY <1>4 DEF ToolWritesRandom
<1>5. CASE ToolReadsBack \/ ToolWaits \/ ToolChecks
  BY <1>5 DEF ToolReadsBack, ToolWaits, ToolChecks
<1>6. CASE ToolResets
  BY <1>6 DEF ToolResets, AfterReset
<1>7. CASE ToolReadsCycles \/ ToolReadsSample \/ ToolReadsFuse
  BY <1>7 DEF ToolReadsCycles, ToolReadsSample, ToolReadsFuse
<1> QED BY <1>1, <1>2, <1>3, <1>4, <1>5, <1>6, <1>7, Steps DEF ToolSteps

LEMMA ToolTypeNext == ASSUME ToolTypeOK, [Next]_vars PROVE ToolTypeOK'
<1>0. booted' \in BOOLEAN /\ regs' = [r \in Registers |-> regs'[r]]
  BY RegsNext
<1>1. CASE Aside
  BY <1>0, <1>1 DEF Aside, ToolTypeOK, toolVars
<1>2. CASE \E c \in Commands, n \in 0..MaxCount : Main(c, n)
  BY <1>0, <1>2, ToolAssumption DEF Main, ToolTypeOK
<1>3. CASE ToolSteps
  <2>1. /\ cmd' \in Commands \cup {"none"} /\ count' \in Nat /\ fuse' \in Nat
        /\ exit' \in {"running", "success", "failure", "mismatch"}
    BY <1>3, StepsAdvance DEF Advances, ToolTypeOK
  <2>2. ret' \in {"success", "failure"} /\ disturbed' \in BOOLEAN
    <3>0. ret \in {"success", "failure"} /\ disturbed \in BOOLEAN
      BY DEF ToolTypeOK
    <3>1. CASE ToolWrites
      BY <3>0, <3>1 DEF ToolWrites
    <3>2. CASE ToolWritesRandom
      <4>1. ret' = ret /\ (disturbed' = disturbed \/ disturbed' = TRUE)
        BY <3>2 DEF ToolWritesRandom
      <4> QED BY <3>0, <4>1
    <3>3. CASE ToolReadsBack
      <4>1. ret' = ret /\ (disturbed' = disturbed \/ disturbed' = TRUE)
        BY <3>3 DEF ToolReadsBack
      <4> QED BY <3>0, <4>1
    <3>4. CASE ToolWaits
      BY <3>0, <3>4 DEF ToolWaits
    <3>5. CASE ToolChecks
      <4>1. /\ ret' \in {ret, "failure"}
            /\ \/ disturbed' = TRUE
               \/ \E reading : disturbed' = (disturbed \/ (reading \in Here.min..Here.max) # Here.inside)
        BY <3>5 DEF ToolChecks, Checked
      <4>2. disturbed' \in BOOLEAN
        BY ONLY <3>0, <4>1, Zenon
      <4> QED BY <3>0, <4>1, <4>2
    <3>6. CASE ToolResets
      BY <3>0, <3>6 DEF ToolResets
    <3>7. CASE ToolReadsCycles
      BY <3>0, <3>7 DEF ToolReadsCycles
    <3>8. CASE ToolReadsSample
      <4>1. ret' = ret /\ (disturbed' = disturbed \/ disturbed' = (sample # "fresh"))
        BY <3>8 DEF ToolReadsSample
      <4> QED BY <3>0, <4>1
    <3>9. CASE ToolReadsFuse
      BY <3>0, <3>9 DEF ToolReadsFuse
    <3> QED BY <1>3, <3>1, <3>2, <3>3, <3>4, <3>5, <3>6, <3>7, <3>8, <3>9 DEF ToolSteps
  <2> QED BY <1>0, <2>1, <2>2 DEF ToolTypeOK
<1> QED BY <1>1, <1>2, <1>3, Steps

LEMMA StartedNext == ASSUME ToolTypeOK, Started, [Next]_vars PROVE Started'
<1>1. CASE Aside
  <2>1. Script(cmd)' = Script(cmd)
    BY <1>1, ScriptStays DEF Aside, toolVars
  <2>2. cmd' = cmd /\ exit' = exit /\ ret' = ret /\ step' = step /\ disturbed' = disturbed
    BY <1>1 DEF Aside, toolVars
  <2> QED BY <2>1, <2>2 DEF Started, Running
<1>2. CASE \E c \in Commands, n \in 0..MaxCount : Main(c, n)
  <2>1. PICK c \in Commands, n \in 0..MaxCount : Main(c, n)
    BY <1>2
  <2>2. /\ cmd' = c /\ count' = n /\ step' = 1 /\ c # "none"
        /\ exit' = "running" => n % 2 = 0 /\ (c = "stress-spi" => n # 0)
    BY <2>1 DEF Main, Started, Commands
  <2>3. ASSUME exit' = "running" PROVE 1 \in 1..Len(Script(cmd)')
    <3>1. CASE c = "stress-spi"
      <4>1. n \in Nat /\ n % 2 = 0 /\ n # 0
        BY <2>2, <2>3, <3>1, ToolAssumption
      <4>2. (n \div 2) * 2 >= 2 /\ (n \div 2) * 2 \in Nat
        BY <4>1
      <4>3. Len(CmdStressSpi)' = (n \div 2) * 2
        <5>1. n \div 2 \in Nat
          BY <4>1
        <5>2. Len(CmdStressSpi)' = Len(Times(n \div 2, <<Do("writeRandom"), Do("readBack")>>))
          BY <2>2 DEF CmdStressSpi
        <5> QED BY <5>1, <5>2, PairsLength
      <4> QED BY <2>2, <3>1, <4>2, <4>3 DEF Script
    <3>2. CASE c = "health-check"
      BY <2>2, <3>2, HealthScript DEF Script
    <3>3. CASE c = "reset"
      BY <2>2, <3>3, ResetScript DEF Script
    <3>4. CASE c = "enable-alerts"
      BY <2>2, <3>4, EnableScript DEF Script
    <3>5. CASE c = "disable-alerts"
      BY <2>2, <3>5, DisableScript DEF Script
    <3>6. CASE c = "get-temp"
      <4>1. 1 \in 1..10 + 4 * Acquisitions /\ 10 + 4 * Acquisitions \in Nat
        BY ToolAssumption
      <4> QED BY <2>2, <3>6, <4>1, TempScript DEF Script
    <3> QED BY <3>1, <3>2, <3>3, <3>4, <3>5, <3>6 DEF Commands
  <2> QED BY <2>2, <2>3 DEF Started, Running
<1>3. CASE ToolSteps
  <2>1. Advances
    BY <1>3, StepsAdvance
  <2>2. Script(cmd)' = Script(cmd)
    BY <2>1, ScriptStays DEF Advances
  <2>3. Len(Script(cmd)) \in Nat /\ step \in 1..Len(Script(cmd))
    BY <2>1, ScriptLength DEF Advances, Started, Running
  <2>4. cmd' # "none"
    BY <2>1 DEF Advances, Running
  <2>5. ASSUME exit' = "running" PROVE step' \in 1..Len(Script(cmd))
    BY <2>1, <2>3, <2>5 DEF Advances
  <2> QED BY <2>2, <2>4, <2>5 DEF Started, Running
<1> QED BY <1>1, <1>2, <1>3, Steps
-----------------------------------------------------------------------------
(* The commands, one by one.                                               *)

LEMMA WhichStep ==
  ASSUME ToolSteps
  PROVE  /\ Here.op = "write" => ToolWrites
         /\ Here.op = "writeRandom" => ToolWritesRandom
         /\ Here.op = "readBack" => ToolReadsBack
         /\ Here.op = "wait" => ToolWaits
         /\ Here.op = "check" => ToolChecks
         /\ Here.op = "reset" => ToolResets
         /\ Here.op = "readCycles" => ToolReadsCycles
         /\ Here.op = "readSample" => ToolReadsSample
         /\ Here.op = "readFuse" => ToolReadsFuse
<1>1. /\ ToolWrites => At("write")
      /\ ToolWritesRandom => At("writeRandom")
      /\ ToolReadsBack => At("readBack")
      /\ ToolWaits => At("wait")
      /\ ToolChecks => At("check")
  BY DEF ToolWrites, ToolWritesRandom, ToolReadsBack, ToolWaits, ToolChecks
<1>2. /\ ToolResets => At("reset")
      /\ ToolReadsCycles => At("readCycles")
      /\ ToolReadsSample => At("readSample")
      /\ ToolReadsFuse => At("readFuse")
  BY DEF ToolResets, ToolReadsCycles, ToolReadsSample, ToolReadsFuse
<1>3. \A op : At(op) => Here.op = op
  BY DEF At, Here
<1> QED BY <1>1, <1>2, <1>3 DEF ToolSteps

LEMMA StressNext ==
  ASSUME TypeOK, ToolTypeOK, Started, StressInv, StressVerdict, [Next]_vars
  PROVE  StressInv' /\ StressVerdict'
<1>0. faults \in Nat /\ faults' \in Nat
  <2>1. faults' = faults \/ faults' = faults + 1
    <3>1. CASE HalNext
      BY <3>1, HalBootsAtMost
    <3>2. CASE ToolNext
      BY <3>2, ToolLeavesBank DEF Fault
    <3> QED BY <3>1, <3>2 DEF Next, vars
  <2> QED BY <2>1, ChipAssumption DEF TypeOK, ChipTypeOK
<1>1. CASE Aside
  <2>1. /\ cmd' = cmd /\ exit' = exit /\ ret' = ret /\ step' = step /\ value' = value
        /\ disturbed' = disturbed
    BY <1>1 DEF Aside, toolVars
  <2>2. faults' >= faults
    BY <1>0, <1>1 DEF Aside
  <2>3. (regs' = regs /\ booted' = booted) \/ booted' = TRUE
    BY <1>1 DEF Aside, BootAtMost, analog
  <2>4. StressInv'
    BY <1>0, <2>1, <2>2, <2>3 DEF StressInv
  <2>5. StressVerdict'
    BY <1>0, <2>1, <2>2, <2>3 DEF StressVerdict
  <2> QED BY <2>4, <2>5
<1>2. CASE \E c \in Commands, n \in 0..MaxCount : Main(c, n)
  <2>1. /\ ret' = "success" /\ disturbed' = FALSE /\ step' = 1
        /\ exit' # "mismatch"
    BY <1>2 DEF Main, Started
  <2> QED BY <2>1 DEF StressInv, StressVerdict
<1>3. CASE ToolSteps /\ cmd' = "stress-spi"
  <2>1. Running /\ cmd = "stress-spi" /\ step \in 1..Len(CmdStressSpi)
    BY <1>3, StepsAdvance DEF Advances, Started, Running, Script
  <2>2. Here = CmdStressSpi[step]
    BY <2>1 DEF Here, Script
  <2>3. /\ step % 2 = 1 => Here = Do("writeRandom") /\ step # Len(CmdStressSpi)
        /\ step % 2 = 0 => Here = Do("readBack")
    BY <2>1, <2>2, StressScript DEF ToolTypeOK
  <2>4. step \in Nat /\ (step % 2 = 0 \/ step % 2 = 1)
    BY <2>1, ScriptLength DEF Running, Script
  <2>i. /\ ret = "success" /\ exit = "running"
        /\ disturbed => faults >= 1
        /\ ~ booted /\ disturbed /\ faults <= 1 => step % 2 = 0 /\ regs[Scratch] # value
        /\ ~ booted /\ ~ disturbed /\ step % 2 = 0 => regs[Scratch] = value
    BY <2>1 DEF StressInv, Running
  <2>6. CASE step % 2 = 1
    <3>1. Here.op = "writeRandom"
      BY <2>3, <2>6 DEF Do
    <3>2. ToolWritesRandom
      BY <1>3, <3>1, WhichStep
    <3>3. \A v : Write32(Scratch, v) => regs'[Scratch] = v /\ booted' = booted
      BY DEF Write32, ToolTypeOK, Scratch, Registers
    <3>4. ret' = "success"
      BY <2>i, <3>2 DEF ToolWritesRandom
    <3>5. (step + 1) % 2 = 0
      BY <2>4, <2>6
    <3>g. Goes => step' = step + 1 /\ exit' = "running"
      BY <2>1, <2>3, <2>6, <2>i DEF Goes, GoesWith, Script
    <3>6. CASE Write32(Scratch, value') /\ Goes /\ UNCHANGED <<faults, disturbed>>
      <4>1. /\ regs'[Scratch] = value' /\ booted' = booted /\ faults' = faults
            /\ disturbed' = disturbed /\ step' = step + 1 /\ exit' = "running"
        BY <3>3, <3>6, <3>g
      <4> QED BY <2>6, <2>i, <3>4, <3>5, <4>1 DEF StressInv, StressVerdict
    <3>7. CASE /\ Fault /\ Goes /\ disturbed' = TRUE
               /\ \E v \in Randoms \ {value'} : Write32(Scratch, v)
      <4>1. /\ regs'[Scratch] # value' /\ booted' = booted /\ faults' = faults + 1
            /\ disturbed' = TRUE /\ step' = step + 1 /\ exit' = "running"
        BY <3>3, <3>7, <3>g DEF Fault
      <4>2. faults' >= 1
        BY <1>0, <4>1
      <4> QED BY <3>4, <3>5, <4>1, <4>2 DEF StressInv, StressVerdict
    <3>8. CASE Fault /\ UNCHANGED disturbed /\ Exits("failure")
      <4>1. faults' >= 1 /\ exit' = "failure"
        BY <1>0, <3>8 DEF Fault, Exits
      <4> QED BY <3>4, <4>1 DEF StressInv, StressVerdict
    <3> QED BY <3>2, <3>6, <3>7, <3>8 DEF ToolWritesRandom, Scratch
  <2>7. CASE step % 2 = 0
    <3>1. Here.op = "readBack"
      BY <2>3, <2>7 DEF Do
    <3>2. ToolReadsBack
      BY <1>3, <3>1, WhichStep
    <3>3. /\ ret' = "success" /\ regs' = regs /\ booted' = booted /\ value' = value
      BY <2>i, <3>2 DEF ToolReadsBack, chip, analog
    <3>4. (step + 1) % 2 = 1
      BY <2>4, <2>7
    <3>g. Goes => exit' = "success" \/ (step' = step + 1 /\ exit' = "running")
      BY <2>1, <2>i DEF Goes, GoesWith, Exits, Script
    <3>5. CASE Fault /\ Exits("failure") /\ UNCHANGED disturbed
      <4>1. faults' >= 1 /\ exit' = "failure"
        BY <1>0, <3>5 DEF Fault, Exits
      <4> QED BY <3>3, <4>1 DEF StressInv, StressVerdict
    <3>6. ASSUME NEW read,
                 IF read = regs[Scratch] THEN UNCHANGED <<faults, disturbed>>
                 ELSE Fault /\ disturbed' = TRUE,
                 IF Verdict(read) = "same" THEN Goes ELSE Exits("mismatch")
          PROVE  StressInv' /\ StressVerdict'
      <4>1. \/ read = value /\ Goes
            \/ read # value /\ exit' = "mismatch"
        BY <3>6 DEF Verdict, Exits
      <4>2. CASE read = regs[Scratch]
        <5>1. faults' = faults /\ disturbed' = disturbed
          BY <3>6, <4>2
        <5>2. CASE read = value /\ Goes
          <6>1. ~ booted /\ faults <= 1 => ~ disturbed
            BY <2>i, <4>2, <5>2
          <6> QED BY <2>i, <3>3, <3>4, <3>g, <5>1, <5>2, <6>1 DEF StressInv, StressVerdict
        <5>3. CASE read # value /\ exit' = "mismatch"
          <6>1. disturbed \/ booted
            BY <2>7, <2>i, <4>2, <5>3
          <6> QED BY <2>i, <3>3, <5>1, <5>3, <6>1 DEF StressInv, StressVerdict
        <5> QED BY <4>1, <5>2, <5>3
      <4>3. CASE read # regs[Scratch]
        <5>1. faults' = faults + 1 /\ disturbed' = TRUE /\ faults' >= 1
          BY <1>0, <3>6, <4>3 DEF Fault
        <5>2. CASE read = value /\ Goes
          <6>1. booted \/ faults' > 1
            BY <1>0, <2>7, <2>i, <4>3, <5>1, <5>2
          <6> QED BY <1>0, <3>3, <3>4, <3>g, <5>1, <5>2, <6>1 DEF StressInv, StressVerdict
        <5>3. CASE read # value /\ exit' = "mismatch"
          BY <3>3, <5>1, <5>3 DEF StressInv, StressVerdict
        <5> QED BY <4>1, <5>2, <5>3
      <4> QED BY <4>2, <4>3
    <3> QED BY <3>2, <3>5, <3>6 DEF ToolReadsBack, Scratch
  <2> QED BY <2>4, <2>6, <2>7
<1>4. CASE ToolSteps /\ cmd' # "stress-spi"
  BY <1>4 DEF StressInv, StressVerdict
<1> QED BY <1>1, <1>2, <1>3, <1>4, Steps

LEMMA HealthNext ==
  ASSUME ToolTypeOK, Started, HealthInv, [Next]_vars
  PROVE  HealthInv'
<1>1. CASE Aside
  BY <1>1 DEF Aside, toolVars, HealthInv
<1>2. CASE \E c \in Commands, n \in 0..MaxCount : Main(c, n)
  <2>1. /\ ret' = "success" /\ disturbed' = FALSE
        /\ cmd' = "health-check" => exit' = "running"
    BY <1>2 DEF Main, Started
  <2> QED BY <2>1 DEF HealthInv
<1>3. CASE ToolSteps /\ cmd' = "health-check"
  <2>1. Running /\ cmd = "health-check" /\ step \in 1..7
    BY <1>3, StepsAdvance, HealthScript DEF Advances, Started, Running, Script
  <2>2. Here = CmdHealthCheck[step]
    BY <2>1 DEF Here, Script
  <2>3. PICK r : \E inside \in BOOLEAN : \E min \in Nat : \E max \in Nat : Here = Check(r, min, max, inside)
    BY <2>1, <2>2, HealthScript DEF IsCheck
  <2>4. PICK inside \in BOOLEAN : \E min \in Nat : \E max \in Nat : Here = Check(r, min, max, inside)
    BY <2>3
  <2>5. PICK min \in Nat : \E max \in Nat : Here = Check(r, min, max, inside)
    BY <2>4
  <2>6. PICK max \in Nat : Here = Check(r, min, max, inside)
    BY <2>5
  <2>7. /\ Here.op = "check" /\ Here.inside = inside /\ Here.min = min /\ Here.max = max
        /\ Here.readings \subseteq Nat
    BY <2>6 DEF Check
  <2>8. ToolChecks
    BY <1>3, <2>7, WhichStep
  <2>9. exit' = "running" \/ exit' = ret'
    BY <2>1, <2>8 DEF ToolChecks, GoesWith, Exits, Running
  <2>10. \A reading \in Nat : Passes(Here, reading) <=> ((reading \in min..max) <=> inside)
    <3>1. ASSUME NEW reading \in Nat
          PROVE  reading \in min..max <=> ~ (reading < min \/ reading > max)
      OBVIOUS
    <3>2. ASSUME NEW reading \in Nat
          PROVE  reading \in min..max <=> reading >= min /\ reading <= max
      OBVIOUS
    <3> QED BY <2>7, <3>1, <3>2 DEF Passes
  <2>11. ret = "success" <=> ~ disturbed
    BY <2>1 DEF HealthInv
  <2>12. ret' = "success" <=> ~ disturbed'
    <3>1. CASE ret' = Checked(FALSE) /\ disturbed' = TRUE
      BY <3>1 DEF Checked
    <3>2. CASE \E reading \in Here.readings :
                 /\ ret' = Checked(Passes(Here, reading))
                 /\ disturbed' = (disturbed \/ (reading \in Here.min..Here.max) # Here.inside)
      <4>1. PICK reading \in Nat :
                 /\ ret' = Checked(Passes(Here, reading))
                 /\ disturbed' = (disturbed \/ (reading \in min..max) # inside)
        BY <2>7, <3>2
      <4>2. ret' = "success" <=> ret = "success" /\ Passes(Here, reading)
        BY <4>1 DEF Checked
      <4>3. Passes(Here, reading) <=> ((reading \in min..max) <=> inside)
        BY <2>10
      <4>4. (reading \in min..max) \in BOOLEAN
        OBVIOUS
      <4> QED BY ONLY <2>4, <2>11, <4>1, <4>2, <4>3, <4>4, Zenon
    <3> QED BY <2>8, <3>1, <3>2 DEF ToolChecks
  <2> QED BY <2>9, <2>12 DEF HealthInv
<1>4. CASE ToolSteps /\ cmd' # "health-check"
  BY <1>4 DEF HealthInv
<1> QED BY <1>1, <1>2, <1>3, <1>4, Steps

LEMMA ResetNext ==
  ASSUME ToolTypeOK, Started, ResetVerified, [Next]_vars
  PROVE  ResetVerified'
<1>1. CASE Aside
  BY <1>1 DEF Aside, toolVars, ResetVerified, BootAtMost, analog
<1>2. CASE \E c \in Commands, n \in 0..MaxCount : Main(c, n)
  BY <1>2 DEF Main, Started, ResetVerified
<1>3. CASE ToolSteps /\ cmd' = "reset"
  <2>1. Running /\ cmd = "reset" /\ step \in 1..2 /\ Len(Script(cmd)) = 2
    BY <1>3, StepsAdvance, ResetScript DEF Advances, Started, Running, Script
  <2>2. Here = CmdReset[step]
    BY <2>1 DEF Here, Script
  <2>3. CASE step = 1
    <3>1. ToolResets
      BY <1>3, <2>2, <2>3, ResetScript, WhichStep DEF Do
    <3>2. exit' # "success"
      BY <2>1, <2>3, <3>1 DEF ToolResets, Goes, GoesWith, Exits, Running
    <3> QED BY <3>2 DEF ResetVerified
  <2>4. CASE step = 2
    <3>1. ToolReadsCycles
      BY <1>3, <2>2, <2>4, ResetScript, WhichStep DEF Do
    <3>2. CASE Exits("failure")
      BY <3>2 DEF Exits, ResetVerified
    <3>3. CASE \E uptime \in Uptimes :
                 /\ value' = uptime
                 /\ IF TooLong(uptime % Word) THEN Exits("failure") ELSE Goes
      <4>1. PICK uptime \in Uptimes :
                 /\ value' = uptime
                 /\ IF TooLong(uptime % Word) THEN Exits("failure") ELSE Goes
        BY <3>3
      <4>2. booted' = booted
        BY <3>1 DEF ToolReadsCycles, chip, analog
      <4>3. Word \in Nat /\ Word > 0
        BY ToolAssumption
      <4>4. /\ uptime \in {0, 105000, 105001, Word, Word + 105001}
            /\ uptime <= 105000 => booted
        <5>1. Limit = 105000
          BY DEF Limit
        <5>2. /\ uptime \in {0, Limit, Limit + 1, Word, Word + Limit + 1}
              /\ uptime <= Limit => booted
          BY DEF Uptimes
        <5>3. (Word + 105000) + 1 = Word + 105001
          BY ONLY <4>3
        <5> QED BY ONLY <5>1, <5>2, <5>3
      <4>5. uptime \in Nat
        BY <4>3, <4>4
      <4>6. CASE uptime < Word /\ ~ booted
        <5>1. uptime = 105001
          BY <4>3, <4>4, <4>6
        <5>2. uptime % Word = 105001
          BY <4>3, <4>6, <5>1
        <5>3. TooLong(uptime % Word)
          BY <5>2 DEF TooLong, Limit
        <5> QED BY <4>1, <5>3 DEF Exits, ResetVerified
      <4>7. CASE ~ (uptime < Word)
        <5>1. value' >= Word
          BY <4>1, <4>3, <4>5, <4>7
        <5> QED BY <5>1 DEF ResetVerified
      <4>8. CASE booted
        BY <4>2, <4>8 DEF ResetVerified
      <4> QED BY <4>6, <4>7, <4>8
    <3> QED BY <3>1, <3>2, <3>3 DEF ToolReadsCycles
  <2> QED BY <2>1, <2>3, <2>4
<1>4. CASE ToolSteps /\ cmd' # "reset"
  BY <1>4 DEF ResetVerified
<1> QED BY <1>1, <1>2, <1>3, <1>4, Steps

(* What WriteRegister does, when it does not fail.                         *)
LEMMA Written ==
  ASSUME ToolTypeOK, ToolWrites, NEW r \in Registers, NEW v, Here = Write(r, v)
  PROVE  /\ booted' = booted /\ ret' = ret /\ disturbed' = disturbed /\ value' = value
         /\ \/ exit' = "failure"
            \/ /\ Goes
               /\ regs'[r] = v
               /\ \A q \in Registers \ {r} : regs'[q] = regs[q]
               /\ sample' = IF Triggers(r, v) THEN "pending"
                            ELSE IF r \in TemperatureRegisters THEN "stale" ELSE sample
<1>1. Here.reg = r /\ Here.to = v
  BY DEF Write
<1>2. \/ Write32(r, v) /\ Goes
      \/ (Write32(r, v) \/ UNCHANGED chip) /\ exit' = "failure"
  BY <1>1 DEF ToolWrites, Exits
<1>3. ret' = ret /\ disturbed' = disturbed /\ value' = value
  BY DEF ToolWrites
<1>4. booted' = booted
  BY <1>2 DEF Write32, chip, analog
<1>5. CASE Write32(r, v) /\ Goes
  BY <1>3, <1>4, <1>5 DEF Write32, ToolTypeOK
<1>6. CASE exit' = "failure"
  BY <1>3, <1>4, <1>6
<1> QED BY <1>2, <1>5, <1>6

LEMMA Waited ==
  ASSUME ToolWaits
  PROVE  /\ booted' = booted /\ ret' = ret /\ disturbed' = disturbed /\ value' = value
         /\ regs' = regs /\ Goes
         /\ sample' = IF sample = "pending" THEN "fresh" ELSE sample
         /\ settled' = MonitorsRun(regs)
BY DEF ToolWaits, Elapse

LEMMA AlertsNext ==
  ASSUME ToolTypeOK, Started, AlertsInv, [Next]_vars
  PROVE  AlertsInv'
<1>1. CASE Aside
  BY <1>1 DEF Aside, toolVars, AlertsInv, BootAtMost, analog
<1>2. CASE \E c \in Commands, n \in 0..MaxCount : Main(c, n)
  BY <1>2 DEF Main, Started, AlertsInv
<1>m. /\ "TRNG_MONITOR_STATS" \in Registers /\ "TRNG_CAMO_EN" \in Registers
      /\ "PMU_SW_PDB_SECURE" \in Registers
  BY DEF Registers, MonitorRegisters
<1>3. CASE ToolSteps /\ cmd' = "enable-alerts"
  <2>1. Running /\ cmd = "enable-alerts" /\ step \in 1..5 /\ Len(Script(cmd)) = 5
    BY <1>3, StepsAdvance, EnableScript DEF Advances, Started, Running, Script
  <2>2. Here = CmdEnableAlerts[step]
    BY <2>1 DEF Here, Script
  <2>3. Goes => (step = 5 /\ exit' = ret /\ ret # "running") \/ (step' = step + 1 /\ step < 5)
    <3>1. ret # "running"
      BY DEF ToolTypeOK
    <3>2. Goes => IF step = 5 THEN exit' = ret ELSE step' = step + 1
      BY <2>1 DEF Goes, GoesWith, Exits
    <3>3. step # 5 => step < 5
      BY <2>1
    <3> QED BY ONLY <3>1, <3>2, <3>3
  <2>4. ~ booted =>
          /\ step > 1 => regs["TRNG_MONITOR_STATS"] = \h3
          /\ step > 2 => regs["TRNG_CAMO_EN"] = \h1
          /\ step > 3 => regs["PMU_SW_PDB_SECURE"] = \h15
    BY <2>1 DEF AlertsInv, Running
  <2>5. CASE step = 1
    <3>1. Here = Write("TRNG_MONITOR_STATS", \h3) /\ ToolWrites
      BY <1>3, <2>2, <2>5, EnableScript, WhichStep DEF Write
    <3> QED BY <1>3, <1>m, <2>3, <2>5, <3>1, Written DEF AlertsInv
  <2>6. CASE step = 2
    <3>1. Here = Write("TRNG_CAMO_EN", \h1) /\ ToolWrites
      BY <1>3, <2>2, <2>6, EnableScript, WhichStep DEF Write
    <3> QED BY <1>3, <1>m, <2>3, <2>4, <2>6, <3>1, Written DEF AlertsInv
  <2>7. CASE step = 3
    <3>1. Here = Write("PMU_SW_PDB_SECURE", \h15) /\ ToolWrites
      BY <1>3, <2>2, <2>7, EnableScript, WhichStep DEF Write
    <3> QED BY <1>3, <1>m, <2>3, <2>4, <2>7, <3>1, Written DEF AlertsInv
  <2>8. CASE step = 4
    <3>1. ToolWaits
      BY <1>3, <2>2, <2>8, EnableScript, WhichStep DEF Do
    <3>2. ~ booted => settled' = TRUE
      <4>1. ~ booted => regs["PMU_SW_PDB_SECURE"] = \h15
        BY <2>4, <2>8
      <4>2. regs["PMU_SW_PDB_SECURE"] = \h15 => MonitorsRun(regs)
        BY DEF MonitorsRun
      <4>3. settled' = MonitorsRun(regs)
        BY <3>1, Waited
      <4>4. MonitorsRun(regs) => MonitorsRun(regs) = TRUE
        BY Zenon DEF MonitorsRun
      <4> QED BY ONLY <4>1, <4>2, <4>3, <4>4, Zenon
    <3> QED BY <1>3, <2>3, <2>4, <2>8, <3>1, <3>2, Waited DEF AlertsInv
  <2>9. CASE step = 5
    <3>1. Here = Write("PMU_SW_PDB_SECURE", \h3f) /\ ToolWrites
      BY <1>3, <2>2, <2>9, EnableScript, WhichStep DEF Write
    <3> QED BY <1>3, <1>m, <2>3, <2>9, <3>1, Written DEF AlertsInv
  <2> QED BY <2>1, <2>5, <2>6, <2>7, <2>8, <2>9
<1>4. CASE ToolSteps /\ cmd' = "disable-alerts"
  <2>1. Running /\ cmd = "disable-alerts" /\ step \in 1..3 /\ Len(Script(cmd)) = 3
    BY <1>4, StepsAdvance, DisableScript DEF Advances, Started, Running, Script
  <2>2. Here = CmdDisableAlerts[step]
    BY <2>1 DEF Here, Script
  <2>3. Goes => (step = 3 /\ exit' = ret /\ ret # "running") \/ (step' = step + 1 /\ step < 3)
    <3>1. ret # "running"
      BY DEF ToolTypeOK
    <3>2. Goes => IF step = 3 THEN exit' = ret ELSE step' = step + 1
      BY <2>1 DEF Goes, GoesWith, Exits
    <3>3. step # 3 => step < 3
      BY <2>1
    <3> QED BY ONLY <3>1, <3>2, <3>3
  <2>4. ~ booted => (step > 1 => regs["TRNG_MONITOR_STATS"] = \h1)
    BY <2>1 DEF AlertsInv, Running
  <2>5. CASE step = 1
    <3>1. Here = Write("TRNG_MONITOR_STATS", \h1) /\ ToolWrites
      BY <1>4, <2>2, <2>5, DisableScript, WhichStep DEF Write
    <3> QED BY <1>4, <1>m, <2>3, <2>5, <3>1, Written DEF AlertsInv
  <2>6. CASE step = 2
    <3>1. Here = Write("TRNG_CAMO_EN", \h0) /\ ToolWrites
      BY <1>4, <2>2, <2>6, DisableScript, WhichStep DEF Write
    <3> QED BY <1>4, <1>m, <2>3, <2>4, <2>6, <3>1, Written DEF AlertsInv
  <2>7. CASE step = 3
    <3>1. Here = Write("PMU_SW_PDB_SECURE", \h0) /\ ToolWrites
      BY <1>4, <2>2, <2>7, DisableScript, WhichStep DEF Write
    <3> QED BY <1>4, <1>m, <2>3, <2>7, <3>1, Written DEF AlertsInv
  <2> QED BY <2>1, <2>5, <2>6, <2>7
<1>5. CASE ToolSteps /\ cmd' \notin {"enable-alerts", "disable-alerts"}
  BY <1>5 DEF AlertsInv
<1> QED BY <1>1, <1>2, <1>3, <1>4, <1>5, Steps

AlertsStep ==
  /\ cmd = "enable-alerts" /\ Says("success") /\ ~ booted =>
       settled /\ \A r \in MonitorRegisters : regs'[r] = AllOn[r]
  /\ cmd = "disable-alerts" /\ Says("success") /\ ~ booted =>
       ~ MonitorsRun(regs') /\ \A r \in MonitorRegisters : regs'[r] # AllOn[r]

LEMMA MonitorsOn ==
  /\ AllOn["TRNG_MONITOR_STATS"] = \h3
  /\ AllOn["TRNG_CAMO_EN"] = \h1
  /\ AllOn["PMU_SW_PDB_SECURE"] = \h3f
BY DEF AllOn, AfterReset, Registers, MonitorRegisters, TemperatureRegisters

LEMMA AlertsStepHolds ==
  ASSUME ToolTypeOK, Started, AlertsInv, [Next]_vars
  PROVE  AlertsStep
<1>m. /\ "TRNG_MONITOR_STATS" \in Registers /\ "TRNG_CAMO_EN" \in Registers
      /\ "PMU_SW_PDB_SECURE" \in Registers
  BY DEF Registers, MonitorRegisters
<1>0. SUFFICES ASSUME Says("success"), ~ booted, cmd \in {"enable-alerts", "disable-alerts"}
               PROVE  AlertsStep
  BY DEF AlertsStep
<1>1. ToolSteps
  BY <1>0, Steps DEF Says, Aside, toolVars, Main
<1>2. cmd' = cmd /\ Running
  BY <1>1, StepsAdvance DEF Advances
<1>3. CASE cmd = "enable-alerts"
  <2>1. step \in 1..5 /\ Len(Script(cmd)) = 5
    BY <1>2, <1>3, EnableScript DEF Started, Running, Script
  <2>2. Here = CmdEnableAlerts[step]
    BY <1>3 DEF Here, Script
  <2>3. Goes => step = 5
    BY <1>0, <2>1 DEF Goes, GoesWith, Says
  <2>4. step # 4
    <3>1. ASSUME step = 4 PROVE FALSE
      <4>1. ToolWaits
        BY <1>1, <2>2, <3>1, EnableScript, WhichStep DEF Do
      <4> QED BY <2>3, <3>1, <4>1, Waited
    <3> QED BY <3>1
  <2>5. ASSUME NEW r \in Registers, NEW v, Here = Write(r, v)
        PROVE  step = 5 /\ regs'[r] = v /\ \A q \in Registers \ {r} : regs'[q] = regs[q]
    <3>1. ToolWrites
      BY <1>1, <2>5, WhichStep DEF Write
    <3> QED BY <1>0, <2>3, <2>5, <3>1, Written DEF Says
  <2>6. step = 5
    BY <1>m, <2>1, <2>2, <2>4, <2>5, EnableScript
  <2>7. regs'["PMU_SW_PDB_SECURE"] = \h3f /\ \A q \in Registers \ {"PMU_SW_PDB_SECURE"} : regs'[q] = regs[q]
    BY <1>m, <2>2, <2>5, <2>6, EnableScript
  <2>8. settled = TRUE /\ regs["TRNG_MONITOR_STATS"] = \h3 /\ regs["TRNG_CAMO_EN"] = \h1
    BY <1>0, <1>2, <1>3, <2>6 DEF AlertsInv, Running
  <2>9. regs'["TRNG_MONITOR_STATS"] = \h3 /\ regs'["TRNG_CAMO_EN"] = \h1
    BY <1>m, <2>7, <2>8
  <2>10. \A r \in MonitorRegisters : regs'[r] = AllOn[r]
    BY <2>7, <2>9, MonitorsOn DEF MonitorRegisters
  <2> QED BY <1>3, <2>8, <2>10 DEF AlertsStep
<1>4. CASE cmd = "disable-alerts"
  <2>1. step \in 1..3 /\ Len(Script(cmd)) = 3
    BY <1>2, <1>4, DisableScript DEF Started, Running, Script
  <2>2. Here = CmdDisableAlerts[step]
    BY <1>4 DEF Here, Script
  <2>3. Goes => step = 3
    BY <1>0, <2>1 DEF Goes, GoesWith, Says
  <2>5. ASSUME NEW r \in Registers, NEW v, Here = Write(r, v)
        PROVE  step = 3 /\ regs'[r] = v /\ \A q \in Registers \ {r} : regs'[q] = regs[q]
    <3>1. ToolWrites
      BY <1>1, <2>5, WhichStep DEF Write
    <3> QED BY <1>0, <2>3, <2>5, <3>1, Written DEF Says
  <2>6. step = 3
    BY <1>m, <2>1, <2>2, <2>5, DisableScript
  <2>7. regs'["PMU_SW_PDB_SECURE"] = \h0 /\ \A q \in Registers \ {"PMU_SW_PDB_SECURE"} : regs'[q] = regs[q]
    BY <1>m, <2>2, <2>5, <2>6, DisableScript
  <2>8. regs["TRNG_MONITOR_STATS"] = \h1 /\ regs["TRNG_CAMO_EN"] = \h0
    BY <1>0, <1>2, <1>4, <2>6 DEF AlertsInv, Running
  <2>9. regs'["TRNG_MONITOR_STATS"] = \h1 /\ regs'["TRNG_CAMO_EN"] = \h0
    BY <1>m, <2>7, <2>8
  <2>10. \A r \in MonitorRegisters : regs'[r] # AllOn[r]
    BY <2>7, <2>9, MonitorsOn DEF MonitorRegisters
  <2>11. ~ MonitorsRun(regs')
    BY <2>7 DEF MonitorsRun
  <2> QED BY <1>4, <2>10, <2>11 DEF AlertsStep
<1> QED BY <1>0, <1>3, <1>4

(* The next transaction of an acquisition.                                 *)
LEMMA Phases ==
  ASSUME NEW k \in 1..9 + 4 * Acquisitions
  PROVE  /\ k \in 10..9 + 4 * Acquisitions => k > 8 /\ Phase(k) \in 1..4
         /\ k < 10 => Phase(k + 1) \in {0, 1} /\ ~ (k + 1 > 13)
         /\ Phase(k) \in 1..3 => Phase(k + 1) = Phase(k) + 1 /\ (k + 1 > 13 => k > 13)
         /\ Phase(k) = 4 => Phase(k + 1) \in {0, 1}
<1>1. Acquisitions \in Nat
  BY ToolAssumption
<1>2. CASE k < 10
  BY <1>1, <1>2 DEF Phase
<1>3. CASE k \in 10..9 + 4 * Acquisitions
  <2> DEFINE j == k - 10
             A == Acquisitions
  <2>1. j \in 0..4 * A - 1 /\ k = j + 10 /\ Phase(k) = (j % 4) + 1
    BY <1>1, <1>3 DEF Phase
  <2>2. Phase(k + 1) = IF j + 1 < 4 * A THEN ((j + 1) % 4) + 1 ELSE 0
    BY <1>1, <1>3 DEF Phase
  <2> HIDE DEF j
  <2>3. j % 4 \in 0..3 /\ (j + 1) % 4 = IF j % 4 = 3 THEN 0 ELSE (j % 4) + 1
    BY <2>1
  <2>4. j + 1 = 4 * A => j % 4 = 3
    BY <1>1, <2>1
  <2>5. j % 4 # 3 => j + 1 < 4 * A
    BY <1>1, <2>1, <2>4
  <2>6. j = 3 => j % 4 = 3
    OBVIOUS
  <2>7. j % 4 # 3 => (k + 1 > 13 => k > 13)
    BY <2>1, <2>6
  <2> QED BY <1>3, <2>1, <2>2, <2>3, <2>5, <2>7
<1> QED BY <1>1, <1>2, <1>3

LEMMA SensorOn ==
  /\ AllOn["TEMP_ADC_OPERATION"] = \h3
  /\ AllOn["TEMP_ADC_POWER_DOWN_B"] = \h1
  /\ AllOn["TEMP_ADC_CLKDIV2_ENABLE"] = \h1
  /\ AllOn["TEMP_ADC_ANALOG_CTRL"] = \h33
  /\ AllOn["TEMP_ADC_FSM_CTRL"] = \h3986e
BY DEF AllOn, AfterReset, Registers, MonitorRegisters, TemperatureRegisters

(* A write of the configuration leaves what earlier ones wrote, or replaces  *)
(* what is not needed any more.                                              *)
LEMMA Configures ==
  ASSUME NEW k \in 1..9
  PROVE  \E r \in TemperatureRegisters : \E v :
           /\ CmdGetTemp[k] = Write(r, v)
           /\ \A f, g :
                /\ Configured(k, f)
                /\ g[r] = v
                /\ \A q \in TemperatureRegisters \ {r} : g[q] = f[q]
                => Configured(k + 1, g)
<1>1. k \in 1..10 + 4 * Acquisitions
  BY ToolAssumption
<1>2. TemperatureRegisters = {
        "TEMP_ADC_OPERATION", "TEMP_ADC_POWER_DOWN_B", "TEMP_ADC_CLKDIV2_ENABLE",
        "TEMP_ADC_ANALOG_CTRL", "TEMP_ADC_FSM_CTRL", Trigger}
  BY DEF TemperatureRegisters, Trigger
<1>11. CASE k = 1
  <2>1. CmdGetTemp[k] = Write("TEMP_ADC_OPERATION", \h0) /\ "TEMP_ADC_OPERATION" \in TemperatureRegisters
    BY <1>1, <1>2, <1>11, TempScript
  <2>2. ASSUME NEW f, NEW g, Configured(k, f), g["TEMP_ADC_OPERATION"] = \h0,
               \A q \in TemperatureRegisters \ {"TEMP_ADC_OPERATION"} : g[q] = f[q]
        PROVE  Configured(k + 1, g)
    BY ONLY <1>11, <2>2 DEF Configured
  <2> QED BY ONLY <2>1, <2>2
<1>12. CASE k = 2
  <2>1. CmdGetTemp[k] = Write("TEMP_ADC_POWER_DOWN_B", \h0) /\ "TEMP_ADC_POWER_DOWN_B" \in TemperatureRegisters
    BY <1>1, <1>2, <1>12, TempScript
  <2>2. ASSUME NEW f, NEW g, Configured(k, f), g["TEMP_ADC_POWER_DOWN_B"] = \h0,
               \A q \in TemperatureRegisters \ {"TEMP_ADC_POWER_DOWN_B"} : g[q] = f[q]
        PROVE  Configured(k + 1, g)
    BY ONLY <1>12, <2>2 DEF Configured
  <2> QED BY ONLY <2>1, <2>2
<1>13. CASE k = 3
  <2>1. CmdGetTemp[k] = Write("TEMP_ADC_CLKDIV2_ENABLE", \h1) /\ "TEMP_ADC_CLKDIV2_ENABLE" \in TemperatureRegisters
    BY <1>1, <1>2, <1>13, TempScript
  <2>2. ASSUME NEW f, NEW g, Configured(k, f), g["TEMP_ADC_CLKDIV2_ENABLE"] = \h1,
               \A q \in TemperatureRegisters \ {"TEMP_ADC_CLKDIV2_ENABLE"} : g[q] = f[q]
        PROVE  Configured(k + 1, g)
    BY ONLY <1>13, <2>2 DEF Configured
  <2> QED BY ONLY <2>1, <2>2
<1>14. CASE k = 4
  <2>1. CmdGetTemp[k] = Write("TEMP_ADC_ANALOG_CTRL", \h33) /\ "TEMP_ADC_ANALOG_CTRL" \in TemperatureRegisters
    BY <1>1, <1>2, <1>14, TempScript
  <2>2. ASSUME NEW f, NEW g, Configured(k, f), g["TEMP_ADC_ANALOG_CTRL"] = \h33,
               \A q \in TemperatureRegisters \ {"TEMP_ADC_ANALOG_CTRL"} : g[q] = f[q]
        PROVE  Configured(k + 1, g)
    <3>1. /\ f["TEMP_ADC_CLKDIV2_ENABLE"] = \h1 /\ g["TEMP_ADC_CLKDIV2_ENABLE"] = f["TEMP_ADC_CLKDIV2_ENABLE"]
      BY ONLY <1>2, <1>14, <2>2 DEF Configured, Trigger
    <3> QED BY ONLY <1>14, <2>2, <3>1 DEF Configured
  <2> QED BY ONLY <2>1, <2>2
<1>15. CASE k = 5
  <2>1. CmdGetTemp[k] = Write("TEMP_ADC_FSM_CTRL", \h3986e) /\ "TEMP_ADC_FSM_CTRL" \in TemperatureRegisters
    BY <1>1, <1>2, <1>15, TempScript
  <2>2. ASSUME NEW f, NEW g, Configured(k, f), g["TEMP_ADC_FSM_CTRL"] = \h3986e,
               \A q \in TemperatureRegisters \ {"TEMP_ADC_FSM_CTRL"} : g[q] = f[q]
        PROVE  Configured(k + 1, g)
    <3>1. /\ f["TEMP_ADC_CLKDIV2_ENABLE"] = \h1 /\ g["TEMP_ADC_CLKDIV2_ENABLE"] = f["TEMP_ADC_CLKDIV2_ENABLE"]
          /\ f["TEMP_ADC_ANALOG_CTRL"] = \h33 /\ g["TEMP_ADC_ANALOG_CTRL"] = f["TEMP_ADC_ANALOG_CTRL"]
      BY ONLY <1>2, <1>15, <2>2 DEF Configured, Trigger
    <3> QED BY ONLY <1>15, <2>2, <3>1 DEF Configured
  <2> QED BY ONLY <2>1, <2>2
<1>16. CASE k = 6
  <2>1. CmdGetTemp[k] = Write("TEMP_ADC_POWER_DOWN_B", \h1) /\ "TEMP_ADC_POWER_DOWN_B" \in TemperatureRegisters
    BY <1>1, <1>2, <1>16, TempScript
  <2>2. ASSUME NEW f, NEW g, Configured(k, f), g["TEMP_ADC_POWER_DOWN_B"] = \h1,
               \A q \in TemperatureRegisters \ {"TEMP_ADC_POWER_DOWN_B"} : g[q] = f[q]
        PROVE  Configured(k + 1, g)
    <3>1. /\ f["TEMP_ADC_CLKDIV2_ENABLE"] = \h1 /\ g["TEMP_ADC_CLKDIV2_ENABLE"] = f["TEMP_ADC_CLKDIV2_ENABLE"]
          /\ f["TEMP_ADC_ANALOG_CTRL"] = \h33 /\ g["TEMP_ADC_ANALOG_CTRL"] = f["TEMP_ADC_ANALOG_CTRL"]
          /\ f["TEMP_ADC_FSM_CTRL"] = \h3986e /\ g["TEMP_ADC_FSM_CTRL"] = f["TEMP_ADC_FSM_CTRL"]
      BY ONLY <1>2, <1>16, <2>2 DEF Configured, Trigger
    <3> QED BY ONLY <1>16, <2>2, <3>1 DEF Configured
  <2> QED BY ONLY <2>1, <2>2
<1>17. CASE k = 7
  <2>1. CmdGetTemp[k] = Write("TEMP_ADC_OPERATION", \h1) /\ "TEMP_ADC_OPERATION" \in TemperatureRegisters
    BY <1>1, <1>2, <1>17, TempScript
  <2>2. ASSUME NEW f, NEW g, Configured(k, f), g["TEMP_ADC_OPERATION"] = \h1,
               \A q \in TemperatureRegisters \ {"TEMP_ADC_OPERATION"} : g[q] = f[q]
        PROVE  Configured(k + 1, g)
    <3>1. /\ f["TEMP_ADC_CLKDIV2_ENABLE"] = \h1 /\ g["TEMP_ADC_CLKDIV2_ENABLE"] = f["TEMP_ADC_CLKDIV2_ENABLE"]
          /\ f["TEMP_ADC_ANALOG_CTRL"] = \h33 /\ g["TEMP_ADC_ANALOG_CTRL"] = f["TEMP_ADC_ANALOG_CTRL"]
          /\ f["TEMP_ADC_FSM_CTRL"] = \h3986e /\ g["TEMP_ADC_FSM_CTRL"] = f["TEMP_ADC_FSM_CTRL"]
          /\ f["TEMP_ADC_POWER_DOWN_B"] = \h1 /\ g["TEMP_ADC_POWER_DOWN_B"] = f["TEMP_ADC_POWER_DOWN_B"]
      BY ONLY <1>2, <1>17, <2>2 DEF Configured, Trigger
    <3> QED BY ONLY <1>17, <2>2, <3>1 DEF Configured
  <2> QED BY ONLY <2>1, <2>2
<1>18. CASE k = 8
  <2>1. CmdGetTemp[k] = Write("TEMP_ADC_OPERATION", \h3) /\ "TEMP_ADC_OPERATION" \in TemperatureRegisters
    BY <1>1, <1>2, <1>18, TempScript
  <2>2. ASSUME NEW f, NEW g, Configured(k, f), g["TEMP_ADC_OPERATION"] = \h3,
               \A q \in TemperatureRegisters \ {"TEMP_ADC_OPERATION"} : g[q] = f[q]
        PROVE  Configured(k + 1, g)
    <3>1. /\ f["TEMP_ADC_CLKDIV2_ENABLE"] = \h1 /\ g["TEMP_ADC_CLKDIV2_ENABLE"] = f["TEMP_ADC_CLKDIV2_ENABLE"]
          /\ f["TEMP_ADC_ANALOG_CTRL"] = \h33 /\ g["TEMP_ADC_ANALOG_CTRL"] = f["TEMP_ADC_ANALOG_CTRL"]
          /\ f["TEMP_ADC_FSM_CTRL"] = \h3986e /\ g["TEMP_ADC_FSM_CTRL"] = f["TEMP_ADC_FSM_CTRL"]
          /\ f["TEMP_ADC_POWER_DOWN_B"] = \h1 /\ g["TEMP_ADC_POWER_DOWN_B"] = f["TEMP_ADC_POWER_DOWN_B"]
      BY ONLY <1>2, <1>18, <2>2 DEF Configured, Trigger
    <3> QED BY ONLY <1>18, <2>2, <3>1 DEF Configured
  <2> QED BY ONLY <2>1, <2>2
<1>19. CASE k = 9
  <2>1. CmdGetTemp[k] = Write(Trigger, \h0) /\ Trigger \in TemperatureRegisters
    BY <1>1, <1>2, <1>19, TempScript
  <2>2. ASSUME NEW f, NEW g, Configured(k, f), g[Trigger] = \h0,
               \A q \in TemperatureRegisters \ {Trigger} : g[q] = f[q]
        PROVE  Configured(k + 1, g)
    <3>1. /\ f["TEMP_ADC_CLKDIV2_ENABLE"] = \h1 /\ g["TEMP_ADC_CLKDIV2_ENABLE"] = f["TEMP_ADC_CLKDIV2_ENABLE"]
          /\ f["TEMP_ADC_ANALOG_CTRL"] = \h33 /\ g["TEMP_ADC_ANALOG_CTRL"] = f["TEMP_ADC_ANALOG_CTRL"]
          /\ f["TEMP_ADC_FSM_CTRL"] = \h3986e /\ g["TEMP_ADC_FSM_CTRL"] = f["TEMP_ADC_FSM_CTRL"]
          /\ f["TEMP_ADC_POWER_DOWN_B"] = \h1 /\ g["TEMP_ADC_POWER_DOWN_B"] = f["TEMP_ADC_POWER_DOWN_B"]
          /\ f["TEMP_ADC_OPERATION"] = \h3 /\ g["TEMP_ADC_OPERATION"] = f["TEMP_ADC_OPERATION"]
      BY ONLY <1>2, <1>19, <2>2 DEF Configured, Trigger
    <3> QED BY ONLY <1>19, <2>2, <3>1 DEF Configured
  <2> QED BY ONLY <2>1, <2>2
<1> QED BY <1>11, <1>12, <1>13, <1>14, <1>15, <1>16, <1>17, <1>18, <1>19

LEMMA TempNext ==
  ASSUME ToolTypeOK, Started, TempInv, [Next]_vars
  PROVE  TempInv'
<1>a. CASE Aside
  <2>1. (regs' = regs /\ sample' = sample /\ booted' = booted) \/ booted' = TRUE
    BY <1>a DEF Aside, BootAtMost, analog
  <2>2. /\ cmd' = cmd /\ ret' = ret /\ exit' = exit /\ step' = step /\ value' = value
        /\ fuse' = fuse /\ degrees' = degrees /\ disturbed' = disturbed
    BY <1>a DEF Aside, toolVars
  <2> QED BY <2>1, <2>2 DEF TempInv, Configured, Acquiring
<1>b. CASE \E c \in Commands, n \in 0..MaxCount : Main(c, n)
  <2>1. /\ ret' = "success" /\ disturbed' = FALSE /\ step' = 1
        /\ cmd' = "get-temp" => exit' = "running"
    BY <1>b DEF Main, Started
  <2>2. Phase(1) = 0
    BY DEF Phase
  <2> QED BY <2>1, <2>2 DEF TempInv, Configured, Acquiring
<1>d. CASE ToolSteps /\ cmd' # "get-temp"
  BY <1>d DEF TempInv
<1> SUFFICES ASSUME ToolSteps, cmd' = "get-temp" PROVE TempInv'
  BY <1>a, <1>b, <1>d, Steps
<1>l. 1 \in 1..10 + 4 * Acquisitions /\ 10 + 4 * Acquisitions \in Nat /\ Acquisitions \in Nat
      /\ Acquisitions >= 1
  BY ToolAssumption
<1>0. Running /\ cmd = "get-temp" /\ fuse' = fuse
  BY StepsAdvance DEF Advances
<1>1. step \in 1..10 + 4 * Acquisitions /\ Len(Script(cmd)) = 10 + 4 * Acquisitions
      /\ Here = CmdGetTemp[step]
  BY <1>0, <1>l, TempScript DEF Started, Running, Script, Here
<1>2. /\ ret = "success"
      /\ disturbed => booted
      /\ step > 13 => value \in Samples
      /\ ~ booted => Configured(step, regs) /\ Acquiring(step, regs, sample)
  BY <1>0 DEF TempInv, Running
<1>3. step # 10 + 4 * Acquisitions /\ Goes => step' = step + 1 /\ exit' = "running"
  BY <1>0, <1>1 DEF Goes, GoesWith, Running
<1>r. /\ Registers = MonitorRegisters \cup TemperatureRegisters \cup {Scratch}
      /\ TemperatureRegisters = {
           "TEMP_ADC_OPERATION", "TEMP_ADC_POWER_DOWN_B", "TEMP_ADC_CLKDIV2_ENABLE",
           "TEMP_ADC_ANALOG_CTRL", "TEMP_ADC_FSM_CTRL", Trigger}
  BY DEF Registers, TemperatureRegisters, Scratch, Trigger
(* A step that fails. *)
<1>f. ASSUME exit' \notin {"running", "success"}, ret' = ret, disturbed' = disturbed, booted' = booted
      PROVE  TempInv'
  BY <1>2, <1>f DEF TempInv
(* A step that goes on. *)
<1>g. ASSUME step # 10 + 4 * Acquisitions, Goes, ret' = ret, booted' = booted,
             disturbed' => booted,
             step + 1 > 13 => value' \in Samples,
             ~ booted => Configured(step + 1, regs') /\ Acquiring(step + 1, regs', sample')
      PROVE  TempInv'
  <2>1. step' = step + 1 /\ exit' = "running"
    BY <1>3, <1>g
  <2> QED BY ONLY <1>2, <1>g, <2>1 DEF TempInv
(* A step of the configuration. *)
<1>c. CASE step \in 1..9
  <2>1. PICK r \in TemperatureRegisters : \E v :
           /\ CmdGetTemp[step] = Write(r, v)
           /\ \A f, g :
                /\ Configured(step, f)
                /\ g[r] = v
                /\ \A q \in TemperatureRegisters \ {r} : g[q] = f[q]
                => Configured(step + 1, g)
    BY <1>c, Configures
  <2>2. PICK v :
           /\ CmdGetTemp[step] = Write(r, v)
           /\ \A f, g :
                /\ Configured(step, f)
                /\ g[r] = v
                /\ \A q \in TemperatureRegisters \ {r} : g[q] = f[q]
                => Configured(step + 1, g)
    BY ONLY <2>1
  <2>3. Here = Write(r, v)
    BY ONLY <1>1, <2>2
  <2>4. ToolWrites
    BY <2>3, WhichStep DEF Write
  <2>5. r \in Registers
    BY DEF Registers
  <2>6. /\ booted' = booted /\ ret' = ret /\ disturbed' = disturbed
        /\ \/ exit' = "failure"
           \/ /\ Goes
              /\ regs'[r] = v
              /\ \A q \in Registers \ {r} : regs'[q] = regs[q]
    BY <2>3, <2>4, <2>5, Written
  <2>7. CASE exit' = "failure"
    BY ONLY <1>f, <2>6, <2>7
  <2>8. CASE /\ Goes
             /\ regs'[r] = v
             /\ \A q \in Registers \ {r} : regs'[q] = regs[q]
    <3>1. step # 10 + 4 * Acquisitions /\ ~ (step + 1 > 13)
      BY ONLY <1>l, <1>c
    <3>2. Phase(step + 1) \in {0, 1}
      BY <1>l, <1>c, Phases
    <3>3. Acquiring(step + 1, regs', sample')
      BY ONLY <3>2 DEF Acquiring
    <3>4. \A q \in TemperatureRegisters \ {r} : regs'[q] = regs[q]
      BY ONLY <2>8 DEF Registers
    <3>5. ~ booted => Configured(step + 1, regs')
      BY ONLY <1>2, <2>2, <2>8, <3>4
    <3>6. ret' = ret /\ booted' = booted /\ (disturbed' => booted)
      BY ONLY <1>2, <2>6
    <3> QED BY ONLY <1>g, <2>8, <3>1, <3>3, <3>5, <3>6
  <2> QED BY ONLY <2>6, <2>7, <2>8
<1>c1. ~ booted => Configured(step, regs)
  BY <1>2
(* An acquisition. *)
<1>20. CASE step \in 10..9 + 4 * Acquisitions
  <2>1. Phase(step) \in 1..4 /\ Here = Acquire[Phase(step)] /\ step > 8
        /\ step # 10 + 4 * Acquisitions
    BY <1>l, <1>1, <1>20, TempScript
  <2>2. \A f : Configured(step + 1, f) <=> Configured(step, f)
    BY <1>1, <2>1 DEF Configured
  <2>3. Phase(step) \in 1..3 => Phase(step + 1) = Phase(step) + 1 /\ (step + 1 > 13 => step > 13)
    BY <1>l, <1>20, Phases
  <2>4. ASSUME NEW v, Here = Write(Trigger, v), Phase(step) \in 1..2,
               ~ booted /\ regs'[Trigger] = v
                 /\ (Triggers(Trigger, v) => sample' = "pending")
               => Acquiring(step + 1, regs', sample')
        PROVE  TempInv'
    <3>1. ToolWrites
      BY <2>4, WhichStep DEF Write
    <3>2. Trigger \in Registers
      BY <1>r
    <3>3. /\ booted' = booted /\ ret' = ret /\ disturbed' = disturbed /\ value' = value
          /\ \/ exit' = "failure"
             \/ /\ Goes
                /\ regs'[Trigger] = v
                /\ \A q \in Registers \ {Trigger} : regs'[q] = regs[q]
                /\ sample' = IF Triggers(Trigger, v) THEN "pending"
                             ELSE IF Trigger \in TemperatureRegisters THEN "stale" ELSE sample
      BY ONLY ToolTypeOK, <2>4, <3>1, <3>2, Written
    <3>4. CASE exit' = "failure"
      BY <1>f, <3>3, <3>4
    <3>5. CASE exit' # "failure"
      <4>1. ~ booted => Configured(step + 1, regs')
        <5>1. \A q \in TemperatureRegisters \ {Trigger} : regs'[q] = regs[q]
          BY <1>r, <3>3, <3>5
        <5>2. Configured(step, regs) => Configured(step, regs')
          BY <1>r, <5>1 DEF Configured, Trigger
        <5> QED BY <1>c1, <2>2, <5>2
      <4>2. ~ booted => Acquiring(step + 1, regs', sample')
        BY <2>4, <3>3, <3>5
      <4>3. step + 1 > 13 => value' \in Samples
        BY <1>2, <2>3, <2>4, <3>3
      <4>4. disturbed' => booted
        BY <1>2, <3>3
      <4> QED BY <1>g, <2>1, <3>3, <3>5, <4>1, <4>2, <4>3, <4>4
    <3> QED BY <3>4, <3>5
  <2>5. CASE Phase(step) = 1
    <3>1. Here = Write(Trigger, \h0)
      BY <2>1, <2>5, AcquireScript
    <3>2. regs'[Trigger] = 0 => Acquiring(step + 1, regs', sample')
      BY ONLY <2>3, <2>5 DEF Acquiring
    <3> QED BY ONLY <2>4, <2>5, <3>1, <3>2
  <2>6. CASE Phase(step) = 2
    <3>1. Here = Write(Trigger, \h1)
      BY <2>1, <2>6, AcquireScript
    <3>2. ~ booted => Triggers(Trigger, 1)
      <4> SUFFICES ASSUME ~ booted PROVE Triggers(Trigger, 1)
        OBVIOUS
      <4>1. regs[Trigger] = 0
        BY <1>2, <2>6 DEF Acquiring
      <4>2. \A q \in TemperatureRegisters \ {Trigger} : regs[q] = AllOn[q]
        <5>1. /\ regs["TEMP_ADC_CLKDIV2_ENABLE"] = \h1
              /\ regs["TEMP_ADC_ANALOG_CTRL"] = \h33
              /\ regs["TEMP_ADC_FSM_CTRL"] = \h3986e
              /\ regs["TEMP_ADC_POWER_DOWN_B"] = \h1
              /\ regs["TEMP_ADC_OPERATION"] = \h3
          BY ONLY ~ booted, <1>c1, <1>l, <1>20 DEF Configured
        <5> QED BY ONLY <1>r, <5>1, SensorOn
      <4> QED BY <4>1, <4>2 DEF Triggers, Trigger
    <3>3. sample' = "pending" => Acquiring(step + 1, regs', sample')
      BY ONLY <2>3, <2>6 DEF Acquiring
    <3> QED BY ONLY <2>4, <2>6, <3>1, <3>2, <3>3
  <2>7. CASE Phase(step) = 3
    <3>1. ToolWaits
      BY <2>1, <2>7, AcquireScript, WhichStep DEF Do
    <3>2. ~ booted => sample' = "fresh"
      BY <1>2, <2>7, <3>1, Waited DEF Acquiring
    <3>3. Acquiring(step + 1, regs', sample') <=> sample' = "fresh"
      BY <2>3, <2>7 DEF Acquiring
    <3>4. /\ ~ booted => Configured(step + 1, regs')
          /\ step + 1 > 13 => value' \in Samples
          /\ disturbed' => booted
      BY <1>2, <1>c1, <2>2, <2>3, <2>7, <3>1, Waited
    <3> QED BY <1>g, <2>1, <3>1, <3>2, <3>3, <3>4, Waited
  <2>8. CASE Phase(step) = 4
    <3>1. ToolReadsSample
      BY <2>1, <2>8, AcquireScript, WhichStep DEF Do
    <3>2. ret' = ret /\ booted' = booted /\ regs' = regs /\ sample' = sample
      BY <3>1 DEF ToolReadsSample, chip, analog
    <3>3. CASE Exits("failure") /\ UNCHANGED disturbed
      BY <1>f, <3>2, <3>3 DEF Exits
    <3>4. CASE value' \in Samples /\ disturbed' = (sample # "fresh") /\ Goes
      <4>1. disturbed' => booted
        BY <1>2, <2>8, <3>4 DEF Acquiring
      <4>2. Phase(step + 1) \in {0, 1}
        BY <1>l, <1>20, <2>8, Phases
      <4>3. Acquiring(step + 1, regs', sample')
        BY <4>2 DEF Acquiring
      <4>4. ~ booted => Configured(step + 1, regs')
        BY <1>c1, <2>2, <3>2
      <4> QED BY <1>g, <2>1, <3>2, <3>4, <4>1, <4>3, <4>4
    <3> QED BY <3>1, <3>3, <3>4 DEF ToolReadsSample
  <2> QED BY <2>1, <2>5, <2>6, <2>7, <2>8
<1>21. CASE step = 10 + 4 * Acquisitions
  <2>1. Here = Do("readFuse")
    BY <1>1, <1>21, TempScript
  <2>2. ToolReadsFuse
    BY <2>1, WhichStep DEF Do
  <2>3. ret' = ret /\ booted' = booted /\ disturbed' = disturbed /\ value' = value
    BY ONLY <2>2 DEF ToolReadsFuse, chip, analog
  <2>4. CASE Exits("failure")
    BY ONLY <1>f, <2>3, <2>4 DEF Exits
  <2>5. CASE degrees' = TempDegC(value, fuse % \h1000) /\ Goes
    <3>1. exit' = "success"
      BY ONLY <1>1, <1>2, <1>21, <2>5 DEF Goes, GoesWith, Exits
    <3>2. value \in Samples
      BY ONLY <1>l, <1>2, <1>21
    <3>3. degrees' = TempDegC(value', fuse' % \h1000)
      BY ONLY <1>0, <2>3, <2>5
    <3> QED BY ONLY <1>2, <2>3, <3>1, <3>2, <3>3 DEF TempInv
  <2> QED BY ONLY <2>2, <2>4, <2>5 DEF ToolReadsFuse
<1>22. step \in 1..9 \/ step \in 10..9 + 4 * Acquisitions \/ step = 10 + 4 * Acquisitions
  BY <1>l, <1>1
<1> QED BY <1>c, <1>20, <1>21, <1>22
-----------------------------------------------------------------------------
LEMMA Modulus == \A n \in Nat, m \in Nat : n < m => n % m = n
OBVIOUS

(* What is printed, of a measurement not below the fuse. *)
LEMMA Printed ==
  ASSUME NEW s \in Samples, NEW off \in Nat, s - off >= 0
  PROVE  /\ TempDegC(s, off) \in 0..s - off
         /\ s - off - Slope * TempDegC(s, off) \in 0..Slope - 1
<1> DEFINE above == s - off
<1>1. /\ Word \in Nat /\ above \in Nat /\ 8 * above < Word
  BY ToolAssumption
<1> HIDE DEF above
<1>2. above % Word = above /\ (above * 8) % Word = above * 8
  <2>1. above \in Nat /\ above * 8 \in Nat /\ above < Word /\ above * 8 < Word
    BY <1>1
  <2> QED BY ONLY <1>1, <2>1, Modulus
<1>3. Slope = 7
  BY DEF Slope
<1>4. TempDegC(s, off) = ((above * 8) \div 7) \div 8
  BY ONLY <1>2, <1>3 DEF TempDegC, above
<1>5. ((above * 8) \div 7) \div 8 \in 0..above
      /\ above - 7 * (((above * 8) \div 7) \div 8) \in 0..6
  BY ONLY <1>1
<1> QED BY ONLY <1>3, <1>4, <1>5 DEF above

LEMMA ToolInvInit == Init => ToolInv
<1> SUFFICES ASSUME Init PROVE ToolInv
  OBVIOUS
<1>1. cmd = "none" /\ exit = "running" /\ ret = "success" /\ step = 1 /\ disturbed = FALSE
  BY DEF Init, ToolInit
<1> QED BY <1>1, ToolTypeInit
        DEF ToolInv, Started, Running, StressInv, StressVerdict, HealthInv, ResetVerified,
            TempInv, AlertsInv

LEMMA ToolInvNext == TypeOK /\ ToolInv /\ [Next]_vars => ToolInv'
BY ToolTypeNext, StartedNext, StressNext, HealthNext, ResetNext, TempNext, AlertsNext DEF ToolInv

LEMMA ToolInvHolds == Spec => []ToolInv
<1>1. Inv => TypeOK
  BY DEF Inv
<1> QED BY <1>1, InvInit, InvNext, ToolInvInit, ToolInvNext, PTL DEF Spec

(* stress-spi reports every corruption of what it wrote or read but one    *)
(* that another undoes or a reboot hides, and reports no other             *)
(* (CmdStressSpi).                                                         *)
THEOREM StressTrusted == Spec => []StressVerdict
<1>1. ToolInv => StressVerdict
  BY DEF ToolInv
<1> QED BY <1>1, ToolInvHolds, PTL

(* health-check passes exactly if each of its registers could be read and  *)
(* was in its range, or out of it where that is asked, whatever the chip   *)
(* answers (CmdHealthCheck).                                               *)
THEOREM HealthTrusted == Spec => []HealthVerdict
<1>1. ToolInv => HealthVerdict
  BY DEF ToolInv, ToolTypeOK, HealthInv, HealthVerdict
<1> QED BY <1>1, ToolInvHolds, PTL

(* reset is verified only if the chip booted during the command, or has    *)
(* been up for longer than its counter counts (CmdReset).                  *)
THEOREM ResetTrusted == Spec => []ResetVerified
<1>1. ToolInv => ResetVerified
  BY DEF ToolInv
<1> QED BY <1>1, ToolInvHolds, PTL

(* The temperature is computed from a sample that the sensor was made to   *)
(* take, and is what it should be, rounded down, unless the fuse is above  *)
(* the sample (CmdGetTemp), for any number of acquisitions.                *)
THEOREM TempTrusted == Spec => []TempMeasured
<1>1. ASSUME ToolInv PROVE TempMeasured
  <2> SUFFICES ASSUME cmd = "get-temp", exit = "success"
               PROVE  /\ disturbed => booted
                      /\ value - (fuse % \h1000) >= 0 =>
                           /\ degrees \in 0..value - (fuse % \h1000)
                           /\ value - (fuse % \h1000) - Slope * degrees \in 0..Slope - 1
    BY DEF TempMeasured
  <2>1. /\ disturbed => booted
        /\ value \in Samples /\ degrees = TempDegC(value, fuse % \h1000)
        /\ fuse \in Nat
    BY <1>1 DEF ToolInv, TempInv, ToolTypeOK
  <2>2. fuse % \h1000 \in Nat
    BY <2>1
  <2> QED BY <2>1, <2>2, Printed
<1> QED BY <1>1, ToolInvHolds, PTL

(* enable-alerts and disable-alerts say that they succeeded only when the  *)
(* monitors are as was asked, and had settled before they were enabled     *)
(* (CmdEnableAlerts, CmdDisableAlerts).                                    *)
THEOREM AlertsTrusted == Spec => AlertsAsAsked
<1>1. ToolInv /\ [Next]_vars => [AlertsStep]_<<chip, toolVars>>
  BY AlertsStepHolds DEF ToolInv
<1>2. [AlertsStep]_<<chip, toolVars>> =>
        [/\ cmd = "enable-alerts" /\ Says("success") /\ ~ booted =>
              settled /\ \A r \in MonitorRegisters : regs'[r] = AllOn[r]
         /\ cmd = "disable-alerts" /\ Says("success") /\ ~ booted =>
              ~ MonitorsRun(regs') /\ \A r \in MonitorRegisters : regs'[r] # AllOn[r]]_<<chip, toolVars>>
  BY DEF AlertsStep
<1> QED BY <1>1, <1>2, ToolInvHolds, PTL DEF Spec, AlertsAsAsked
=============================================================================
