-------------------------- MODULE MemoryThresholds --------------------------
(***************************************************************************)
(* The arithmetic that decides how much memory a web process may use:      *)
(*   - bmalloc/AvailableMemory.cpp: what the kernel and jetsam report,     *)
(*     rounded up to 128 MB (the app's MemoryPressure.mm is a copy of it); *)
(*   - WTF/MemoryPressureHandler.cpp: the kill thresholds of active and    *)
(*     inactive processes and the bands of the memory usage policy.        *)
(*                                                                         *)
(* A size_t is a natural number below SizeMod.  Every product and sum that *)
(* the code computes in size_t is reduced by Wrap.  A product with a       *)
(* double constant (0.9, 0.33, 0.65) is an integer fraction rounded down,  *)
(* which is what static_cast<size_t> gives for the sizes in question.      *)
(***************************************************************************)
EXTENDS Integers

CONSTANTS
  MB,         \* bytes in a megabyte: 2^20 in the code, scaled down for TLC
  SizeMod,    \* 2^32 or 2^64: the number of values of size_t
  CPU64,      \* CPU(X86_64) || CPU(ARM64)
  IOSFamily,  \* PLATFORM(IOS_FAMILY) / BPLATFORM(IOS_FAMILY)
  Simulator,  \* BPLATFORM(IOS_FAMILY_SIMULATOR)
  Darwin      \* BOS(DARWIN); otherwise Linux or FreeBSD, which ask sysinfo

GB == 1024 * MB

ASSUME ThresholdConstants ==
  /\ MB \in Nat \ {0}
  /\ SizeMod \in Nat \ {0}
  /\ SizeMod >= 4 * GB
  /\ {CPU64, IOSFamily, Simulator, Darwin} \subseteq BOOLEAN

SizeMax == SizeMod - 1
Size    == 0 .. SizeMax
Wrap(n) == n % SizeMod
Lesser(a, b) == IF a <= b THEN a ELSE b

-----------------------------------------------------------------------------
(* bmalloc::availableMemory *)

availableMemoryGuess == 512 * MB

\* The answer of a kernel query: a failure, or the value it stored.
Failed    == [ok |-> FALSE]
Answer(v) == [ok |-> TRUE, value |-> v]

memorySizeAccordingToKernel(hostInfo) ==
  IF Simulator THEN Wrap(1024 * MB)
  ELSE IF ~hostInfo.ok THEN availableMemoryGuess
  ELSE Lesser(hostInfo.value, SizeMax)

\* properties.value is memlimit_active: an int32_t number of megabytes.
jetsamLimit(properties) ==
  IF ~properties.ok THEN 840 * MB
  ELSE IF properties.value < 0 THEN SizeMax
  ELSE Wrap(properties.value * MB)

RoundUp(size) ==
  LET multiple == 128 * MB
  IN  Wrap((Wrap(size + multiple - 1) \div multiple) * multiple)

sizeAccordingToKernel(hostInfo, properties) ==
  IF IOSFamily
  THEN Lesser(memorySizeAccordingToKernel(hostInfo), jetsamLimit(properties))
  ELSE memorySizeAccordingToKernel(hostInfo)

\* Linux and FreeBSD: hostInfo is sysinfo's totalram * mem_unit, not rounded.
computeAvailableMemory(hostInfo, properties) ==
  IF Darwin THEN RoundUp(sizeAccordingToKernel(hostInfo, properties))
  ELSE IF hostInfo.ok THEN Wrap(hostInfo.value)
  ELSE availableMemoryGuess

-----------------------------------------------------------------------------
(* The app's copy of the computation: it always consults jetsam and knows   *)
(* nothing of the simulator.                                                *)

appMemorySizeAccordingToKernel(hostInfo) ==
  IF ~hostInfo.ok THEN availableMemoryGuess
  ELSE Lesser(hostInfo.value, SizeMax)

\* Mutant: the copy forgets to round up.
appComputeAvailableMemory_Exact(hostInfo, properties) ==
  Lesser(appMemorySizeAccordingToKernel(hostInfo), jetsamLimit(properties))

appComputeAvailableMemory(hostInfo, properties) ==
  RoundUp(Lesser(appMemorySizeAccordingToKernel(hostInfo), jetsamLimit(properties)))

-----------------------------------------------------------------------------
(* The kill thresholds *)

\* Mutant: pages do not raise the limit.
thresholdForMemoryKillOfActiveProcess_NoPages(ram, tabCount) ==
  IF ram > 16 * GB THEN 15 * GB ELSE 7 * GB

thresholdForMemoryKillOfActiveProcess(ram, tabCount) ==
  LET baseThreshold == IF ram > Wrap(16 * GB) THEN Wrap(15 * GB) ELSE Wrap(7 * GB)
  IN  Wrap(baseThreshold + Wrap(tabCount * GB))

thresholdForMemoryKillOfInactiveProcess(ram, tabCount) ==
  LET baseThreshold == IF CPU64 THEN Wrap(3 * GB + Wrap(tabCount * GB))
                       ELSE IF tabCount > 1 THEN 3 * GB ELSE 2 * GB
  IN  Lesser(baseThreshold, (ram * 9) \div 10)

\* The app always takes the 64-bit branch.
appThresholdOfInactiveProcess(ram, tabCount) ==
  Lesser(Wrap(3 * GB + Wrap(tabCount * GB)), (ram * 9) \div 10)

-----------------------------------------------------------------------------
(* MemoryPressureHandler::Configuration and the usage policy *)

Policies == {"Unrestricted", "Conservative", "Strict"}

\* A fraction is a number of hundredths; NoFraction is std::nullopt.
NoFraction == -1

\* Mutant: the base threshold is 3 GB on the smallest phone, too.
DefaultConfiguration_IgnoresRam(ram) ==
  [ baseThreshold                 |-> 3 * GB,
    conservativeThresholdFraction |-> IF IOSFamily THEN 50 ELSE 33,
    strictThresholdFraction       |-> IF IOSFamily THEN 65 ELSE 50,
    killThresholdFraction         |-> NoFraction ]

DefaultConfiguration(ram) ==
  [ baseThreshold                 |-> Lesser(3 * GB, ram),
    conservativeThresholdFraction |-> IF IOSFamily THEN 50 ELSE 33,
    strictThresholdFraction       |-> IF IOSFamily THEN 65 ELSE 50,
    killThresholdFraction         |-> NoFraction ]

Fraction(base, hundredths) == (base * hundredths) \div 100

thresholdForPolicy(config, policy) ==
  CASE policy = "Unrestricted" -> 0
    [] policy = "Conservative" ->
         Fraction(config.baseThreshold, config.conservativeThresholdFraction)
    [] policy = "Strict" ->
         Fraction(config.baseThreshold, config.strictThresholdFraction)

policyForFootprint(config, footprint) ==
  CASE footprint >= thresholdForPolicy(config, "Strict") -> "Strict"
    [] /\ footprint < thresholdForPolicy(config, "Strict")
       /\ footprint >= thresholdForPolicy(config, "Conservative") -> "Conservative"
    [] OTHER -> "Unrestricted"

thresholdForMemoryKill(config, processState, ram, pageCount) ==
  IF config.killThresholdFraction # NoFraction
  THEN Fraction(config.baseThreshold, config.killThresholdFraction)
  ELSE IF processState = "Active"
  THEN thresholdForMemoryKillOfActiveProcess(ram, pageCount)
  ELSE thresholdForMemoryKillOfInactiveProcess(ram, pageCount)
=============================================================================
