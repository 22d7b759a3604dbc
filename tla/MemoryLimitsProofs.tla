------------------------- MODULE MemoryLimitsProofs -------------------------
(* Theorems about the limits, for every size of memory and number of pages,   *)
(* where size_t is wide enough that the thresholds do not wrap.               *)
EXTENDS MemoryLimits, TLAPS

\* 64-bit size_t: no threshold of up to MaxTabs pages wraps.
NoWrap == 17 * GB < SizeMod /\ 15 * GB + MaxTabs * GB < SizeMod

\* A gigabyte is a positive number of bytes.
LEMMA GBIsPositive == GB \in Nat /\ GB > 0
  BY ThresholdConstants DEF GB

\* Reduction modulo the width of size_t leaves a size alone.
LEMMA WrapOfSize == ASSUME NEW n \in Nat, n < SizeMod PROVE Wrap(n) = n
  BY ThresholdConstants DEF Wrap

\* Reduction modulo the width of size_t gives a natural number.
LEMMA WrapIsNat == ASSUME NEW n \in Int PROVE Wrap(n) \in Nat
  BY ThresholdConstants DEF Wrap

\* The part of a threshold that grows with the pages fits.
LEMMA PagesFit ==
  ASSUME NoWrap, NEW tabs \in 0 .. MaxTabs
  PROVE  /\ tabs * GB \in Nat
         /\ tabs * GB <= MaxTabs * GB
  <1>1. ASSUME NEW g \in Nat, NEW m \in Nat, NEW t \in 0 .. m
        PROVE  t * g \in Nat /\ t * g <= m * g
    <2>1. (m - t) * g >= 0 /\ t * g >= 0
      OBVIOUS
    <2>2. m * g = (m - t) * g + t * g
      OBVIOUS
    <2> QED BY <2>1, <2>2
  <1> QED BY <1>1, GBIsPositive, LimitsConstants

\* The kill thresholds of a 64-bit process, without wrapping.
LEMMA ActiveThreshold ==
  ASSUME NoWrap, NEW size \in Nat, NEW tabs \in 0 .. MaxTabs
  PROVE  thresholdForMemoryKillOfActiveProcess(size, tabs)
           = (IF size > 16 * GB THEN 15 * GB ELSE 7 * GB) + tabs * GB
  <1> DEFINE pages == tabs * GB
  <1>1. pages \in Nat /\ pages <= MaxTabs * GB /\ MaxTabs * GB \in Int
    BY PagesFit, GBIsPositive, LimitsConstants
  <1>2. /\ Wrap(16 * GB) = 16 * GB /\ Wrap(15 * GB) = 15 * GB /\ Wrap(7 * GB) = 7 * GB
        /\ Wrap(pages) = pages
        /\ Wrap(15 * GB + pages) = 15 * GB + pages
        /\ Wrap(7 * GB + pages) = 7 * GB + pages
    <2> HIDE DEF pages
    <2> QED BY <1>1, GBIsPositive, WrapOfSize, ThresholdConstants DEF NoWrap
  <1> QED BY <1>2 DEF thresholdForMemoryKillOfActiveProcess

\* The same for an inactive process: the lesser of the base and nine tenths of the RAM.
LEMMA InactiveThreshold ==
  ASSUME NoWrap, CPU64, NEW size \in Nat, NEW tabs \in 0 .. MaxTabs
  PROVE  thresholdForMemoryKillOfInactiveProcess(size, tabs)
           = Lesser(3 * GB + tabs * GB, (size * 9) \div 10)
  <1> DEFINE pages == tabs * GB
  <1>1. pages \in Nat /\ pages <= MaxTabs * GB /\ MaxTabs * GB \in Int
    BY PagesFit, GBIsPositive, LimitsConstants
  <1>2. Wrap(pages) = pages /\ Wrap(3 * GB + pages) = 3 * GB + pages
    <2> HIDE DEF pages
    <2> QED BY <1>1, GBIsPositive, WrapOfSize, ThresholdConstants DEF NoWrap
  <1> QED BY <1>2 DEF thresholdForMemoryKillOfInactiveProcess

\* Reduction modulo the width of size_t gives a size.
LEMMA WrapIsSize == ASSUME NEW n \in Int PROVE Wrap(n) \in Size
  BY ThresholdConstants DEF Wrap, Size, SizeMax

\* Rounding up to a multiple of 128 MB gives a size.
LEMMA RoundUpIsSize == ASSUME NEW n \in Int PROVE RoundUp(n) \in Size
  <1> DEFINE m == 128 * MB
  <1>1. m \in Nat \ {0}
    BY ThresholdConstants
  <1>2. Wrap(n + m - 1) \in Nat
    BY <1>1, WrapIsNat
  <1>3. Wrap(n + m - 1) \div m \in Int
    BY <1>1, <1>2
  <1>4. (Wrap(n + m - 1) \div m) * m \in Int
    BY <1>1, <1>3
  <1> QED BY <1>4, WrapIsSize DEF RoundUp

\* What both copies of the computation store is a size, whatever the kernel answers.
LEMMA ComputeIsSize ==
  ASSUME NEW host \in HostInfos \cup {Failed}, NEW lim \in Limits
  PROVE  Compute(host, lim) \in Size
  <1>1. SizeMax \in Nat /\ 840 * MB \in Nat /\ 1024 * MB \in Nat /\ 512 * MB \in Size
    BY ThresholdConstants DEF SizeMax, Size, GB
  <1>2. host.ok => host.value \in Nat
    BY RAMSizeConstants DEF Failed
  <1>3. lim.ok => lim.value \in Int
    BY RAMSizeConstants DEF Failed
  <1>4. availableMemoryGuess \in Nat
    BY <1>1 DEF availableMemoryGuess, Size
  <1>5. memorySizeAccordingToKernel(host) \in Nat
    BY <1>1, <1>2, <1>4, WrapIsNat DEF memorySizeAccordingToKernel, Lesser
  <1>6. jetsamLimit(lim) \in Nat
    <2>1. lim.ok => lim.value * MB \in Int
      BY <1>3, ThresholdConstants
    <2> QED BY <1>1, <2>1, WrapIsNat DEF jetsamLimit
  <1>7. sizeAccordingToKernel(host, lim) \in Nat
    BY <1>5, <1>6 DEF sizeAccordingToKernel, Lesser
  <1>8. computeAvailableMemory(host, lim) \in Size
    BY <1>1, <1>2, <1>7, WrapIsSize, RoundUpIsSize
       DEF computeAvailableMemory, availableMemoryGuess
  <1>9. appComputeAvailableMemory(host, lim) \in Size
    <2>1. appMemorySizeAccordingToKernel(host) \in Nat
      BY <1>1, <1>2, <1>4 DEF appMemorySizeAccordingToKernel, Lesser
    <2> QED BY <1>6, <2>1, RoundUpIsSize DEF appComputeAvailableMemory, Lesser
  <1> QED BY <1>8, <1>9 DEF Compute

-----------------------------------------------------------------------------
\* Nothing is cached at first.
LEMMA TypeOfInit == Init => TypeOK
  BY ThresholdConstants DEF Init, TypeOK, Labels, Size, SizeMax, GB

\* A step of the callers of ramSize() or of the kernel keeps the types.
LEMMA StepKeepsTypes == TypeOK /\ [Next]_vars => TypeOK'
<1> SUFFICES ASSUME TypeOK, [Next]_vars PROVE TypeOK'
  OBVIOUS
<1> USE DEF TypeOK, Labels, Goto, Return
<1>1. CASE KernelChanges
  BY <1>1 DEF KernelChanges
<1>2. ASSUME NEW t \in Threads, Call(t) PROVE TypeOK'
  BY <1>2 DEF Call
<1>3. ASSUME NEW t \in Threads, RamSizeOnce(t) PROVE TypeOK'
  BY <1>3 DEF RamSizeOnce
<1>4. ASSUME NEW t \in Threads, AvailableMemoryOnce(t) PROVE TypeOK'
  BY <1>4 DEF AvailableMemoryOnce
<1>5. ASSUME NEW t \in Threads, QueryHost(t) PROVE TypeOK'
  BY <1>5 DEF QueryHost
<1>6. ASSUME NEW t \in Threads, QueryLimit(t) PROVE TypeOK'
  BY <1>6, ComputeIsSize DEF QueryLimit
<1>7. ASSUME NEW t \in Threads, AvailableMemoryReturn(t) PROVE TypeOK'
  BY <1>7 DEF AvailableMemoryReturn
<1>8. CASE UNCHANGED vars
  BY <1>8 DEF vars
<1> QED BY <1>1, <1>2, <1>3, <1>4, <1>5, <1>6, <1>7, <1>8 DEF Next, Step

\* The type invariant.
THEOREM TypeCorrect == LimitsSpec => []LimitsTypeOK
<1>1. LimitsInit => LimitsTypeOK
  BY TypeOfInit, LimitsConstants DEF LimitsInit, LimitsTypeOK
<1>2. LimitsTypeOK /\ [LimitsNext]_limitsVars => LimitsTypeOK'
  <2> SUFFICES ASSUME LimitsTypeOK, [LimitsNext]_limitsVars PROVE LimitsTypeOK'
    OBVIOUS
  <2>1. [Next]_vars
    BY DEF LimitsNext, SetPageCount, limitsVars
  <2>2. TypeOK'
    BY <2>1, StepKeepsTypes DEF LimitsTypeOK
  <2>3. (tabCount \in 0 .. MaxTabs)'
    BY DEF LimitsTypeOK, LimitsNext, SetPageCount, limitsVars
  <2> QED BY <2>2, <2>3 DEF LimitsTypeOK
<1> QED BY <1>1, <1>2, PTL DEF LimitsSpec

-----------------------------------------------------------------------------
\* One thread at a time computes the size, and only while nothing is stored.
Initializing == \A t \in Threads : pc[t] \in {"host", "limit"} => availableOnce = t

OnceInv == TypeOK /\ Initializing /\ OneSizeOfMemory

\* OneSizeOfMemory and the ownership of the flag are inductive together.
LEMMA OnceStep == OnceInv /\ [Next]_vars => OnceInv'
<1> SUFFICES ASSUME OnceInv, [Next]_vars PROVE OnceInv'
  OBVIOUS
<1>t. TypeOK /\ TypeOK'
  BY StepKeepsTypes DEF OnceInv
<1> SUFFICES Initializing' /\ OneSizeOfMemory'
  BY <1>t DEF OnceInv
<1>c. Initializing /\ OneSizeOfMemory /\ \A t \in Threads : t # "set" /\ t # "unset"
  BY RAMSizeConstants DEF OnceInv
<1> USE DEF Initializing, OneSizeOfMemory, Goto, Return
<1>1. CASE KernelChanges
  BY <1>c, <1>1 DEF KernelChanges
<1>2. ASSUME NEW t \in Threads, Call(t) PROVE Initializing' /\ OneSizeOfMemory'
  BY <1>t, <1>c, <1>2 DEF Call, TypeOK
<1>3. ASSUME NEW t \in Threads, RamSizeOnce(t) PROVE Initializing' /\ OneSizeOfMemory'
  BY <1>t, <1>c, <1>3 DEF RamSizeOnce, TypeOK
<1>4. ASSUME NEW t \in Threads, AvailableMemoryOnce(t) PROVE Initializing' /\ OneSizeOfMemory'
  BY <1>t, <1>c, <1>4 DEF AvailableMemoryOnce, TypeOK
<1>5. ASSUME NEW t \in Threads, QueryHost(t) PROVE Initializing' /\ OneSizeOfMemory'
  BY <1>t, <1>c, <1>5 DEF QueryHost, TypeOK
<1>6. ASSUME NEW t \in Threads, QueryLimit(t) PROVE Initializing' /\ OneSizeOfMemory'
  BY <1>t, <1>c, <1>6 DEF QueryLimit, TypeOK
<1>7. ASSUME NEW t \in Threads, AvailableMemoryReturn(t) PROVE Initializing' /\ OneSizeOfMemory'
  BY <1>t, <1>c, <1>7 DEF AvailableMemoryReturn, TypeOK
<1>8. CASE UNCHANGED vars
  BY <1>c, <1>8 DEF vars
<1> QED BY <1>1, <1>2, <1>3, <1>4, <1>5, <1>6, <1>7, <1>8 DEF Next, Step

\* However many threads ask and however the kernel's answers change, every call
\* returns the one size that was stored (OneSizeOfMemory).
THEOREM OneSize == LimitsSpec => []OneSizeOfMemory
<1>1. LimitsInit => OnceInv
  BY TypeOfInit DEF LimitsInit, Init, OnceInv, Initializing, OneSizeOfMemory
<1>2. OnceInv /\ [LimitsNext]_limitsVars => OnceInv'
  <2>1. [LimitsNext]_limitsVars => [Next]_vars
    BY DEF LimitsNext, SetPageCount, limitsVars
  <2> QED BY <2>1, OnceStep
<1>3. OnceInv => OneSizeOfMemory
  BY DEF OnceInv
<1> QED BY <1>1, <1>2, <1>3, PTL DEF LimitsSpec

\* Whatever memory the device has and however many pages are open, no footprint
\* is above the kill threshold and below the Strict band (StrictBeforeKill).
THEOREM PressureBeforeDeath == NoWrap /\ CPU64 /\ LimitsSpec => []StrictBeforeKill
<1> SUFFICES ASSUME NoWrap, CPU64 PROVE LimitsSpec => []StrictBeforeKill
  OBVIOUS
<1>1. LimitsTypeOK => StrictBeforeKill
  <2> SUFFICES ASSUME LimitsTypeOK, NEW state \in {"Active", "Inactive"}
               PROVE  thresholdForPolicy(DefaultConfiguration(ram), "Strict")
                 <= thresholdForMemoryKill(DefaultConfiguration(ram), state, ram, tabCount)
    BY DEF StrictBeforeKill
  <2> DEFINE base   == Lesser(3 * GB, ram)
             strict == IF IOSFamily THEN 65 ELSE 50
             pages  == tabCount * GB
  <2>1. ram \in Nat /\ tabCount \in 0 .. MaxTabs
    BY DEF LimitsTypeOK, TypeOK, Size
  <2>2. pages \in Nat
    BY <2>1, PagesFit
  <2>3. base \in Nat /\ base <= 3 * GB /\ base <= ram
    BY <2>1, GBIsPositive DEF Lesser
  <2>4. thresholdForPolicy(DefaultConfiguration(ram), "Strict") = (base * strict) \div 100
    BY DEF thresholdForPolicy, DefaultConfiguration, Fraction
  <2>5. (base * strict) \div 100 <= base /\ (base * strict) \div 100 <= (ram * 9) \div 10
    <3> HIDE DEF base
    <3>1. CASE IOSFamily
      BY <2>1, <2>3, <3>1
    <3>2. CASE ~IOSFamily
      BY <2>1, <2>3, <3>2
    <3> QED BY <3>1, <3>2
  <2>6. DefaultConfiguration(ram).killThresholdFraction = NoFraction
    BY DEF DefaultConfiguration
  <2>7. CASE state = "Active"
    <3>1. thresholdForMemoryKill(DefaultConfiguration(ram), state, ram, tabCount)
            = (IF ram > 16 * GB THEN 15 * GB ELSE 7 * GB) + pages
      BY <2>1, <2>6, <2>7, ActiveThreshold DEF thresholdForMemoryKill
    <3>2. (base * strict) \div 100 \in Int
      <4> HIDE DEF base
      <4> QED BY <2>3
    <3> HIDE DEF base, strict, pages
    <3> QED BY <2>2, <2>3, <2>4, <2>5, <3>1, <3>2, GBIsPositive
  <2>8. CASE state = "Inactive"
    <3>1. thresholdForMemoryKill(DefaultConfiguration(ram), state, ram, tabCount)
            = Lesser(3 * GB + pages, (ram * 9) \div 10)
      BY <2>1, <2>6, <2>8, InactiveThreshold DEF thresholdForMemoryKill
    <3>2. (base * strict) \div 100 \in Int
      <4> HIDE DEF base
      <4> QED BY <2>3
    <3> HIDE DEF base, strict, pages
    <3> QED BY <2>2, <2>3, <2>4, <2>5, <3>1, <3>2, GBIsPositive DEF Lesser
  <2> QED BY <2>7, <2>8
<1> QED BY <1>1, TypeCorrect, PTL

\* A process that becomes active is not nearer to being killed
\* (InactiveBelowActive).
THEOREM ActiveLimitIsHigher == NoWrap /\ CPU64 /\ LimitsSpec => []InactiveBelowActive
<1> SUFFICES ASSUME NoWrap, CPU64 PROVE LimitsSpec => []InactiveBelowActive
  OBVIOUS
<1>1. LimitsTypeOK => InactiveBelowActive
  <2> SUFFICES ASSUME LimitsTypeOK PROVE InactiveBelowActive
    OBVIOUS
  <2> DEFINE pages == tabCount * GB
  <2>1. ram \in Nat /\ tabCount \in 0 .. MaxTabs
    BY DEF LimitsTypeOK, TypeOK, Size
  <2>2. pages \in Nat
    BY <2>1, PagesFit
  <2>3. /\ thresholdForMemoryKillOfActiveProcess(ram, tabCount)
             = (IF ram > 16 * GB THEN 15 * GB ELSE 7 * GB) + pages
        /\ thresholdForMemoryKillOfInactiveProcess(ram, tabCount)
             = Lesser(3 * GB + pages, (ram * 9) \div 10)
    BY <2>1, ActiveThreshold, InactiveThreshold
  <2> HIDE DEF pages
  <2> QED BY <2>1, <2>2, <2>3, GBIsPositive DEF InactiveBelowActive, Lesser
<1> QED BY <1>1, TypeCorrect, PTL

\* On a 64-bit iOS device, which is what the app is built for, its copy of the
\* computation and WebKit's agree on every answer of the kernel, failures and jetsam's
\* "no limit" included, and with size_t of any width (AppAgreesWithWebKit).
THEOREM AppShowsWhatWebKitUses ==
  IOSFamily /\ Darwin /\ ~Simulator /\ CPU64 /\ LimitsSpec => []AppAgreesWithWebKit
<1> SUFFICES ASSUME IOSFamily, Darwin, ~Simulator, CPU64
             PROVE  LimitsSpec => []AppAgreesWithWebKit
  OBVIOUS
<1>1. AppAgreesWithWebKit
  <2>1. memorySizeAccordingToKernel(hostInfo) = appMemorySizeAccordingToKernel(hostInfo)
    BY DEF memorySizeAccordingToKernel, appMemorySizeAccordingToKernel
  <2>2. computeAvailableMemory(hostInfo, limit) = appComputeAvailableMemory(hostInfo, limit)
    BY <2>1 DEF computeAvailableMemory, sizeAccordingToKernel, appComputeAvailableMemory
  <2>3. ASSUME NEW size
        PROVE  thresholdForMemoryKillOfInactiveProcess(size, tabCount)
                 = appThresholdOfInactiveProcess(size, tabCount)
    BY DEF thresholdForMemoryKillOfInactiveProcess, appThresholdOfInactiveProcess
  <2> QED BY <2>2, <2>3 DEF AppAgreesWithWebKit
<1> QED BY <1>1, PTL
=============================================================================
