----------------------- MODULE MCMemoryPressureHandler -----------------------
(* TLC instance of MemoryPressureHandler.  A megabyte is 1, so that 16 * GB   *)
(* and the thresholds are the code's own numbers of megabytes.                *)
EXTENDS MemoryPressureHandler

\* One footprint in each band of a Mac with 16 GB: bands at 1013 and 1536, the
\* inactive limit at 3072 (4096 with one page), the active one at 7168 (8192).
MacFootprints == {100, 1013, 4097, 8192}

\* The default, and one with a kill threshold of its own.
MCConfigurations ==
  { DefaultConfiguration(Ram),
    [DefaultConfiguration(Ram) EXCEPT !.killThresholdFraction = 90] }

AllHandlers == {"lowMemory", "memoryKill", "statusChanged", "didExceed"}
=============================================================================
