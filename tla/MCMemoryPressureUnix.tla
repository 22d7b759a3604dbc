------------------------ MODULE MCMemoryPressureUnix ------------------------
(* TLC instance of MemoryPressureUnix: the threads are model values of the     *)
(* .cfg files.                                                                *)
EXTENDS MemoryPressureUnix
=============================================================================
