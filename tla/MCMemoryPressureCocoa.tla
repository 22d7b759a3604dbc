------------------------ MODULE MCMemoryPressureCocoa ------------------------
(* TLC instance of MemoryPressureCocoa.  The handler's own behaviour is cut    *)
(* down to what reception touches: one footprint, no monitor, no settings.     *)
EXTENDS MemoryPressureCocoa

SmallFootprints == {100}
=============================================================================
