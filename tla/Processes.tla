------------------------------ MODULE Processes -------------------------------
(* What the parts of the admission pipeline share: the processes that run    *)
(* an engine, who calls them, and the time.                                  *)
EXTENDS Naturals

CONSTANTS Engines, Principals, None

VARIABLE now
==============================================================================
