--------------------------- MODULE MCAtcaLifecycle ---------------------------
(* TLC instances of AtcaLifecycle: the global context and one more.         *)
EXTENDS AtcaLifecycle

CONSTANTS g, h1
MCHandles == {g, h1}
=============================================================================
