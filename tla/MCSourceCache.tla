--------------------------- MODULE MCSourceCache ---------------------------
(* Small instances of SourceCache for TLC.                                 *)
EXTENDS SourceCache

CONSTANTS
  c1, c2,  \* two checks of one commit and component
  x1, x2   \* two prunes
=============================================================================
