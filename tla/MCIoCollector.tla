--------------------------- MODULE MCIoCollector ---------------------------
(* Three cgroups sharing a disk, and a counter map with room for two of them;
   requests may collide on their scratch key.                               *)
EXTENDS IoCollector
=============================================================================
