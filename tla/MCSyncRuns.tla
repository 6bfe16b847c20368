----------------------------- MODULE MCSyncRuns -----------------------------
(* The instances of SyncRuns that TLC checks.  Users and threads are        *)
(* interchangeable, but a temporal property is among those checked: no      *)
(* symmetry.                                                                *)
EXTENDS SyncRuns, TLC
=============================================================================
