-------------------------- MODULE MCSortTimerList --------------------------
(* Four timers, so that one can be moved from and to every place.          *)
EXTENDS SortTimerList
=============================================================================
