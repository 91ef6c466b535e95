---------------------------- MODULE MCTimeWheel ----------------------------
(* A wheel of three slots of two seconds, three timers and timeouts of up  *)
(* to two revolutions and one tick.                                        *)
EXTENDS TimeWheel
=============================================================================
