---------------------------- MODULE MCPitTimers ----------------------------
(* Two slots; three timers make the table overflow, periods of 0 and of    *)
(* two and a half ticks make the boundary cases.                           *)
EXTENDS PitTimers

CONSTANTS h1, h2

MCPeriods == {0, 25}
=============================================================================
