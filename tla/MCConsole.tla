------------------------------- MODULE MCConsole -------------------------------
(* A screen of 3 lines of 4 columns; a cursor register of 2 bits. *)
EXTENDS Console

Positions == {0, 7, 10}
BootLines == <<"b", "nl", "c", "d">>
PanicLines == <<"p", "q">>
Codes == {14, 27, 28}
===============================================================================
