------------------------------ MODULE MCParser -------------------------------
EXTENDS Parser

CONSTANTS a, b

MCPayloadBytes == {a, b}

(* The empty slice, one byte of each value, and a 256-byte slice whose    *)
(* length needs the high byte of a 2-byte header and overflows a 1-byte   *)
(* one.                                                                   *)
MCBufs == {<<>>, <<a>>, <<b>>, [i \in 1..256 |-> a]}

=============================================================================
