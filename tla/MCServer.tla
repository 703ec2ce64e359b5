------------------------------ MODULE MCServer ------------------------------
(* Model-checking instance of Server.                                        *)
EXTENDS Server

CONSTANTS c1, c2

\* c1 sends a sound frame and one of length zero, c2 one that is too long.
MCDeclared == c1 :> <<1, 0>> @@ c2 :> <<2>>

\* c1 sends two empty lines first, c2 a long line without an end.
MCRequest ==
  c1 :> <<"CR", "LF", "CR", "LF", "GET /health", "CR", "LF">>
  @@ c2 :> <<"x", "x">>
=============================================================================
