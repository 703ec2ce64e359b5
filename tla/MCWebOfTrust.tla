---------------------------- MODULE MCWebOfTrust ----------------------------
(* Model-checking instance of WebOfTrust.                                    *)
EXTENDS WebOfTrust

CONSTANTS f, g, a, x

\* Rings with a chord.  An endorsement by f reaches a from f and, once relayed, from g.
MCLinks == {<<f, g>>, <<g, a>>, <<a, f>>, <<f, a>>}

\* One by a reaches g from a and, once relayed, from f.
Ring == {<<f, g>>, <<g, a>>, <<a, f>>, <<a, g>>}

\* The founders endorse a, who endorses x, perhaps too early.
MCWishes == {<<f, a>>, <<g, a>>, <<a, x>>}

\* The founder f endorses a, who endorses x.
ChainWishes == {<<f, a>>, <<a, x>>}

\* a is handed malformed payloads signed by f, and is reported to itself.
MCMalformed == {<<a, f>>}
MCReported == {<<a, a>>}

\* g may restart once.
MCRestarts == [n \in {f, g, a} |-> IF n = g THEN 1 ELSE 0]
=============================================================================
