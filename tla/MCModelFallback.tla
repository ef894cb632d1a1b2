--------------------------- MODULE MCModelFallback ---------------------------
(* Small sets of models, routes and requests for TLC. *)
EXTENDS ModelFallback

CONSTANTS m1, m2

\* Every request may start with either model and fall back to the other.
BothWays == {<<m1, m2>>, <<m2, m1>>}

\* Every request starts with m1 and falls back to m2 ...
OneWay == {<<m1, m2>>}

\* ... or has no fallback.
Alone == {<<m1>>}
=============================================================================
