------------------------------- MODULE MCSites -------------------------------
EXTENDS Sites, TLC

CONSTANTS a, b, c, s, t

\* Two chargers at one site and one at another.
MCSiteOf == (a :> s) @@ (b :> s) @@ (c :> t)
=============================================================================
