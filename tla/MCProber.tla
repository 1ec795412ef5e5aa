------------------------------ MODULE MCProber ------------------------------
(* An instance of Prober for TLC: u is authorised, dotted is a URL of another   *)
(* authorised host spelled with a trailing dot, outside is out of scope.        *)
EXTENDS Prober

CONSTANTS a, b, c, u, dotted, outside, h, o, odot

StartUrls == [r \in Req |-> IF r = c THEN dotted ELSE u]
CheckedHost == [x \in Url |-> IF x = dotted THEN o ELSE h]
CountedHost == [x \in Url |-> IF x = dotted THEN odot ELSE h]
=============================================================================
