---------------------------- MODULE MCPromotion ----------------------------
EXTENDS Promotion, TLC

CONSTANTS o1, o2, s1, s2, u, v

\* Two operations of two sources.
TwoSources == {(o1 :> s1) @@ (o2 :> s2)}
=============================================================================
