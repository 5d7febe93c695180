---------------------------- MODULE MCAuthSession ----------------------------
EXTENDS AuthSession, TLC

CONSTANTS h1, h2, t1, t2, t3

\* Two tabs of one browser and one of another.
MCHome == (t1 :> h1) @@ (t2 :> h1) @@ (t3 :> h2)
===============================================================================
