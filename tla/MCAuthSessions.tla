--------------------------- MODULE MCAuthSessions ---------------------------
(* A small instance of AuthSessions for TLC. *)
EXTENDS AuthSessions

CONSTANTS s1, t1, t2, t3, r1, c1, w1, w2

OneSession == {s1}
ThreeTokens == {t1, t2, t3}
OneReset == {r1}
OneChallenge == {c1}
TwoHandlers == {w1, w2}
=============================================================================
