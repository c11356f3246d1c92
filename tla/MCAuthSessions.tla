-------------------------- MODULE MCAuthSessions --------------------------
(* Instances of AuthSessions for TLC. *)
EXTENDS AuthSessions, TLC

CONSTANTS w1, w2, w3, t1, t2, t3, s1, s2, s3

OneWorker == {w1}
TwoWorkers == {w1, w2}
TwoTokens == {t1, t2}
ThreeTokens == {t1, t2, t3}
TwoSids == {s1, s2}
ThreeSids == {s1, s2, s3}

\* At once come the requests that write the session and the tokens.
AllWhenSerial == [one \in BOOLEAN |->
  IF one THEN RequestKinds ELSE {"login", "refresh", "logoutAll"}]

Symmetry == Permutations(Workers) \cup Permutations(Tokens)
            \cup Permutations(Sids)

=============================================================================
