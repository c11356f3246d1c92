------------------------- MODULE AuthSessionsProofs -------------------------
(***************************************************************************)
(* Proofs about AuthSessions, for any number of handlers, tokens, session  *)
(* ids and kept tokens: the type invariant, that a session lists its own   *)
(* tokens only, that a session that has ended stays ended, and that the    *)
(* tokens left unrevoked are bounded.                                      *)
(***************************************************************************)
EXTENDS AuthSessions, TLAPS, FiniteSetTheorems, FunctionTheorems,
        WellFoundedInduction

\* A finite set of numbers has a least and a greatest element: its part below,
\* or above, one of them is minimal under inclusion.
LEMMA LeastOf ==
  ASSUME NEW S \in SUBSET Nat, IsFiniteSet(S), S # {}
  PROVE  \E m \in S : \A k \in S : m <= k
  <1> DEFINE Below(i) == {k \in S : k <= i}
             T == {Below(i) : i \in S}
  <1>1. \A i \in S : Below(i) \in FiniteSubsetsOf(S)
    BY FS_Subset DEF FiniteSubsetsOf
  <1>2. PICK A \in T : \A B \in T : ~(<<B, A>> \in StrictSubsetOrdering(S))
    <2>1. T \subseteq FiniteSubsetsOf(S) /\ T # {}
      BY <1>1
    <2> QED  BY <2>1, WFMin, FS_StrictSubsetOrderingWellFounded
  <1>3. PICK m \in S : A = Below(m)
    OBVIOUS
  <1>4. ASSUME NEW k \in S, k < m PROVE FALSE
    <2>1. Below(k) \in T /\ Below(k) \subseteq Below(m) /\ Below(k) # Below(m)
      <3>1. m \in Below(m) /\ m \notin Below(k)
        BY <1>4
      <3>2. Below(k) \subseteq Below(m)
        <4>1. \A j \in Nat : j <= k => j <= m
          BY <1>4
        <4> QED  BY <4>1
      <3>3. Below(k) \in T
        OBVIOUS
      <3> QED  BY <3>1, <3>2, <3>3
    <2> QED  BY <1>2, <1>3, <2>1 DEF StrictSubsetOrdering
  <1> QED  BY <1>4

LEMMA GreatestOf ==
  ASSUME NEW S \in SUBSET Nat, IsFiniteSet(S), S # {}
  PROVE  \E m \in S : \A k \in S : k <= m
  <1> DEFINE Above(i) == {k \in S : i <= k}
             T == {Above(i) : i \in S}
  <1>1. \A i \in S : Above(i) \in FiniteSubsetsOf(S)
    BY FS_Subset DEF FiniteSubsetsOf
  <1>2. PICK A \in T : \A B \in T : ~(<<B, A>> \in StrictSubsetOrdering(S))
    <2>1. T \subseteq FiniteSubsetsOf(S) /\ T # {}
      BY <1>1
    <2> QED  BY <2>1, WFMin, FS_StrictSubsetOrderingWellFounded
  <1>3. PICK m \in S : A = Above(m)
    OBVIOUS
  <1>4. ASSUME NEW k \in S, m < k PROVE FALSE
    <2>1. Above(k) \in T /\ Above(k) \subseteq Above(m) /\ Above(k) # Above(m)
      <3>1. m \in Above(m) /\ m \notin Above(k)
        BY <1>4
      <3>2. Above(k) \subseteq Above(m)
        <4>1. \A j \in Nat : k <= j => m <= j
          BY <1>4
        <4> QED  BY <4>1
      <3>3. Above(k) \in T
        OBVIOUS
      <3> QED  BY <3>1, <3>2, <3>3
    <2> QED  BY <1>2, <1>3, <2>1 DEF StrictSubsetOrdering
  <1> QED  BY <1>4

-----------------------------------------------------------------------------

USE AuthNumbers, AuthRequests, AuthNone

-----------------------------------------------------------------------------
(* The inductive invariants.                                               *)

\* What the handler that stands at label l has read by then.
HasRead(l, e) ==
  /\ l \in {"login.save", "forgot.save", "change.save"} => e.user \in UserRow
  /\ l \in AfterIssue \cup {"token.save", "refresh.check", "refresh.revoke"}
       => e.sid \in Sids
  /\ l \in AfterIssue \cup {"refresh.session", "refresh.check", "refresh.reject",
                            "refresh.revoke", "logout.revoke"}
       => e.t \in Tokens
  /\ l \in {"logout.revoke", "blacklist"} => e.a \in Tokens
  /\ l = "session.set" => e.sess \in SessionRow

TypeInv == TypeOK /\ \A w \in Workers : HasRead(pc[w], loc[w])

\* The key, or a copy of it, lists stored tokens of its own session.
Own(s) == \A t \in Range(s.toks) : t \in Rows /\ sidOf[t] = s.sid

\* A handler that has stored a token knows which session it is for.
KnowsItsToken(l, e) ==
  /\ l \in AfterIssue => e.t \in Rows /\ sidOf[e.t] = e.sid
  /\ l = "session.set" => Own(e.sess)

OwnInv ==
  /\ session # None => Own(session)
  /\ \A w \in Workers : KnowsItsToken(pc[w], loc[w])

\* With one request at a time nobody changes the key that a handler will
\* write back.
EndedInv ==
  serial =>
    /\ \A v, w \in Workers : pc[v] # "idle" /\ pc[w] # "idle" => v = w
    /\ session # None => session.sid \notin ended
    /\ \A w \in Workers : pc[w] = "session.set" =>
         session # None /\ loc[w].sess.sid = session.sid

\* What cleanupExpiredTokens would have revoked right after the n-th token.
UnrevokedBetween(i, n) == {j \in (i + 1)..n : issued[j] \notin revoked}
Excess(n) == {i \in 1..n : issued[i] \notin revoked
                           /\ Cardinality(UnrevokedBetween(i, n)) >= Keep}

\* The handler that stored the n-th token will look for the surplus, or has,
\* and is about to revoke what it found.
WillClean(w, n) ==
  /\ loc[w].t = issued[n]
  /\ \/ pc[w] \in {"session.get", "session.set", "cleanup.find"}
     \/ /\ pc[w] = "cleanup.update"
        /\ \A i \in Excess(n) : issued[i] \in loc[w].old

Cleaned(n) == \/ issued[n] \in orphans
              \/ Excess(n) = {}
              \/ \E w \in Workers : WillClean(w, n)

CleanInv == \A n \in DOMAIN issued : Cleaned(n)

Inv == TypeInv /\ OwnInv /\ EndedInv /\ CleanInv

-----------------------------------------------------------------------------
(* The type invariant.                                                     *)

LEMMA NoLocalsType == NoLocals \in Locals
  BY DEF NoLocals, Locals

\* A handler at rest has read nothing.
LEMMA IdleRead == HasRead("idle", NoLocals)
  BY DEF HasRead, AfterIssue

\* The last tokens of a list are a list of tokens of it.
LEMMA LastOnesType ==
  ASSUME NEW s \in Seq(Tokens), NEW t \in Tokens
  PROVE  /\ LastOnes(Append(s, t)) \in Seq(Tokens)
         /\ Range(LastOnes(Append(s, t))) \subseteq Range(s) \cup {t}
  <1> DEFINE a == Append(s, t)
             P(b) == b \in Seq(Tokens) /\ Range(b) \subseteq Range(s) \cup {t}
  <1>1. /\ a \in Seq(Tokens)
        /\ \A i \in 1..Len(a) : a[i] \in Range(s) \cup {t}
    BY DEF Range
  <1> HIDE DEF a
  <1>2. ASSUME Len(a) > Keep PROVE P(LastOnes(a))
    <2> DEFINE m == Len(a) - Keep + 1
               b == SubSeq(a, m, Len(a))
    <2>1. m \in 1..Len(a) /\ LastOnes(a) = b
      BY <1>1, <1>2 DEF LastOnes
    <2>2. /\ b \in Seq(Tokens)
          /\ \A i \in 1..Len(b) : b[i] = a[m + i - 1] /\ m + i - 1 \in 1..Len(a)
      <3> HIDE DEF m
      <3> QED  BY <1>1, <2>1
    <2>3. P(b)
      <3> HIDE DEF b, m
      <3> QED  BY <1>1, <2>2 DEF Range
    <2> QED  BY <2>1, <2>3
  <1>3. ASSUME ~(Len(a) > Keep) PROVE P(LastOnes(a))
    BY <1>1, <1>3 DEF LastOnes, Range
  <1> QED  BY <1>2, <1>3 DEF a

\* The steps that only move the handler on, and those that write one table.
LEMMA TypeMove ==
  ASSUME TypeInv, NEW w \in Workers, NEW l \in Labels, NEW e \in Locals,
         Goto(w, l, e), HasRead(l, e), UNCHANGED serial,
         user' \in UserRow, passwords' \in Nat, issued' \in Seq(Tokens),
         revoked' \subseteq Tokens, blacklist' \subseteq Tokens,
         sidOf' \in [Tokens -> Sids \cup {None}],
         session' \in SessionRow \cup {None}, ended' \subseteq Sids,
         orphans' \subseteq Tokens
  PROVE  TypeInv'
  <1>1. TypeOK'
    BY DEF TypeInv, TypeOK, Goto
  <1>2. ASSUME NEW v \in Workers PROVE HasRead(pc'[v], loc'[v])
    BY DEF TypeInv, TypeOK, Goto
  <1> QED  BY <1>1, <1>2 DEF TypeInv, HasRead

LEMMA LoginTypes ==
  ASSUME TypeInv, NEW w \in Workers, LoginStep(w), UNCHANGED serial
  PROVE  TypeInv'
  <1> USE NoLocalsType DEF TypeInv, TypeOK, Continue, Return, userVars, tokenVars,
          sessionVars
  <1>1. CASE LoginRead(w)
    <2>1. [NoLocals EXCEPT !.user = user] \in Locals
      BY DEF NoLocals, Locals
    <2>2. HasRead("login.save", [NoLocals EXCEPT !.user = user])
      BY DEF HasRead, AfterIssue, NoLocals
    <2> QED  BY <1>1, <2>1, <2>2, TypeMove DEF LoginRead, Labels
  <1>2. CASE LoginSave(w)
    <2>1. user' \in UserRow
      BY <1>2 DEF LoginSave, HasRead
    <2>2. HasRead("session.create", NoLocals)
      BY DEF HasRead, AfterIssue
    <2> QED  BY <1>2, <2>1, <2>2, TypeMove DEF LoginSave, Labels
  <1>3. CASE CreateSession(w)
    <2>1. PICK sid \in Sids :
            /\ SetSession([sid |-> sid, toks |-> <<>>])
            /\ Goto(w, "token.save", [NoLocals EXCEPT !.sid = sid])
      BY <1>3 DEF CreateSession
    <2>2. /\ [NoLocals EXCEPT !.sid = sid] \in Locals
          /\ HasRead("token.save", [NoLocals EXCEPT !.sid = sid])
      BY DEF NoLocals, Locals, HasRead, AfterIssue
    <2>3. session' \in SessionRow /\ ended' \subseteq Sids
      BY <2>1 DEF SetSession, Replaced, SessionRow
    <2> QED  BY <1>3, <2>1, <2>2, <2>3, TypeMove DEF CreateSession, Labels
  <1>4. CASE IssueToken(w)
    <2>1. PICK t \in Tokens \ Rows :
            /\ issued' = Append(issued, t)
            /\ sidOf' = [sidOf EXCEPT ![t] = loc[w].sid]
            /\ Goto(w, "session.get", [loc[w] EXCEPT !.t = t])
      BY <1>4 DEF IssueToken
    <2>2. /\ [loc[w] EXCEPT !.t = t] \in Locals
          /\ HasRead("session.get", [loc[w] EXCEPT !.t = t])
          /\ loc[w].sid \in Sids
      BY <1>4 DEF IssueToken, Locals, HasRead, AfterIssue
    <2>3. issued' \in Seq(Tokens) /\ sidOf' \in [Tokens -> Sids \cup {None}]
      BY <2>1, <2>2
    <2> QED  BY <1>4, <2>1, <2>2, <2>3, TypeMove DEF IssueToken, Labels, AfterIssue
  <1>5. CASE SessionGet(w)
    <2>1. CASE Goto(w, "cleanup.find", loc[w])
      <3>1. HasRead("cleanup.find", loc[w])
        BY <1>5 DEF SessionGet, HasRead, AfterIssue
      <3> QED  BY <1>5, <2>1, <3>1, TypeMove DEF SessionGet, Labels, AfterIssue
    <2>2. CASE /\ session # None
               /\ Goto(w, "session.set",
                    [loc[w] EXCEPT !.sess = [session EXCEPT
                       !.toks = LastOnes(Append(@, loc[w].t))]])
      <3> DEFINE s == [session EXCEPT !.toks = LastOnes(Append(@, loc[w].t))]
                 e == [loc[w] EXCEPT !.sess = s]
      <3>1. session \in SessionRow /\ loc[w].t \in Tokens
        BY <1>5, <2>2 DEF SessionGet, HasRead, AfterIssue
      <3>2. s \in SessionRow
        BY <3>1, LastOnesType DEF SessionRow
      <3> HIDE DEF s
      <3>3. e \in Locals /\ HasRead("session.set", e)
        BY <1>5, <3>2 DEF SessionGet, Locals, HasRead, AfterIssue
      <3>4. Goto(w, "session.set", e)
        BY <2>2 DEF s
      <3> QED  BY <1>5, <3>3, <3>4, TypeMove DEF SessionGet, Labels, AfterIssue
    <2> QED  BY <1>5, <2>1, <2>2 DEF SessionGet
  <1>6. CASE SessionSet(w)
    <2>1. loc[w].sess \in SessionRow /\ HasRead("cleanup.find", loc[w])
      BY <1>6 DEF SessionSet, HasRead, AfterIssue
    <2>2. session' \in SessionRow /\ ended' \subseteq Sids
      BY <1>6, <2>1 DEF SessionSet, SetSession, Replaced, SessionRow
    <2> QED  BY <1>6, <2>1, <2>2, TypeMove DEF SessionSet, Labels, AfterIssue
  <1>7. CASE CleanupFind(w)
    <2>1. CASE Goto(w, "idle", NoLocals) /\ UNCHANGED orphans
      BY <1>7, <2>1, IdleRead, TypeMove DEF CleanupFind, Labels
    <2>2. CASE /\ Goto(w, "cleanup.update", [loc[w] EXCEPT !.old = Surplus])
               /\ UNCHANGED orphans
      <3>1. Surplus \subseteq Tokens
        BY DEF Surplus
      <3>2. /\ [loc[w] EXCEPT !.old = Surplus] \in Locals
            /\ HasRead("cleanup.update", [loc[w] EXCEPT !.old = Surplus])
        BY <1>7, <3>1 DEF CleanupFind, Locals, HasRead, AfterIssue
      <3> QED  BY <1>7, <2>2, <3>2, TypeMove DEF CleanupFind, Labels, AfterIssue
    <2> QED  BY <1>7, <2>1, <2>2 DEF CleanupFind
  <1>8. CASE CleanupUpdate(w)
    <2>1. loc[w].old \subseteq Tokens
      BY DEF Locals
    <2> QED  BY <1>8, <2>1, IdleRead, TypeMove DEF CleanupUpdate, Labels
  <1> QED  BY <1>1, <1>2, <1>3, <1>4, <1>5, <1>6, <1>7, <1>8 DEF LoginStep

LEMMA RefreshTypes ==
  ASSUME TypeInv, NEW w \in Workers, RefreshStep(w), UNCHANGED serial
  PROVE  TypeInv'
  <1> USE NoLocalsType DEF TypeInv, TypeOK, Continue, Return, userVars, tokenVars,
          sessionVars
  <1>1. CASE RefreshRead(w)
    <2>1. PICK t \in Rows \ revoked :
            Goto(w, "refresh.session", [NoLocals EXCEPT !.t = t])
      BY <1>1 DEF RefreshRead
    <2>2. t \in Tokens
      BY DEF Rows, Range
    <2>3. /\ [NoLocals EXCEPT !.t = t] \in Locals
          /\ HasRead("refresh.session", [NoLocals EXCEPT !.t = t])
      BY <2>2 DEF NoLocals, Locals, HasRead, AfterIssue
    <2> QED  BY <1>1, <2>1, <2>3, TypeMove DEF RefreshRead, Labels
  <1>2. CASE RefreshSession(w)
    <2>1. HasRead("refresh.reject", loc[w])
      BY <1>2 DEF RefreshSession, HasRead, AfterIssue
    <2>2. session # None =>
            /\ [loc[w] EXCEPT !.sid = session.sid] \in Locals
            /\ HasRead("refresh.check", [loc[w] EXCEPT !.sid = session.sid])
      BY <1>2 DEF RefreshSession, HasRead, AfterIssue, Locals, SessionRow
    <2> QED  BY <1>2, <2>1, <2>2, TypeMove DEF RefreshSession, Labels
  <1>3. CASE RefreshCheck(w)
    <2>1. HasRead("refresh.reject", loc[w]) /\ HasRead("refresh.revoke", loc[w])
      BY <1>3 DEF RefreshCheck, HasRead, AfterIssue
    <2> QED  BY <1>3, <2>1, TypeMove DEF RefreshCheck, Labels
  <1>4. CASE RefreshReject(w)
    <2>1. loc[w].t \in Tokens
      BY <1>4 DEF RefreshReject, HasRead
    <2> QED  BY <1>4, <2>1, IdleRead, TypeMove DEF RefreshReject, Labels
  <1>5. CASE RefreshRevoke(w)
    <2>1. loc[w].t \in Tokens /\ loc[w].sid \in Sids
      BY <1>5 DEF RefreshRevoke, HasRead
    <2>2. /\ [loc[w] EXCEPT !.t = None] \in Locals
          /\ HasRead("token.save", [loc[w] EXCEPT !.t = None])
      BY <2>1 DEF HasRead, AfterIssue, Locals
    <2> QED  BY <1>5, <2>1, <2>2, TypeMove DEF RefreshRevoke, Labels
  <1> QED  BY <1>1, <1>2, <1>3, <1>4, <1>5 DEF RefreshStep

LEMMA LogoutTypes ==
  ASSUME TypeInv, NEW w \in Workers, LogoutStep(w), UNCHANGED serial
  PROVE  TypeInv'
  <1> USE NoLocalsType DEF TypeInv, TypeOK, Continue, Return, userVars, tokenVars,
          sessionVars
  <1>0. Rows \subseteq Tokens
    BY DEF Rows, Range
  <1>1. CASE LogoutRead(w)
    <2>1. PICK a \in Rows, t \in Rows :
            Goto(w, "logout.revoke", [NoLocals EXCEPT !.t = t, !.a = a])
      BY <1>1 DEF LogoutRead
    <2>2. /\ [NoLocals EXCEPT !.t = t, !.a = a] \in Locals
          /\ HasRead("logout.revoke", [NoLocals EXCEPT !.t = t, !.a = a])
      BY <1>0 DEF NoLocals, Locals, HasRead, AfterIssue
    <2> QED  BY <1>1, <2>1, <2>2, TypeMove DEF LogoutRead, Labels
  <1>2. CASE LogoutRevoke(w)
    <2>1. loc[w].t \in Tokens /\ HasRead("blacklist", loc[w])
      BY <1>2 DEF LogoutRevoke, HasRead, AfterIssue
    <2> QED  BY <1>2, <2>1, TypeMove DEF LogoutRevoke, Labels
  <1>3. CASE LogoutAll(w)
    <2>1. PICK a \in Rows : Goto(w, "revokeAll", [NoLocals EXCEPT !.a = a])
      BY <1>3 DEF LogoutAll
    <2>2. /\ [NoLocals EXCEPT !.a = a] \in Locals
          /\ HasRead("revokeAll", [NoLocals EXCEPT !.a = a])
      BY <1>0 DEF NoLocals, Locals, HasRead, AfterIssue
    <2> QED  BY <1>3, <2>1, <2>2, TypeMove DEF LogoutAll, Labels
  <1>4. CASE RevokeAll(w)
    <2>1. /\ HasRead("session.delete", loc[w])
          /\ loc[w].a # None => HasRead("blacklist", loc[w])
      BY DEF HasRead, AfterIssue, Locals
    <2> QED  BY <1>0, <1>4, <2>1, TypeMove DEF RevokeAll, Labels
  <1>5. CASE BlacklistToken(w)
    <2>1. loc[w].a \in Tokens /\ HasRead("session.delete", loc[w])
      BY <1>5 DEF BlacklistToken, HasRead, AfterIssue
    <2> QED  BY <1>5, <2>1, TypeMove DEF BlacklistToken, Labels
  <1>6. CASE DeleteSession(w)
    <2>1. session' = None /\ ended' \subseteq Sids
      BY <1>6 DEF DeleteSession, SetSession, Replaced, SessionRow
    <2> QED  BY <1>6, <2>1, IdleRead, TypeMove DEF DeleteSession, Labels
  <1> QED  BY <1>1, <1>2, <1>3, <1>4, <1>5, <1>6 DEF LogoutStep

LEMMA PasswordTypes ==
  ASSUME TypeInv, NEW w \in Workers, PasswordStep(w), UNCHANGED serial
  PROVE  TypeInv'
  <1> USE NoLocalsType DEF TypeInv, TypeOK, Continue, Return, userVars, tokenVars,
          sessionVars
  <1>0. /\ [NoLocals EXCEPT !.user = user] \in Locals
        /\ \A l \in {"forgot.save", "change.save"} :
             HasRead(l, [NoLocals EXCEPT !.user = user])
        /\ HasRead("reset.save", NoLocals) /\ HasRead("revokeAll", NoLocals)
    BY DEF NoLocals, Locals, HasRead, AfterIssue
  <1>1. CASE RequestPasswordReset(w)
    BY <1>0, <1>1, TypeMove DEF RequestPasswordReset, Labels
  <1>2. CASE RequestPasswordResetSave(w)
    <2>1. user' \in UserRow
      BY <1>2 DEF RequestPasswordResetSave, HasRead, UserRow
    <2> QED  BY <1>2, <2>1, IdleRead, TypeMove DEF RequestPasswordResetSave, Labels
  <1>3. CASE ResetPassword(w)
    BY <1>0, <1>3, TypeMove DEF ResetPassword, Labels
  <1>4. CASE ResetPasswordSave(w)
    <2>1. user' \in UserRow
      BY <1>4 DEF ResetPasswordSave, UserRow
    <2>2. passwords' \in Nat
      BY <1>4 DEF ResetPasswordSave
    <2> QED  BY <1>0, <1>4, <2>1, <2>2, TypeMove DEF ResetPasswordSave, Labels
  <1>5. CASE ChangePassword(w)
    BY <1>0, <1>5, TypeMove DEF ChangePassword, Labels
  <1>6. CASE ChangePasswordSave(w)
    <2>1. user' \in UserRow
      BY <1>6 DEF ChangePasswordSave, HasRead, UserRow
    <2>2. passwords' \in Nat
      BY <1>6 DEF ChangePasswordSave
    <2> QED  BY <1>0, <1>6, <2>1, <2>2, TypeMove DEF ChangePasswordSave, Labels
  <1> QED  BY <1>1, <1>2, <1>3, <1>4, <1>5, <1>6 DEF PasswordStep

LEMMA TypeStep == TypeInv /\ [Next]_avars => TypeInv'
  <1> SUFFICES ASSUME TypeInv, [Next]_avars PROVE TypeInv'
    OBVIOUS
  <1>1. CASE UNCHANGED avars
    BY <1>1 DEF avars, TypeInv, TypeOK, HasRead
  <1>2. CASE SessionExpires /\ UNCHANGED serial
    <2>1. session' = None /\ ended' \subseteq Sids
      BY <1>2 DEF SessionExpires, SetSession, Replaced, SessionRow, TypeInv, TypeOK
    <2> QED  BY <1>2, <2>1 DEF SessionExpires, userVars, tokenVars, TypeInv, TypeOK,
                               HasRead
  <1>3. ASSUME NEW w \in Workers, Fail(w), UNCHANGED serial PROVE TypeInv'
    <2>1. orphans' \subseteq Tokens
      BY <1>3 DEF Fail, TypeInv, TypeOK, HasRead
    <2> QED  BY <1>3, <2>1, NoLocalsType, IdleRead, TypeMove
             DEF Fail, TypeInv, TypeOK, Labels, userVars, tokenVars, sessionVars
  <1> QED  BY <1>1, <1>2, <1>3, LoginTypes, RefreshTypes, LogoutTypes, PasswordTypes
           DEF Next

LEMMA TypeInit == Init => TypeInv
  <1> SUFFICES ASSUME Init PROVE TypeInv
    OBVIOUS
  <1>1. [password |-> 0, reset |-> FALSE] \in UserRow
    BY DEF UserRow
  <1> QED  BY <1>1, NoLocalsType, IdleRead DEF Init, TypeInv, TypeOK, Labels

\* Tables, the Redis key and the handlers keep their types, for any number of
\* handlers, tokens and session ids.
THEOREM TypeCorrect == Spec => []TypeOK
  <1>1. TypeInv => TypeOK
    BY DEF TypeInv
  <1> QED  BY <1>1, TypeInit, TypeStep, PTL DEF Spec

-----------------------------------------------------------------------------
(* A session lists its own tokens.                                         *)

\* Storing a new token leaves the lists of the others their own.
LEMMA OwnStays ==
  ASSUME TypeOK,
         \/ UNCHANGED <<issued, sidOf>>
         \/ \E t \in Tokens \ Rows, sid \in Sids :
              issued' = Append(issued, t) /\ sidOf' = [sidOf EXCEPT ![t] = sid]
  PROVE  /\ \A t \in Rows : t \in Rows' /\ sidOf'[t] = sidOf[t]
         /\ \A s : Own(s) => Own(s)'
  <1>1. \A t \in Rows : t \in Rows' /\ sidOf'[t] = sidOf[t]
    <2>1. CASE UNCHANGED <<issued, sidOf>>
      BY <2>1 DEF Rows
    <2>2. ASSUME NEW t \in Tokens \ Rows, NEW sid \in Sids,
                 issued' = Append(issued, t), sidOf' = [sidOf EXCEPT ![t] = sid]
          PROVE  \A u \in Rows : u \in Rows' /\ sidOf'[u] = sidOf[u]
      <3>1. \A i \in DOMAIN issued : i \in DOMAIN issued' /\ issued'[i] = issued[i]
        BY <2>2 DEF TypeOK
      <3>2. \A u \in Rows : u \in Rows' /\ u # t
        BY <2>2, <3>1 DEF Rows, Range
      <3>3. Rows \subseteq Tokens
        BY DEF TypeOK, Rows, Range
      <3> QED  BY <2>2, <3>2, <3>3 DEF TypeOK
    <2> QED  BY <2>1, <2>2
  <1> QED  BY <1>1 DEF Own

\* A handler that moves on and leaves the key alone.
LEMMA OwnMove ==
  ASSUME TypeInv, OwnInv, NEW w \in Workers, NEW l, NEW e, Goto(w, l, e),
         UNCHANGED <<issued, sidOf>>,
         session' = session \/ session' = None,
         l \in AfterIssue => e.t \in Rows /\ sidOf[e.t] = e.sid,
         l = "session.set" => Own(e.sess)
  PROVE  OwnInv'
  <1>1. (\A s : Own(s) => Own(s)') /\ Rows' = Rows /\ sidOf' = sidOf
    BY OwnStays DEF TypeInv, Rows
  <1>2. ASSUME NEW v \in Workers PROVE KnowsItsToken(pc[v], loc[v])'
    <2>1. CASE v = w
      BY <1>1, <2>1 DEF Goto, KnowsItsToken, TypeInv, TypeOK
    <2>2. CASE v # w
      BY <1>1, <2>2 DEF Goto, KnowsItsToken, TypeInv, TypeOK, OwnInv
    <2> QED  BY <2>1, <2>2
  <1> QED  BY <1>1, <1>2 DEF OwnInv

LEMMA OwnLogin ==
  ASSUME TypeInv, OwnInv, NEW w \in Workers, LoginStep(w)
  PROVE  OwnInv'
  <1> USE DEF Continue, Return, userVars, tokenVars, sessionVars
  <1>0. KnowsItsToken(pc[w], loc[w]) /\ HasRead(pc[w], loc[w])
    BY DEF OwnInv, TypeInv
  <1>1. CASE LoginRead(w)
    BY <1>1, OwnMove DEF LoginRead, AfterIssue
  <1>2. CASE LoginSave(w)
    BY <1>2, OwnMove DEF LoginSave, AfterIssue
  <1>3. CASE CreateSession(w)
    <2>1. PICK sid \in Sids :
            /\ SetSession([sid |-> sid, toks |-> <<>>])
            /\ Goto(w, "token.save", [NoLocals EXCEPT !.sid = sid])
      BY <1>3 DEF CreateSession
    <2>2. Own(session)' /\ \A s : Own(s) => Own(s)'
      BY <1>3, <2>1, OwnStays DEF CreateSession, SetSession, Own, Range, TypeInv
    <2>3. Rows' = Rows /\ sidOf' = sidOf
      BY <1>3 DEF CreateSession, Rows
    <2>4. ASSUME NEW v \in Workers PROVE KnowsItsToken(pc[v], loc[v])'
      BY <2>1, <2>2, <2>3
         DEF Goto, KnowsItsToken, TypeInv, TypeOK, OwnInv, AfterIssue
    <2> QED  BY <2>2, <2>4 DEF OwnInv
  <1>4. CASE IssueToken(w)
    <2>1. PICK t \in Tokens \ Rows :
            /\ issued' = Append(issued, t)
            /\ sidOf' = [sidOf EXCEPT ![t] = loc[w].sid]
            /\ Goto(w, "session.get", [loc[w] EXCEPT !.t = t])
      BY <1>4 DEF IssueToken
    <2>2. loc[w].sid \in Sids /\ loc[w] \in Locals /\ session' = session
      BY <1>0, <1>4 DEF IssueToken, HasRead, TypeInv, TypeOK
    <2>3. /\ \A u \in Rows : u \in Rows' /\ sidOf'[u] = sidOf[u]
          /\ \A s : Own(s) => Own(s)'
      BY <2>1, <2>2, OwnStays DEF TypeInv
    <2>4. t \in Rows' /\ sidOf'[t] = loc[w].sid
      <3>1. issued \in Seq(Tokens) /\ sidOf \in [Tokens -> Sids \cup {None}]
        BY DEF TypeInv, TypeOK
      <3>2. Len(issued) + 1 \in DOMAIN issued' /\ issued'[Len(issued) + 1] = t
        BY <2>1, <3>1
      <3> QED  BY <2>1, <3>1, <3>2 DEF Rows, Range
    <2>5. ASSUME NEW v \in Workers PROVE KnowsItsToken(pc[v], loc[v])'
      <3>1. CASE v = w
        <4>1. /\ pc'[w] = "session.get" /\ loc'[w].t = t
              /\ loc'[w].sid = loc[w].sid
          BY <2>1, <2>2 DEF Goto, TypeInv, TypeOK, Locals
        <4> QED  BY <2>4, <3>1, <4>1 DEF KnowsItsToken
      <3>2. CASE v # w
        BY <2>1, <2>3, <3>2 DEF Goto, KnowsItsToken, TypeInv, TypeOK, OwnInv
      <3> QED  BY <3>1, <3>2
    <2> QED  BY <2>2, <2>3, <2>5 DEF OwnInv
  <1>5. CASE SessionGet(w)
    <2>1. CASE Goto(w, "cleanup.find", loc[w])
      BY <1>0, <1>5, <2>1, OwnMove DEF SessionGet, KnowsItsToken, AfterIssue
    <2>2. CASE /\ session # None /\ session.sid = loc[w].sid
               /\ Goto(w, "session.set",
                    [loc[w] EXCEPT !.sess = [session EXCEPT
                       !.toks = LastOnes(Append(@, loc[w].t))]])
      <3> DEFINE s == [session EXCEPT !.toks = LastOnes(Append(@, loc[w].t))]
                 e == [loc[w] EXCEPT !.sess = s]
      <3>1. /\ session \in SessionRow /\ loc[w].t \in Tokens /\ loc[w] \in Locals
            /\ Own(session) /\ loc[w].t \in Rows /\ sidOf[loc[w].t] = loc[w].sid
        BY <1>0, <1>5, <2>2
           DEF SessionGet, HasRead, KnowsItsToken, AfterIssue, TypeInv, TypeOK, OwnInv
      <3>2. /\ s.sid = session.sid
            /\ Range(s.toks) \subseteq Range(session.toks) \cup {loc[w].t}
        BY <3>1, LastOnesType DEF SessionRow
      <3>3. Own(s)
        <4> HIDE DEF s
        <4> QED  BY <2>2, <3>1, <3>2 DEF Own
      <3> HIDE DEF s
      <3>4. e.t = loc[w].t /\ e.sid = loc[w].sid /\ e.sess = s
        BY <3>1 DEF Locals
      <3>5. Goto(w, "session.set", e)
        BY <2>2 DEF s
      <3> HIDE DEF e
      <3> QED  BY <1>5, <3>1, <3>3, <3>4, <3>5, OwnMove DEF SessionGet
    <2> QED  BY <1>5, <2>1, <2>2 DEF SessionGet
  <1>6. CASE SessionSet(w)
    <2>1. /\ Own(loc[w].sess) /\ session' = loc[w].sess
          /\ loc[w].t \in Rows /\ sidOf[loc[w].t] = loc[w].sid
          /\ issued' = issued /\ sidOf' = sidOf
          /\ Goto(w, "cleanup.find", loc[w])
      BY <1>0, <1>6 DEF SessionSet, SetSession, KnowsItsToken, AfterIssue
    <2>2. \A s : Own(s) => Own(s)'
      BY <2>1, OwnStays DEF TypeInv
    <2>3. Own(session)'
      BY <2>1 DEF Own, Rows
    <2>4. ASSUME NEW v \in Workers PROVE KnowsItsToken(pc[v], loc[v])'
      <3>1. CASE v = w
        BY <2>1, <3>1 DEF Goto, KnowsItsToken, TypeInv, TypeOK, Rows
      <3>2. CASE v # w
        BY <2>1, <2>2, <3>2 DEF Goto, KnowsItsToken, TypeInv, TypeOK, OwnInv, Rows
      <3> QED  BY <3>1, <3>2
    <2> QED  BY <2>3, <2>4 DEF OwnInv
  <1>7. CASE CleanupFind(w)
    <2>1. loc[w].t \in Rows /\ sidOf[loc[w].t] = loc[w].sid /\ loc[w] \in Locals
      BY <1>0, <1>7 DEF CleanupFind, KnowsItsToken, AfterIssue, TypeInv, TypeOK
    <2> DEFINE e == [loc[w] EXCEPT !.old = Surplus]
    <2>2. e.t = loc[w].t /\ e.sid = loc[w].sid
      BY <2>1 DEF Locals
    <2>3. Goto(w, "idle", NoLocals) \/ Goto(w, "cleanup.update", e)
      BY <1>7 DEF CleanupFind
    <2> HIDE DEF e
    <2> QED  BY <1>7, <2>1, <2>2, <2>3, OwnMove DEF CleanupFind, AfterIssue
  <1>8. CASE CleanupUpdate(w)
    BY <1>8, OwnMove DEF CleanupUpdate, AfterIssue
  <1> QED  BY <1>1, <1>2, <1>3, <1>4, <1>5, <1>6, <1>7, <1>8 DEF LoginStep

LEMMA OwnStep == TypeInv /\ OwnInv /\ [Next]_avars => OwnInv'
  <1> SUFFICES ASSUME TypeInv, OwnInv, [Next]_avars PROVE OwnInv'
    OBVIOUS
  <1> USE DEF Continue, Return, userVars, tokenVars, sessionVars
  <1>1. CASE UNCHANGED avars
    BY <1>1 DEF avars, OwnInv, KnowsItsToken, Own, Rows
  <1>2. CASE SessionExpires
    BY <1>2 DEF SessionExpires, SetSession, OwnInv, KnowsItsToken, Own, Rows
  <1>3. ASSUME NEW w \in Workers, RefreshStep(w) PROVE OwnInv'
    BY <1>3, OwnMove DEF RefreshStep, RefreshRead, RefreshSession, RefreshCheck,
       RefreshReject, RefreshRevoke, AfterIssue
  <1>4. ASSUME NEW w \in Workers, LogoutStep(w) PROVE OwnInv'
    BY <1>4, OwnMove DEF LogoutStep, LogoutRead, LogoutRevoke, LogoutAll, RevokeAll,
       BlacklistToken, DeleteSession, SetSession, AfterIssue
  <1>5. ASSUME NEW w \in Workers, PasswordStep(w) PROVE OwnInv'
    BY <1>5, OwnMove DEF PasswordStep, RequestPasswordReset,
       RequestPasswordResetSave, ResetPassword, ResetPasswordSave, ChangePassword,
       ChangePasswordSave, AfterIssue
  <1>6. ASSUME NEW w \in Workers, Fail(w) PROVE OwnInv'
    BY <1>6, OwnMove DEF Fail, AfterIssue
  <1> QED  BY <1>1, <1>2, <1>3, <1>4, <1>5, <1>6, OwnLogin DEF Next

LEMMA OwnInit == Init => OwnInv
  BY DEF Init, OwnInv, KnowsItsToken, AfterIssue

\* In no interleaving, with handlers dying anywhere, does a session list a
\* refresh token that was issued for another one.
THEOREM SessionsListTheirOwn == Spec => []SessionListsItsOwn
  <1>1. TypeInv /\ OwnInv => SessionListsItsOwn
    BY DEF OwnInv, Own, SessionListsItsOwn
  <1>2. TypeInv /\ OwnInv /\ [Next]_avars => TypeInv' /\ OwnInv'
    BY TypeStep, OwnStep
  <1>3. Init => TypeInv /\ OwnInv
    BY TypeInit, OwnInit
  <1> QED  BY <1>1, <1>2, <1>3, PTL DEF Spec

-----------------------------------------------------------------------------
(* A session that has ended stays ended.                                   *)

\* A handler that moves on and leaves the key alone, or deletes it at its end.
LEMMA EndedMove ==
  ASSUME TypeInv, EndedInv, NEW w \in Workers, NEW l, NEW e, Goto(w, l, e),
         UNCHANGED serial,
         \/ session' = session /\ ended' = ended
         \/ SetSession(None) /\ l = "idle",
         pc[w] # "idle" \/ \E kind \in RequestKinds : Begin(w, kind),
         l # "session.set"
  PROVE  EndedInv'
  <1> SUFFICES ASSUME serial PROVE EndedInv'
    BY DEF EndedInv
  <1>1. \A v \in Workers \ {w} : pc[v] = "idle" /\ pc'[v] = pc[v]
    BY DEF EndedInv, Begin, Goto, TypeInv, TypeOK
  <1>2. pc'[w] = l
    BY DEF Goto, TypeInv, TypeOK
  <1>3. session' # None => session' = session /\ ended' = ended
    BY DEF SetSession
  <1> QED  BY <1>1, <1>2, <1>3 DEF EndedInv

LEMMA EndedLogin ==
  ASSUME TypeInv, EndedInv, NEW w \in Workers, LoginStep(w), UNCHANGED serial
  PROVE  EndedInv'
  <1> USE DEF Continue, Return, userVars, tokenVars, sessionVars, RequestKinds
  <1>1. CASE LoginRead(w)
    BY <1>1, EndedMove DEF LoginRead
  <1>2. CASE LoginSave(w)
    BY <1>2, EndedMove DEF LoginSave
  <1> SUFFICES ASSUME serial, pc[w] # "idle" PROVE EndedInv'
    BY <1>1, <1>2 DEF LoginStep, CreateSession, IssueToken, SessionGet, SessionSet,
       CleanupFind, CleanupUpdate, EndedInv
  <1>0. \A v \in Workers \ {w} : pc[v] = "idle"
    BY DEF EndedInv
  <1>3. CASE CreateSession(w)
    <2>1. PICK sid \in Sids \ ended :
            /\ session # None => session.sid # sid
            /\ SetSession([sid |-> sid, toks |-> <<>>])
            /\ Goto(w, "token.save", [NoLocals EXCEPT !.sid = sid])
      BY <1>3 DEF CreateSession
    <2>2. session'.sid \notin ended'
      BY <2>1 DEF SetSession, Replaced
    <2>3. \A v \in Workers : pc'[v] = IF v = w THEN "token.save" ELSE pc[v]
      BY <2>1 DEF Goto, TypeInv, TypeOK
    <2> QED  BY <1>0, <2>2, <2>3 DEF EndedInv
  <1>4. CASE IssueToken(w)
    <2>1. PICK e : Goto(w, "session.get", e)
      BY <1>4 DEF IssueToken
    <2> QED  BY <1>4, <2>1, EndedMove DEF IssueToken
  <1>5. CASE SessionGet(w)
    <2>1. CASE Goto(w, "cleanup.find", loc[w])
      BY <1>5, <2>1, EndedMove DEF SessionGet
    <2>2. CASE /\ session # None
               /\ Goto(w, "session.set",
                    [loc[w] EXCEPT !.sess = [session EXCEPT
                       !.toks = LastOnes(Append(@, loc[w].t))]])
      <3> DEFINE s == [session EXCEPT !.toks = LastOnes(Append(@, loc[w].t))]
                 e == [loc[w] EXCEPT !.sess = s]
      <3>1. loc[w] \in Locals /\ session \in SessionRow
        BY <2>2 DEF TypeInv, TypeOK
      <3>2. s.sid = session.sid
        BY <3>1 DEF SessionRow
      <3>3. e.sess = s
        <4> HIDE DEF s
        <4> QED  BY <3>1 DEF Locals
      <3>4. \A v \in Workers : /\ v # w => pc'[v] = "idle"
                               /\ v = w => loc'[v] = e
        BY <1>0, <2>2 DEF Goto, TypeInv, TypeOK
      <3> HIDE DEF e, s
      <3>5. session' = session /\ ended' = ended
        BY <1>5 DEF SessionGet
      <3>6. ASSUME NEW v \in Workers, pc'[v] = "session.set"
            PROVE  loc'[v].sess.sid = session.sid
        BY <3>2, <3>3, <3>4, <3>6
      <3> QED  BY <2>2, <3>4, <3>5, <3>6 DEF EndedInv
    <2> QED  BY <1>5, <2>1, <2>2 DEF SessionGet
  <1>6. CASE SessionSet(w)
    <2>1. /\ session # None /\ loc[w].sess.sid = session.sid
          /\ session.sid \notin ended
      BY <1>6 DEF SessionSet, EndedInv
    <2>2. session' = loc[w].sess /\ (session' # None => ended' = ended)
      BY <1>6, <2>1 DEF SessionSet, SetSession, Replaced
    <2>3. \A v \in Workers : pc'[v] = IF v = w THEN "cleanup.find" ELSE pc[v]
      BY <1>6 DEF SessionSet, Goto, TypeInv, TypeOK
    <2> QED  BY <1>0, <2>1, <2>2, <2>3 DEF EndedInv
  <1>7. CASE CleanupFind(w)
    BY <1>7, EndedMove DEF CleanupFind
  <1>8. CASE CleanupUpdate(w)
    BY <1>8, EndedMove DEF CleanupUpdate
  <1> QED  BY <1>1, <1>2, <1>3, <1>4, <1>5, <1>6, <1>7, <1>8 DEF LoginStep

LEMMA EndedStep == TypeInv /\ EndedInv /\ [Next]_avars => EndedInv'
  <1> SUFFICES ASSUME TypeInv, EndedInv, [Next]_avars PROVE EndedInv'
    OBVIOUS
  <1> USE DEF Continue, Return, userVars, tokenVars, sessionVars, RequestKinds
  <1>1. CASE UNCHANGED avars
    BY <1>1 DEF avars, EndedInv
  <1>2. CASE SessionExpires /\ UNCHANGED serial
    BY <1>2 DEF SessionExpires, SetSession, EndedInv
  <1>3. ASSUME NEW w \in Workers, RefreshStep(w), UNCHANGED serial PROVE EndedInv'
    BY <1>3, EndedMove DEF RefreshStep, RefreshRead, RefreshSession, RefreshCheck,
       RefreshReject, RefreshRevoke
  <1>4. ASSUME NEW w \in Workers, LogoutStep(w), UNCHANGED serial PROVE EndedInv'
    BY <1>4, EndedMove DEF LogoutStep, LogoutRead, LogoutRevoke, LogoutAll,
       RevokeAll, BlacklistToken, DeleteSession
  <1>5. ASSUME NEW w \in Workers, PasswordStep(w), UNCHANGED serial PROVE EndedInv'
    BY <1>5, EndedMove DEF PasswordStep, RequestPasswordReset,
       RequestPasswordResetSave, ResetPassword, ResetPasswordSave, ChangePassword,
       ChangePasswordSave
  <1>6. ASSUME NEW w \in Workers, Fail(w), UNCHANGED serial PROVE EndedInv'
    BY <1>6, EndedMove DEF Fail
  <1> QED  BY <1>1, <1>2, <1>3, <1>4, <1>5, <1>6, EndedLogin DEF Next

LEMMA EndedInit == Init => EndedInv
  BY DEF Init, EndedInv

\* While the requests of a user come one after the other, each of which may
\* die anywhere, a session that was replaced or deleted does not come back.
THEOREM EndedForGood == Spec => []EndedStaysEnded
  <1>1. EndedInv => EndedStaysEnded
    BY DEF EndedInv, EndedStaysEnded
  <1>2. TypeInv /\ EndedInv /\ [Next]_avars => TypeInv' /\ EndedInv'
    BY TypeStep, EndedStep
  <1>3. Init => TypeInv /\ EndedInv
    BY TypeInit, EndedInit
  <1> QED  BY <1>1, <1>2, <1>3, PTL DEF Spec

-----------------------------------------------------------------------------
(* What the handlers leave unrevoked.                                      *)

\* Issuing more tokens and revoking some only lessens what is in excess.
LEMMA ExcessShrinks ==
  ASSUME TypeOK, NEW n \in DOMAIN issued,
         \A i \in DOMAIN issued : issued'[i] = issued[i],
         revoked \subseteq revoked'
  PROVE  \A i \in Excess(n)' : i \in Excess(n) /\ issued'[i] = issued[i]
  <1>0. DOMAIN issued = 1..Len(issued) /\ Len(issued) \in Nat /\ n \in Nat
    BY DEF TypeOK
  <1>1. ASSUME NEW i \in Excess(n)'
        PROVE  i \in Excess(n) /\ issued'[i] = issued[i]
    <2>1. /\ i \in 1..n /\ issued'[i] \notin revoked'
          /\ Cardinality(UnrevokedBetween(i, n)') >= Keep
      BY <1>1 DEF Excess
    <2>2. i \in DOMAIN issued /\ issued'[i] = issued[i]
      BY <1>0, <2>1
    <2>3. UnrevokedBetween(i, n)' \subseteq UnrevokedBetween(i, n)
      BY <1>0, <2>1 DEF UnrevokedBetween
    <2>4. /\ IsFiniteSet(UnrevokedBetween(i, n))
          /\ IsFiniteSet(UnrevokedBetween(i, n)')
      <3>1. IsFiniteSet((i + 1)..n)
        BY <1>0, <2>1, FS_Interval
      <3> QED  BY <3>1, FS_Subset DEF UnrevokedBetween
    <2>5. /\ Cardinality(UnrevokedBetween(i, n)') \in Nat
          /\ Cardinality(UnrevokedBetween(i, n)) \in Nat
          /\ Cardinality(UnrevokedBetween(i, n)') <=
                Cardinality(UnrevokedBetween(i, n))
      BY <2>3, <2>4, FS_Subset, FS_CardinalityType
    <2>6. Cardinality(UnrevokedBetween(i, n)) >= Keep
      BY <2>1, <2>5
    <2> QED  BY <2>1, <2>2, <2>6 DEF Excess
  <1> QED  BY <1>1

\* What a step of one handler leaves of the promises of the others.
LEMMA CleanMove ==
  ASSUME TypeInv, CleanInv, NEW w \in Workers,
         \A v \in Workers \ {w} : pc'[v] = pc[v] /\ loc'[v] = loc[v],
         \A i \in DOMAIN issued : issued'[i] = issued[i],
         revoked \subseteq revoked', orphans \subseteq orphans',
         \A n \in DOMAIN issued : WillClean(w, n) => Cleaned(n)'
  PROVE  \A n \in DOMAIN issued : Cleaned(n)'
  <1> SUFFICES ASSUME NEW n \in DOMAIN issued PROVE Cleaned(n)'
    OBVIOUS
  <1>1. \A i \in Excess(n)' : i \in Excess(n) /\ issued'[i] = issued[i]
    BY ExcessShrinks DEF TypeInv
  <1>2. CASE issued[n] \in orphans \/ Excess(n) = {}
    BY <1>1, <1>2 DEF Cleaned
  <1>3. ASSUME NEW v \in Workers, WillClean(v, n) PROVE Cleaned(n)'
    <2>1. CASE v = w
      BY <1>3, <2>1
    <2>2. CASE v # w
      <3>1. WillClean(v, n)'
        BY <1>1, <1>3, <2>2 DEF WillClean
      <3> QED  BY <3>1 DEF Cleaned
    <2> QED  BY <2>1, <2>2
  <1> QED  BY <1>2, <1>3 DEF CleanInv, Cleaned

\* A handler that has nothing to clean, and one that goes on towards it.
LEMMA CleanOther ==
  ASSUME TypeInv, CleanInv, NEW w \in Workers, NEW l, NEW e, Goto(w, l, e),
         issued' = issued, revoked \subseteq revoked', orphans \subseteq orphans',
         \/ pc[w] \notin AfterIssue
         \/ /\ pc[w] \in {"session.get", "session.set"}
            /\ l \in {"session.set", "cleanup.find"} /\ e.t = loc[w].t
         \/ pc[w] \in AfterIssue /\ loc[w].t \in orphans'
  PROVE  CleanInv'
  <1>1. /\ \A v \in Workers \ {w} : pc'[v] = pc[v] /\ loc'[v] = loc[v]
        /\ pc'[w] = l /\ loc'[w] = e
    BY DEF Goto, TypeInv, TypeOK
  <1>2. ASSUME NEW n \in DOMAIN issued, WillClean(w, n) PROVE Cleaned(n)'
    <2>1. pc[w] \in AfterIssue /\ loc[w].t = issued[n]
      BY <1>2 DEF WillClean, AfterIssue
    <2>2. CASE loc[w].t \in orphans'
      BY <2>1, <2>2 DEF Cleaned
    <2>3. CASE /\ pc[w] \in {"session.get", "session.set"}
               /\ l \in {"session.set", "cleanup.find"} /\ e.t = loc[w].t
      <3>1. WillClean(w, n)'
        BY <1>1, <2>1, <2>3 DEF WillClean
      <3> QED  BY <3>1 DEF Cleaned
    <2> QED  BY <2>1, <2>2, <2>3
  <1> QED  BY <1>1, <1>2, CleanMove DEF CleanInv

\* The surplus a handler reads contains what is in excess up to its own token.
LEMMA ExcessIsSurplus ==
  ASSUME TypeOK, NEW n \in DOMAIN issued, NEW i \in Excess(n)
  PROVE  issued[i] \in Surplus
  <1>0. DOMAIN issued = 1..Len(issued) /\ Len(issued) \in Nat /\ n \in Nat
    BY DEF TypeOK
  <1>1. /\ i \in DOMAIN issued /\ issued[i] \notin revoked
        /\ Cardinality(UnrevokedBetween(i, n)) >= Keep
    BY <1>0 DEF Excess
  <1>2. UnrevokedBetween(i, n) \subseteq UnrevokedAfter(i)
    BY <1>0, <1>1 DEF UnrevokedBetween, UnrevokedAfter
  <1>3. IsFiniteSet(UnrevokedAfter(i))
    <2>1. IsFiniteSet(DOMAIN issued)
      BY <1>0, FS_Interval
    <2> QED  BY <2>1, FS_Subset DEF UnrevokedAfter
  <1>4. /\ Cardinality(UnrevokedAfter(i)) \in Nat
        /\ Cardinality(UnrevokedBetween(i, n)) \in Nat
        /\ Cardinality(UnrevokedBetween(i, n)) <= Cardinality(UnrevokedAfter(i))
    BY <1>2, <1>3, FS_Subset, FS_CardinalityType
  <1>5. Cardinality(UnrevokedAfter(i)) >= Keep
    BY <1>1, <1>4
  <1> QED  BY <1>1, <1>5 DEF Surplus

LEMMA CleanLogin ==
  ASSUME TypeInv, CleanInv, NEW w \in Workers, LoginStep(w)
  PROVE  CleanInv'
  <1> USE DEF Continue, Return, userVars, tokenVars, sessionVars
  <1>1. CASE LoginRead(w)
    BY <1>1, CleanOther DEF LoginRead, Begin, AfterIssue
  <1>2. CASE LoginSave(w)
    BY <1>2, CleanOther DEF LoginSave, AfterIssue
  <1>3. CASE CreateSession(w)
    <2>1. PICK e : Goto(w, "token.save", e)
      BY <1>3 DEF CreateSession
    <2> QED  BY <1>3, <2>1, CleanOther DEF CreateSession, AfterIssue
  <1>4. CASE IssueToken(w)
    <2>1. PICK t \in Tokens \ Rows :
            /\ issued' = Append(issued, t)
            /\ Goto(w, "session.get", [loc[w] EXCEPT !.t = t])
      BY <1>4 DEF IssueToken
    <2>2. /\ DOMAIN issued' = DOMAIN issued \cup {Len(issued) + 1}
          /\ issued'[Len(issued) + 1] = t
          /\ \A i \in DOMAIN issued : issued'[i] = issued[i]
      BY <2>1 DEF TypeInv, TypeOK
    <2>3. /\ pc'[w] = "session.get" /\ loc'[w].t = t
          /\ \A v \in Workers \ {w} : pc'[v] = pc[v] /\ loc'[v] = loc[v]
      BY <2>1 DEF Goto, TypeInv, TypeOK, Locals
    <2>4. \A n \in DOMAIN issued : Cleaned(n)'
      <3>1. \A n \in DOMAIN issued : ~WillClean(w, n)
        BY <1>4 DEF IssueToken, WillClean
      <3> QED  BY <1>4, <2>2, <2>3, <3>1, CleanMove DEF IssueToken
    <2>5. ASSUME NEW n \in DOMAIN issued' PROVE Cleaned(n)'
      <3>1. CASE n \in DOMAIN issued
        BY <2>4, <3>1
      <3>2. CASE n = Len(issued) + 1
        <4>1. WillClean(w, n)'
          BY <2>2, <2>3, <3>2 DEF WillClean
        <4> QED  BY <4>1 DEF Cleaned
      <3> QED  BY <2>2, <3>1, <3>2
    <2> QED  BY <2>5 DEF CleanInv
  <1>5. CASE SessionGet(w)
    <2>1. CASE Goto(w, "cleanup.find", loc[w])
      BY <1>5, <2>1, CleanOther DEF SessionGet
    <2>2. CASE Goto(w, "session.set",
                    [loc[w] EXCEPT !.sess = [session EXCEPT
                       !.toks = LastOnes(Append(@, loc[w].t))]])
      <3> DEFINE s == [session EXCEPT !.toks = LastOnes(Append(@, loc[w].t))]
                 e == [loc[w] EXCEPT !.sess = s]
      <3> HIDE DEF s
      <3>1. e.t = loc[w].t
        BY DEF TypeInv, TypeOK, Locals
      <3>2. Goto(w, "session.set", e)
        BY <2>2 DEF s
      <3> HIDE DEF e
      <3> QED  BY <1>5, <3>1, <3>2, CleanOther DEF SessionGet
    <2> QED  BY <1>5, <2>1, <2>2 DEF SessionGet
  <1>6. CASE SessionSet(w)
    BY <1>6, CleanOther DEF SessionSet
  <1>7. CASE CleanupFind(w)
    <2>1. /\ pc[w] = "cleanup.find" /\ issued' = issued /\ revoked' = revoked
          /\ orphans' = orphans
      BY <1>7 DEF CleanupFind
    <2>2. \A v \in Workers \ {w} : pc'[v] = pc[v] /\ loc'[v] = loc[v]
      BY <1>7 DEF CleanupFind, Goto, TypeInv, TypeOK
    <2>3. ASSUME NEW n \in DOMAIN issued, WillClean(w, n) PROVE Cleaned(n)'
      <3>1. \A i \in Excess(n)' : i \in Excess(n) /\ issued'[i] = issued[i]
        BY <2>1, ExcessShrinks DEF TypeInv
      <3>2. \A i \in Excess(n) : issued[i] \in Surplus
        BY ExcessIsSurplus DEF TypeInv
      <3>3. CASE Surplus = {}
        BY <3>1, <3>2, <3>3 DEF Cleaned
      <3>4. CASE Goto(w, "cleanup.update", [loc[w] EXCEPT !.old = Surplus])
        <4>1. /\ pc'[w] = "cleanup.update" /\ loc'[w].old = Surplus
              /\ loc'[w].t = loc[w].t
          BY <3>4 DEF Goto, TypeInv, TypeOK, Locals
        <4>2. WillClean(w, n)'
          BY <2>1, <2>3, <3>1, <3>2, <4>1 DEF WillClean
        <4> QED  BY <4>2 DEF Cleaned
      <3> QED  BY <1>7, <3>3, <3>4 DEF CleanupFind
    <2> QED  BY <2>1, <2>2, <2>3, CleanMove DEF CleanInv
  <1>8. CASE CleanupUpdate(w)
    <2>1. /\ pc[w] = "cleanup.update" /\ issued' = issued
          /\ revoked' = revoked \cup loc[w].old /\ orphans' = orphans
      BY <1>8 DEF CleanupUpdate
    <2>2. \A v \in Workers \ {w} : pc'[v] = pc[v] /\ loc'[v] = loc[v]
      BY <1>8 DEF CleanupUpdate, Goto, TypeInv, TypeOK
    <2>3. ASSUME NEW n \in DOMAIN issued, WillClean(w, n) PROVE Cleaned(n)'
      <3>1. \A i \in Excess(n)' : i \in Excess(n) /\ issued'[i] = issued[i]
        BY <2>1, ExcessShrinks DEF TypeInv
      <3>2. \A i \in Excess(n) : issued[i] \in loc[w].old
        BY <2>1, <2>3 DEF WillClean
      <3>3. \A i \in Excess(n)' : issued'[i] \notin revoked'
        BY DEF Excess
      <3>4. Excess(n)' = {}
        BY <2>1, <3>1, <3>2, <3>3
      <3> QED  BY <3>4 DEF Cleaned
    <2> QED  BY <2>1, <2>2, <2>3, CleanMove DEF CleanInv
  <1> QED  BY <1>1, <1>2, <1>3, <1>4, <1>5, <1>6, <1>7, <1>8 DEF LoginStep

LEMMA CleanStep == TypeInv /\ CleanInv /\ [Next]_avars => CleanInv'
  <1> SUFFICES ASSUME TypeInv, CleanInv, [Next]_avars PROVE CleanInv'
    OBVIOUS
  <1> USE DEF Continue, Return, userVars, tokenVars, sessionVars
  <1>1. CASE UNCHANGED avars \/ SessionExpires
    <2>1. UNCHANGED <<issued, revoked, orphans, pc, loc>>
      BY <1>1 DEF avars, SessionExpires
    <2> QED  BY <2>1 DEF CleanInv, Cleaned, WillClean, Excess, UnrevokedBetween
  <1>2. ASSUME NEW w \in Workers, RefreshStep(w) PROVE CleanInv'
    BY <1>2, CleanOther DEF RefreshStep, RefreshRead, RefreshSession, RefreshCheck,
       RefreshReject, RefreshRevoke, Begin, AfterIssue
  <1>3. ASSUME NEW w \in Workers, LogoutStep(w) PROVE CleanInv'
    BY <1>3, CleanOther DEF LogoutStep, LogoutRead, LogoutRevoke, LogoutAll,
       RevokeAll, BlacklistToken, DeleteSession, Begin, AfterIssue
  <1>4. ASSUME NEW w \in Workers, PasswordStep(w) PROVE CleanInv'
    BY <1>4, CleanOther DEF PasswordStep, RequestPasswordReset,
       RequestPasswordResetSave, ResetPassword, ResetPasswordSave, ChangePassword,
       ChangePasswordSave, Begin, AfterIssue
  <1>5. ASSUME NEW w \in Workers, Fail(w) PROVE CleanInv'
    <2>1. pc[w] \in AfterIssue => loc[w].t \in orphans'
      BY <1>5 DEF Fail
    <2> QED  BY <1>5, <2>1, CleanOther DEF Fail
  <1> QED  BY <1>1, <1>2, <1>3, <1>4, <1>5, CleanLogin DEF Next

LEMMA CleanInit == Init => CleanInv
  BY DEF Init, CleanInv

\* When every handler has answered, the oldest and the newest token left are
\* less than Keep unrevoked tokens apart.
LEMMA CleanBounds == TypeInv /\ CleanInv => UnrevokedBounded
  <1> SUFFICES ASSUME TypeInv, CleanInv, Quiet
               PROVE  Cardinality((Rows \ revoked) \ orphans) <= Keep
    BY DEF UnrevokedBounded
  <1> DEFINE L == (Rows \ revoked) \ orphans
             I == {i \in DOMAIN issued : issued[i] \in L}
  <1>0. DOMAIN issued = 1..Len(issued) /\ Len(issued) \in Nat
    BY DEF TypeInv, TypeOK
  <1>1. I \in SUBSET Nat /\ IsFiniteSet(I)
    <2>1. IsFiniteSet(DOMAIN issued)
      BY <1>0, FS_Interval
    <2>2. I \subseteq DOMAIN issued
      OBVIOUS
    <2> QED  BY <1>0, <2>1, <2>2, FS_Subset
  <1>2. Cardinality(I) \in Nat /\ Cardinality(L) \in Nat
        /\ Cardinality(L) <= Cardinality(I)
    <2> DEFINE f == [i \in I |-> issued[i]]
    <2>1. f \in [I -> L] /\ \A t \in L : \E i \in I : f[i] = t
      BY DEF Rows, Range
    <2>2. f \in Surjection(I, L)
      BY <2>1, Fun_IsSurj
    <2> QED  BY <1>1, <2>2, FS_Surjection, FS_CardinalityType
  <1>3. CASE I = {}
    BY <1>2, <1>3, FS_EmptySet
  <1>4. CASE I # {}
    <2>1. PICK a \in I : \A k \in I : a <= k
      BY <1>1, <1>4, LeastOf
    <2>2. PICK b \in I : \A k \in I : k <= b
      BY <1>1, <1>4, GreatestOf
    <2>3. /\ a \in Nat /\ b \in Nat /\ a \in 1..b
          /\ issued[a] \notin revoked /\ issued[b] \notin orphans
      BY <1>0, <2>1, <2>2
    <2>4. Excess(b) = {}
      <3>1. \A v \in Workers : ~WillClean(v, b)
        BY DEF Quiet, WillClean
      <3> QED  BY <2>3, <3>1 DEF CleanInv, Cleaned
    <2>5. ~(Cardinality(UnrevokedBetween(a, b)) >= Keep)
      BY <2>3, <2>4 DEF Excess
    <2>6. I \subseteq UnrevokedBetween(a, b) \cup {a}
      BY <1>0, <2>1, <2>2, <2>3 DEF UnrevokedBetween
    <2>7. IsFiniteSet(UnrevokedBetween(a, b))
      <3>1. IsFiniteSet((a + 1)..b)
        BY <2>3, FS_Interval
      <3> QED  BY <3>1, FS_Subset DEF UnrevokedBetween
    <2>8. /\ Cardinality(UnrevokedBetween(a, b)) \in Nat
          /\ IsFiniteSet(UnrevokedBetween(a, b) \cup {a})
          /\ Cardinality(UnrevokedBetween(a, b) \cup {a}) <=
                Cardinality(UnrevokedBetween(a, b)) + 1
      <3> DEFINE B == UnrevokedBetween(a, b)
      <3> HIDE DEF B
      <3>1. Cardinality(B) \in Nat /\ IsFiniteSet(B)
        BY <2>7, FS_CardinalityType DEF B
      <3>2. /\ IsFiniteSet(B \cup {a})
            /\ Cardinality(B \cup {a}) =
                 IF a \in B THEN Cardinality(B) ELSE Cardinality(B) + 1
        BY <3>1, FS_AddElement, Zenon
      <3>3. Cardinality(B \cup {a}) <= Cardinality(B) + 1
        BY <3>1, <3>2
      <3> QED  BY <3>1, <3>2, <3>3 DEF B
    <2>9. Cardinality(I) <= Cardinality(UnrevokedBetween(a, b) \cup {a})
      BY <2>6, <2>8, FS_Subset
    <2>10. Cardinality(UnrevokedBetween(a, b) \cup {a}) \in Nat
      BY <2>8, FS_CardinalityType
    <2> QED  BY <1>2, <2>5, <2>8, <2>9, <2>10
  <1> QED  BY <1>3, <1>4

\* Once all handlers have answered, at most Keep tokens are neither revoked
\* nor left behind by a handler that died, however the reads and the updates
\* of cleanupExpiredTokens interleaved.
THEOREM LeftoversAreBounded == Spec => []UnrevokedBounded
  <1>1. TypeInv /\ CleanInv => UnrevokedBounded
    BY CleanBounds
  <1>2. TypeInv /\ CleanInv /\ [Next]_avars => TypeInv' /\ CleanInv'
    BY TypeStep, CleanStep
  <1>3. Init => TypeInv /\ CleanInv
    BY TypeInit, CleanInit
  <1> QED  BY <1>1, <1>2, <1>3, PTL DEF Spec

=============================================================================
