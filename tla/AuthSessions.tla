---------------------------- MODULE AuthSessions ----------------------------
(***************************************************************************)
(* The login session of one user: AuthService over the users, the          *)
(* refresh_tokens and the token_blacklist tables, and SessionService over  *)
(* the user's one Redis key, which holds the session id and the refresh    *)
(* tokens issued for it.                                                   *)
(*                                                                         *)
(* Nothing here runs in a transaction: every await is a step, and between  *)
(* two of them another request of the same user may run.  save(user)       *)
(* writes every column of the copy that was read, so that what changed in  *)
(* the row since is put back; an undefined property is skipped.            *)
(*                                                                         *)
(* A refresh token stands for the access token of the same response too.   *)
(* Passwords are numbered in the order they are set.                       *)
(***************************************************************************)
EXTENDS Naturals, Sequences, FiniteSets, Functions

CONSTANTS
  Workers,      \* request handlers that may be in flight
  Tokens,       \* the tokens generateRefreshToken may return
  Sids,         \* the session ids uuidv4 may return
  Keep,         \* tokens kept per session and per user: 5 in the code
  MaxPassword,  \* bound: the password is changed at most so often
  Requests,     \* the kinds received one at a time, and those at once
  None

ASSUME AuthNumbers  == Keep \in Nat \ {0} /\ MaxPassword \in Nat

RequestKinds ==
  {"login", "refresh", "logout", "logoutAll", "forgot", "reset", "change"}

ASSUME AuthRequests == Requests \in [BOOLEAN -> SUBSET RequestKinds]
ASSUME AuthNone == None \notin Sids /\ None \notin Tokens

VARIABLES
  user,      \* the user's row: password, and whether a reset link is stored
  passwords, \* history: how many passwords have been set
  issued,    \* table refresh_tokens, oldest row first
  revoked,   \* the tokens whose row has isRevoked
  sidOf,     \* the sessionId in the access token issued with each
  blacklist, \* the access tokens in token_blacklist
  session,   \* key user:<id>:session, None when it is absent
  ended,     \* history: session ids that were replaced or deleted
  orphans,   \* history: tokens whose handler died before its cleanup
  serial,    \* mode, fixed at the start: the user's requests come one at a time
  pc, loc

avars == <<user, passwords, issued, revoked, sidOf, blacklist, session, ended,
           orphans, serial, pc, loc>>

userVars    == <<user, passwords>>
tokenVars   == <<issued, revoked, sidOf, blacklist>>
sessionVars == <<session, ended>>

NoLocals == [user |-> None, sid |-> None, t |-> None, a |-> None,
             sess |-> None, old |-> {}]

Init ==
  /\ user = [password |-> 0, reset |-> FALSE]
  /\ passwords = 0
  /\ issued = <<>> /\ revoked = {} /\ blacklist = {}
  /\ sidOf = [t \in Tokens |-> None]
  /\ session = None /\ ended = {}
  /\ orphans = {}
  /\ serial \in BOOLEAN
  /\ pc = [w \in Workers |-> "idle"]
  /\ loc = [w \in Workers |-> NoLocals]

-----------------------------------------------------------------------------

Goto(w, l, e) == /\ pc'  = [pc EXCEPT ![w] = l]
                 /\ loc' = [loc EXCEPT ![w] = e]

Return(w) == Goto(w, "idle", NoLocals) /\ UNCHANGED orphans

Continue(w, l, e) == Goto(w, l, e) /\ UNCHANGED orphans

Begin(w, kind) ==
  /\ pc[w] = "idle" /\ kind \in Requests[serial]
  /\ serial => \A v \in Workers : pc[v] = "idle"

Rows == Range(issued)

\* JwtStrategy.validate: the access token is not blacklisted and carries the
\* id of the session that is in Redis.
Accepted(a) == /\ a \in Rows \ blacklist
               /\ session # None
               /\ session.sid = sidOf[a]

\* The session id that a write of the key takes away, if any.
Replaced(new) ==
  IF session = None \/ (new # None /\ new.sid = session.sid)
    THEN {} ELSE {session.sid}

SetSession(new) == /\ session' = new
                   /\ ended' = ended \cup Replaced(new)

LastOnes(s) ==
  IF Len(s) > Keep THEN SubSeq(s, Len(s) - Keep + 1, Len(s)) ELSE s

-----------------------------------------------------------------------------
(* login, and generateAuthResponse, which every way to log in ends with.   *)

\* validateUser: the right password was given, the user is read.
LoginRead(w) ==
  /\ Begin(w, "login")
  /\ Continue(w, "login.save", [NoLocals EXCEPT !.user = user])
  /\ UNCHANGED <<userVars, tokenVars, sessionVars>>

\* updateLastLogin, and save of the whole copy.
LoginSave(w) ==
  /\ pc[w] = "login.save"
  /\ user' = loc[w].user
  /\ Continue(w, "session.create", NoLocals)
  /\ UNCHANGED <<passwords, tokenVars, sessionVars>>

\* Mutant: a session id is used again.
CreateSessionSameId(w) ==
  /\ pc[w] = "session.create"
  /\ \E sid \in Sids :
       /\ SetSession([sid |-> sid, toks |-> <<>>])
       /\ Continue(w, "token.save", [NoLocals EXCEPT !.sid = sid])
  /\ UNCHANGED <<userVars, tokenVars>>

\* createSession overwrites whatever session there is.
CreateSession(w) ==
  /\ pc[w] = "session.create"
  /\ \E sid \in Sids \ ended :
       /\ session # None => session.sid # sid
       /\ SetSession([sid |-> sid, toks |-> <<>>])
       /\ Continue(w, "token.save", [NoLocals EXCEPT !.sid = sid])
  /\ UNCHANGED <<userVars, tokenVars>>

\* generateAuthResponseWithSessionId: sign the access token for the session id
\* this handler has, and store a new refresh token.
IssueToken(w) ==
  /\ pc[w] = "token.save"
  /\ \E t \in Tokens \ Rows :
       /\ issued' = Append(issued, t)
       /\ sidOf' = [sidOf EXCEPT ![t] = loc[w].sid]
       /\ Continue(w, "session.get", [loc[w] EXCEPT !.t = t])
  /\ UNCHANGED <<userVars, revoked, blacklist, sessionVars>>

\* Mutant: the session is not compared with the one the token is for.
SessionGetUnmatched(w) ==
  /\ pc[w] = "session.get"
  /\ IF session = None
       THEN Continue(w, "cleanup.find", loc[w])
       ELSE Continue(w, "session.set",
              [loc[w] EXCEPT !.sess =
                [session EXCEPT !.toks = LastOnes(Append(@, loc[w].t))]])
  /\ UNCHANGED <<userVars, tokenVars, sessionVars>>

\* addRefreshTokenToSession: GET the session and add to the copy ...
SessionGet(w) ==
  /\ pc[w] = "session.get"
  /\ IF session = None \/ session.sid # loc[w].sid
       THEN Continue(w, "cleanup.find", loc[w])
       ELSE Continue(w, "session.set",
              [loc[w] EXCEPT !.sess =
                [session EXCEPT !.toks = LastOnes(Append(@, loc[w].t))]])
  /\ UNCHANGED <<userVars, tokenVars, sessionVars>>

\* ... and SET the copy, whatever the key holds by now.
SessionSet(w) ==
  /\ pc[w] = "session.set"
  /\ SetSession(loc[w].sess)
  /\ Continue(w, "cleanup.find", loc[w])
  /\ UNCHANGED <<userVars, tokenVars>>

\* The unrevoked rows that are newer than the i-th.
UnrevokedAfter(i) == {j \in DOMAIN issued : j > i /\ issued[j] \notin revoked}

\* Mutant: one token too many is kept.
SurplusOffByOne ==
  {issued[i] : i \in {k \in DOMAIN issued :
     issued[k] \notin revoked /\ Cardinality(UnrevokedAfter(k)) > Keep}}

\* The unrevoked tokens of the user but the newest ones.
Surplus ==
  {issued[i] : i \in {k \in DOMAIN issued :
     issued[k] \notin revoked /\ Cardinality(UnrevokedAfter(k)) >= Keep}}

\* cleanupExpiredTokens reads the unrevoked tokens ...
CleanupFind(w) ==
  /\ pc[w] = "cleanup.find"
  /\ IF Surplus = {} THEN Return(w)
       ELSE Continue(w, "cleanup.update", [loc[w] EXCEPT !.old = Surplus])
  /\ UNCHANGED <<userVars, tokenVars, sessionVars>>

\* ... and revokes the oldest of those it read; the response is sent.
CleanupUpdate(w) ==
  /\ pc[w] = "cleanup.update"
  /\ revoked' = revoked \cup loc[w].old
  /\ Return(w)
  /\ UNCHANGED <<userVars, issued, sidOf, blacklist, sessionVars>>

-----------------------------------------------------------------------------
(* refreshTokens.                                                          *)

RefreshRead(w) ==
  /\ Begin(w, "refresh")
  /\ \E t \in Rows \ revoked :
       Continue(w, "refresh.session", [NoLocals EXCEPT !.t = t])
  /\ UNCHANGED <<userVars, tokenVars, sessionVars>>

\* getSession: the id the new tokens will be for.
RefreshSession(w) ==
  /\ pc[w] = "refresh.session"
  /\ IF session = None
       THEN Continue(w, "refresh.reject", loc[w])
       ELSE Continue(w, "refresh.check", [loc[w] EXCEPT !.sid = session.sid])
  /\ UNCHANGED <<userVars, tokenVars, sessionVars>>

\* isRefreshTokenValidForSession reads the key again.
RefreshCheck(w) ==
  /\ pc[w] = "refresh.check"
  /\ IF session # None /\ loc[w].t \in Range(session.toks)
       THEN Continue(w, "refresh.revoke", loc[w])
       ELSE Continue(w, "refresh.reject", loc[w])
  /\ UNCHANGED <<userVars, tokenVars, sessionVars>>

RefreshReject(w) ==
  /\ pc[w] = "refresh.reject"
  /\ revoked' = revoked \cup {loc[w].t}
  /\ Return(w)
  /\ UNCHANGED <<userVars, issued, sidOf, blacklist, sessionVars>>

\* The token is spent; extendSession prolongs the key if it is still there.
RefreshRevoke(w) ==
  /\ pc[w] = "refresh.revoke"
  /\ revoked' = revoked \cup {loc[w].t}
  /\ Continue(w, "token.save", [loc[w] EXCEPT !.t = None])
  /\ UNCHANGED <<userVars, issued, sidOf, blacklist, sessionVars>>

-----------------------------------------------------------------------------
(* logout, logoutAll, and the two ways to change a password.               *)

\* The caller shows an accepted access token and a refresh token of its own.
LogoutRead(w) ==
  /\ Begin(w, "logout")
  /\ \E a, t \in Rows :
       /\ Accepted(a)
       /\ Continue(w, "logout.revoke", [NoLocals EXCEPT !.t = t, !.a = a])
  /\ UNCHANGED <<userVars, tokenVars, sessionVars>>

LogoutRevoke(w) ==
  /\ pc[w] = "logout.revoke"
  /\ revoked' = revoked \cup {loc[w].t}
  /\ Continue(w, "blacklist", loc[w])
  /\ UNCHANGED <<userVars, issued, sidOf, blacklist, sessionVars>>

LogoutAll(w) ==
  /\ Begin(w, "logoutAll")
  /\ \E a \in Rows :
       /\ Accepted(a)
       /\ Continue(w, "revokeAll", [NoLocals EXCEPT !.a = a])
  /\ UNCHANGED <<userVars, tokenVars, sessionVars>>

RequestPasswordReset(w) ==
  /\ Begin(w, "forgot")
  /\ Continue(w, "forgot.save", [NoLocals EXCEPT !.user = user])
  /\ UNCHANGED <<userVars, tokenVars, sessionVars>>

RequestPasswordResetSave(w) ==
  /\ pc[w] = "forgot.save"
  /\ user' = [loc[w].user EXCEPT !.reset = TRUE]
  /\ Return(w)
  /\ UNCHANGED <<passwords, tokenVars, sessionVars>>

ResetPassword(w) ==
  /\ Begin(w, "reset")
  /\ user.reset
  /\ passwords < MaxPassword
  /\ Continue(w, "reset.save", NoLocals)
  /\ UNCHANGED <<userVars, tokenVars, sessionVars>>

\* passwordResetToken = undefined leaves the column, and the link, as it is.
ResetPasswordSave(w) ==
  /\ pc[w] = "reset.save"
  /\ user' = [user EXCEPT !.password = passwords + 1]
  /\ passwords' = passwords + 1
  /\ Continue(w, "revokeAll", NoLocals)
  /\ UNCHANGED <<tokenVars, sessionVars>>

ChangePassword(w) ==
  /\ Begin(w, "change")
  /\ passwords < MaxPassword
  /\ \E a \in Rows : Accepted(a)
  /\ Continue(w, "change.save", [NoLocals EXCEPT !.user = user])
  /\ UNCHANGED <<userVars, tokenVars, sessionVars>>

ChangePasswordSave(w) ==
  /\ pc[w] = "change.save"
  /\ user' = [loc[w].user EXCEPT !.password = passwords + 1]
  /\ passwords' = passwords + 1
  /\ Continue(w, "revokeAll", NoLocals)
  /\ UNCHANGED <<tokenVars, sessionVars>>

\* One UPDATE of all unrevoked rows; only the logouts blacklist.
RevokeAll(w) ==
  /\ pc[w] = "revokeAll"
  /\ revoked' = revoked \cup Rows
  /\ Continue(w, IF loc[w].a = None THEN "session.delete" ELSE "blacklist",
              loc[w])
  /\ UNCHANGED <<userVars, issued, sidOf, blacklist, sessionVars>>

BlacklistToken(w) ==
  /\ pc[w] = "blacklist"
  /\ blacklist' = blacklist \cup {loc[w].a}
  /\ Continue(w, "session.delete", loc[w])
  /\ UNCHANGED <<userVars, issued, revoked, sidOf, sessionVars>>

\* deleteSession deletes the key whichever session it holds.
DeleteSession(w) ==
  /\ pc[w] = "session.delete"
  /\ SetSession(None)
  /\ Return(w)
  /\ UNCHANGED <<userVars, tokenVars>>

-----------------------------------------------------------------------------

\* The key's seven days are over; createSession and extendSession begin them
\* again, so not while a handler is about to add its token.
SessionExpires ==
  /\ session # None
  /\ \A w \in Workers :
       pc[w] \notin {"token.save", "session.get", "session.set"}
  /\ SetSession(None)
  /\ UNCHANGED <<userVars, tokenVars, orphans, pc, loc>>

AfterIssue == {"session.get", "session.set", "cleanup.find", "cleanup.update"}

\* A store does not answer, or the process dies: nothing is undone.
Fail(w) ==
  /\ pc[w] # "idle"
  /\ Goto(w, "idle", NoLocals)
  /\ orphans' = orphans \cup (IF pc[w] \in AfterIssue THEN {loc[w].t} ELSE {})
  /\ UNCHANGED <<userVars, tokenVars, sessionVars>>

LoginStep(w) ==
  \/ LoginRead(w) \/ LoginSave(w) \/ CreateSession(w) \/ IssueToken(w)
  \/ SessionGet(w) \/ SessionSet(w) \/ CleanupFind(w) \/ CleanupUpdate(w)

RefreshStep(w) ==
  \/ RefreshRead(w) \/ RefreshSession(w) \/ RefreshCheck(w)
  \/ RefreshReject(w) \/ RefreshRevoke(w)

LogoutStep(w) ==
  \/ LogoutRead(w) \/ LogoutRevoke(w) \/ LogoutAll(w) \/ RevokeAll(w)
  \/ BlacklistToken(w) \/ DeleteSession(w)

PasswordStep(w) ==
  \/ RequestPasswordReset(w) \/ RequestPasswordResetSave(w)
  \/ ResetPassword(w) \/ ResetPasswordSave(w)
  \/ ChangePassword(w) \/ ChangePasswordSave(w)

Next ==
  /\ \/ SessionExpires
     \/ \E w \in Workers : \/ LoginStep(w) \/ RefreshStep(w) \/ LogoutStep(w)
                           \/ PasswordStep(w) \/ Fail(w)
  /\ UNCHANGED serial

Spec == Init /\ [][Next]_avars

-----------------------------------------------------------------------------
(* Properties.                                                             *)

UserRow    == [password : Nat, reset : BOOLEAN]
SessionRow == [sid : Sids, toks : Seq(Tokens)]

Labels == AfterIssue \cup
  {"idle", "login.save", "session.create", "token.save", "refresh.session",
   "refresh.check", "refresh.reject", "refresh.revoke", "logout.revoke",
   "forgot.save", "reset.save", "change.save", "revokeAll", "blacklist",
   "session.delete"}

Locals == [user : UserRow \cup {None}, sid : Sids \cup {None},
           t : Tokens \cup {None}, a : Tokens \cup {None},
           sess : SessionRow \cup {None}, old : SUBSET Tokens]

\* Tables, key, history and handlers have their types.
TypeOK ==
  /\ user \in UserRow
  /\ passwords \in Nat
  /\ issued \in Seq(Tokens)
  /\ revoked \subseteq Tokens
  /\ blacklist \subseteq Tokens
  /\ sidOf \in [Tokens -> Sids \cup {None}]
  /\ session \in SessionRow \cup {None}
  /\ ended \subseteq Sids
  /\ orphans \subseteq Tokens
  /\ serial \in BOOLEAN
  /\ pc \in [Workers -> Labels]
  /\ loc \in [Workers -> Locals]

\* A session never lists a refresh token that was issued for another one, so
\* that a token of a session that was replaced cannot continue the one that
\* replaced it, although copies of the key are written back late.
SessionListsItsOwn ==
  session # None => \A t \in Range(session.toks) : sidOf[t] = session.sid

Quiet == \A w \in Workers : pc[w] = "idle"

\* cleanupExpiredTokens: once all handlers have answered the user has at most
\* Keep refresh tokens that are not revoked, however their reads and updates
\* interleaved; a handler that died before its cleanup may leave its own.
UnrevokedBounded ==
  Quiet => Cardinality((Rows \ revoked) \ orphans) <= Keep

\* "Revoke all refresh tokens - forces re-login on all devices": a session
\* that a logout, a password change or a newer login ended does not return, as
\* long as the user's requests come one after the other, each of which may die
\* between any two of its steps.
EndedStaysEnded ==
  serial /\ session # None => session.sid \notin ended

=============================================================================
