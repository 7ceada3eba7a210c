------------------------- MODULE AuthSessionsProofs -------------------------
(* What TLAPS proves about AuthSessions, for any number of sessions, tokens, reset
   tokens, codes and requests in flight. *)
EXTENDS AuthSessions, FiniteSetTheorems, TLAPS

\* The statements a request has still to begin are a tail of those of its kind.
PlanOK(w) ==
    LET k == job[w].kind IN
    job[w] # None =>
        /\ k \in {"refresh", "logout", "verify", "confirm"} => plan[w] \in {<<"row">>, << >>}
        /\ k = "revoke" => plan[w] \in {<<"row", "tokens">>, <<"tokens">>, << >>}
        /\ k = "all" => plan[w] \in {<<"sessions", "tokens">>, <<"tokens">>, << >>}
        /\ k = "reset" => plan[w] \in {<<"row", "account", "tokens", "sessions">>,
                <<"account", "tokens", "sessions">>, <<"tokens", "sessions">>, <<"sessions">>, << >>}
        /\ k = "change" => plan[w] \in
               {<<"account", "tokens", "sessions">>, <<"tokens", "sessions">>, <<"sessions">>, << >>}
        /\ k = "block" => plan[w] \in
               {<<"account", "sessions", "tokens">>, <<"sessions", "tokens">>, <<"tokens">>, << >>}
        /\ k \in {"wrong", "issue"} => plan[w] = << >>

RowOK(w) ==
    LET k == job[w].kind  r == job[w].row IN
    job[w] # None =>
        /\ k \in {"refresh", "logout"} => r \in Tokens /\ sessionOf[r] # None
        /\ k = "refresh" => r \notin late
        /\ k = "revoke" => r \in Sessions
        /\ k = "reset" => r \in Resets
        /\ k \in {"verify", "confirm", "wrong"} => r \in Challenges

\* A request that must use its row alone has locked it once it is past it.
ClaimOK(w) ==
    LET k == job[w].kind IN
    /\ job[w] # None
    /\ \/ k \in {"refresh", "verify"} /\ plan[w] = << >>
       \/ k = "reset" /\ plan[w] # <<"row", "account", "tokens", "sessions">>
    => lock[job[w].row] = w

\* Once a new password or a block has begun its update of the sessions, each session it
\* knew is ended, locked or still to be locked.
SessionsBegun(w) == plan[w] = << >> \/ (job[w].kind = "block" /\ plan[w] = <<"tokens">>)
KnownOK(w) ==
    job[w] # None /\ job[w].kind \in EndsAll =>
        /\ job[w].known \subseteq opened
        /\ SessionsBegun(w) =>
              \A s \in job[w].known : s \in ended \/ lock[s] = w \/ s \in todo[w]

HandlerOK(w) == PlanOK(w) /\ RowOK(w) /\ ClaimOK(w) /\ KnownOK(w)

LockedLive == \A r \in Rows : lock[r] # None => r \notin ended
TokensOK == \A t \in Tokens : sessionOf[t] # None => sessionOf[t] \in opened
ParentsOK ==
    \A t \in Tokens : parent[t] # None =>
        parent[t] \in ended /\ sessionOf[parent[t]] # None /\ parent[t] \notin late
LateOK == \A t \in late : sessionOf[t] \in ended
UsesOK == \A r \in Resets \cup Challenges : uses[r] > 0 => r \in ended

Wrong(c) == {w \in Handlers : job[w] # None /\ job[w].kind = "wrong" /\ job[w].row = c}
\* A request that will count a wrong answer checked the limit while it was in flight.
GuessOK(c) ==
    /\ c \notin ended => guesses[c] = attempts[c]
    /\ guesses[c] + Cardinality(Wrong(c)) <= MaxAttempts + Cardinality(Handlers) - 1

AInv ==
    /\ AuthTypeOK
    /\ \A w \in Handlers : HandlerOK(w)
    /\ LockedLive /\ TokensOK /\ ParentsOK /\ LateOK /\ UsesOK
    /\ \A c \in Challenges : GuessOK(c)
    /\ OneLiveToken
    /\ UsedOnce
-----------------------------------------------------------------------------
(* Rows and locks *)

USE DEF rowVars, historyVars, workVars, vars

LEMMA RowFacts ==
    /\ Sessions \subseteq Rows /\ Tokens \subseteq Rows /\ Resets \subseteq Rows /\ Challenges \subseteq Rows
    /\ Account \in Rows /\ None \notin Rows /\ None \notin Handlers /\ None \notin Jobs
    /\ \A r \in Sessions \cup Tokens \cup Resets \cup Challenges : r # Account
    /\ Sessions \cap Tokens = {}
BY AuthAssumption, AbsentAssumption DEF Rows

\* What Commit and rollback do to the request's own state.
LEMMA ReleaseFacts ==
    ASSUME AInv, NEW w \in Handlers, Release(w)
    PROVE  /\ lock' \in [Rows -> Handlers \cup {None}]
           /\ \A r \in Rows : lock'[r] = IF lock[r] = w THEN None ELSE lock[r]
           /\ plan' \in [Handlers -> Seq(Statements)] /\ plan'[w] = << >>
           /\ todo' \in [Handlers -> SUBSET Rows] /\ todo'[w] = {}
           /\ \A v \in Handlers : v # w => plan'[v] = plan[v] /\ todo'[v] = todo[v]
BY DEF AInv, AuthTypeOK, Release

LEMMA EndFacts ==
    ASSUME AInv, NEW w \in Handlers, End(w)
    PROVE  /\ Release(w) /\ job' \in [Handlers -> Jobs \cup {None}] /\ job'[w] = None
           /\ \A v \in Handlers : v # w => job'[v] = job[v]
BY DEF AInv, AuthTypeOK, End

\* The other requests keep what they rely on, as rows are only added and ended, and a
\* lock only the request itself releases.
LEMMA OthersKeep ==
    ASSUME AInv, NEW w \in Handlers, NEW v \in Handlers, v # w,
           job'[v] = job[v], plan'[v] = plan[v], todo'[v] = todo[v],
           \A t \in Tokens : sessionOf[t] # None => sessionOf'[t] = sessionOf[t],
           opened \subseteq opened', ended \subseteq ended',
           \A r \in Rows : lock[r] # None /\ lock[r] # w => lock'[r] = lock[r],
           \A t \in late' : t \in late \/ sessionOf[t] = None
    PROVE  HandlerOK(v)'
<1>1. PlanOK(v)'
  BY DEF AInv, HandlerOK, PlanOK
<1>2. RowOK(v)'
  BY DEF AInv, HandlerOK, RowOK
<1>3. ClaimOK(v)'
  <2>1. job[v] # None /\ job[v].kind \in {"refresh", "verify", "reset"} => job[v].row \in Rows
    BY RowFacts DEF AInv, HandlerOK, RowOK
  <2>2. QED
    BY <2>1, RowFacts DEF AInv, HandlerOK, ClaimOK
<1>4. KnownOK(v)'
  <2>1. job[v] # None => job[v].known \subseteq Sessions
    BY DEF AInv, AuthTypeOK, Jobs
  <2>2. QED
    BY <2>1, RowFacts DEF AInv, HandlerOK, KnownOK, SessionsBegun
<1>5. QED
  BY <1>1, <1>2, <1>3, <1>4 DEF HandlerOK

\* The statements of a request, as sequences.
LEMMA PlanFacts ==
    /\ <<"row">> # << >> /\ <<"row", "tokens">> # << >> /\ <<"tokens">> # << >> /\ <<"sessions">> # << >>
    /\ <<"sessions", "tokens">> # << >> /\ <<"tokens", "sessions">> # << >>
    /\ <<"row", "account", "tokens", "sessions">> # << >> /\ <<"account", "tokens", "sessions">> # << >>
    /\ <<"account", "sessions", "tokens">> # << >> /\ <<"account", "sessions", "tokens">> # <<"tokens">>
    /\ <<"sessions", "tokens">> # <<"tokens">>
OBVIOUS

\* A request that has no job has nothing to keep.
LEMMA IdleOK ==
    ASSUME NEW w \in Handlers, job[w] = None
    PROVE  HandlerOK(w)
BY DEF HandlerOK, PlanOK, RowOK, ClaimOK, KnownOK, SessionsBegun

LEMMA WrongFinite ==
    ASSUME NEW c
    PROVE  IsFiniteSet(Wrong(c)) /\ Cardinality(Wrong(c)) \in Nat /\ Cardinality(Handlers) \in Nat
           /\ Cardinality(Wrong(c)) <= Cardinality(Handlers)
<1>1. Wrong(c) \subseteq Handlers
  BY DEF Wrong
<1>2. QED
  BY <1>1, AuthAssumption, FS_Subset, FS_CardinalityType

\* No guess is answered and no new one is let in.
LEMMA GuessKeeps ==
    ASSUME AInv, NEW w \in Handlers, \A v \in Handlers : v # w => job'[v] = job[v],
           job'[w] # None => job'[w].kind # "wrong" \/ job'[w] = job[w],
           UNCHANGED <<attempts, guesses>>, ended \subseteq ended'
    PROVE  \A c \in Challenges : GuessOK(c)'
<1> TAKE c \in Challenges
<1>1. Wrong(c)' \subseteq Wrong(c)
  BY DEF Wrong
<1>2. Cardinality(Wrong(c)') <= Cardinality(Wrong(c)) /\ Cardinality(Wrong(c)') \in Nat
  BY <1>1, WrongFinite, FS_Subset, FS_CardinalityType
<1>3. guesses[c] \in Nat /\ MaxAttempts \in Nat
  BY AuthAssumption DEF AInv, AuthTypeOK
<1>4. guesses'[c] + Cardinality(Wrong(c)') <= MaxAttempts + Cardinality(Handlers) - 1
  BY <1>2, <1>3, WrongFinite DEF AInv, GuessOK
<1>5. QED
  BY <1>4 DEF AInv, GuessOK

-----------------------------------------------------------------------------
(* Requests *)

LEMMA BeginInductive ==
    ASSUME AInv, NEW w \in Handlers, NEW kind \in Kinds, NEW row \in Rows \cup {None}, NEW statements \in Seq(Statements),
           NEW n \in Nat, Begin(w, kind, row, statements, n),
           kind \in {"refresh", "logout", "verify", "confirm"} => statements = <<"row">>,
           kind = "revoke" => statements = <<"row", "tokens">>,
           kind = "all" => statements = <<"sessions", "tokens">>,
           kind = "reset" => statements = <<"row", "account", "tokens", "sessions">>,
           kind = "change" => statements = <<"account", "tokens", "sessions">>,
           kind = "block" => statements = <<"account", "sessions", "tokens">>,
           kind \in {"wrong", "issue"} => statements = << >>,
           kind \in {"refresh", "logout"} => row \in Tokens /\ sessionOf[row] # None,
           kind = "refresh" => row \notin late,
           kind = "revoke" => row \in Sessions,
           kind = "reset" => row \in Resets,
           kind \in {"verify", "confirm", "wrong"} => row \in Challenges,
           kind = "wrong" => row \notin ended /\ attempts[row] < MaxAttempts
    PROVE  AInv'
<1> DEFINE j == [kind |-> kind, row |-> row, seen |-> n,
                 known |-> IF kind \in EndsAll THEN opened ELSE {}]
<1>1. /\ job[w] = None /\ job' = [job EXCEPT ![w] = j] /\ plan' = [plan EXCEPT ![w] = statements]
      /\ UNCHANGED <<rowVars, historyVars, lock, todo>>
  BY DEF Begin
<1>2. j \in Jobs
  BY DEF Jobs, AInv, AuthTypeOK
<1>3. j.kind = kind /\ j.row = row /\ (kind \in EndsAll => j.known = opened)
  OBVIOUS
<1> HIDE DEF j
<1>4. /\ job' \in [Handlers -> Jobs \cup {None}] /\ job'[w] = j /\ j # None
      /\ plan' \in [Handlers -> Seq(Statements)] /\ plan'[w] = statements
      /\ \A v \in Handlers : v # w => job'[v] = job[v] /\ plan'[v] = plan[v]
  BY <1>1, <1>2, RowFacts DEF AInv, AuthTypeOK
<1>5. AuthTypeOK'
  BY <1>1, <1>4 DEF AInv, AuthTypeOK
<1>6. HandlerOK(w)'
  <2>1. PlanOK(w)'
    BY <1>3, <1>4 DEF PlanOK, Kinds, EndsAll
  <2>2. RowOK(w)'
    BY <1>1, <1>3, <1>4 DEF RowOK
  <2>3. ClaimOK(w)'
    BY <1>3, <1>4, PlanFacts DEF ClaimOK
  <2>4. KnownOK(w)'
    BY <1>1, <1>3, <1>4, PlanFacts DEF KnownOK, SessionsBegun, EndsAll
  <2>5. QED
    BY <2>1, <2>2, <2>3, <2>4 DEF HandlerOK
<1>7. ASSUME NEW v \in Handlers, v # w PROVE HandlerOK(v)'
  BY <1>1, <1>4, <1>7, OthersKeep
<1>8. LockedLive' /\ TokensOK' /\ ParentsOK' /\ LateOK' /\ UsesOK' /\ OneLiveToken' /\ UsedOnce'
  BY <1>1 DEF AInv, LockedLive, TokensOK, ParentsOK, LateOK, UsesOK, OneLiveToken, UsedOnce, Issued
<1>9. \A c \in Challenges : GuessOK(c)'
  <2>1. CASE kind # "wrong"
    BY <1>1, <1>3, <1>4, <2>1, GuessKeeps
  <2>2. CASE kind = "wrong"
    <3> TAKE c \in Challenges
    <3>1. CASE c # row
      <4>1. Wrong(c)' = Wrong(c)
        BY <1>1, <1>3, <1>4, <3>1 DEF Wrong
      <4>2. QED
        BY <1>1, <4>1 DEF AInv, GuessOK
    <3>2. CASE c = row
      <4>1. c \notin ended /\ attempts[c] < MaxAttempts /\ guesses[c] = attempts[c] /\ guesses[c] \in Nat
            /\ MaxAttempts \in Nat
        BY <2>2, <3>2, AuthAssumption DEF AInv, AuthTypeOK, GuessOK
      <4>2. Cardinality(Wrong(c)') <= Cardinality(Handlers) /\ Cardinality(Wrong(c)') \in Nat
        <5>1. Wrong(c)' \subseteq Handlers
          BY DEF Wrong
        <5>2. QED
          BY <5>1, AuthAssumption, FS_Subset, FS_CardinalityType
      <4>3. guesses[c] + Cardinality(Wrong(c)') <= MaxAttempts + Cardinality(Handlers) - 1
        <5>1. Cardinality(Handlers) \in Nat
          BY WrongFinite
        <5>2. QED
          BY <4>1, <4>2, <5>1
      <4>4. QED
        BY <1>1, <4>1, <4>3 DEF GuessOK
    <3>3. QED
      BY <3>1, <3>2
  <2>3. QED
    BY <2>1, <2>2
<1>10. QED
  BY <1>5, <1>6, <1>7, <1>8, <1>9 DEF AInv
LEMMA StatementsTyped ==
    /\ << >> \in Seq(Statements) /\ <<"row">> \in Seq(Statements) /\ <<"row", "tokens">> \in Seq(Statements)
    /\ <<"sessions", "tokens">> \in Seq(Statements)
    /\ <<"row", "account", "tokens", "sessions">> \in Seq(Statements)
    /\ <<"account", "tokens", "sessions">> \in Seq(Statements)
    /\ <<"account", "sessions", "tokens">> \in Seq(Statements)
BY DEF Statements

LEMMA RequestInductive ==
    ASSUME AInv, NEW w \in Handlers, Request(w)
    PROVE  AInv'
<1> USE RowFacts, StatementsTyped
<1>1. ASSUME NEW t \in Tokens, Refresh(w, t) PROVE AInv'
  <2>1. sessionOf[t] # None /\ t \notin late /\ t \in Rows
    BY <1>1 DEF AInv, LateOK, Refresh, Issued
  <2>2. Begin(w, "refresh", t, <<"row">>, 0)
    BY <1>1 DEF Refresh
  <2>3. QED
    BY <2>1, <2>2, BeginInductive DEF Kinds, EndsAll
<1>2. ASSUME NEW t \in Tokens, Logout(w, t) PROVE AInv'
  <2>1. sessionOf[t] # None /\ Begin(w, "logout", t, <<"row">>, 0)
    BY <1>2 DEF Logout, Issued
  <2>2. QED
    BY <2>1, BeginInductive DEF Kinds, EndsAll
<1>3. ASSUME NEW s \in Sessions, RevokeSession(w, s) PROVE AInv'
  <2>1. Begin(w, "revoke", s, <<"row", "tokens">>, 0)
    BY <1>3 DEF RevokeSession
  <2>2. QED
    BY <2>1, BeginInductive DEF Kinds, EndsAll
<1>4. ASSUME NEW s \in Sessions \cup {None}, LogoutAllSessions(w, s) PROVE AInv'
  <2>1. Begin(w, "all", s, <<"sessions", "tokens">>, 0)
    BY <1>4 DEF LogoutAllSessions
  <2>2. QED
    BY <2>1, BeginInductive DEF Kinds, EndsAll
<1>5. ASSUME NEW r \in Resets, ResetPassword(w, r) PROVE AInv'
  <2>1. Begin(w, "reset", r, <<"row", "account", "tokens", "sessions">>, 0)
    BY <1>5 DEF ResetPassword
  <2>2. QED
    BY <2>1, BeginInductive DEF Kinds, EndsAll
<1>6. ASSUME ChangePassword(w) PROVE AInv'
  <2>1. Begin(w, "change", None, <<"account", "tokens", "sessions">>, 0)
    BY <1>6 DEF ChangePassword
  <2>2. QED
    BY <2>1, BeginInductive DEF Kinds, EndsAll
<1>7. ASSUME BlockUser(w) PROVE AInv'
  <2>1. Begin(w, "block", None, <<"account", "sessions", "tokens">>, 0)
    BY <1>7 DEF BlockUser
  <2>2. QED
    BY <2>1, BeginInductive DEF Kinds, EndsAll
<1>8. ASSUME Login(w) PROVE AInv'
  <2>1. Begin(w, "issue", None, << >>, 0)
    BY <1>8 DEF Login
  <2>2. QED
    BY <2>1, BeginInductive DEF Kinds, EndsAll
<1>9. ASSUME NEW c \in Challenges, VerifyMfaLogin(w, c) \/ ConfirmCode(w, c) PROVE AInv'
  <2>1. Begin(w, "verify", c, <<"row">>, 0) \/ Begin(w, "confirm", c, <<"row">>, 0)
    BY <1>9 DEF VerifyMfaLogin, ConfirmCode
  <2>2. QED
    BY <2>1, BeginInductive DEF Kinds, EndsAll
<1>10. ASSUME NEW c \in Challenges, WrongCode(w, c) PROVE AInv'
  <2>1. Begin(w, "wrong", c, << >>, attempts[c]) /\ attempts[c] \in Nat /\ c \notin ended
        /\ attempts[c] < MaxAttempts
    BY <1>10 DEF WrongCode, Valid, AInv, AuthTypeOK
  <2>2. "wrong" \in Kinds /\ "wrong" \notin EndsAll
    BY DEF Kinds, EndsAll
  <2>3. QED
    BY <2>1, <2>2, BeginInductive
<1>11. QED
  BY <1>1, <1>2, <1>3, <1>4, <1>5, <1>6, <1>7, <1>8, <1>9, <1>10 DEF Request

LEMMA SendInductive ==
    ASSUME AInv, (\E r \in Resets \cup Challenges : Send(r)) \/ UNCHANGED vars
    PROVE  AInv'
<1>1. /\ UNCHANGED <<opened, sessionOf, parent, ended, attempts, historyVars, workVars>>
      /\ sent' \subseteq Resets \cup Challenges
  BY DEF AInv, AuthTypeOK, Send
<1>2. AuthTypeOK'
  BY <1>1 DEF AInv, AuthTypeOK
<1>3. \A w \in Handlers : HandlerOK(w)'
  BY <1>1 DEF AInv, HandlerOK, PlanOK, RowOK, ClaimOK, KnownOK, SessionsBegun
<1>4. LockedLive' /\ TokensOK' /\ ParentsOK' /\ LateOK' /\ UsesOK' /\ OneLiveToken' /\ UsedOnce'
  BY <1>1 DEF AInv, LockedLive, TokensOK, ParentsOK, LateOK, UsesOK, OneLiveToken, UsedOnce, Issued
<1>5. \A c \in Challenges : GuessOK(c)'
  BY <1>1 DEF AInv, GuessOK, Wrong
<1>6. QED
  BY <1>2, <1>3, <1>4, <1>5 DEF AInv

-----------------------------------------------------------------------------
(* The statements of a transaction *)

\* A step of a request within its transaction: no row changes.
LEMMA WorkInductive ==
    ASSUME AInv, NEW w \in Handlers, UNCHANGED <<rowVars, historyVars>>,
           AuthTypeOK', HandlerOK(w)',
           \A v \in Handlers : v # w => job'[v] = job[v] /\ plan'[v] = plan[v] /\ todo'[v] = todo[v],
           job'[w] # None => job'[w] = job[w],
           \A r \in Rows : lock'[r] = lock[r] \/ (lock[r] \in {None, w} /\ (lock'[r] # None => r \notin ended))
    PROVE  AInv'
<1>1. ASSUME NEW v \in Handlers, v # w PROVE HandlerOK(v)'
  BY <1>1, OthersKeep
<1>2. LockedLive'
  BY DEF AInv, LockedLive
<1>3. TokensOK' /\ ParentsOK' /\ LateOK' /\ UsesOK' /\ OneLiveToken' /\ UsedOnce'
  BY DEF AInv, TokensOK, ParentsOK, LateOK, UsesOK, OneLiveToken, UsedOnce, Issued
<1>4. \A c \in Challenges : GuessOK(c)'
  BY GuessKeeps
<1>5. QED
  BY <1>1, <1>2, <1>3, <1>4 DEF AInv

LEMMA AbortInductive ==
    ASSUME AInv, NEW w \in Handlers, End(w), UNCHANGED <<rowVars, historyVars>>
    PROVE  AInv'
<1>1. /\ lock' \in [Rows -> Handlers \cup {None}]
      /\ \A r \in Rows : lock'[r] = IF lock[r] = w THEN None ELSE lock[r]
      /\ plan' \in [Handlers -> Seq(Statements)] /\ todo' \in [Handlers -> SUBSET Rows]
      /\ job' \in [Handlers -> Jobs \cup {None}] /\ job'[w] = None
      /\ \A v \in Handlers : v # w => job'[v] = job[v] /\ plan'[v] = plan[v] /\ todo'[v] = todo[v]
  BY EndFacts, ReleaseFacts
<1>2. AuthTypeOK'
  BY <1>1 DEF AInv, AuthTypeOK
<1>3. HandlerOK(w)'
  BY <1>1, IdleOK DEF HandlerOK, PlanOK, RowOK, ClaimOK, KnownOK, SessionsBegun
<1>4. QED
  BY <1>1, <1>2, <1>3, WorkInductive

\* The first statement of a plan and those after it.
LEMMA TailFacts ==
    /\ Head(<<"row">>) = "row" /\ Tail(<<"row">>) = << >>
    /\ Head(<<"tokens">>) = "tokens" /\ Tail(<<"tokens">>) = << >>
    /\ Head(<<"sessions">>) = "sessions" /\ Tail(<<"sessions">>) = << >>
    /\ Head(<<"row", "tokens">>) = "row" /\ Tail(<<"row", "tokens">>) = <<"tokens">>
    /\ Head(<<"sessions", "tokens">>) = "sessions" /\ Tail(<<"sessions", "tokens">>) = <<"tokens">>
    /\ Head(<<"tokens", "sessions">>) = "tokens" /\ Tail(<<"tokens", "sessions">>) = <<"sessions">>
    /\ Head(<<"account", "tokens", "sessions">>) = "account"
    /\ Tail(<<"account", "tokens", "sessions">>) = <<"tokens", "sessions">>
    /\ Head(<<"account", "sessions", "tokens">>) = "account"
    /\ Tail(<<"account", "sessions", "tokens">>) = <<"sessions", "tokens">>
    /\ Head(<<"row", "account", "tokens", "sessions">>) = "row"
    /\ Tail(<<"row", "account", "tokens", "sessions">>) = <<"account", "tokens", "sessions">>
OBVIOUS

\* What the next statement of a request is, and what is left after it.
LEMMA NextStatement ==
    ASSUME AInv, NEW w \in Handlers, job[w] # None, plan[w] # << >>
    PROVE  LET k == job[w].kind  s == Head(plan[w])  rest == Tail(plan[w]) IN
           /\ s \in Statements /\ rest \in Seq(Statements)
           /\ k \in {"refresh", "logout", "verify", "confirm"} => s = "row" /\ rest = << >>
           /\ k = "revoke" => \/ s = "row" /\ rest = <<"tokens">>
                              \/ s = "tokens" /\ rest = << >>
           /\ k = "all" => \/ s = "sessions" /\ rest = <<"tokens">>
                           \/ s = "tokens" /\ rest = << >>
           /\ k = "reset" /\ plan[w] = <<"row", "account", "tokens", "sessions">> =>
                  s = "row" /\ rest = <<"account", "tokens", "sessions">>
           /\ k = "change" \/ (k = "reset" /\ plan[w] # <<"row", "account", "tokens", "sessions">>) =>
                  \/ s = "account" /\ rest = <<"tokens", "sessions">>
                  \/ s = "tokens" /\ rest = <<"sessions">>
                  \/ s = "sessions" /\ rest = << >>
           /\ k = "block" => \/ s = "account" /\ rest = <<"sessions", "tokens">>
                             \/ s = "sessions" /\ rest = <<"tokens">>
                             \/ s = "tokens" /\ rest = << >>
           /\ k \notin {"wrong", "issue"}
<1>1. PlanOK(w) /\ job[w].kind \in Kinds /\ plan[w] \in Seq(Statements)
  BY DEF AInv, HandlerOK, AuthTypeOK, Jobs
<1>2. Head(plan[w]) \in Statements /\ Tail(plan[w]) \in Seq(Statements)
  BY <1>1
<1> DEFINE k == job[w].kind  s == Head(plan[w])  rest == Tail(plan[w])
<1>3. k \in {"refresh", "logout", "verify", "confirm"} => s = "row" /\ rest = << >>
  BY <1>1, TailFacts DEF PlanOK
<1>4. k = "revoke" => (s = "row" /\ rest = <<"tokens">>) \/ (s = "tokens" /\ rest = << >>)
  BY <1>1, TailFacts DEF PlanOK
<1>5. k = "all" => (s = "sessions" /\ rest = <<"tokens">>) \/ (s = "tokens" /\ rest = << >>)
  BY <1>1, TailFacts DEF PlanOK
<1>6. k = "reset" /\ plan[w] = <<"row", "account", "tokens", "sessions">> =>
          s = "row" /\ rest = <<"account", "tokens", "sessions">>
  BY TailFacts
<1>7. k = "change" \/ (k = "reset" /\ plan[w] # <<"row", "account", "tokens", "sessions">>) =>
          \/ s = "account" /\ rest = <<"tokens", "sessions">>
          \/ s = "tokens" /\ rest = <<"sessions">>
          \/ s = "sessions" /\ rest = << >>
  BY <1>1, TailFacts DEF PlanOK
<1>8. k = "block" => \/ s = "account" /\ rest = <<"sessions", "tokens">>
                     \/ s = "sessions" /\ rest = <<"tokens">>
                     \/ s = "tokens" /\ rest = << >>
  BY <1>1, TailFacts DEF PlanOK
<1>9. k \notin {"wrong", "issue"}
  BY <1>1 DEF PlanOK
<1>10. QED
  BY <1>2, <1>3, <1>4, <1>5, <1>6, <1>7, <1>8, <1>9

LEMMA BeginStatementInductive ==
    ASSUME AInv, NEW w \in Handlers, BeginStatement(w)
    PROVE  AInv'
<1> DEFINE k == job[w].kind  s == Head(plan[w])  rest == Tail(plan[w])
<1>1. /\ job[w] # None /\ plan[w] # << >> /\ s \in {"sessions", "tokens"} /\ todo[w] = {}
      /\ todo' = [todo EXCEPT ![w] = Matching(w, s)] /\ plan' = [plan EXCEPT ![w] = rest]
      /\ UNCHANGED <<rowVars, historyVars, lock, job>>
  BY DEF BeginStatement
<1>2. /\ rest \in Seq(Statements)
      /\ k \notin {"refresh", "logout", "verify", "confirm", "wrong", "issue"}
      /\ k = "revoke" => rest = << >>
      /\ k = "all" => rest \in {<<"tokens">>, << >>}
      /\ k = "reset" => plan[w] # <<"row", "account", "tokens", "sessions">>
      /\ k \in {"reset", "change"} => \/ s = "tokens" /\ rest = <<"sessions">>
                                      \/ s = "sessions" /\ rest = << >>
      /\ k = "block" => \/ s = "sessions" /\ rest = <<"tokens">>
                        \/ s = "tokens" /\ rest = << >>
  BY <1>1, NextStatement
<1>3. Matching(w, s) \in SUBSET Rows
  BY RowFacts DEF Matching, Issued, AInv, AuthTypeOK
<1>4. /\ plan' \in [Handlers -> Seq(Statements)] /\ plan'[w] = rest
      /\ todo' \in [Handlers -> SUBSET Rows] /\ todo'[w] = Matching(w, s)
      /\ \A v \in Handlers : v # w => plan'[v] = plan[v] /\ todo'[v] = todo[v]
  BY <1>1, <1>2, <1>3 DEF AInv, AuthTypeOK
<1>5. AuthTypeOK'
  BY <1>1, <1>4 DEF AInv, AuthTypeOK
<1>6. k \in Kinds
  BY <1>1 DEF AInv, AuthTypeOK, Jobs
<1> HIDE DEF rest
<1>7. PlanOK(w)'
  BY <1>1, <1>2, <1>4, <1>6 DEF PlanOK, Kinds, EndsAll
<1>8. RowOK(w)'
  BY <1>1 DEF AInv, HandlerOK, RowOK
<1>9. ClaimOK(w)'
  BY <1>1, <1>2, <1>4 DEF AInv, HandlerOK, ClaimOK
<1>10. KnownOK(w)'
  <2>1. CASE k \in EndsAll /\ s = "sessions"
    <3>1. Matching(w, s) = opened \ ended
      BY <2>1 DEF Matching, EndsAll
    <3>2. QED
      BY <1>1, <1>4, <3>1 DEF AInv, HandlerOK, KnownOK, SessionsBegun
  <2>2. CASE k \in {"reset", "change"} /\ s # "sessions"
    BY <1>1, <1>2, <1>4, <2>2, PlanFacts DEF AInv, HandlerOK, KnownOK, SessionsBegun, EndsAll
  <2>3. CASE k = "block" /\ s # "sessions"
    <3>1. SessionsBegun(w) /\ job[w].known \subseteq opened
      BY <1>1, <2>3, TailFacts DEF AInv, HandlerOK, PlanOK, KnownOK, SessionsBegun, EndsAll
    <3>2. QED
      BY <1>1, <1>4, <2>3, <3>1 DEF AInv, HandlerOK, KnownOK, SessionsBegun, EndsAll
  <2>4. CASE k \notin EndsAll
    BY <1>1, <2>4 DEF KnownOK, SessionsBegun
  <2>5. QED
    BY <2>1, <2>2, <2>3, <2>4 DEF EndsAll
<1>11. HandlerOK(w)'
  BY <1>7, <1>8, <1>9, <1>10 DEF HandlerOK
<1>12. QED
  BY <1>1, <1>4, <1>5, <1>11, WorkInductive

LEMMA UpdateRowInductive ==
    ASSUME AInv, NEW w \in Handlers, NEW r \in Rows, UpdateRow(w, r)
    PROVE  AInv'
<1>1. /\ r \in todo[w] /\ lock[r] = None
      /\ lock' = IF r \in ended THEN lock ELSE [lock EXCEPT ![r] = w]
      /\ todo' = [todo EXCEPT ![w] = todo[w] \ {r}]
      /\ UNCHANGED <<rowVars, historyVars, job, plan>>
  BY DEF UpdateRow
<1>2. /\ lock' \in [Rows -> Handlers \cup {None}]
      /\ \A x \in Rows : x # r => lock'[x] = lock[x]
      /\ r \in ended => lock'[r] = lock[r]
      /\ r \notin ended => lock'[r] = w
      /\ todo' \in [Handlers -> SUBSET Rows] /\ todo'[w] = todo[w] \ {r}
      /\ \A v \in Handlers : v # w => todo'[v] = todo[v]
  BY <1>1 DEF AInv, AuthTypeOK
<1>3. AuthTypeOK'
  BY <1>1, <1>2 DEF AInv, AuthTypeOK
<1>4. PlanOK(w)' /\ RowOK(w)'
  BY <1>1 DEF AInv, HandlerOK, PlanOK, RowOK
<1>5. ClaimOK(w)'
  <2>1. job[w] # None /\ job[w].kind \in {"refresh", "verify", "reset"} => job[w].row \in Rows
    BY RowFacts DEF AInv, HandlerOK, RowOK
  <2>2. QED
    BY <1>1, <1>2, <2>1, RowFacts DEF AInv, HandlerOK, ClaimOK
<1>6. KnownOK(w)'
  <2>1. job[w] # None => job[w].known \subseteq Rows
    BY RowFacts DEF AInv, AuthTypeOK, Jobs
  <2>2. QED
    BY <1>1, <1>2, <2>1 DEF AInv, HandlerOK, KnownOK, SessionsBegun
<1>7. HandlerOK(w)'
  BY <1>4, <1>5, <1>6 DEF HandlerOK
<1>8. QED
  BY <1>1, <1>2, <1>3, <1>7, WorkInductive

LEMMA UpdateOneInductive ==
    ASSUME AInv, NEW w \in Handlers, UpdateOne(w)
    PROVE  AInv'
<1> DEFINE k == job[w].kind  s == Head(plan[w])  rest == Tail(plan[w])
<1>1. /\ job[w] # None /\ plan[w] # << >> /\ s \in {"row", "account"} /\ todo[w] = {}
      /\ UNCHANGED <<rowVars, historyVars>>
  BY DEF UpdateOne
<1>2. CASE End(w)
  BY <1>1, <1>2, AbortInductive
<1>3. CASE ~End(w)
  <2>1. PICK r \in Rows : r = RowOf(w, s)
    <3>1. k \in {"refresh", "logout", "verify", "confirm", "revoke", "reset"} => job[w].row \in Rows
      BY <1>1, RowFacts DEF AInv, HandlerOK, RowOK
    <3>2. k \in Kinds
      BY <1>1 DEF AInv, AuthTypeOK, Jobs
    <3>3. s = "row" => job[w].row \in Rows
      BY <1>1, <3>1, <3>2, NextStatement DEF Kinds, EndsAll
    <3>4. QED
      BY <1>1, <3>3, RowFacts DEF RowOf
  <2>2. /\ lock[r] = None /\ ~(r \in ended /\ Claims(w, r))
        /\ lock' = IF r \in ended THEN lock ELSE [lock EXCEPT ![r] = w]
        /\ plan' = [plan EXCEPT ![w] = rest] /\ UNCHANGED <<job, todo>>
    BY <1>3, <2>1 DEF UpdateOne
  <2>3. /\ rest \in Seq(Statements)
        /\ k \notin {"all", "wrong", "issue"}
        /\ k \in {"refresh", "logout", "verify", "confirm"} => s = "row" /\ rest = << >>
        /\ k = "revoke" => rest = <<"tokens">>
        /\ k = "reset" => \/ s = "row" /\ rest = <<"account", "tokens", "sessions">>
                          \/ /\ plan[w] # <<"row", "account", "tokens", "sessions">>
                             /\ s = "account" /\ rest = <<"tokens", "sessions">>
        /\ k = "change" => rest = <<"tokens", "sessions">>
        /\ k = "block" => rest = <<"sessions", "tokens">>
    BY <1>1, NextStatement
  <2>4. /\ plan' \in [Handlers -> Seq(Statements)] /\ plan'[w] = rest
        /\ \A v \in Handlers : v # w => plan'[v] = plan[v]
        /\ lock' \in [Rows -> Handlers \cup {None}]
        /\ \A x \in Rows : x # r => lock'[x] = lock[x]
        /\ r \in ended => lock'[r] = lock[r]
        /\ r \notin ended => lock'[r] = w
    BY <2>2, <2>3 DEF AInv, AuthTypeOK
  <2>5. AuthTypeOK'
    BY <1>1, <2>2, <2>4 DEF AInv, AuthTypeOK
  <2>6. k \in Kinds
    BY <1>1 DEF AInv, AuthTypeOK, Jobs
  <2> HIDE DEF rest
  <2>7. PlanOK(w)'
    BY <2>2, <2>3, <2>4, <2>6 DEF PlanOK, Kinds, EndsAll
  <2>8. RowOK(w)'
    BY <1>1, <2>2 DEF AInv, HandlerOK, RowOK
  <2>9. ClaimOK(w)'
    <3>1. CASE k \in {"refresh", "verify", "reset"} /\ s = "row"
      <4>1. r = job[w].row /\ r \notin ended
        BY <2>1, <2>2, <3>1 DEF RowOf, Claims
      <4>2. QED
        BY <2>2, <2>4, <4>1 DEF ClaimOK
    <3>2. CASE k = "reset" /\ s = "account"
      <4>1. lock[job[w].row] = w /\ job[w].row \in Rows
        BY <1>1, <2>3, <3>2, RowFacts DEF AInv, HandlerOK, ClaimOK, RowOK
      <4>2. lock'[job[w].row] = w
        BY <2>2, <2>4, <4>1, RowFacts
      <4>3. QED
        BY <2>2, <4>2 DEF ClaimOK
    <3>3. CASE k \notin {"refresh", "verify", "reset"}
      BY <2>2, <3>3 DEF ClaimOK
    <3>4. QED
      BY <1>1, <2>3, <3>1, <3>2, <3>3
  <2>10. KnownOK(w)'
    BY <1>1, <2>2, <2>3, <2>4, PlanFacts DEF AInv, HandlerOK, KnownOK, SessionsBegun, EndsAll
  <2>11. HandlerOK(w)'
    BY <2>7, <2>8, <2>9, <2>10 DEF HandlerOK
  <2>12. QED
    BY <1>1, <2>2, <2>4, <2>5, <2>11, WorkInductive
<1>4. QED
  BY <1>2, <1>3
-----------------------------------------------------------------------------
(* Commits *)

\* Only what the request has locked, and rows nobody has locked, end with its commit.
LEMMA LockedStaysLive ==
    ASSUME AInv, NEW w \in Handlers, Release(w),
           \A r \in ended' : r \in ended \/ lock[r] \in {None, w}
    PROVE  LockedLive'
BY ReleaseFacts DEF AInv, LockedLive

LEMMA EndIdle ==
    ASSUME AInv, NEW w \in Handlers, End(w)
    PROVE  HandlerOK(w)'
BY EndFacts DEF HandlerOK, PlanOK, RowOK, ClaimOK, KnownOK, SessionsBegun

LEMMA ExchangedOnce ==
    ASSUME AInv, NEW w \in Handlers, job[w] # None, job[w].kind = "refresh", plan[w] = << >>
    PROVE  /\ job[w].row \in Tokens /\ sessionOf[job[w].row] # None /\ job[w].row \notin late
           /\ lock[job[w].row] = w /\ job[w].row \notin ended
           /\ sessionOf[job[w].row] \in opened /\ sessionOf[job[w].row] \in Sessions
<1>1. /\ job[w].row \in Tokens /\ sessionOf[job[w].row] # None /\ job[w].row \notin late
      /\ lock[job[w].row] = w
  BY DEF AInv, HandlerOK, RowOK, ClaimOK
<1>2. QED
  BY <1>1, RowFacts DEF AInv, LockedLive, TokensOK, AuthTypeOK

LEMMA CommitRefreshInductive ==
    ASSUME AInv, NEW w \in Handlers, CommitRefresh(w)
    PROVE  AInv'
<1>1. /\ job[w] # None /\ job[w].kind = "refresh" /\ plan[w] = << >> /\ Tokens \ Issued # {}
      /\ End(w) /\ UNCHANGED <<opened, sent, attempts, guesses, uses>>
  BY DEF CommitRefresh, Ready
<1>2. PICK t \in Tokens, n \in Tokens :
          /\ t = job[w].row /\ sessionOf[n] = None
          /\ sessionOf' = [sessionOf EXCEPT ![n] = sessionOf[t]]
          /\ parent' = [parent EXCEPT ![n] = t]
          /\ ended' = ended \cup {t}
          /\ late' = IF sessionOf[t] \in ended THEN late \cup {n} ELSE late
  <2>1. (CHOOSE x \in Tokens \ Issued : TRUE) \in Tokens \ Issued
    BY <1>1
  <2>2. QED
    BY <1>1, <2>1, ExchangedOnce DEF CommitRefresh, Issued
<1>3. /\ sessionOf[t] # None /\ t \notin late /\ lock[t] = w /\ t \notin ended
      /\ sessionOf[t] \in opened /\ sessionOf[t] \in Sessions /\ t # n
  BY <1>1, <1>2, ExchangedOnce
<1>4. /\ sessionOf' \in [Tokens -> Sessions \cup {None}] /\ sessionOf'[n] = sessionOf[t]
      /\ parent' \in [Tokens -> Tokens \cup {None}] /\ parent'[n] = t
      /\ \A x \in Tokens : x # n => sessionOf'[x] = sessionOf[x] /\ parent'[x] = parent[x]
  BY <1>2, <1>3 DEF AInv, AuthTypeOK
<1>5. /\ lock' \in [Rows -> Handlers \cup {None}]
      /\ \A r \in Rows : lock'[r] = IF lock[r] = w THEN None ELSE lock[r]
      /\ plan' \in [Handlers -> Seq(Statements)] /\ todo' \in [Handlers -> SUBSET Rows]
      /\ job' \in [Handlers -> Jobs \cup {None}] /\ job'[w] = None
      /\ \A v \in Handlers : v # w => job'[v] = job[v] /\ plan'[v] = plan[v] /\ todo'[v] = todo[v]
  BY <1>1, EndFacts, ReleaseFacts
<1>a. /\ late' \subseteq Tokens /\ ended \subseteq ended' /\ ended' \subseteq Rows \ {Account}
      /\ \A x \in late' : x \in late \/ sessionOf[x] = None
  BY <1>2, RowFacts DEF AInv, AuthTypeOK
<1>6. AuthTypeOK'
  BY <1>1, <1>4, <1>5, <1>a DEF AInv, AuthTypeOK
<1>7. \A v \in Handlers : HandlerOK(v)'
  <2>1. ASSUME NEW v \in Handlers, v # w PROVE HandlerOK(v)'
    <3>1. \A x \in Tokens : sessionOf[x] # None => sessionOf'[x] = sessionOf[x]
      BY <1>2, <1>4
    <3>2. QED
      BY <1>1, <1>5, <1>a, <2>1, <3>1, OthersKeep
  <2>2. QED
    BY <1>1, <2>1, EndIdle
<1>8. LockedLive'
  BY <1>1, <1>2, <1>3, EndFacts, LockedStaysLive
<1>9. TokensOK'
  BY <1>1, <1>3, <1>4 DEF AInv, TokensOK
<1>10. ParentsOK'
  <2>1. \A x \in Tokens : parent[x] # None => parent[x] # n
    BY <1>2 DEF AInv, ParentsOK
  <2>2. QED
    BY <1>2, <1>3, <1>4, <2>1 DEF AInv, ParentsOK, AuthTypeOK
<1>11. LateOK'
  <2>1. late \subseteq Tokens /\ n \notin late
    BY <1>2, RowFacts DEF AInv, LateOK, AuthTypeOK
  <2>2. QED
    BY <1>2, <1>4, <2>1 DEF AInv, LateOK
<1>12. UsesOK'
  BY <1>1, <1>2 DEF AInv, UsesOK
<1>13. OneLiveToken'
  <2>1. ASSUME NEW s \in Sessions, NEW x \in Tokens, NEW y \in Tokens,
               sessionOf'[x] = s, x \notin ended', sessionOf'[y] = s, y \notin ended'
        PROVE  x = y
    <3>1. ASSUME NEW z \in Tokens, sessionOf'[z] = s, z \notin ended', z # n, s = sessionOf[t] PROVE FALSE
      <4>1. sessionOf[z] = s /\ z \notin ended /\ z # t
        BY <1>2, <1>4, <3>1
      <4>2. QED
        BY <1>3, <3>1, <4>1, RowFacts DEF AInv, OneLiveToken, Issued
    <3>2. CASE s = sessionOf[t]
      BY <2>1, <3>1, <3>2
    <3>3. CASE s # sessionOf[t]
      <4>1. x # n /\ y # n
        BY <1>4, <2>1, <3>3
      <4>2. sessionOf[x] = s /\ sessionOf[y] = s /\ x \notin ended /\ y \notin ended
        BY <1>2, <1>4, <2>1, <4>1
      <4>3. QED
        BY <4>2, RowFacts DEF AInv, OneLiveToken, Issued
    <3>4. QED
      BY <3>2, <3>3
  <2>2. QED
    BY <2>1 DEF OneLiveToken, Issued
<1>14. UsedOnce'
  <2>1. \A x \in Tokens : parent[x] # t
    BY <1>3, RowFacts DEF AInv, ParentsOK
  <2>2. \A x, y \in Tokens : x # y /\ parent'[x] = parent'[y] => parent'[x] = None
    BY <1>4, <2>1 DEF AInv, UsedOnce
  <2>3. QED
    BY <1>1, <2>2 DEF AInv, UsedOnce
<1>15. \A c \in Challenges : GuessOK(c)'
  BY <1>1, <1>2, <1>5, GuessKeeps
<1>16. QED
  BY <1>6, <1>7, <1>8, <1>9, <1>10, <1>11, <1>12, <1>13, <1>14, <1>15 DEF AInv

\* A commit that issues nothing: rows end, and a reset token or a code may be used.
LEMMA EndingInductive ==
    ASSUME AInv, NEW w \in Handlers, Release(w), AuthTypeOK', HandlerOK(w)',
           \A v \in Handlers : v # w => job'[v] = job[v],
           UNCHANGED <<opened, sessionOf, parent, late>>,
           ended \subseteq ended', \A r \in ended' : r \in ended \/ lock[r] \in {None, w},
           \A r \in Resets \cup Challenges :
               \/ uses'[r] = uses[r]
               \/ r \notin ended /\ r \in ended' /\ uses'[r] = uses[r] + 1,
           \A c \in Challenges : GuessOK(c)'
    PROVE  AInv'
<1>1. /\ \A r \in Rows : lock'[r] = IF lock[r] = w THEN None ELSE lock[r]
      /\ \A v \in Handlers : v # w => plan'[v] = plan[v] /\ todo'[v] = todo[v]
  BY ReleaseFacts
<1>2. ASSUME NEW v \in Handlers, v # w PROVE HandlerOK(v)'
  BY <1>1, <1>2, OthersKeep
<1>3. LockedLive'
  BY LockedStaysLive
<1>4. TokensOK' /\ ParentsOK' /\ LateOK'
  BY DEF AInv, TokensOK, ParentsOK, LateOK
<1>5. UsesOK'
  BY DEF AInv, UsesOK
<1>6. OneLiveToken'
  BY DEF AInv, OneLiveToken, Issued
<1>7. UsedOnce'
  <2>1. \A r \in Resets \cup Challenges : uses[r] \in Nat
    BY DEF AInv, AuthTypeOK
  <2>2. \A r \in Resets \cup Challenges : uses'[r] <= 1
    BY <2>1 DEF AInv, UsesOK, UsedOnce
  <2>3. QED
    BY <2>2 DEF AInv, UsedOnce
<1>8. QED
  BY <1>2, <1>3, <1>4, <1>5, <1>6, <1>7 DEF AInv

LEMMA CommitEndingInductive ==
    ASSUME AInv, NEW w \in Handlers, CommitEnding(w)
    PROVE  AInv'
<1> DEFINE k == job[w].kind  r == job[w].row
<1>1. /\ job[w] # None /\ k \in {"logout", "revoke", "all"} \cup EndsAll /\ plan[w] = << >>
      /\ LastRow(w) # None => lock[LastRow(w)] = None
      /\ ended' = ended \cup Locked(w) \cup (IF LastRow(w) = None THEN {} ELSE {LastRow(w)})
      /\ uses' = IF k = "reset" THEN [uses EXCEPT ![r] = uses[r] + 1] ELSE uses
      /\ End(w) /\ UNCHANGED <<opened, sessionOf, parent, sent, attempts, guesses, late>>
  BY DEF CommitEnding, Ready
<1>2. LastRow(w) \in Sessions \cup {None}
  BY <1>1 DEF LastRow, AInv, HandlerOK, RowOK, AuthTypeOK, EndsAll
<1>3. Locked(w) \subseteq Rows \ {Account} /\ \A x \in Locked(w) : lock[x] = w
  BY DEF Locked
<1>4. /\ ended' \subseteq Rows \ {Account} /\ ended \subseteq ended'
      /\ \A x \in ended' : x \in ended \/ lock[x] \in {None, w}
  BY <1>1, <1>2, <1>3, RowFacts DEF AInv, AuthTypeOK
<1>5. k = "reset" => r \in Resets /\ r \notin ended /\ r \in ended'
  <2>1. k = "reset" => r \in Resets /\ lock[r] = w
    BY <1>1, PlanFacts DEF AInv, HandlerOK, RowOK, ClaimOK
  <2>2. QED
    BY <1>1, <2>1, RowFacts DEF AInv, LockedLive, Locked
<1>6. /\ uses' \in [Resets \cup Challenges -> Nat]
      /\ \A x \in Resets \cup Challenges :
            \/ uses'[x] = uses[x]
            \/ x \notin ended /\ x \in ended' /\ uses'[x] = uses[x] + 1
  BY <1>1, <1>5 DEF AInv, AuthTypeOK
<1>7. AuthTypeOK'
  BY <1>1, <1>4, <1>6, EndFacts, ReleaseFacts DEF AInv, AuthTypeOK
<1>8. \A c \in Challenges : GuessOK(c)'
  BY <1>1, <1>4, EndFacts, GuessKeeps
<1>9. QED
  BY <1>1, <1>4, <1>6, <1>7, <1>8, EndFacts, EndIdle, EndingInductive

LEMMA CommitCodeInductive ==
    ASSUME AInv, NEW w \in Handlers, CommitCode(w)
    PROVE  AInv'
<1> DEFINE k == job[w].kind  r == job[w].row  j == [job[w] EXCEPT !.kind = "issue"]
<1>1. /\ job[w] # None /\ k \in {"verify", "confirm"} /\ plan[w] = << >>
      /\ ended' = ended \cup Locked(w) /\ Release(w)
      /\ k = "verify" => job' = [job EXCEPT ![w] = j] /\ uses' = [uses EXCEPT ![r] = uses[r] + 1]
      /\ k # "verify" => job' = [job EXCEPT ![w] = None] /\ UNCHANGED uses
      /\ UNCHANGED <<opened, sessionOf, parent, sent, attempts, guesses, late>>
  BY DEF CommitCode, Ready
<1>2. j \in Jobs /\ j.kind = "issue" /\ j # None
  <2>1. job[w] \in Jobs
    BY <1>1 DEF AInv, AuthTypeOK
  <2>2. j \in Jobs /\ j.kind = "issue"
    BY <2>1 DEF Jobs, Kinds
  <2>3. QED
    BY <2>2, RowFacts
<1> HIDE DEF j
<1>3. Locked(w) \subseteq Rows \ {Account} /\ \A x \in Locked(w) : lock[x] = w
  BY DEF Locked
<1>4. /\ ended' \subseteq Rows \ {Account} /\ ended \subseteq ended'
      /\ \A x \in ended' : x \in ended \/ lock[x] \in {None, w}
  BY <1>1, <1>3, RowFacts DEF AInv, AuthTypeOK
<1>5. k = "verify" => r \in Challenges /\ r \notin ended /\ r \in ended'
  <2>1. k = "verify" => r \in Challenges /\ lock[r] = w
    BY <1>1 DEF AInv, HandlerOK, RowOK, ClaimOK
  <2>2. QED
    BY <1>1, <2>1, RowFacts DEF AInv, LockedLive, Locked
<1>6. /\ uses' \in [Resets \cup Challenges -> Nat]
      /\ \A x \in Resets \cup Challenges :
            \/ uses'[x] = uses[x]
            \/ x \notin ended /\ x \in ended' /\ uses'[x] = uses[x] + 1
  <2>1. CASE k = "verify"
    BY <1>1, <1>5, <2>1 DEF AInv, AuthTypeOK
  <2>2. CASE k # "verify"
    BY <1>1, <2>2 DEF AInv, AuthTypeOK
  <2>3. QED
    BY <2>1, <2>2
<1>7. /\ job' \in [Handlers -> Jobs \cup {None}] /\ job'[w] \in {j, None}
      /\ \A v \in Handlers : v # w => job'[v] = job[v]
  <2>1. CASE k = "verify"
    <3>1. job' = [job EXCEPT ![w] = j] /\ j \in Jobs
      BY <1>1, <1>2, <2>1
    <3>2. QED
      BY <3>1 DEF AInv, AuthTypeOK
  <2>2. CASE k # "verify"
    BY <1>1, <2>2 DEF AInv, AuthTypeOK
  <2>3. QED
    BY <2>1, <2>2
<1>8. AuthTypeOK'
  BY <1>1, <1>4, <1>6, <1>7, ReleaseFacts DEF AInv, AuthTypeOK
<1>9. HandlerOK(w)'
  BY <1>1, <1>2, <1>7, ReleaseFacts DEF HandlerOK, PlanOK, RowOK, ClaimOK, KnownOK, EndsAll
<1>10. \A c \in Challenges : GuessOK(c)'
  BY <1>1, <1>2, <1>4, <1>7, GuessKeeps
<1>11. QED
  BY <1>1, <1>4, <1>6, <1>7, <1>8, <1>9, <1>10, EndingInductive

LEMMA CommitGuessInductive ==
    ASSUME AInv, NEW w \in Handlers, CommitGuess(w)
    PROVE  AInv'
<1>1. PICK c \in Challenges :
      /\ c = job[w].row /\ job[w] # None /\ job[w].kind = "wrong" /\ lock[c] = None
      /\ guesses' = [guesses EXCEPT ![c] = guesses[c] + 1]
      /\ attempts' = IF c \notin ended THEN [attempts EXCEPT ![c] = attempts[c] + 1] ELSE attempts
      /\ ended' = IF job[w].seen + 1 >= MaxAttempts THEN ended \cup {c} ELSE ended
      /\ End(w) /\ UNCHANGED <<opened, sessionOf, parent, sent, uses, late>>
  <2>1. job[w] # None /\ job[w].kind = "wrong" /\ job[w].row \in Challenges
    BY DEF CommitGuess, Ready, AInv, HandlerOK, RowOK
  <2>2. LastRow(w) = job[w].row
    BY <2>1 DEF LastRow
  <2>3. QED
    BY <2>1, <2>2, RowFacts DEF CommitGuess, Ready
<1>2. /\ ended' \subseteq Rows \ {Account} /\ ended \subseteq ended'
      /\ \A x \in ended' : x \in ended \/ lock[x] \in {None, w}
  BY <1>1, RowFacts DEF AInv, AuthTypeOK
<1>3. /\ guesses' \in [Challenges -> Nat] /\ attempts' \in [Challenges -> Nat]
      /\ guesses'[c] = guesses[c] + 1 /\ (c \notin ended => attempts'[c] = attempts[c] + 1)
      /\ \A x \in Challenges : x # c => guesses'[x] = guesses[x] /\ attempts'[x] = attempts[x]
  BY <1>1 DEF AInv, AuthTypeOK
<1>4. /\ job' \in [Handlers -> Jobs \cup {None}] /\ job'[w] = None
      /\ \A v \in Handlers : v # w => job'[v] = job[v]
  BY <1>1, EndFacts
<1>5. AuthTypeOK'
  BY <1>1, <1>2, <1>3, <1>4, EndFacts, ReleaseFacts DEF AInv, AuthTypeOK
<1>6. ASSUME NEW x \in Challenges PROVE GuessOK(x)'
  <2>1. CASE x # c
    <3>1. Wrong(x)' = Wrong(x)
      BY <1>1, <1>4, <2>1 DEF Wrong
    <3>2. x \in ended' <=> x \in ended
      BY <1>1, <2>1
    <3>3. QED
      BY <1>3, <2>1, <3>1, <3>2 DEF AInv, GuessOK
  <2>2. CASE x = c
    <3>1. Wrong(c)' = Wrong(c) \ {w} /\ w \in Wrong(c)
      BY <1>1, <1>4 DEF Wrong
    <3>2. Cardinality(Wrong(c)') = Cardinality(Wrong(c)) - 1
      BY <3>1, WrongFinite, FS_RemoveElement
    <3>3. /\ Cardinality(Wrong(c)) \in Nat /\ Cardinality(Handlers) \in Nat /\ guesses[c] \in Nat
          /\ MaxAttempts \in Nat
      BY WrongFinite, AuthAssumption DEF AInv, AuthTypeOK
    <3>4. guesses'[c] + Cardinality(Wrong(c)') <= MaxAttempts + Cardinality(Handlers) - 1
      BY <1>3, <3>2, <3>3 DEF AInv, GuessOK
    <3>5. c \notin ended' => guesses'[c] = attempts'[c]
      BY <1>2, <1>3 DEF AInv, GuessOK
    <3>6. QED
      BY <2>2, <3>4, <3>5 DEF GuessOK
  <2>3. QED
    BY <2>1, <2>2
<1>7. QED
  BY <1>1, <1>2, <1>4, <1>5, <1>6, EndFacts, EndIdle, EndingInductive

LEMMA IssueTokensInductive ==
    ASSUME AInv, NEW w \in Handlers, IssueTokens(w)
    PROVE  AInv'
<1>1. /\ End(w) /\ UNCHANGED <<parent, sent, ended, attempts, historyVars>>
      /\ Sessions \ opened # {} /\ Tokens \ Issued # {}
  BY DEF IssueTokens
<1>2. PICK s \in Sessions, n \in Tokens :
          /\ s \notin opened /\ sessionOf[n] = None
          /\ opened' = opened \cup {s} /\ sessionOf' = [sessionOf EXCEPT ![n] = s]
  <2>1. /\ (CHOOSE x \in Sessions \ opened : TRUE) \in Sessions \ opened
        /\ (CHOOSE x \in Tokens \ Issued : TRUE) \in Tokens \ Issued
    BY <1>1
  <2>2. QED
    BY <2>1 DEF IssueTokens, Issued
<1>3. /\ sessionOf' \in [Tokens -> Sessions \cup {None}] /\ sessionOf'[n] = s
      /\ \A x \in Tokens : x # n => sessionOf'[x] = sessionOf[x]
  BY <1>2 DEF AInv, AuthTypeOK
<1>4. /\ lock' \in [Rows -> Handlers \cup {None}]
      /\ \A r \in Rows : lock'[r] = IF lock[r] = w THEN None ELSE lock[r]
      /\ plan' \in [Handlers -> Seq(Statements)] /\ todo' \in [Handlers -> SUBSET Rows]
      /\ job' \in [Handlers -> Jobs \cup {None}] /\ job'[w] = None
      /\ \A v \in Handlers : v # w => job'[v] = job[v] /\ plan'[v] = plan[v] /\ todo'[v] = todo[v]
  BY <1>1, EndFacts, ReleaseFacts
<1>5. AuthTypeOK'
  BY <1>1, <1>2, <1>3, <1>4 DEF AInv, AuthTypeOK
<1>6. \A v \in Handlers : HandlerOK(v)'
  <2>1. ASSUME NEW v \in Handlers, v # w PROVE HandlerOK(v)'
    BY <1>1, <1>2, <1>3, <1>4, <2>1, OthersKeep
  <2>2. QED
    BY <1>1, <2>1, EndIdle
<1>7. LockedLive'
  BY <1>1, EndFacts, LockedStaysLive
<1>8. TokensOK'
  BY <1>2, <1>3 DEF AInv, TokensOK
<1>9. ParentsOK' /\ UsesOK' /\ UsedOnce'
  BY <1>1, <1>2, <1>3 DEF AInv, ParentsOK, UsesOK, UsedOnce, AuthTypeOK
<1>10. LateOK'
  <2>1. late \subseteq Tokens /\ n \notin late
    BY <1>2, RowFacts DEF AInv, LateOK, AuthTypeOK
  <2>2. QED
    BY <1>1, <1>3, <2>1 DEF AInv, LateOK
<1>11. OneLiveToken'
  <2>1. ASSUME NEW z \in Sessions, NEW x \in Tokens, NEW y \in Tokens,
               sessionOf'[x] = z, x \notin ended', sessionOf'[y] = z, y \notin ended'
        PROVE  x = y
    <3>1. CASE z = s
      <4>1. \A t \in Tokens : sessionOf[t] # s
        BY <1>2, RowFacts DEF AInv, TokensOK
      <4>2. QED
        BY <1>3, <2>1, <3>1, <4>1
    <3>2. CASE z # s
      <4>1. sessionOf[x] = z /\ sessionOf[y] = z /\ x \notin ended /\ y \notin ended
        BY <1>1, <1>3, <2>1, <3>2
      <4>2. QED
        BY <4>1, RowFacts DEF AInv, OneLiveToken, Issued
    <3>3. QED
      BY <3>1, <3>2
  <2>2. QED
    BY <2>1 DEF OneLiveToken, Issued
<1>12. \A c \in Challenges : GuessOK(c)'
  BY <1>1, <1>4, GuessKeeps
<1>13. QED
  BY <1>5, <1>6, <1>7, <1>8, <1>9, <1>10, <1>11, <1>12 DEF AInv

-----------------------------------------------------------------------------
(* Theorems *)

LEMMA InitInductive == Init => AInv
<1> SUFFICES ASSUME Init PROVE AInv
  OBVIOUS
<1>1. AuthTypeOK
  <2>1. /\ sessionOf \in [Tokens -> Sessions \cup {None}] /\ parent \in [Tokens -> Tokens \cup {None}]
        /\ attempts \in [Challenges -> Nat] /\ guesses \in [Challenges -> Nat]
        /\ uses \in [Resets \cup Challenges -> Nat] /\ lock \in [Rows -> Handlers \cup {None}]
        /\ job \in [Handlers -> Jobs \cup {None}] /\ todo \in [Handlers -> SUBSET Rows]
    BY DEF Init
  <2>2. plan \in [Handlers -> Seq(Statements)]
    BY StatementsTyped DEF Init
  <2>3. opened \subseteq Sessions /\ sent \subseteq Resets \cup Challenges
        /\ ended \subseteq Rows \ {Account} /\ late \subseteq Tokens
    BY DEF Init
  <2>4. QED
    BY <2>1, <2>2, <2>3 DEF AuthTypeOK
<1>2. \A w \in Handlers : HandlerOK(w)
  BY IdleOK DEF Init
<1>3. LockedLive /\ TokensOK /\ ParentsOK /\ LateOK /\ UsesOK
  BY DEF Init, LockedLive, TokensOK, ParentsOK, LateOK, UsesOK
<1>4. \A c \in Challenges : GuessOK(c)
  <2> TAKE c \in Challenges
  <2>1. guesses[c] = 0 /\ attempts[c] = 0 /\ MaxAttempts \in Nat /\ MaxAttempts >= 1
    BY AuthAssumption DEF Init
  <2>2. /\ Cardinality(Wrong(c)) \in Nat /\ Cardinality(Handlers) \in Nat
        /\ Cardinality(Wrong(c)) <= Cardinality(Handlers)
    BY WrongFinite
  <2>3. QED
    BY <2>1, <2>2 DEF GuessOK
<1>5. OneLiveToken /\ UsedOnce
  BY DEF Init, OneLiveToken, UsedOnce, Issued
<1>6. QED
  BY <1>1, <1>2, <1>3, <1>4, <1>5 DEF AInv

LEMMA NextInductive == AInv /\ [Next]_vars => AInv'
<1> SUFFICES ASSUME AInv, [Next]_vars PROVE AInv'
  OBVIOUS
<1>1. ASSUME NEW w \in Handlers, Proceed(w) PROVE AInv'
  BY <1>1, BeginStatementInductive, UpdateOneInductive, UpdateRowInductive, CommitRefreshInductive,
     CommitEndingInductive, CommitCodeInductive, CommitGuessInductive, IssueTokensInductive DEF Proceed
<1>2. ASSUME NEW w \in Handlers, Abort(w) PROVE AInv'
  BY <1>2, AbortInductive DEF Abort
<1>3. QED
  BY <1>1, <1>2, RequestInductive, SendInductive DEF Next

\* The invariant that carries the others.
THEOREM AuthInvariant == Spec => []AInv
BY InitInductive, NextInductive, PTL DEF Spec

\* Every variable keeps its type, for any number of sessions, tokens and requests.
THEOREM AuthTypeCorrect == Spec => []AuthTypeOK
<1>1. AInv => AuthTypeOK
  BY DEF AInv
<1>2. QED
  BY <1>1, AuthInvariant, PTL

\* At most one token of a session can be exchanged.
THEOREM TokensLiveAlone == Spec => []OneLiveToken
<1>1. AInv => OneLiveToken
  BY DEF AInv
<1>2. QED
  BY <1>1, AuthInvariant, PTL

\* A refresh token is exchanged once, a reset token and a login code are used once.
THEOREM TokensUsedOnce == Spec => []UsedOnce
<1>1. AInv => UsedOnce
  BY DEF AInv
<1>2. QED
  BY <1>1, AuthInvariant, PTL

\* Nothing is exchanged for a token that was issued after its session had ended.
LateTokensAreDead == \A t \in Tokens : parent[t] \notin late

\* However a refresh overlaps what ends its session, the chain ends with that token.
THEOREM LateTokensStayDead == Spec => []LateTokensAreDead
<1>1. AInv => LateTokensAreDead
  <2> SUFFICES ASSUME AInv, NEW t \in Tokens, parent[t] \in late PROVE FALSE
    BY DEF LateTokensAreDead
  <2>1. late \subseteq Tokens
    BY DEF AInv, AuthTypeOK
  <2>2. parent[t] # None
    BY <2>1, RowFacts
  <2>3. QED
    BY <2>2 DEF AInv, ParentsOK
<1>2. QED
  BY <1>1, AuthInvariant, PTL

\* Wrong codes pass the limit of attempts by at most the requests in flight at once.
THEOREM GuessesStayBounded == Spec => []GuessesBounded
<1>1. AInv => GuessesBounded
  <2> SUFFICES ASSUME AInv, NEW c \in Challenges
               PROVE  guesses[c] <= MaxAttempts + Cardinality(Handlers) - 1
    BY DEF GuessesBounded
  <2>1. /\ Cardinality(Wrong(c)) \in Nat /\ Cardinality(Handlers) \in Nat /\ guesses[c] \in Nat
        /\ MaxAttempts \in Nat
    BY WrongFinite, AuthAssumption DEF AInv, AuthTypeOK
  <2>2. QED
    BY <2>1 DEF AInv, GuessOK
<1>2. QED
  BY <1>1, AuthInvariant, PTL

\* The commit of a password change ends every session that was open when it began: those
\* that its statements did not lock had ended before.
THEOREM ChangesEndSessions == Spec => ChangeEndsSessions
<1>1. AInv /\ [Next]_vars =>
        [\A w \in Handlers :
           CommitEnding(w) /\ job[w].kind \in EndsAll => job[w].known \subseteq ended']_vars
  <2> SUFFICES ASSUME AInv, NEW w \in Handlers, CommitEnding(w), job[w].kind \in EndsAll
               PROVE  job[w].known \subseteq ended'
    OBVIOUS
  <2>1. /\ plan[w] = << >> /\ todo[w] = {} /\ job[w] # None
        /\ Locked(w) \subseteq ended' /\ ended \subseteq ended'
    BY DEF CommitEnding, Ready
  <2>2. job[w].known \subseteq Sessions
    BY <2>1 DEF AInv, AuthTypeOK, Jobs
  <2>3. \A s \in job[w].known : s \in ended \/ s \in Locked(w)
    BY <2>1, <2>2, RowFacts DEF AInv, HandlerOK, KnownOK, SessionsBegun, Locked
  <2>4. QED
    BY <2>1, <2>3
<1>2. QED
  BY <1>1, AuthInvariant, PTL DEF Spec, ChangeEndsSessions
-----------------------------------------------------------------------------
(* The chains of an account are those of module SessionChain. *)

ChainRest == UNCHANGED <<opened, sessionOf, parent, ended, late, uses>>

\* A request that is read, an insert of a code, a statement and an abort change no chain.
LEMMA OnlyCommitsChange ==
    ASSUME AInv, NEW w \in Handlers,
           \/ Request(w) \/ BeginStatement(w) \/ UpdateOne(w) \/ Abort(w)
           \/ \E r \in Rows : UpdateRow(w, r)
    PROVE  ChainRest
<1>1. CASE Request(w)
  BY <1>1 DEF ChainRest, Request, Refresh, Logout, RevokeSession, LogoutAllSessions, ResetPassword,
     ChangePassword, BlockUser, Login, VerifyMfaLogin, ConfirmCode, WrongCode, Begin
<1>2. CASE BeginStatement(w) \/ UpdateOne(w) \/ Abort(w) \/ \E r \in Rows : UpdateRow(w, r)
  BY <1>2 DEF ChainRest, BeginStatement, UpdateOne, Abort, UpdateRow
<1>3. QED
  BY <1>1, <1>2

\* A refresh that reaches its commit holds the token it read, so no other has exchanged it.
LEMMA RefreshExchanges ==
    ASSUME AInv, NEW w \in Handlers, CommitRefresh(w)
    PROVE  Chain!ChainNext
<1>1. job[w] # None /\ job[w].kind = "refresh" /\ plan[w] = << >> /\ Tokens \ Issued # {}
  BY DEF CommitRefresh, Ready
<1>2. PICK t \in Tokens, n \in Tokens :
          /\ t = job[w].row /\ sessionOf[n] = None
          /\ sessionOf' = [sessionOf EXCEPT ![n] = sessionOf[t]]
          /\ parent' = [parent EXCEPT ![n] = t]
          /\ ended' = ended \cup {t}
          /\ late' = IF sessionOf[t] \in ended THEN late \cup {n} ELSE late
          /\ UNCHANGED <<opened, uses>>
  <2>1. (CHOOSE x \in Tokens \ Issued : TRUE) \in Tokens \ Issued
    BY <1>1
  <2>2. QED
    BY <1>1, <2>1, ExchangedOnce DEF CommitRefresh, Issued
<1>3. sessionOf[t] # None /\ t \notin ended \cup late
  BY <1>1, <1>2, ExchangedOnce
<1>4. Chain!Exchange(t, n)
  BY <1>2, <1>3 DEF Chain!Exchange
<1>5. QED
  BY <1>4 DEF Chain!ChainNext

\* The new session is nobody else's, and so is its token.
LEMMA IssueOpens ==
    ASSUME AInv, NEW w \in Handlers, IssueTokens(w)
    PROVE  Chain!ChainNext
<1>1. Sessions \ opened # {} /\ Tokens \ Issued # {}
  BY DEF IssueTokens
<1>2. PICK s \in Sessions, n \in Tokens :
          /\ s \notin opened /\ sessionOf[n] = None
          /\ opened' = opened \cup {s}
          /\ sessionOf' = [sessionOf EXCEPT ![n] = s]
          /\ UNCHANGED <<parent, ended, late, uses>>
  <2>1. /\ (CHOOSE x \in Sessions \ opened : TRUE) \in Sessions \ opened
        /\ (CHOOSE x \in Tokens \ Issued : TRUE) \in Tokens \ Issued
    BY <1>1
  <2>2. QED
    BY <2>1 DEF IssueTokens, Issued
<1>3. Chain!Open(s, n)
  BY <1>2 DEF Chain!Open
<1>4. QED
  BY <1>3 DEF Chain!ChainNext

\* What a transaction ends are sessions, tokens and codes.
LEMMA EndsAreRows ==
    ASSUME AInv', ended \subseteq ended', UNCHANGED <<opened, sessionOf, parent, late>>
    PROVE  Chain!Ends
<1>1. ended' \subseteq Sessions \cup Tokens \cup (Resets \cup Challenges)
  BY DEF AInv, AuthTypeOK, Rows
<1>2. QED
  BY <1>1 DEF Chain!Ends

\* A reset token or a login code that is used was locked, and so had not been used before.
LEMMA CommitUses ==
    ASSUME AInv, AInv', NEW w \in Handlers, CommitEnding(w) \/ CommitCode(w),
           job[w].kind \in {"reset", "verify"}
    PROVE  Chain!ChainNext
<1> DEFINE c == job[w].row
<1>1. /\ job[w] # None /\ plan[w] = << >>
      /\ UNCHANGED <<opened, sessionOf, parent, late>>
      /\ ended \cup Locked(w) \subseteq ended'
      /\ uses' = [uses EXCEPT ![c] = @ + 1]
  <2>1. CASE CommitEnding(w)
    <3>1. job[w] # None /\ plan[w] = << >> /\ job[w].kind = "reset"
      BY <2>1 DEF CommitEnding, Ready, EndsAll
    <3>2. QED
      BY <2>1, <3>1 DEF CommitEnding
  <2>2. CASE CommitCode(w)
    <3>1. job[w] # None /\ plan[w] = << >> /\ job[w].kind = "verify"
      BY <2>2 DEF CommitCode, Ready
    <3>2. QED
      BY <2>2, <3>1 DEF CommitCode
  <2>3. QED
    BY <2>1, <2>2
<1>2. c \in Resets \cup Challenges
  BY <1>1 DEF AInv, HandlerOK, RowOK
<1>3. lock[c] = w
  BY <1>1, PlanFacts DEF AInv, HandlerOK, ClaimOK
<1>4. c \in Locked(w) /\ c \notin ended
  BY <1>2, <1>3, RowFacts DEF AInv, LockedLive, Locked
<1>5. Chain!Ends
  BY <1>1, EndsAreRows
<1>6. Chain!Use(c)
  BY <1>1, <1>4, <1>5 DEF Chain!Use
<1>7. QED
  BY <1>2, <1>6 DEF Chain!ChainNext

LEMMA CommitEnds ==
    ASSUME AInv, AInv', NEW w \in Handlers,
           \/ (CommitEnding(w) \/ CommitCode(w)) /\ job[w].kind \notin {"reset", "verify"}
           \/ CommitGuess(w)
    PROVE  Chain!ChainNext
<1>1. ended \subseteq ended' /\ UNCHANGED <<opened, sessionOf, parent, late, uses>>
  BY DEF CommitEnding, CommitCode, CommitGuess
<1>2. Chain!Ends
  BY <1>1, EndsAreRows
<1>3. QED
  BY <1>1, <1>2 DEF Chain!ChainNext

LEMMA ChainSteps ==
    ASSUME AInv, AInv', [Next]_vars
    PROVE  ChainRest \/ Chain!ChainNext
<1>1. CASE UNCHANGED vars
  BY <1>1 DEF ChainRest
<1>2. CASE \E r \in Resets \cup Challenges : Send(r)
  BY <1>2 DEF Send, ChainRest
<1>3. ASSUME NEW w \in Handlers, Request(w) \/ Proceed(w) \/ Abort(w)
      PROVE  ChainRest \/ Chain!ChainNext
  BY <1>3, OnlyCommitsChange, RefreshExchanges, IssueOpens, CommitUses, CommitEnds DEF Proceed
<1>4. QED
  BY <1>1, <1>2, <1>3 DEF Next

\* Whatever requests overlap or die, sessions are chains: only the last token is exchanged,
\* once, never for a token that came late, and reset tokens and codes are used once.
THEOREM ChainIsKept == Spec => ChainKept
<1>1. Init => Chain!ChainInit
  BY DEF Init, Chain!ChainInit
<1>2. AInv /\ AInv' /\ [Next]_vars => [Chain!ChainNext]_(Chain!chainVars)
  BY ChainSteps DEF ChainRest, Chain!chainVars
<1>3. QED
  BY <1>1, <1>2, AuthInvariant, PTL DEF Spec, ChainKept, Chain!ChainSpec
=============================================================================
