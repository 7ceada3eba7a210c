---------------------------- MODULE AuthSessions ----------------------------
(***************************************************************************)
(* One account's sessions, its chains of refresh tokens, its password-reset  *)
(* tokens and its verification codes (AuthService).  The rows of different   *)
(* accounts do not meet.                                                    *)
(*                                                                          *)
(* A request reads what it needs, checks it, and later runs one READ          *)
(* COMMITTED transaction: a sequence of UPDATE statements.  A statement acts  *)
(* on the rows that matched when it began; it waits for a row another         *)
(* transaction has locked, and skips it if it no longer matches.  A row that  *)
(* a transaction inserts is seen by the others from its commit on.           *)
(*                                                                          *)
(* Left out: expiry and the flag of a blocked account, which refuse a request *)
(* where it reads, as if it had not been sent; the password itself.           *)
(***************************************************************************)
EXTENDS Integers, Sequences, FiniteSets

CONSTANTS
    Sessions, Tokens, Resets, Challenges, \* rows that may be created (bounds)
    Account,     \* the User row
    Handlers,    \* requests in flight at once (bound)
    MaxAttempts, \* MFA_MAX_ATTEMPTS
    MaxSent,     \* reset tokens and codes sent (bound)
    None

Rows == Sessions \cup Tokens \cup Resets \cup Challenges \cup {Account}

ASSUME AuthAssumption ==
    /\ MaxAttempts \in Nat \ {0}
    /\ IsFiniteSet(Handlers) /\ IsFiniteSet(Tokens) /\ IsFiniteSet(Sessions)
    /\ Sessions \cap Tokens = {} /\ Sessions \cap Resets = {} /\ Sessions \cap Challenges = {}
    /\ Tokens \cap Resets = {} /\ Tokens \cap Challenges = {} /\ Resets \cap Challenges = {}
    /\ Account \notin Sessions \cup Tokens \cup Resets \cup Challenges
    /\ None \notin Rows \cup Handlers

VARIABLES
    opened,    \* the sessions that exist
    sessionOf, \* RefreshToken.sessionId; None: no such token
    parent,    \* the token that was exchanged for this one
    sent,      \* the reset tokens and codes that were sent
    ended,     \* rows whose revokedAt or usedAt is set
    attempts,  \* MfaChallenge.attempts
    guesses,   \* wrong codes answered, for each challenge
    uses,      \* the times a reset token changed the password or a code logged in
    late,      \* tokens issued for a session that had ended
    lock,      \* the transaction that has locked a row
    job,       \* the request a handler serves
    plan,      \* the statements its transaction has still to begin
    todo       \* the rows its current statement has still to update

rowVars == <<opened, sessionOf, parent, sent, ended, attempts>>
historyVars == <<guesses, uses, late>>
workVars == <<lock, job, plan, todo>>
vars == <<rowVars, historyVars, workVars>>

\* The requests that end all sessions of the account.
EndsAll == {"reset", "change", "block"}
Kinds == EndsAll \cup {"refresh", "logout", "revoke", "all", "verify", "confirm", "wrong", "issue"}
Statements == {"row", "account", "sessions", "tokens"}
Jobs == [kind : Kinds, row : Rows \cup {None}, seen : Nat, known : SUBSET Sessions]
ASSUME AbsentAssumption == None \notin Jobs

AuthTypeOK ==
    /\ opened \subseteq Sessions
    /\ sessionOf \in [Tokens -> Sessions \cup {None}]
    /\ parent \in [Tokens -> Tokens \cup {None}]
    /\ sent \subseteq Resets \cup Challenges
    /\ ended \subseteq Rows \ {Account}
    /\ attempts \in [Challenges -> Nat]
    /\ guesses \in [Challenges -> Nat]
    /\ uses \in [Resets \cup Challenges -> Nat]
    /\ late \subseteq Tokens
    /\ lock \in [Rows -> Handlers \cup {None}]
    /\ job \in [Handlers -> Jobs \cup {None}]
    /\ plan \in [Handlers -> Seq(Statements)]
    /\ todo \in [Handlers -> SUBSET Rows]

Init ==
    /\ sessionOf = [t \in Tokens |-> None]
    /\ parent = [t \in Tokens |-> None]
    /\ opened = {} /\ sent = {} /\ ended = {} /\ late = {}
    /\ attempts = [c \in Challenges |-> 0]
    /\ guesses = [c \in Challenges |-> 0]
    /\ uses = [r \in Resets \cup Challenges |-> 0]
    /\ lock = [r \in Rows |-> None]
    /\ job = [w \in Handlers |-> None]
    /\ plan = [w \in Handlers |-> << >>]
    /\ todo = [w \in Handlers |-> {}]

Issued == {t \in Tokens : sessionOf[t] # None}

(***************************************************************************)
(* Requests: what is read and checked before the transaction.               *)
(***************************************************************************)
Begin(w, kind, row, statements, seen) ==
    /\ job[w] = None
    /\ job' = [job EXCEPT ![w] = [kind |-> kind, row |-> row, seen |-> seen,
                               known |-> IF kind \in EndsAll THEN opened ELSE {}]]
    /\ plan' = [plan EXCEPT ![w] = statements]
    /\ UNCHANGED <<rowVars, historyVars, lock, todo>>

\* Seeded fault: only the token is checked.
Refresh_TokenOnly(w, t) ==
    /\ t \in Issued \ ended
    /\ Begin(w, "refresh", t, <<"row">>, 0)

Refresh(w, t) ==
    /\ t \in Issued \ ended
    /\ sessionOf[t] \notin ended
    /\ Begin(w, "refresh", t, <<"row">>, 0)

\* The token may have been exchanged since.
Logout(w, t) ==
    /\ t \in Issued
    /\ Begin(w, "logout", t, <<"row">>, 0)

RevokeSession(w, s) ==
    /\ s \in opened
    /\ Begin(w, "revoke", s, <<"row", "tokens">>, 0)

\* kept: the session of the request, if it names one.
LogoutAllSessions(w, kept) ==
    /\ kept \in opened \cup {None}
    /\ Begin(w, "all", kept, <<"sessions", "tokens">>, 0)

\* Seeded fault: the sessions are left to expire.
ResetPassword_TokensOnly(w, r) ==
    /\ r \in sent \ ended
    /\ Begin(w, "reset", r, <<"row", "account", "tokens">>, 0)

ResetPassword(w, r) ==
    /\ r \in sent \ ended
    /\ Begin(w, "reset", r, <<"row", "account", "tokens", "sessions">>, 0)

ChangePassword(w) ==
    /\ opened # {}
    /\ Begin(w, "change", None, <<"account", "tokens", "sessions">>, 0)

\* UsersService.blockUser; the flag refuses requests where they read it.
BlockUser(w) == Begin(w, "block", None, <<"account", "sessions", "tokens">>, 0)

\* register, login, issueTokensForUser: the account was read, the session is opened later.
Login(w) ==
    /\ Sessions \ opened # {}
    /\ Begin(w, "issue", None, << >>, 0)

\* forgotPassword, createMfaChallenge
Send(r) ==
    /\ r \notin sent /\ Cardinality(sent) < MaxSent
    /\ sent' = sent \cup {r}
    /\ UNCHANGED <<opened, sessionOf, parent, ended, attempts, historyVars, workVars>>

\* ensureChallengeValid
Valid(c) == c \in sent \ ended /\ attempts[c] < MaxAttempts

VerifyMfaLogin(w, c) ==
    /\ Valid(c)
    /\ Begin(w, "verify", c, <<"row">>, 0)

\* confirmMfaEnable, confirmPhoneVerification: the count of the update is not checked.
ConfirmCode(w, c) ==
    /\ Valid(c)
    /\ Begin(w, "confirm", c, <<"row">>, 0)

WrongCode(w, c) ==
    /\ Valid(c)
    /\ Begin(w, "wrong", c, << >>, attempts[c])

(***************************************************************************)
(* The transaction.                                                         *)
(***************************************************************************)
\* The rows a statement of one row is about.
RowOf(w, statement) == IF statement = "account" THEN Account ELSE job[w].row

Matching(w, statement) ==
    LET j == job[w] IN
    IF statement = "sessions"
    THEN {s \in opened : j.kind = "all" => s # j.row} \ ended
    ELSE {t \in Issued : /\ j.kind = "revoke" => sessionOf[t] = j.row
                         /\ j.kind = "all" => sessionOf[t] # j.row} \ ended

BeginStatement(w) ==
    /\ job[w] # None /\ todo[w] = {} /\ plan[w] # << >>
    /\ Head(plan[w]) \in {"sessions", "tokens"}
    /\ todo' = [todo EXCEPT ![w] = Matching(w, Head(plan[w]))]
    /\ plan' = [plan EXCEPT ![w] = Tail(@)]
    /\ UNCHANGED <<rowVars, historyVars, lock, job>>

\* Seeded fault: the transaction stays open.
Release_KeepsLocks(w) ==
    /\ plan' = [plan EXCEPT ![w] = << >>]
    /\ todo' = [todo EXCEPT ![w] = {}]
    /\ UNCHANGED lock

\* Commit or rollback: the locks are released.
Release(w) ==
    /\ lock' = [r \in Rows |-> IF lock[r] = w THEN None ELSE lock[r]]
    /\ plan' = [plan EXCEPT ![w] = << >>]
    /\ todo' = [todo EXCEPT ![w] = {}]

End(w) == Release(w) /\ job' = [job EXCEPT ![w] = None]

\* Seeded fault: the count of the update is not checked.
Claims_Never(w, r) == FALSE

\* These requests throw when the row they are for has been used meanwhile.
Claims(w, r) == r = job[w].row /\ job[w].kind \in {"refresh", "reset", "verify"}

UpdateRow(w, r) ==
    /\ r \in todo[w]
    /\ lock[r] = None
    /\ lock' = IF r \in ended THEN lock ELSE [lock EXCEPT ![r] = w]
    /\ todo' = [todo EXCEPT ![w] = @ \ {r}]
    /\ UNCHANGED <<rowVars, historyVars, job, plan>>

\* A statement of one row; what it matches is decided when it has the lock.
UpdateOne(w) ==
    LET r == RowOf(w, Head(plan[w])) IN
    /\ job[w] # None /\ todo[w] = {} /\ plan[w] # << >>
    /\ Head(plan[w]) \in {"row", "account"}
    /\ lock[r] = None
    /\ IF r \in ended /\ Claims(w, r)
       THEN End(w)
       ELSE /\ lock' = IF r \in ended THEN lock ELSE [lock EXCEPT ![r] = w]
            /\ plan' = [plan EXCEPT ![w] = Tail(@)]
            /\ UNCHANGED <<job, todo>>
    /\ UNCHANGED <<rowVars, historyVars>>

\* Death of the process, a statement that fails, the victim of a deadlock.
Abort(w) ==
    /\ job[w] # None
    /\ End(w)
    /\ UNCHANGED <<rowVars, historyVars>>

\* The row of the last statement of these requests; the commit follows at once.
LastRow(w) ==
    CASE job[w].kind \in {"refresh", "logout"} -> sessionOf[job[w].row]
      [] job[w].kind \in {"verify", "confirm"} -> Account
      [] job[w].kind = "wrong" -> job[w].row
      [] OTHER -> None

Ready(w, kinds) ==
    /\ job[w] # None /\ job[w].kind \in kinds
    /\ todo[w] = {} /\ plan[w] = << >>
    /\ LastRow(w) # None => lock[LastRow(w)] = None

\* Seeded fault: the account's row is marked as well.
Locked_Account(w) == {r \in Rows : lock[r] = w}

Locked(w) == {r \in Rows : lock[r] = w} \ {Account}

\* rotateRefreshToken: the old token ends and a new one continues its session.
CommitRefresh(w) ==
    /\ Ready(w, {"refresh"})
    /\ Tokens \ Issued # {}
    /\ LET t == job[w].row
           n == CHOOSE n \in Tokens \ Issued : TRUE
       IN  /\ sessionOf' = [sessionOf EXCEPT ![n] = sessionOf[t]]
           /\ parent' = [parent EXCEPT ![n] = t]
           /\ ended' = ended \cup {t}
           /\ late' = IF sessionOf[t] \in ended THEN late \cup {n} ELSE late
    /\ End(w)
    /\ UNCHANGED <<opened, sent, attempts, guesses, uses>>

CommitEnding(w) ==
    /\ Ready(w, {"logout", "revoke", "all"} \cup EndsAll)
    /\ ended' = ended \cup Locked(w) \cup (IF LastRow(w) = None THEN {} ELSE {LastRow(w)})
    /\ uses' = IF job[w].kind = "reset" THEN [uses EXCEPT ![job[w].row] = @ + 1] ELSE uses
    /\ End(w)
    /\ UNCHANGED <<opened, sessionOf, parent, sent, attempts, guesses, late>>

\* The code is used; a login goes on to open its session.
CommitCode(w) ==
    /\ Ready(w, {"verify", "confirm"})
    /\ ended' = ended \cup Locked(w)
    /\ Release(w)
    /\ IF job[w].kind = "verify"
       THEN /\ job' = [job EXCEPT ![w].kind = "issue"]
            /\ uses' = [uses EXCEPT ![job[w].row] = @ + 1]
       ELSE job' = [job EXCEPT ![w] = None] /\ UNCHANGED uses
    /\ UNCHANGED <<opened, sessionOf, parent, sent, attempts, guesses, late>>

\* Seeded fault: attempts is set to what was read plus one.
CommitGuess_Lost(w) ==
    LET c == job[w].row IN
    /\ Ready(w, {"wrong"})
    /\ guesses' = [guesses EXCEPT ![c] = @ + 1]
    /\ attempts' = IF c \notin ended THEN [attempts EXCEPT ![c] = job[w].seen + 1] ELSE attempts
    /\ ended' = IF job[w].seen + 1 >= MaxAttempts THEN ended \cup {c} ELSE ended
    /\ End(w)
    /\ UNCHANGED <<opened, sessionOf, parent, sent, uses, late>>

\* The attempt that reaches the limit, as far as this request has seen, uses the code up.
CommitGuess(w) ==
    LET c == job[w].row IN
    /\ Ready(w, {"wrong"})
    /\ guesses' = [guesses EXCEPT ![c] = @ + 1]
    /\ attempts' = IF c \notin ended THEN [attempts EXCEPT ![c] = @ + 1] ELSE attempts
    /\ ended' = IF job[w].seen + 1 >= MaxAttempts THEN ended \cup {c} ELSE ended
    /\ End(w)
    /\ UNCHANGED <<opened, sessionOf, parent, sent, uses, late>>

\* issueTokens
IssueTokens(w) ==
    /\ Ready(w, {"issue"})
    /\ Sessions \ opened # {} /\ Tokens \ Issued # {}
    /\ LET s == CHOOSE s \in Sessions \ opened : TRUE
           n == CHOOSE n \in Tokens \ Issued : TRUE
       IN  /\ opened' = opened \cup {s}
           /\ sessionOf' = [sessionOf EXCEPT ![n] = s]
    /\ End(w)
    /\ UNCHANGED <<parent, sent, ended, attempts, historyVars>>

(***************************************************************************)
(* The specification.                                                       *)
(***************************************************************************)
Request(w) ==
    \/ \E t \in Tokens : Refresh(w, t) \/ Logout(w, t)
    \/ \E s \in Sessions : RevokeSession(w, s)
    \/ \E s \in Sessions \cup {None} : LogoutAllSessions(w, s)
    \/ \E r \in Resets : ResetPassword(w, r)
    \/ ChangePassword(w) \/ BlockUser(w) \/ Login(w)
    \/ \E c \in Challenges : VerifyMfaLogin(w, c) \/ ConfirmCode(w, c) \/ WrongCode(w, c)

Proceed(w) ==
    \/ BeginStatement(w) \/ UpdateOne(w)
    \/ \E r \in Rows : UpdateRow(w, r)
    \/ CommitRefresh(w) \/ CommitEnding(w) \/ CommitCode(w) \/ CommitGuess(w) \/ IssueTokens(w)

Next ==
    \/ \E r \in Resets \cup Challenges : Send(r)
    \/ \E w \in Handlers : Request(w) \/ Proceed(w) \/ Abort(w)

Spec == Init /\ [][Next]_vars

\* Transactions that wait for one another, and none of them for less: Postgres aborts one.
Awaits(w) ==
    IF job[w] = None THEN {}
    ELSE IF todo[w] # {} THEN todo[w]
    ELSE IF plan[w] = << >> THEN {LastRow(w)} \ {None}
    ELSE IF Head(plan[w]) \in {"row", "account"} THEN {RowOf(w, Head(plan[w]))}
    ELSE {}
Deadlock(W) ==
    \A w \in W : /\ Awaits(w) # {}
                 /\ \A r \in Awaits(w) : lock[r] \notin {None, w}
                 /\ \E r \in Awaits(w) : lock[r] \in W
Deadlocked(w) ==
    \E W \in SUBSET Handlers : w \in W /\ Deadlock(W) /\ \A V \in SUBSET W : Deadlock(V) => V \in {{}, W}

\* Locks are granted in the order they were asked for, so a request that is served is
\* not overtaken for ever; the bound on rows, which the database has not, counts as a
\* failed statement.
OutOfRows(w) ==
    /\ job[w] # None /\ plan[w] = << >>
    /\ \/ job[w].kind \in {"refresh", "issue"} /\ Tokens \subseteq Issued
       \/ job[w].kind = "issue" /\ Sessions \subseteq opened

Fairness ==
    \A w \in Handlers :
        /\ SF_vars(Proceed(w))
        /\ WF_vars((Deadlocked(w) \/ OutOfRows(w)) /\ Abort(w))

FairSpec == Spec /\ Fairness

(***************************************************************************)
(* Properties.                                                              *)
(***************************************************************************)

\* However refreshes, logouts and revocations of a session overlap, at most one of its
\* tokens can be exchanged: a token that was exchanged twice would leave two.
OneLiveToken ==
    \A s \in Sessions : \A t, u \in {x \in Issued \ ended : sessionOf[x] = s} : t = u

\* What is for one use is used once, although every request checks it long before: a
\* refresh token is exchanged once, a reset token changes the password once, and a code
\* logs in once.
UsedOnce ==
    /\ \A t, u \in Tokens : t # u /\ parent[t] = parent[u] => parent[t] = None
    /\ \A r \in Resets \cup Challenges : uses[r] <= 1

\* Every history is one of module SessionChain: whatever refreshes, logouts, resets and logins
\* overlap, only the last token of a chain is exchanged, once, and what has ended stays so.
\* A refresh that overlaps a logout or a reset may issue a token after the session has ended
\* (when the update of the tokens began before it was inserted): nothing is exchanged for it.
Chain == INSTANCE SessionChain WITH
    Codes <- Resets \cup Challenges, session <- sessionOf, over <- ended
ChainKept == Chain!ChainSpec

\* The commit of a new password, or of the block of the account, leaves no session open that
\* was open when its request was read, although refreshes and logouts overlap it.
ChangeEndsSessions ==
    [][\A w \in Handlers :
         CommitEnding(w) /\ job[w].kind \in EndsAll => job[w].known \subseteq ended']_vars

\* Concurrent wrong guesses may pass the limit of attempts, as each of them checks it
\* before the others count, but by no more than the requests in flight at once.
GuessesBounded == \A c \in Challenges : guesses[c] <= MaxAttempts + Cardinality(Handlers) - 1

\* Every request ends: refreshes lock a token and then its session, revocations a session
\* and then its tokens, and the deadlocks this makes are resolved.
RequestsEnd == \A w \in Handlers : job[w] # None ~> job[w] = None
=============================================================================
