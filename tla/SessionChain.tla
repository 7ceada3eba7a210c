---------------------------- MODULE SessionChain ----------------------------
(***************************************************************************)
(* What an account's sessions promise.  A session is a chain of refresh       *)
(* tokens: it opens with one, and a token that has not ended is exchanged,     *)
(* at most once, for the next.  A chain may outlive its session by one token:  *)
(* a token issued after the session has ended is late, and nothing is ever     *)
(* exchanged for it.  A token for a new password, or a code, is used once.     *)
(***************************************************************************)
EXTENDS Integers

CONSTANTS
    Sessions,
    Tokens,  \* refresh tokens
    Codes,   \* what is sent to the user for one use
    None

VARIABLES
    opened,  \* the sessions that exist
    session, \* the session of a token; None: it is not issued
    parent,  \* the token it was exchanged for
    over,    \* what has ended: sessions, tokens, codes
    late,    \* tokens issued after their session had ended
    uses     \* how often a code was used

chainVars == <<opened, session, parent, over, late, uses>>

ChainInit ==
    /\ opened = {} /\ over = {} /\ late = {}
    /\ session = [t \in Tokens |-> None]
    /\ parent = [t \in Tokens |-> None]
    /\ uses = [c \in Codes |-> 0]

Open(s, n) ==
    /\ s \notin opened
    /\ session[n] = None
    /\ opened' = opened \cup {s}
    /\ session' = [session EXCEPT ![n] = s]
    /\ UNCHANGED <<parent, over, late, uses>>

\* The one token that can be exchanged is replaced by the new one.
Exchange(t, n) ==
    /\ session[t] # None
    /\ t \notin over \cup late
    /\ session[n] = None
    /\ session' = [session EXCEPT ![n] = session[t]]
    /\ parent' = [parent EXCEPT ![n] = t]
    /\ over' = over \cup {t}
    /\ late' = IF session[t] \in over THEN late \cup {n} ELSE late
    /\ UNCHANGED <<opened, uses>>

\* What has ended stays ended.
Ends ==
    /\ over \subseteq over'
    /\ over' \subseteq Sessions \cup Tokens \cup Codes
    /\ UNCHANGED <<opened, session, parent, late>>

\* A use may end sessions and tokens with it.
Use(c) ==
    /\ c \notin over
    /\ Ends /\ c \in over'
    /\ uses' = [uses EXCEPT ![c] = @ + 1]

ChainNext ==
    \/ \E s \in Sessions, n \in Tokens : Open(s, n)
    \/ \E t \in Tokens, n \in Tokens : Exchange(t, n)
    \/ Ends /\ UNCHANGED uses
    \/ \E c \in Codes : Use(c)

ChainSpec == ChainInit /\ [][ChainNext]_chainVars
=============================================================================
