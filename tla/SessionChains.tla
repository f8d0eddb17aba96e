----------------------------- MODULE SessionChains -----------------------------
(***************************************************************************)
(* What a login session promises, whatever the order in which requests are *)
(* served (backend/docs/authentication.md, "Token Rotation System"): a     *)
(* session is opened once with one token, the token is replaced by one     *)
(* never seen before, and a session that is closed stays closed.  The      *)
(* module RefreshTokens, which follows the code await by await, implements *)
(* this specification.                                                     *)
(***************************************************************************)
CONSTANTS
    Sessions,   \* session identifiers, one per login
    Tokens,     \* opaque refresh tokens
    Unopened,   \* the session has never had a token; not one of Tokens
    Closed      \* the session has been revoked, evicted or has expired; likewise

VARIABLES
    head,       \* head[s]: the only token of s the server accepts
    seen        \* every token that is or was the head of a session

chainVars == <<head, seen>>

ChainInit ==
    /\ head = [s \in Sessions |-> Unopened]
    /\ seen = {}

Open(s, t) ==
    /\ head[s] = Unopened
    /\ t \notin seen
    /\ head' = [head EXCEPT ![s] = t]
    /\ seen' = seen \cup {t}

Rotate(s, t) ==
    /\ head[s] \in Tokens
    /\ t \notin seen
    /\ head' = [head EXCEPT ![s] = t]
    /\ seen' = seen \cup {t}

Close(s) ==
    /\ head[s] \in Tokens
    /\ head' = [head EXCEPT ![s] = Closed]
    /\ UNCHANGED seen

(* One change at a time: each is one statement of the database.            *)
ChainNext ==
    \E s \in Sessions :
        \/ \E t \in Tokens : Open(s, t) \/ Rotate(s, t)
        \/ Close(s)

ChainSpec == ChainInit /\ [][ChainNext]_chainVars
================================================================================
