----------------------------- MODULE RefreshTokens -----------------------------
(***************************************************************************)
(* The refresh-token sessions of AuthService and RefreshTokenRepository.   *)
(* The server is one Node.js process: code between two awaits is atomic,   *)
(* and every await of a database call lets any other request run.  Each    *)
(* action is therefore one database statement together with the code that  *)
(* follows it up to the next await; pc[r] names the statement that request *)
(* r is about to execute.                                                  *)
(***************************************************************************)
EXTENDS Integers, FiniteSets

CONSTANTS
    Users,                  \* user ids
    Sessions,               \* session ids, randomBytes(16): never drawn twice
    Tokens,                 \* opaque tokens, randomBytes(32): never drawn twice
    Requests,               \* HTTP requests that can be in flight together
    MaxDeviceSlotsPerUser,  \* MAX_DEVICE_SLOTS_PER_USER
    RefreshTokenTTL,        \* REFRESH_TOKEN_EXPIRATION
    MaxRefreshAge,          \* REFRESH_TOKEN_MAX_REFRESH_DAYS
    MaxTime,                \* bound of the model on the clock
    NoRow, NoTask,          \* no row for the session; no request being served
    Unopened, Closed        \* the marks of SessionChains

ASSUME SlotsAssumption == MaxDeviceSlotsPerUser \in Nat \ {0}
ASSUME TimeAssumption ==
    RefreshTokenTTL \in Nat /\ MaxRefreshAge \in Nat /\ MaxTime \in Nat
ASSUME FiniteAssumption == IsFiniteSet(Sessions)

VARIABLES
    row,        \* the refresh_tokens table, at most one row per session
    now,        \* the clock
    pc,         \* pc[r]: the next database statement of request r
    task,       \* task[r]: the arguments and locals of request r
    opened,     \* sessions that generateSession has drawn
    drawn,      \* tokens that were drawn and may be in the table
    issued,     \* [session, token] pairs that a client has been handed
    successor,  \* history: <<t, n>> when presenting t was answered with n
    alarms,     \* history: tokens named in a "reuse detected" audit event
    raced       \* history: users who ever had two logins in flight at once

vars == <<row, now, pc, task, opened, drawn, issued, successor, alarms, raced>>
--------------------------------------------------------------------------------
(* A row of the table, and the locals of the two kinds of request.         *)
Row == [user : Users, token : Tokens, expiresAt : Nat, createdAt : Nat,
        lastAccessedAt : Nat]

LoginTask == [op : {"login"}, user : Users, session : Sessions,
              token : Tokens, expiresAt : Nat, victim : Sessions]

VisitTask == [op : {"refresh", "logout", "sessions"}, session : Sessions,
              token : Tokens, next : Tokens, expiresAt : Nat]

ASSUME MarksAssumption ==
    /\ NoRow \notin Row
    /\ NoTask \notin LoginTask \cup VisitTask
    /\ Unopened \notin Tokens /\ Closed \notin Tokens /\ Unopened # Closed

LoginSteps == {"countByUser", "findOldest", "deleteOldest", "create"}
VisitSteps == {"findByToken", "deleteExpired", "isChainExpired", "deleteChain",
               "updateFind", "update", "audit", "revoke"}

HasRow(s) == row[s] # NoRow
RowsOf(u) == {s \in Sessions : HasRow(s) /\ row[s].user = u}

(* RefreshTokenRepository.findByToken: the session has a row, with t in it *)
Accepts(s, t) == HasRow(s) /\ row[s].token = t

(* Rows a query ordered by lastAccessedAt may return first.                *)
Oldest(S) == {s \in S : \A o \in S : row[s].lastAccessedAt <= row[o].lastAccessedAt}

LoggingIn(r, u) == pc[r] \in LoginSteps /\ task[r].user = u

Finish(r) == /\ pc' = [pc EXCEPT ![r] = "idle"]
             /\ task' = [task EXCEPT ![r] = NoTask]
Goto(r, step) == pc' = [pc EXCEPT ![r] = step]
--------------------------------------------------------------------------------
Init ==
    /\ row = [s \in Sessions |-> NoRow]
    /\ now = 0
    /\ pc = [r \in Requests |-> "idle"]
    /\ task = [r \in Requests |-> NoTask]
    /\ opened = {} /\ drawn = {} /\ issued = {}
    /\ successor = {} /\ alarms = {} /\ raced = {}

(* generateSession draws 16 random bytes: a session is never opened twice. *)
SessionPerDevice(s) == TRUE                        \* mutant
FreshSession(s) == s \notin opened

(* generateTokens, up to the first statement of generateOpaqueRefreshToken *)
(* (POST /login or /login/trakt, once the user is authenticated).          *)
Login(r, u, s, t) ==
    /\ pc[r] = "idle"
    /\ FreshSession(s)
    /\ t \notin drawn
    /\ opened' = opened \cup {s}
    /\ drawn' = drawn \cup {t}
    /\ task' = [task EXCEPT ![r] =
                  [op |-> "login", user |-> u, session |-> s, token |-> t,
                   expiresAt |-> now + RefreshTokenTTL, victim |-> s]]
    /\ Goto(r, "countByUser")
    /\ raced' = IF \E q \in Requests : LoggingIn(q, u) THEN raced \cup {u} ELSE raced
    /\ UNCHANGED <<row, now, issued, successor, alarms>>

NeedsSlotOnlyBeyond(u) ==                          \* mutant
    Cardinality(RowsOf(u)) > MaxDeviceSlotsPerUser
NeedsSlot(u) == Cardinality(RowsOf(u)) >= MaxDeviceSlotsPerUser

CountByUser(r) ==
    /\ pc[r] = "countByUser"
    /\ Goto(r, IF NeedsSlot(task[r].user) THEN "findOldest" ELSE "create")
    /\ UNCHANGED <<row, now, task, opened, drawn, issued, successor, alarms, raced>>

FindOldest(r) ==
    /\ pc[r] = "findOldest"
    /\ LET k    == task[r]
           mine == RowsOf(k.user)
       IN  \/ /\ mine = {}
              /\ Goto(r, "create")
              /\ UNCHANGED task
           \/ \E s \in Oldest(mine) :
                 /\ task' = [task EXCEPT ![r] =
                      [op |-> k.op, user |-> k.user, session |-> k.session,
                       token |-> k.token, expiresAt |-> k.expiresAt, victim |-> s]]
                 /\ Goto(r, "deleteOldest")
    /\ UNCHANGED <<row, now, opened, drawn, issued, successor, alarms, raced>>

DeleteOldest(r) ==
    /\ pc[r] = "deleteOldest"
    /\ row' = [row EXCEPT ![task[r].victim] = NoRow]
    /\ Goto(r, "create")
    /\ UNCHANGED <<now, task, opened, drawn, issued, successor, alarms, raced>>

CreateRow(r) ==
    /\ pc[r] = "create"
    /\ LET k == task[r]
       IN  /\ row' = [row EXCEPT ![k.session] =
                        [user |-> k.user, token |-> k.token,
                         expiresAt |-> k.expiresAt, createdAt |-> now,
                         lastAccessedAt |-> now]]
           /\ issued' = issued \cup {[session |-> k.session, token |-> k.token]}
    /\ Finish(r)
    /\ UNCHANGED <<now, opened, drawn, successor, alarms, raced>>
--------------------------------------------------------------------------------
(* A client, or an old tab of it, presents a cookie it was once handed: to *)
(* refresh, to log out, or in GET /sessions, which only verifies it.       *)
Visit(r, op, c) ==
    /\ pc[r] = "idle"
    /\ c \in issued
    /\ task' = [task EXCEPT ![r] =
                  [op |-> op, session |-> c.session, token |-> c.token,
                   next |-> c.token, expiresAt |-> 0]]
    /\ Goto(r, "findByToken")
    /\ UNCHANGED <<row, now, opened, drawn, issued, successor, alarms, raced>>

(* verifyOpaqueRefreshToken: the lookup and the expiry test.               *)
FindByToken(r) ==
    /\ pc[r] = "findByToken"
    /\ LET k == task[r]
       IN  \/ ~Accepts(k.session, k.token) /\ Finish(r)
           \/ /\ Accepts(k.session, k.token)
              /\ Goto(r, IF row[k.session].expiresAt < now
                         THEN "deleteExpired" ELSE "isChainExpired")
              /\ UNCHANGED task
    /\ UNCHANGED <<row, now, opened, drawn, issued, successor, alarms, raced>>

(* The row is deleted by its id, whatever token it holds by now.           *)
DeleteExpired(r) ==
    /\ pc[r] = "deleteExpired"
    /\ row' = [row EXCEPT ![task[r].session] = NoRow]
    /\ Finish(r)
    /\ UNCHANGED <<now, opened, drawn, issued, successor, alarms, raced>>

ChainExpired(s) == HasRow(s) => row[s].createdAt < now - MaxRefreshAge

IsChainExpired(r) ==
    /\ pc[r] = "isChainExpired"
    /\ LET k == task[r]
       IN  \/ /\ ChainExpired(k.session)
              /\ Goto(r, "deleteChain")
              /\ UNCHANGED task
           \/ /\ ~ChainExpired(k.session)
              /\ k.op = "refresh"
              /\ Goto(r, "updateFind")
              /\ UNCHANGED task
           \/ /\ ~ChainExpired(k.session)
              /\ k.op = "logout"
              /\ Goto(r, "revoke")
              /\ UNCHANGED task
           \/ /\ ~ChainExpired(k.session)
              /\ k.op = "sessions"
              /\ Finish(r)
    /\ UNCHANGED <<row, now, opened, drawn, issued, successor, alarms, raced>>

DeleteChain(r) ==
    /\ pc[r] = "deleteChain"
    /\ row' = [row EXCEPT ![task[r].session] = NoRow]
    /\ Finish(r)
    /\ UNCHANGED <<now, opened, drawn, issued, successor, alarms, raced>>

(* refreshTokens draws the new token; updateToken looks the old one up     *)
(* again.  A token that is drawn and then dropped was never seen.          *)
UpdateFind(r) ==
    /\ pc[r] = "updateFind"
    /\ LET k == task[r]
       IN  \/ /\ ~Accepts(k.session, k.token)
              /\ Goto(r, "audit")
              /\ UNCHANGED <<task, drawn>>
           \/ /\ Accepts(k.session, k.token)
              /\ \E n \in Tokens \ drawn :
                    /\ drawn' = drawn \cup {n}
                    /\ task' = [task EXCEPT ![r] =
                         [op |-> k.op, session |-> k.session, token |-> k.token,
                          next |-> n, expiresAt |-> now + RefreshTokenTTL]]
              /\ Goto(r, "update")
    /\ UNCHANGED <<row, now, opened, issued, successor, alarms, raced>>

(* What the WHERE clause of the UPDATE matches.  It also names the user,   *)
(* which the session determines.                                           *)
UpdateMatchesSession(s, t) == HasRow(s)            \* mutant
UpdateMatches(s, t) == HasRow(s) /\ row[s].token = t

(* The fields the UPDATE sets.                                             *)
RotatedKeepingToken(k) ==                          \* mutant
    [row[k.session] EXCEPT !.expiresAt = k.expiresAt, !.lastAccessedAt = now]
RotatedToSession(k) ==       \* mutant: two arguments of one type are swapped
    [row[k.session] EXCEPT !.token = k.session,
                           !.expiresAt = k.expiresAt, !.lastAccessedAt = now]
Rotated(k) ==
    [user |-> row[k.session].user, token |-> k.next, expiresAt |-> k.expiresAt,
     createdAt |-> row[k.session].createdAt, lastAccessedAt |-> now]

Update(r) ==
    /\ pc[r] = "update"
    /\ LET k == task[r]
       IN  \/ /\ UpdateMatches(k.session, k.token)
              /\ row' = [row EXCEPT ![k.session] = Rotated(k)]
              /\ issued' = issued \cup {[session |-> k.session, token |-> k.next]}
              /\ successor' = successor \cup {<<k.token, k.next>>}
              /\ Finish(r)
           \/ /\ ~UpdateMatches(k.session, k.token)
              /\ Goto(r, "audit")
              /\ UNCHANGED <<row, task, issued, successor>>
    /\ UNCHANGED <<now, opened, drawn, alarms, raced>>

(* The SUSPICIOUS_ACTIVITY event of a refresh whose update found no row.   *)
Audit(r) ==
    /\ pc[r] = "audit"
    /\ alarms' = alarms \cup {task[r].token}
    /\ Finish(r)
    /\ UNCHANGED <<row, now, opened, drawn, issued, successor, raced>>

Revoke(r) ==
    /\ pc[r] = "revoke"
    /\ row' = [row EXCEPT ![task[r].session] = NoRow]
    /\ Finish(r)
    /\ UNCHANGED <<now, opened, drawn, issued, successor, alarms, raced>>

(* The process dies and starts again: requests are lost, the table is not. *)
Restart ==
    /\ \E r \in Requests : pc[r] # "idle"
    /\ pc' = [r \in Requests |-> "idle"]
    /\ task' = [r \in Requests |-> NoTask]
    /\ UNCHANGED <<row, now, opened, drawn, issued, successor, alarms, raced>>

Tick ==
    /\ now < MaxTime
    /\ now' = now + 1
    /\ UNCHANGED <<row, pc, task, opened, drawn, issued, successor, alarms, raced>>

Serve(r) ==
    \/ \E u \in Users, s \in Sessions, t \in Tokens : Login(r, u, s, t)
    \/ \E op \in {"refresh", "logout", "sessions"}, c \in issued : Visit(r, op, c)
    \/ CountByUser(r) \/ FindOldest(r) \/ DeleteOldest(r) \/ CreateRow(r)
    \/ FindByToken(r) \/ DeleteExpired(r) \/ IsChainExpired(r) \/ DeleteChain(r)
    \/ UpdateFind(r) \/ Update(r) \/ Audit(r) \/ Revoke(r)

Next == Restart \/ Tick \/ \E r \in Requests : Serve(r)

Spec == Init /\ [][Next]_vars
--------------------------------------------------------------------------------
RequestsTyped ==
    /\ pc \in [Requests -> {"idle"} \cup LoginSteps \cup VisitSteps]
    /\ task \in [Requests -> LoginTask \cup VisitTask \cup {NoTask}]
    /\ \A r \in Requests :
          /\ pc[r] = "idle" => task[r] = NoTask
          /\ pc[r] \in LoginSteps => task[r] \in LoginTask
          /\ pc[r] \in VisitSteps => task[r] \in VisitTask

TableTyped == now \in Nat /\ row \in [Sessions -> Row \cup {NoRow}]

HistoryTyped ==
    /\ opened \subseteq Sessions
    /\ drawn \subseteq Tokens
    /\ issued \subseteq [session : Sessions, token : Tokens]
    /\ successor \subseteq Tokens \X Tokens
    /\ alarms \subseteq Tokens
    /\ raced \subseteq Users

(* Every variable has its type, and the locals of a request fit its step:  *)
(* user, session and tokens, which the repository takes as strings in one  *)
(* list of arguments, are not taken for each other.                        *)
TypeOK == RequestsTyped /\ TableTyped /\ HistoryTyped

(* Of any number of concurrent refreshes that present the same token, at   *)
(* most one is answered with a new token ("Race Condition Detection" in    *)
(* authentication.md): the chain of a session never forks.                 *)
ChainNeverForks ==
    \A p, q \in successor : p[1] = q[1] => p = q

(* A token that was exchanged for another is never accepted again, by any  *)
(* interleaving of rotations, logins, logouts, evictions and restarts.     *)
SpentTokensAreDead ==
    \A s \in Sessions, p \in successor : HasRow(s) => row[s].token # p[1]

(* As long as the logins of a user come one after the other, the user      *)
(* never holds more sessions than MAX_DEVICE_SLOTS_PER_USER, whatever      *)
(* refreshes, logouts, expiries and crashes run between the count, the     *)
(* eviction and the insert of a login.                                     *)
SerialLoginsRespectSlots ==
    \A u \in Users \ raced : Cardinality(RowsOf(u)) <= MaxDeviceSlotsPerUser

(* The promise of the documentation, for every order of logins: "Maximum   *)
(* concurrent devices per user" (environment-variables.md).  The count and *)
(* the insert are separate statements, so it does not hold.                *)
DeviceSlotsRespected ==
    \A u \in Users : Cardinality(RowsOf(u)) <= MaxDeviceSlotsPerUser

--------------------------------------------------------------------------------
(* The inductive invariant behind the theorems of RefreshTokensProofs.  A  *)
(* token is pending from the moment it is drawn until a client has it.     *)
Pending == {r \in Requests : pc[r] \in LoginSteps \cup {"update"}}
PendingToken(r) == IF pc[r] = "update" THEN task[r].next ELSE task[r].token
Handed(s, t) == [session |-> s, token |-> t] \in issued

TokensKnown ==
    /\ \A s \in Sessions : HasRow(s) => Handed(s, row[s].token)
    /\ \A c \in issued : c.token \in drawn /\ c.session \in opened
    /\ \A c, d \in issued : c.token = d.token => c = d
    /\ \A p \in successor : \E s \in Sessions : Handed(s, p[1]) /\ Handed(s, p[2])

PendingFresh ==
    \A r \in Pending :
       /\ PendingToken(r) \in drawn
       /\ \A c \in issued : c.token # PendingToken(r)
       /\ \A q \in Pending \ {r} : PendingToken(q) # PendingToken(r)

LoginsFresh ==
    \A r \in Requests : pc[r] \in LoginSteps =>
       /\ task[r].session \in opened
       /\ \A c \in issued : c.session # task[r].session
       /\ \A q \in Requests \ {r} :
             pc[q] \in LoginSteps => task[q].session # task[r].session

VisitsHanded ==
    \A r \in Requests : pc[r] \in VisitSteps => Handed(task[r].session, task[r].token)

RequestsFresh == PendingFresh /\ LoginsFresh /\ VisitsHanded
ChainInv == TokensKnown /\ RequestsFresh /\ ChainNeverForks /\ SpentTokensAreDead

(* For the device slots: what the one login of u in flight has established. *)
UserSlots(u) ==
    /\ Cardinality(RowsOf(u)) <= MaxDeviceSlotsPerUser
    /\ \A r \in Requests : LoggingIn(r, u) =>
          /\ \A q \in Requests : LoggingIn(q, u) => q = r
          /\ pc[r] = "create" => Cardinality(RowsOf(u)) < MaxDeviceSlotsPerUser
          /\ pc[r] = "deleteOldest" =>
                Cardinality(RowsOf(u) \ {task[r].victim}) < MaxDeviceSlotsPerUser
SlotsInv == \A u \in Users \ raced : UserSlots(u)
--------------------------------------------------------------------------------
(* The sessions of the table are the sessions of the abstract              *)
(* specification: opened once, one live token, never reopened.             *)
Heads == [s \in Sessions |->
            IF HasRow(s) THEN row[s].token
            ELSE IF \E t \in Tokens : Handed(s, t) THEN Closed ELSE Unopened]
Seen == {c.token : c \in issued}

Chains == INSTANCE SessionChains WITH head <- Heads, seen <- Seen

ImplementsSessionChains == Chains!ChainSpec
================================================================================
