-------------------------- MODULE RefreshTokensProofs --------------------------
(***************************************************************************)
(* Proofs about RefreshTokens, for any number of users, sessions, tokens   *)
(* and concurrent requests.                                                *)
(***************************************************************************)
EXTENDS RefreshTokens, TLAPS, FiniteSetTheorems

USE SlotsAssumption, TimeAssumption, MarksAssumption
--------------------------------------------------------------------------------
(* Every action ends a request or moves it to a step of its own kind.      *)
LEMMA FinishTyped ==
    ASSUME RequestsTyped, NEW r \in Requests, Finish(r)
    PROVE  RequestsTyped'
  BY DEF RequestsTyped, Finish, LoginSteps, VisitSteps

LEMMA MoveTyped ==
    ASSUME RequestsTyped, NEW r \in Requests, NEW step, Goto(r, step),
           task' \in [Requests -> LoginTask \cup VisitTask \cup {NoTask}],
           \/ step \in LoginSteps /\ task'[r] \in LoginTask
           \/ step \in VisitSteps /\ task'[r] \in VisitTask,
           \A q \in Requests \ {r} : task'[q] = task[q]
    PROVE  RequestsTyped'
  BY DEF RequestsTyped, Goto, LoginSteps, VisitSteps

(* A row that is deleted leaves the table well typed.                      *)
LEMMA DeleteTyped ==
    ASSUME TableTyped, NEW s, row' = [row EXCEPT ![s] = NoRow], UNCHANGED now
    PROVE  TableTyped'
  BY DEF TableTyped

LEMMA TypeStep ==
    ASSUME TypeOK, [Next]_vars
    PROVE  TypeOK'
<1> USE DEF TypeOK
<1>1. CASE Restart
  BY <1>1 DEF Restart, RequestsTyped, TableTyped, HistoryTyped, LoginSteps, VisitSteps
<1>2. CASE Tick
  BY <1>2 DEF Tick, RequestsTyped, TableTyped, HistoryTyped
<1>3. ASSUME NEW r \in Requests, Serve(r)
      PROVE  TypeOK'
  <2>1. ASSUME NEW u \in Users, NEW s \in Sessions, NEW t \in Tokens, Login(r, u, s, t)
        PROVE  TypeOK'
    <3>1. task'[r] \in LoginTask
      BY <2>1 DEF Login, LoginTask, RequestsTyped, TableTyped
    <3>2. RequestsTyped'
      BY <2>1, <3>1, MoveTyped DEF Login, LoginSteps, RequestsTyped
    <3>3. TableTyped' /\ HistoryTyped'
      BY <2>1 DEF Login, TableTyped, HistoryTyped
    <3>. QED  BY <3>2, <3>3
  <2>2. ASSUME NEW op \in {"refresh", "logout", "sessions"}, NEW c \in issued,
               Visit(r, op, c)
        PROVE  TypeOK'
    <3>1. task'[r] \in VisitTask
      BY <2>2 DEF Visit, VisitTask, RequestsTyped, HistoryTyped
    <3>2. RequestsTyped'
      BY <2>2, <3>1, MoveTyped DEF Visit, VisitSteps, RequestsTyped
    <3>. QED  BY <2>2, <3>2 DEF Visit, TableTyped, HistoryTyped
  <2>3. CASE CountByUser(r)
    <3>1. RequestsTyped'
      BY <2>3, MoveTyped DEF CountByUser, LoginSteps, RequestsTyped
    <3>. QED  BY <2>3, <3>1 DEF CountByUser, TableTyped, HistoryTyped
  <2>4. CASE FindOldest(r)
    <3>1. ASSUME NEW s \in Sessions,
                 task' = [task EXCEPT ![r] =
                   [op |-> task[r].op, user |-> task[r].user,
                    session |-> task[r].session, token |-> task[r].token,
                    expiresAt |-> task[r].expiresAt, victim |-> s]],
                 Goto(r, "deleteOldest")
          PROVE  RequestsTyped'
      <4>1. task'[r] \in LoginTask
        BY <2>4, <3>1 DEF FindOldest, LoginTask, LoginSteps, RequestsTyped
      <4>. QED  BY <3>1, <4>1, MoveTyped DEF LoginSteps, RequestsTyped
    <3>2. ASSUME Goto(r, "create"), UNCHANGED task
          PROVE  RequestsTyped'
      BY <2>4, <3>2, MoveTyped DEF FindOldest, LoginSteps, RequestsTyped
    <3>3. RequestsTyped'
      BY <2>4, <3>1, <3>2 DEF FindOldest, Oldest, RowsOf
    <3>. QED  BY <2>4, <3>3 DEF FindOldest, TableTyped, HistoryTyped
  <2>5. CASE DeleteOldest(r)
    <3>1. RequestsTyped'
      BY <2>5, MoveTyped DEF DeleteOldest, LoginSteps, RequestsTyped
    <3>. QED  BY <2>5, <3>1, DeleteTyped DEF DeleteOldest, HistoryTyped
  <2>6. CASE CreateRow(r)
    <3>1. task[r] \in LoginTask
      BY <2>6 DEF CreateRow, LoginSteps, RequestsTyped
    <3>2. TableTyped' /\ HistoryTyped'
      BY <2>6, <3>1 DEF CreateRow, LoginTask, Row, TableTyped, HistoryTyped
    <3>. QED  BY <2>6, <3>2, FinishTyped DEF CreateRow
  <2>7. CASE FindByToken(r)
    <3>1. task[r] \in VisitTask
      BY <2>7 DEF FindByToken, VisitSteps, RequestsTyped
    <3>2. RequestsTyped'
      BY <2>7, <3>1, FinishTyped, MoveTyped DEF FindByToken, VisitSteps, RequestsTyped
    <3>. QED  BY <2>7, <3>2 DEF FindByToken, TableTyped, HistoryTyped
  <2>8. CASE DeleteExpired(r)
    BY <2>8, DeleteTyped, FinishTyped DEF DeleteExpired, HistoryTyped
  <2>9. CASE IsChainExpired(r)
    <3>1. task[r] \in VisitTask
      BY <2>9 DEF IsChainExpired, VisitSteps, RequestsTyped
    <3>2. RequestsTyped'
      BY <2>9, <3>1, FinishTyped, MoveTyped DEF IsChainExpired, VisitSteps, RequestsTyped
    <3>. QED  BY <2>9, <3>2 DEF IsChainExpired, TableTyped, HistoryTyped
  <2>10. CASE DeleteChain(r)
    BY <2>10, DeleteTyped, FinishTyped DEF DeleteChain, HistoryTyped
  <2>11. CASE UpdateFind(r)
    <3>1. task[r] \in VisitTask
      BY <2>11 DEF UpdateFind, VisitSteps, RequestsTyped
    <3>2. ASSUME NEW n \in Tokens,
                 task' = [task EXCEPT ![r] =
                   [op |-> task[r].op, session |-> task[r].session,
                    token |-> task[r].token, next |-> n,
                    expiresAt |-> now + RefreshTokenTTL]],
                 Goto(r, "update")
          PROVE  RequestsTyped'
      <4>1. task'[r] \in VisitTask
        BY <3>1, <3>2 DEF VisitTask, RequestsTyped, TableTyped
      <4>. QED  BY <3>2, <4>1, MoveTyped DEF VisitSteps, RequestsTyped
    <3>3. ASSUME Goto(r, "audit"), UNCHANGED task
          PROVE  RequestsTyped'
      BY <3>1, <3>3, MoveTyped DEF VisitSteps, RequestsTyped
    <3>4. RequestsTyped'
      BY <2>11, <3>2, <3>3 DEF UpdateFind
    <3>. QED  BY <2>11, <3>4 DEF UpdateFind, TableTyped, HistoryTyped
  <2>12. CASE Update(r)
    <3>1. task[r] \in VisitTask
      BY <2>12 DEF Update, VisitSteps, RequestsTyped
    <3>2. RequestsTyped'
      BY <2>12, <3>1, FinishTyped, MoveTyped DEF Update, VisitSteps, RequestsTyped
    <3>3. TableTyped' /\ HistoryTyped'
      BY <2>12, <3>1
         DEF Update, UpdateMatches, HasRow, Rotated, VisitTask, Row, TableTyped, HistoryTyped
    <3>. QED  BY <3>2, <3>3
  <2>13. CASE Audit(r)
    BY <2>13, FinishTyped
       DEF Audit, VisitSteps, VisitTask, RequestsTyped, TableTyped, HistoryTyped
  <2>14. CASE Revoke(r)
    BY <2>14, DeleteTyped, FinishTyped DEF Revoke, HistoryTyped
  <2>. QED  BY <1>3, <2>1, <2>2, <2>3, <2>4, <2>5, <2>6, <2>7, <2>8, <2>9, <2>10,
               <2>11, <2>12, <2>13, <2>14 DEF Serve
<1>4. CASE UNCHANGED vars
  BY <1>4 DEF vars, RequestsTyped, TableTyped, HistoryTyped
<1>. QED  BY <1>1, <1>2, <1>3, <1>4 DEF Next

(* The variables of the server keep their types in every behaviour.        *)
THEOREM TypeCorrect == Spec => []TypeOK
<1>1. Init => TypeOK
  BY DEF Init, TypeOK, RequestsTyped, TableTyped, HistoryTyped, LoginSteps, VisitSteps
<1>. QED  BY <1>1, TypeStep, PTL DEF Spec
--------------------------------------------------------------------------------
(* The chain of a session.  A request that ends has nothing pending.       *)
LEMMA FinishFresh ==
    ASSUME TypeOK, RequestsFresh, NEW r \in Requests, Finish(r),
           UNCHANGED <<opened, drawn, issued>>
    PROVE  RequestsFresh'
<1> USE DEF TypeOK, RequestsTyped, Finish, LoginSteps, VisitSteps, Pending, PendingToken
<1>1. PendingFresh'
  BY DEF RequestsFresh, PendingFresh
<1>2. LoginsFresh'
  BY DEF RequestsFresh, LoginsFresh
<1>3. VisitsHanded'
  BY DEF RequestsFresh, VisitsHanded, Handed
<1>. QED  BY <1>1, <1>2, <1>3 DEF RequestsFresh

(* A step from one statement of a login to the next keeps what it drew.    *)
LEMMA LoginMoveFresh ==
    ASSUME TypeOK, RequestsFresh, NEW r \in Requests, NEW step \in LoginSteps,
           pc[r] \in LoginSteps, Goto(r, step),
           task'[r].session = task[r].session, task'[r].token = task[r].token,
           \A q \in Requests \ {r} : task'[q] = task[q],
           UNCHANGED <<opened, drawn, issued>>
    PROVE  RequestsFresh'
<1> USE DEF TypeOK, RequestsTyped, Goto, LoginSteps, VisitSteps, Pending, PendingToken
<1>1. PendingFresh'
  BY DEF RequestsFresh, PendingFresh
<1>2. LoginsFresh'
  BY DEF RequestsFresh, LoginsFresh
<1>3. VisitsHanded'
  BY DEF RequestsFresh, VisitsHanded, Handed
<1>. QED  BY <1>1, <1>2, <1>3 DEF RequestsFresh

(* A step of a visit to a statement that draws nothing.                    *)
LEMMA VisitMoveFresh ==
    ASSUME TypeOK, RequestsFresh, NEW r \in Requests,
           NEW step \in VisitSteps \ {"update"}, Goto(r, step),
           Handed(task[r].session, task[r].token)',
           \A q \in Requests \ {r} : task'[q] = task[q],
           UNCHANGED <<opened, drawn, issued>>
    PROVE  RequestsFresh'
<1> USE DEF TypeOK, RequestsTyped, Goto, LoginSteps, VisitSteps, Pending, PendingToken
<1>1. PendingFresh'
  BY DEF RequestsFresh, PendingFresh
<1>2. LoginsFresh'
  BY DEF RequestsFresh, LoginsFresh
<1>3. VisitsHanded'
  BY DEF RequestsFresh, VisitsHanded, Handed
<1>. QED  BY <1>1, <1>2, <1>3 DEF RequestsFresh

LEMMA VisitStayFresh ==
    ASSUME TypeOK, RequestsFresh, NEW r \in Requests, pc[r] \in VisitSteps,
           NEW step \in VisitSteps \ {"update"}, Goto(r, step),
           UNCHANGED <<task, opened, drawn, issued>>
    PROVE  RequestsFresh'
<1>1. Handed(task[r].session, task[r].token)'
  BY DEF RequestsFresh, VisitsHanded, Handed
<1>. QED  BY <1>1, VisitMoveFresh

(* Deleting a row disturbs nothing that is known of the others.            *)
LEMMA DeleteKeepsChains ==
    ASSUME TypeOK, ChainInv, NEW v, row' = [row EXCEPT ![v] = NoRow],
           UNCHANGED <<opened, drawn, issued, successor>>
    PROVE  TokensKnown' /\ ChainNeverForks' /\ SpentTokensAreDead'
  BY DEF TypeOK, TableTyped, ChainInv, TokensKnown, ChainNeverForks,
         SpentTokensAreDead, HasRow, Handed

LEMMA TableKeepsChains ==
    ASSUME ChainInv, UNCHANGED <<row, opened, drawn, issued, successor>>
    PROVE  TokensKnown' /\ ChainNeverForks' /\ SpentTokensAreDead'
  BY DEF ChainInv, TokensKnown, ChainNeverForks, SpentTokensAreDead, HasRow, Handed

LEMMA ChainStep ==
    ASSUME TypeOK, ChainInv, [Next]_vars
    PROVE  ChainInv'
<1>0. RequestsFresh /\ TokensKnown /\ ChainNeverForks /\ SpentTokensAreDead
  BY DEF ChainInv
<1>1. CASE Restart
  <2>1. RequestsFresh'
    BY <1>1 DEF Restart, RequestsFresh, PendingFresh, LoginsFresh, VisitsHanded,
                Pending, LoginSteps, VisitSteps
  <2>. QED  BY <1>1, <2>1, TableKeepsChains DEF Restart, ChainInv
<1>2. CASE Tick
  <2>1. RequestsFresh'
    BY <1>0, <1>2 DEF Tick, RequestsFresh, PendingFresh, LoginsFresh, VisitsHanded,
                Pending, PendingToken, Handed
  <2>. QED  BY <1>2, <2>1, TableKeepsChains DEF Tick, ChainInv
<1>3. ASSUME NEW r \in Requests, Serve(r)
      PROVE  ChainInv'
  <2>1. ASSUME NEW u \in Users, NEW s \in Sessions, NEW t \in Tokens, Login(r, u, s, t)
        PROVE  ChainInv'
    <3>. DEFINE k == [op |-> "login", user |-> u, session |-> s, token |-> t,
                      expiresAt |-> now + RefreshTokenTTL, victim |-> s]
    <3>1. /\ pc[r] = "idle" /\ s \notin opened /\ t \notin drawn
          /\ opened' = opened \cup {s} /\ drawn' = drawn \cup {t}
          /\ pc' = [pc EXCEPT ![r] = "countByUser"]
          /\ task' = [task EXCEPT ![r] = k]
          /\ row' = row /\ issued' = issued /\ successor' = successor
      BY <2>1 DEF Login, FreshSession, Goto
    <3>. HIDE DEF k
    <3>2. k.session = s /\ k.token = t
      BY DEF k
    <3>3. \A c \in issued : c.token # t /\ c.session # s
      BY <1>0, <3>1 DEF TokensKnown
    <3>4. PendingFresh'
      BY <1>0, <3>1, <3>2, <3>3 DEF TypeOK, RequestsTyped, RequestsFresh, PendingFresh,
         Pending, PendingToken, LoginSteps
    <3>5. LoginsFresh'
      BY <1>0, <3>1, <3>2, <3>3 DEF TypeOK, RequestsTyped, RequestsFresh, LoginsFresh, LoginSteps
    <3>6. VisitsHanded'
      BY <1>0, <3>1 DEF TypeOK, RequestsTyped, RequestsFresh, VisitsHanded, Handed, VisitSteps
    <3>7. TokensKnown'
      BY <1>0, <3>1 DEF TokensKnown, HasRow, Handed
    <3>8. ChainNeverForks' /\ SpentTokensAreDead'
      BY <1>0, <3>1 DEF ChainNeverForks, SpentTokensAreDead, HasRow
    <3>. QED  BY <3>4, <3>5, <3>6, <3>7, <3>8 DEF ChainInv, RequestsFresh
  <2>2. ASSUME NEW op \in {"refresh", "logout", "sessions"}, NEW c \in issued,
               Visit(r, op, c)
        PROVE  ChainInv'
    <3>1. Handed(task[r].session, task[r].token)'
      BY <2>2 DEF Visit, Handed, TypeOK, RequestsTyped, HistoryTyped
    <3>2. RequestsFresh'
      BY <1>0, <2>2, <3>1, VisitMoveFresh DEF Visit, VisitSteps, TypeOK, RequestsTyped
    <3>. QED  BY <2>2, <3>2, TableKeepsChains DEF Visit, ChainInv
  <2>3. CASE CountByUser(r)
    <3>1. RequestsFresh'
      BY <1>0, <2>3, LoginMoveFresh DEF CountByUser, LoginSteps
    <3>. QED  BY <2>3, <3>1, TableKeepsChains DEF CountByUser, ChainInv
  <2>4. CASE FindOldest(r)
    <3>1. ASSUME NEW step \in LoginSteps, Goto(r, step),
                 \/ UNCHANGED task
                 \/ \E s \in Sessions : task' = [task EXCEPT ![r] =
                      [op |-> task[r].op, user |-> task[r].user,
                       session |-> task[r].session, token |-> task[r].token,
                       expiresAt |-> task[r].expiresAt, victim |-> s]]
          PROVE  RequestsFresh'
      BY <1>0, <2>4, <3>1, LoginMoveFresh DEF FindOldest, LoginSteps, TypeOK, RequestsTyped
    <3>2. RequestsFresh'
      BY <2>4, <3>1 DEF FindOldest, Oldest, RowsOf, LoginSteps
    <3>. QED  BY <2>4, <3>2, TableKeepsChains DEF FindOldest, ChainInv
  <2>5. CASE DeleteOldest(r)
    <3>1. RequestsFresh'
      BY <1>0, <2>5, LoginMoveFresh DEF DeleteOldest, LoginSteps
    <3>. QED  BY <2>5, <3>1, DeleteKeepsChains DEF DeleteOldest, ChainInv
  <2>6. CASE CreateRow(r)
    <3>. DEFINE s == task[r].session
                t == task[r].token
    <3>1. /\ pc[r] = "create"
          /\ issued' = issued \cup {[session |-> s, token |-> t]}
          /\ row' = [row EXCEPT ![s] = [user |-> task[r].user, token |-> t,
                       expiresAt |-> task[r].expiresAt, createdAt |-> now,
                       lastAccessedAt |-> now]]
          /\ Finish(r) /\ UNCHANGED <<opened, drawn, successor>>
      BY <2>6 DEF CreateRow
    <3>2. /\ t \in drawn /\ s \in opened
          /\ \A c \in issued : c.token # t /\ c.session # s
          /\ \A q \in Pending \ {r} : PendingToken(q) # t
          /\ \A q \in Requests \ {r} : pc[q] \in LoginSteps => task[q].session # s
      BY <1>0, <3>1 DEF RequestsFresh, PendingFresh, LoginsFresh, Pending, PendingToken, LoginSteps
    <3>3. s \in Sessions
      BY <3>1 DEF TypeOK, RequestsTyped, LoginSteps, LoginTask
    <3>. HIDE DEF s, t
    <3>4. PendingFresh'
      BY <1>0, <3>1, <3>2 DEF TypeOK, RequestsTyped, RequestsFresh, PendingFresh,
         Pending, PendingToken, LoginSteps, Finish
    <3>5. LoginsFresh'
      BY <1>0, <3>1, <3>2 DEF TypeOK, RequestsTyped, RequestsFresh, LoginsFresh, LoginSteps, Finish
    <3>6. VisitsHanded'
      BY <1>0, <3>1 DEF TypeOK, RequestsTyped, RequestsFresh, VisitsHanded, Handed, VisitSteps, Finish
    <3>7. TokensKnown'
      <4>1. \A x \in Sessions : HasRow(x)' => Handed(x, row[x].token)'
        BY <1>0, <3>1, <3>3 DEF TokensKnown, HasRow, Handed, TypeOK, TableTyped
      <4>2. \A c \in issued' : c.token \in drawn' /\ c.session \in opened'
        BY <1>0, <3>1, <3>2 DEF TokensKnown
      <4>3. \A c, d \in issued' : c.token = d.token => c = d
        BY <1>0, <3>1, <3>2 DEF TokensKnown
      <4>4. \A p \in successor' : \E x \in Sessions : Handed(x, p[1])' /\ Handed(x, p[2])'
        BY <1>0, <3>1 DEF TokensKnown, Handed
      <4>. QED  BY <4>1, <4>2, <4>3, <4>4 DEF TokensKnown
    <3>8. \A p \in successor : p[1] # t
      BY <1>0, <3>2 DEF TokensKnown, Handed
    <3>9. ChainNeverForks' /\ SpentTokensAreDead'
      BY <1>0, <3>1, <3>3, <3>8 DEF ChainNeverForks, SpentTokensAreDead, HasRow, TypeOK, TableTyped
    <3>. QED  BY <3>4, <3>5, <3>6, <3>7, <3>9 DEF ChainInv, RequestsFresh
  <2>7. CASE FindByToken(r)
    <3>1. RequestsFresh'
      BY <1>0, <2>7, FinishFresh, VisitStayFresh DEF FindByToken, VisitSteps
    <3>. QED  BY <2>7, <3>1, TableKeepsChains DEF FindByToken, ChainInv
  <2>8. CASE DeleteExpired(r)
    BY <1>0, <2>8, FinishFresh, DeleteKeepsChains DEF DeleteExpired, ChainInv
  <2>9. CASE IsChainExpired(r)
    <3>1. RequestsFresh'
      BY <1>0, <2>9, FinishFresh, VisitStayFresh DEF IsChainExpired, VisitSteps
    <3>. QED  BY <2>9, <3>1, TableKeepsChains DEF IsChainExpired, ChainInv
  <2>10. CASE DeleteChain(r)
    BY <1>0, <2>10, FinishFresh, DeleteKeepsChains DEF DeleteChain, ChainInv
  <2>11. CASE UpdateFind(r)
    <3>1. Handed(task[r].session, task[r].token)
      BY <1>0, <2>11 DEF UpdateFind, RequestsFresh, VisitsHanded, VisitSteps
    <3>2. ASSUME NEW n \in Tokens \ drawn, drawn' = drawn \cup {n}, Goto(r, "update"),
                 task' = [task EXCEPT ![r] =
                   [op |-> task[r].op, session |-> task[r].session,
                    token |-> task[r].token, next |-> n,
                    expiresAt |-> now + RefreshTokenTTL]],
                 UNCHANGED <<row, opened, issued, successor>>
          PROVE  ChainInv'
      <4>0. /\ task'[r].session = task[r].session /\ task'[r].token = task[r].token
            /\ task'[r].next = n
            /\ \A q \in Requests \ {r} : task'[q] = task[q] /\ pc'[q] = pc[q]
            /\ pc'[r] = "update" /\ pc[r] = "updateFind"
        BY <2>11, <3>2 DEF TypeOK, RequestsTyped, UpdateFind, Goto
      <4>1. \A c \in issued : c.token # n
        BY <1>0, <3>2 DEF TokensKnown
      <4>2. PendingFresh'
        BY <1>0, <3>2, <4>0, <4>1 DEF RequestsFresh, PendingFresh,
           Pending, PendingToken, LoginSteps
      <4>3. LoginsFresh'
        BY <1>0, <3>2, <4>0 DEF RequestsFresh, LoginsFresh, LoginSteps
      <4>4. VisitsHanded'
        BY <1>0, <3>1, <3>2, <4>0 DEF RequestsFresh, VisitsHanded, Handed
      <4>5. TokensKnown'
        BY <1>0, <3>2 DEF TokensKnown, HasRow, Handed
      <4>6. ChainNeverForks' /\ SpentTokensAreDead'
        BY <1>0, <3>2 DEF ChainNeverForks, SpentTokensAreDead, HasRow
      <4>. QED  BY <4>2, <4>3, <4>4, <4>5, <4>6 DEF ChainInv, RequestsFresh
    <3>3. ASSUME Goto(r, "audit"),
                 UNCHANGED <<row, task, opened, drawn, issued, successor>>
          PROVE  ChainInv'
      <4>1. RequestsFresh'
        BY <1>0, <2>11, <3>3, VisitStayFresh DEF UpdateFind, VisitSteps
      <4>. QED  BY <3>3, <4>1, TableKeepsChains DEF ChainInv
    <3>. QED  BY <2>11, <3>2, <3>3 DEF UpdateFind
  <2>12. CASE Update(r)
    <3>1. task[r] \in VisitTask /\ Handed(task[r].session, task[r].token)
      BY <1>0, <2>12 DEF Update, TypeOK, RequestsTyped, RequestsFresh, VisitsHanded, VisitSteps
    <3>2. CASE UpdateMatches(task[r].session, task[r].token)
      <4>. DEFINE s == task[r].session
                  t == task[r].token
                  n == task[r].next
      <4>1. /\ pc[r] = "update" /\ HasRow(s) /\ row[s].token = t
            /\ row' = [row EXCEPT ![s] = Rotated(task[r])]
            /\ issued' = issued \cup {[session |-> s, token |-> n]}
            /\ successor' = successor \cup {<<t, n>>}
            /\ Finish(r) /\ UNCHANGED <<opened, drawn>>
        BY <2>12, <3>2 DEF Update, UpdateMatches
      <4>2. /\ n \in drawn
            /\ \A c \in issued : c.token # n
            /\ \A q \in Pending \ {r} : PendingToken(q) # n
        BY <1>0, <4>1 DEF RequestsFresh, PendingFresh, Pending, PendingToken
      <4>3. s \in Sessions /\ s \in opened
        BY <1>0, <3>1 DEF VisitTask, TokensKnown, Handed
      <4>4. Rotated(task[r]).token = n /\ Rotated(task[r]) # NoRow
        BY <4>1, <4>3, <3>1 DEF Rotated, VisitTask, TypeOK, TableTyped, Row, HasRow
      <4>5. Handed(s, t)
        BY <3>1
      <4>. HIDE DEF s, t, n
      <4>6. PendingFresh'
        BY <1>0, <4>1, <4>2 DEF TypeOK, RequestsTyped, RequestsFresh, PendingFresh,
           Pending, PendingToken, LoginSteps, Finish
      <4>7. LoginsFresh'
        <5>1. \A q \in Requests : pc[q] \in LoginSteps => task[q].session # s
          BY <1>0, <4>5 DEF RequestsFresh, LoginsFresh, Handed
        <5>. QED  BY <1>0, <4>1, <5>1 DEF TypeOK, RequestsTyped, RequestsFresh, LoginsFresh,
                     LoginSteps, Finish
      <4>8. VisitsHanded'
        BY <1>0, <4>1 DEF TypeOK, RequestsTyped, RequestsFresh, VisitsHanded, Handed,
           VisitSteps, Finish
      <4>9. TokensKnown'
        <5>1. \A x \in Sessions : HasRow(x)' => Handed(x, row[x].token)'
          BY <1>0, <4>1, <4>3, <4>4 DEF TokensKnown, HasRow, Handed, TypeOK, TableTyped
        <5>2. \A c \in issued' : c.token \in drawn' /\ c.session \in opened'
          BY <1>0, <4>1, <4>2, <4>3 DEF TokensKnown
        <5>3. \A c, d \in issued' : c.token = d.token => c = d
          BY <1>0, <4>1, <4>2 DEF TokensKnown
        <5>4. \A p \in successor' : \E x \in Sessions : Handed(x, p[1])' /\ Handed(x, p[2])'
          BY <1>0, <4>1, <4>3, <4>5 DEF TokensKnown, Handed
        <5>. QED  BY <5>1, <5>2, <5>3, <5>4 DEF TokensKnown
      <4>10. \A p \in successor : p[1] # t /\ p[1] # n
        BY <1>0, <4>1, <4>2, <4>3 DEF SpentTokensAreDead, TokensKnown, Handed
      <4>11. t # n
        BY <4>2, <4>5 DEF Handed
      <4>12. \A x \in Sessions \ {s} : HasRow(x) => row[x].token # t
        BY <1>0, <4>5 DEF TokensKnown, Handed
      <4>13. ChainNeverForks'
        BY <1>0, <4>1, <4>10 DEF ChainNeverForks
      <4>14. SpentTokensAreDead'
        BY <1>0, <4>1, <4>3, <4>4, <4>10, <4>11, <4>12
           DEF SpentTokensAreDead, HasRow, TypeOK, TableTyped
      <4>. QED  BY <4>6, <4>7, <4>8, <4>9, <4>13, <4>14 DEF ChainInv, RequestsFresh
    <3>3. CASE ~UpdateMatches(task[r].session, task[r].token)
      <4>1. /\ Goto(r, "audit")
            /\ UNCHANGED <<row, task, opened, drawn, issued, successor>>
        BY <2>12, <3>3 DEF Update
      <4>2. RequestsFresh'
        BY <1>0, <2>12, <4>1, VisitStayFresh DEF Update, VisitSteps
      <4>. QED  BY <4>1, <4>2, TableKeepsChains DEF ChainInv
    <3>. QED  BY <3>2, <3>3
  <2>13. CASE Audit(r)
    BY <1>0, <2>13, FinishFresh, TableKeepsChains DEF Audit, ChainInv
  <2>14. CASE Revoke(r)
    BY <1>0, <2>14, FinishFresh, DeleteKeepsChains DEF Revoke, ChainInv
  <2>. QED  BY <1>3, <2>1, <2>2, <2>3, <2>4, <2>5, <2>6, <2>7, <2>8, <2>9, <2>10,
               <2>11, <2>12, <2>13, <2>14 DEF Serve
<1>4. CASE UNCHANGED vars
  <2>1. RequestsFresh'
    BY <1>0, <1>4 DEF vars, RequestsFresh, PendingFresh, LoginsFresh, VisitsHanded,
                Pending, PendingToken, Handed
  <2>. QED  BY <1>4, <2>1, TableKeepsChains DEF vars, ChainInv
<1>. QED  BY <1>1, <1>2, <1>3, <1>4 DEF Next

LEMMA ChainInit == Init => ChainInv
  BY DEF Init, ChainInv, TokensKnown, RequestsFresh, PendingFresh, LoginsFresh,
         VisitsHanded, Pending, LoginSteps, VisitSteps, HasRow, ChainNeverForks,
         SpentTokensAreDead

LEMMA ChainInvariant == Spec => []ChainInv
  BY ChainInit, ChainStep, TypeCorrect, PTL DEF Spec

(* However many refreshes present one token at once, one of them at most   *)
(* is answered: refreshTokens and updateToken never fork a session.        *)
THEOREM NoFork == Spec => []ChainNeverForks
<1>1. ChainInv => ChainNeverForks
  BY DEF ChainInv
<1>. QED  BY <1>1, ChainInvariant, PTL

(* A token that was exchanged for another is in no row ever after, so      *)
(* findByToken never accepts it again.                                     *)
THEOREM SpentNeverAccepted == Spec => []SpentTokensAreDead
<1>1. ChainInv => SpentTokensAreDead
  BY DEF ChainInv
<1>. QED  BY <1>1, ChainInvariant, PTL
--------------------------------------------------------------------------------
(* The refinement.  Every step of the server is one step of the chain of   *)
(* one session, or none.                                                   *)
LEMMA StutterMaps ==
    ASSUME UNCHANGED <<row, issued>>
    PROVE  UNCHANGED Chains!chainVars
  BY DEF Chains!chainVars, Heads, HasRow, Handed, Seen

(* A step that touches the row and the tokens of v alone moves v alone.    *)
LEMMA OneHeadMoves ==
    ASSUME TypeOK, NEW v \in Sessions, NEW h,
           \A s \in Sessions \ {v} :
              row'[s] = row[s] /\ \A t \in Tokens : Handed(s, t)' <=> Handed(s, t),
           Heads'[v] = h
    PROVE  Heads' = [Heads EXCEPT ![v] = h]
<1>1. ASSUME NEW s \in Sessions \ {v}
      PROVE  Heads'[s] = Heads[s]
  <2>1. row'[s] = row[s] /\ (HasRow(s)' <=> HasRow(s))
    BY DEF HasRow
  <2>2. (\E t \in Tokens : Handed(s, t)') <=> (\E t \in Tokens : Handed(s, t))
    OBVIOUS
  <2>. QED  BY <2>1, <2>2 DEF Heads
<1>. QED  BY <1>1, ZenonT(40) DEF Heads

LEMMA SeenGrows ==
    ASSUME NEW s, NEW t, issued' = issued \cup {[session |-> s, token |-> t]}
    PROVE  Seen' = Seen \cup {t}
<1>1. \A x : x \in Seen' <=> \E c \in issued' : x = c.token
  BY DEF Seen
<1>2. \A x : x \in Seen <=> \E c \in issued : x = c.token
  BY DEF Seen
<1>3. [session |-> s, token |-> t].token = t
  OBVIOUS
<1>. QED  BY <1>1, <1>2, <1>3

LEMMA DeleteMaps ==
    ASSUME TypeOK, ChainInv, NEW v \in Sessions, row' = [row EXCEPT ![v] = NoRow],
           issued' = issued
    PROVE  [Chains!ChainNext]_Chains!chainVars
<1>1. CASE HasRow(v)
  <2>1. Handed(v, row[v].token) /\ row[v].token \in Tokens
    BY <1>1 DEF ChainInv, TokensKnown, TypeOK, TableTyped, HasRow, Row
  <2>2. Heads[v] \in Tokens
    BY <1>1, <2>1 DEF Heads
  <2>3. ~HasRow(v)' /\ \E t \in Tokens : Handed(v, t)'
    BY <2>1 DEF HasRow, Handed, TypeOK, TableTyped
  <2>4. Heads'[v] = Closed
    BY <2>3 DEF Heads
  <2>5. Heads' = [Heads EXCEPT ![v] = Closed]
    BY <2>4, OneHeadMoves DEF Handed, TypeOK, TableTyped
  <2>6. Chains!Close(v)
    BY <2>2, <2>5 DEF Chains!Close, Seen
  <2>. QED  BY <2>6 DEF Chains!ChainNext
<1>2. CASE ~HasRow(v)
  <2>1. row' = row
    BY <1>2 DEF HasRow, TypeOK, TableTyped
  <2>. QED  BY <2>1, StutterMaps
<1>. QED  BY <1>1, <1>2

LEMMA CreateMaps ==
    ASSUME TypeOK, ChainInv, NEW r \in Requests, CreateRow(r)
    PROVE  [Chains!ChainNext]_Chains!chainVars
<1>1. pc[r] = "create" /\ task[r] \in LoginTask
  BY DEF CreateRow, TypeOK, RequestsTyped, LoginSteps
<1>2. PICK s \in Sessions, t \in Tokens : s = task[r].session /\ t = task[r].token
  BY <1>1 DEF LoginTask
<1>3. PICK new \in Row : /\ new.token = t
                         /\ row' = [row EXCEPT ![s] = new]
                         /\ issued' = issued \cup {[session |-> s, token |-> t]}
  <2>. DEFINE new == [user |-> task[r].user, token |-> t,
                      expiresAt |-> task[r].expiresAt, createdAt |-> now,
                      lastAccessedAt |-> now]
  <2>1. new \in Row /\ new.token = t
    BY <1>1, <1>2 DEF LoginTask, Row, TypeOK, TableTyped
  <2>. QED  BY <1>2, <2>1 DEF CreateRow
<1>4. \A c \in issued : c.session # s /\ c.token # t
  BY <1>1, <1>2 DEF ChainInv, RequestsFresh, PendingFresh, LoginsFresh, Pending,
                    PendingToken, LoginSteps
<1>5. ~HasRow(s) /\ \A x \in Tokens : ~Handed(s, x)
  BY <1>4 DEF Handed, ChainInv, TokensKnown
<1>6. Heads[s] = Unopened
  BY <1>5 DEF Heads
<1>7. HasRow(s)' /\ row'[s].token = t
  BY <1>3 DEF HasRow, TypeOK, TableTyped
<1>8. Heads'[s] = t
  BY <1>7 DEF Heads
<1>9. Heads' = [Heads EXCEPT ![s] = t]
  BY <1>3, <1>8, OneHeadMoves DEF Handed, TypeOK, TableTyped
<1>10. t \notin Seen /\ Seen' = Seen \cup {t}
  BY <1>3, <1>4, SeenGrows DEF Seen
<1>11. Chains!Open(s, t)
  BY <1>6, <1>9, <1>10 DEF Chains!Open
<1>. QED  BY <1>11 DEF Chains!ChainNext

LEMMA UpdateMaps ==
    ASSUME TypeOK, ChainInv, NEW r \in Requests, Update(r)
    PROVE  [Chains!ChainNext]_Chains!chainVars
<1>1. CASE UNCHANGED <<row, issued>>
  BY <1>1, StutterMaps
<1>2. CASE UpdateMatches(task[r].session, task[r].token)
  <2>1. pc[r] = "update" /\ task[r] \in VisitTask
    BY DEF Update, TypeOK, RequestsTyped, VisitSteps
  <2>2. PICK s \in Sessions, n \in Tokens : s = task[r].session /\ n = task[r].next
    BY <2>1 DEF VisitTask
  <2>3. HasRow(s) /\ row[s] \in Row
    BY <1>2, <2>2 DEF UpdateMatches, TypeOK, TableTyped, HasRow
  <2>4. PICK new \in Row : /\ new.token = n
                           /\ row' = [row EXCEPT ![s] = new]
                           /\ issued' = issued \cup {[session |-> s, token |-> n]}
    <3>1. Rotated(task[r]) \in Row /\ Rotated(task[r]).token = n
      BY <2>1, <2>2, <2>3 DEF Rotated, VisitTask, Row, TypeOK, TableTyped
    <3>. QED  BY <1>2, <2>2, <3>1 DEF Update
  <2>5. \A c \in issued : c.token # n
    BY <2>1, <2>2 DEF ChainInv, RequestsFresh, PendingFresh, Pending, PendingToken
  <2>6. Heads[s] \in Tokens
    BY <2>3 DEF Heads, Row
  <2>7. HasRow(s)' /\ row'[s].token = n
    BY <2>4 DEF HasRow, TypeOK, TableTyped
  <2>8. Heads'[s] = n
    BY <2>7 DEF Heads
  <2>9. Heads' = [Heads EXCEPT ![s] = n]
    BY <2>4, <2>8, OneHeadMoves DEF Handed, TypeOK, TableTyped
  <2>10. n \notin Seen /\ Seen' = Seen \cup {n}
    BY <2>4, <2>5, SeenGrows DEF Seen
  <2>11. Chains!Rotate(s, n)
    BY <2>6, <2>9, <2>10 DEF Chains!Rotate
  <2>. QED  BY <2>11 DEF Chains!ChainNext
<1>. QED  BY <1>1, <1>2 DEF Update

LEMMA NextMaps ==
    ASSUME TypeOK, ChainInv, [Next]_vars
    PROVE  [Chains!ChainNext]_Chains!chainVars
<1>1. CASE Restart \/ Tick \/ UNCHANGED vars
  BY <1>1, StutterMaps DEF Restart, Tick, vars
<1>2. ASSUME NEW r \in Requests, Serve(r)
      PROVE  [Chains!ChainNext]_Chains!chainVars
  <2>1. CASE UNCHANGED <<row, issued>>
    BY <2>1, StutterMaps
  <2>2. CASE DeleteOldest(r)
    <3>1. task[r].victim \in Sessions
      BY <2>2 DEF DeleteOldest, TypeOK, RequestsTyped, LoginSteps, LoginTask
    <3>. QED  BY <2>2, <3>1, DeleteMaps DEF DeleteOldest
  <2>3. CASE DeleteExpired(r) \/ DeleteChain(r) \/ Revoke(r)
    <3>1. task[r].session \in Sessions
      BY <2>3 DEF DeleteExpired, DeleteChain, Revoke, TypeOK, RequestsTyped,
                  VisitSteps, VisitTask
    <3>. QED  BY <2>3, <3>1, DeleteMaps DEF DeleteExpired, DeleteChain, Revoke
  <2>4. CASE CreateRow(r)
    BY <2>4, CreateMaps
  <2>5. CASE Update(r)
    BY <2>5, UpdateMaps
  <2>6. CASE \/ \E u \in Users, s \in Sessions, t \in Tokens : Login(r, u, s, t)
             \/ \E op \in {"refresh", "logout", "sessions"}, c \in issued : Visit(r, op, c)
             \/ CountByUser(r) \/ FindOldest(r) \/ FindByToken(r)
             \/ IsChainExpired(r) \/ UpdateFind(r) \/ Audit(r)
    BY <2>1, <2>6 DEF Login, Visit, CountByUser, FindOldest, FindByToken,
                      IsChainExpired, UpdateFind, Audit
  <2>. QED  BY <1>2, <2>2, <2>3, <2>4, <2>5, <2>6 DEF Serve
<1>. QED  BY <1>1, <1>2 DEF Next

(* The table of refresh tokens implements SessionChains: every session is  *)
(* opened once, has one live token at a time, each one new, and once it is *)
(* revoked, evicted or expired it is never opened again.                   *)
THEOREM ChainsImplemented == Spec => ImplementsSessionChains
<1>1. Init => Chains!ChainInit
  BY DEF Init, Chains!ChainInit, Heads, HasRow, Handed, Seen
<1>. QED  BY <1>1, NextMaps, TypeCorrect, ChainInvariant, PTL
          DEF Spec, ImplementsSessionChains, Chains!ChainSpec
--------------------------------------------------------------------------------
(* The device slots of a user whose logins come one after the other.  With *)
(* DeviceSlotsRespected, the module MCRefreshTokens shows that the         *)
(* condition cannot be dropped.                                            *)
LEMMA RowsFinite ==
    ASSUME NEW u
    PROVE  IsFiniteSet(RowsOf(u)) /\ Cardinality(RowsOf(u)) \in Nat
<1>1. RowsOf(u) \in SUBSET Sessions
  BY DEF RowsOf
<1>. QED  BY <1>1, FiniteAssumption, FS_Subset, FS_CardinalityType

(* Fewer rows never take more slots.                                       *)
LEMMA FewerRows ==
    ASSUME NEW S, NEW T, IsFiniteSet(S), T \subseteq S
    PROVE  Cardinality(T) \in Nat /\ Cardinality(S) \in Nat
             /\ Cardinality(T) <= Cardinality(S)
  BY FS_Subset, FS_CardinalityType

(* A step that adds no row of u and advances no login of u.                *)
LEMMA OtherStep ==
    ASSUME SlotsInv, NEW u \in Users \ raced, RowsOf(u)' \subseteq RowsOf(u),
           \A q \in Requests : LoggingIn(q, u)' =>
              LoggingIn(q, u) /\ pc'[q] = pc[q] /\ task'[q].victim = task[q].victim
    PROVE  UserSlots(u)'
<1>1. /\ Cardinality(RowsOf(u)') \in Nat /\ Cardinality(RowsOf(u)) \in Nat
      /\ Cardinality(RowsOf(u)') <= Cardinality(RowsOf(u))
  BY RowsFinite, FewerRows
<1>2. ASSUME NEW v
      PROVE  /\ Cardinality(RowsOf(u)' \ {v}) \in Nat
             /\ Cardinality(RowsOf(u) \ {v}) \in Nat
             /\ Cardinality(RowsOf(u)' \ {v}) <= Cardinality(RowsOf(u) \ {v})
  <2>1. IsFiniteSet(RowsOf(u) \ {v}) /\ RowsOf(u)' \ {v} \subseteq RowsOf(u) \ {v}
    BY RowsFinite, FS_RemoveElement
  <2>. QED  BY <2>1, FewerRows
<1>3. Cardinality(RowsOf(u)) <= MaxDeviceSlotsPerUser
  BY DEF SlotsInv, UserSlots
<1>4. ASSUME NEW r \in Requests, LoggingIn(r, u)'
      PROVE  /\ \A q \in Requests : LoggingIn(q, u)' => q = r
             /\ pc'[r] = "create" => Cardinality(RowsOf(u)') < MaxDeviceSlotsPerUser
             /\ pc'[r] = "deleteOldest" =>
                   Cardinality(RowsOf(u)' \ {task'[r].victim}) < MaxDeviceSlotsPerUser
  <2>1. LoggingIn(r, u) /\ pc'[r] = pc[r] /\ task'[r].victim = task[r].victim
    BY <1>4
  <2>2. \A q \in Requests : LoggingIn(q, u) => q = r
    BY <2>1 DEF SlotsInv, UserSlots
  <2>3. pc[r] = "create" => Cardinality(RowsOf(u)) < MaxDeviceSlotsPerUser
    BY <2>1 DEF SlotsInv, UserSlots
  <2>4. pc[r] = "deleteOldest" => Cardinality(RowsOf(u) \ {task[r].victim}) < MaxDeviceSlotsPerUser
    BY <2>1 DEF SlotsInv, UserSlots
  <2>5. pc'[r] = "create" => Cardinality(RowsOf(u)') < MaxDeviceSlotsPerUser
    BY <1>1, <2>1, <2>3
  <2>6. pc'[r] = "deleteOldest" => Cardinality(RowsOf(u)' \ {task'[r].victim}) < MaxDeviceSlotsPerUser
    BY <1>2, <2>1, <2>4
  <2>. QED  BY <2>2, <2>5, <2>6
<1>5. Cardinality(RowsOf(u)') <= MaxDeviceSlotsPerUser
  BY <1>1, <1>3
<1>. QED  BY <1>4, <1>5 DEF UserSlots

(* A step of r, the login of u in flight, from one statement to the next.  *)
LEMMA LoginStep ==
    ASSUME SlotsInv, NEW u \in Users \ raced, NEW r \in Requests, LoggingIn(r, u),
           RowsOf(u)' \subseteq RowsOf(u),
           \A q \in Requests : LoggingIn(q, u)' => LoggingIn(q, u),
           pc'[r] = "create" => Cardinality(RowsOf(u)') < MaxDeviceSlotsPerUser,
           pc'[r] = "deleteOldest" =>
              Cardinality(RowsOf(u)' \ {task'[r].victim}) < MaxDeviceSlotsPerUser
    PROVE  UserSlots(u)'
<1>1. /\ Cardinality(RowsOf(u)') \in Nat /\ Cardinality(RowsOf(u)) \in Nat
      /\ Cardinality(RowsOf(u)') <= Cardinality(RowsOf(u))
  BY RowsFinite, FewerRows
<1>2. Cardinality(RowsOf(u)) <= MaxDeviceSlotsPerUser
  BY DEF SlotsInv, UserSlots
<1>3. \A q \in Requests : LoggingIn(q, u) => q = r
  BY DEF SlotsInv, UserSlots
<1>4. Cardinality(RowsOf(u)') <= MaxDeviceSlotsPerUser
  BY <1>1, <1>2
<1>. QED  BY <1>3, <1>4 DEF UserSlots

(* A delete, and an insert or update for another user, add no row of u.    *)
LEMMA RowsAfterDelete ==
    ASSUME TypeOK, NEW v \in Sessions, row' = [row EXCEPT ![v] = NoRow], NEW u
    PROVE  RowsOf(u)' = RowsOf(u) \ {v}
  BY DEF TypeOK, TableTyped, RowsOf, HasRow

LEMMA SlotsStep ==
    ASSUME TypeOK, SlotsInv, [Next]_vars
    PROVE  SlotsInv'
<1>. SUFFICES ASSUME NEW u \in Users, u \notin raced'
              PROVE  UserSlots(u)'
  BY DEF SlotsInv
<1>. DEFINE Same == RowsOf(u)' = RowsOf(u)
            Kept(q) == pc'[q] = pc[q] /\ task'[q] = task[q]
<1>0. row' = row => Same
  BY DEF RowsOf, HasRow
<1>1. CASE Restart
  <2>1. u \notin raced /\ \A q \in Requests : ~LoggingIn(q, u)'
    BY <1>1 DEF Restart, LoggingIn, LoginSteps
  <2>. QED  BY <1>0, <1>1, <2>1, OtherStep DEF Restart
<1>2. CASE Tick
  <2>1. u \notin raced /\ \A q \in Requests : LoggingIn(q, u)' => LoggingIn(q, u)
    BY <1>2 DEF Tick, LoggingIn
  <2>. QED  BY <1>0, <1>2, <2>1, OtherStep DEF Tick
<1>3. ASSUME NEW r \in Requests, Serve(r)
      PROVE  UserSlots(u)'
  <2>1. ASSUME NEW w \in Users, NEW s \in Sessions, NEW t \in Tokens, Login(r, w, s, t)
        PROVE  UserSlots(u)'
    <3>1. /\ u \notin raced /\ RowsOf(u)' = RowsOf(u)
          /\ pc'[r] = "countByUser" /\ \A q \in Requests \ {r} : Kept(q)
          /\ task'[r].user = w
          /\ w = u => \A q \in Requests : ~LoggingIn(q, u)
      BY <1>0, <2>1 DEF Login, Goto, TypeOK, RequestsTyped
    <3>2. CASE w # u
      <4>1. \A q \in Requests : LoggingIn(q, u)' =>
               LoggingIn(q, u) /\ pc'[q] = pc[q] /\ task'[q].victim = task[q].victim
        BY <3>1, <3>2 DEF LoggingIn
      <4>. QED  BY <3>1, <4>1, OtherStep
    <3>3. CASE w = u
      <4>1. \A q \in Requests : LoggingIn(q, u)' => q = r
        BY <3>1, <3>3 DEF LoggingIn
      <4>2. Cardinality(RowsOf(u)') <= MaxDeviceSlotsPerUser
        BY <3>1 DEF SlotsInv, UserSlots
      <4>. QED  BY <3>1, <4>1, <4>2 DEF UserSlots
    <3>. QED  BY <3>2, <3>3
  <2>2. ASSUME row' = row \/ (\E v \in Sessions : row' = [row EXCEPT ![v] = NoRow]),
               raced' = raced, pc'[r] \notin LoginSteps,
               \A q \in Requests \ {r} : Kept(q)
        PROVE  UserSlots(u)'
    <3>1. RowsOf(u)' \subseteq RowsOf(u)
      BY <1>0, <2>2, RowsAfterDelete
    <3>2. \A q \in Requests : LoggingIn(q, u)' =>
             LoggingIn(q, u) /\ pc'[q] = pc[q] /\ task'[q].victim = task[q].victim
      BY <2>2 DEF LoggingIn
    <3>. QED  BY <2>2, <3>1, <3>2, OtherStep
  <2>3. ASSUME NEW op \in {"refresh", "logout", "sessions"}, NEW c \in issued,
               Visit(r, op, c)
        PROVE  UserSlots(u)'
    BY <2>2, <2>3 DEF Visit, Goto, LoginSteps, TypeOK, RequestsTyped
  <2>4. ASSUME u \notin raced, pc[r] \in LoginSteps, pc'[r] \in LoginSteps,
               RowsOf(u)' \subseteq RowsOf(u),
               task'[r].user = task[r].user,
               \A q \in Requests \ {r} : Kept(q),
               task[r].user = u => /\ pc'[r] = "create" => Cardinality(RowsOf(u)') < MaxDeviceSlotsPerUser
                                   /\ pc'[r] = "deleteOldest" =>
                                        Cardinality(RowsOf(u)' \ {task'[r].victim}) < MaxDeviceSlotsPerUser
        PROVE  UserSlots(u)'
    <3>1. CASE task[r].user = u
      <4>1. LoggingIn(r, u) /\ \A q \in Requests : LoggingIn(q, u)' => LoggingIn(q, u)
        BY <2>4, <3>1 DEF LoggingIn
      <4>. QED  BY <2>4, <3>1, <4>1, LoginStep
    <3>2. CASE task[r].user # u
      <4>1. \A q \in Requests : LoggingIn(q, u)' =>
               LoggingIn(q, u) /\ pc'[q] = pc[q] /\ task'[q].victim = task[q].victim
        BY <2>4, <3>2 DEF LoggingIn
      <4>. QED  BY <2>4, <4>1, OtherStep
    <3>. QED  BY <3>1, <3>2
  <2>5. CASE CountByUser(r)
    <3>1. /\ u \notin raced /\ Same /\ pc[r] \in LoginSteps /\ pc'[r] \in LoginSteps
          /\ task' = task /\ \A q \in Requests \ {r} : Kept(q)
          /\ pc'[r] # "deleteOldest"
          /\ pc'[r] = "create" => ~NeedsSlot(task[r].user)
      BY <1>0, <2>5 DEF CountByUser, Goto, LoginSteps, TypeOK, RequestsTyped
    <3>2. task[r].user = u /\ pc'[r] = "create" => Cardinality(RowsOf(u)') < MaxDeviceSlotsPerUser
      BY <3>1, RowsFinite DEF NeedsSlot
    <3>. QED  BY <2>4, <3>1, <3>2
  <2>6. CASE FindOldest(r)
    <3>1. /\ u \notin raced /\ Same /\ pc[r] \in LoginSteps
          /\ \A q \in Requests \ {r} : Kept(q)
      BY <1>0, <2>6 DEF FindOldest, Goto, LoginSteps, TypeOK, RequestsTyped
    <3>2. CASE RowsOf(task[r].user) = {} /\ Goto(r, "create") /\ UNCHANGED task
      <4>1. task[r].user = u => Cardinality(RowsOf(u)') < MaxDeviceSlotsPerUser
        BY <3>1, <3>2, FS_EmptySet
      <4>2. pc'[r] = "create" /\ task' = task
        BY <3>2 DEF Goto, TypeOK, RequestsTyped
      <4>. QED  BY <2>4, <3>1, <4>1, <4>2 DEF LoginSteps
    <3>3. ASSUME NEW s \in Oldest(RowsOf(task[r].user)), Goto(r, "deleteOldest"),
                 task' = [task EXCEPT ![r] =
                      [op |-> task[r].op, user |-> task[r].user,
                       session |-> task[r].session, token |-> task[r].token,
                       expiresAt |-> task[r].expiresAt, victim |-> s]]
          PROVE  UserSlots(u)'
      <4>1. /\ pc'[r] = "deleteOldest" /\ task'[r].victim = s
            /\ task'[r].user = task[r].user
        BY <3>3 DEF Goto, TypeOK, RequestsTyped
      <4>2. task[r].user = u => Cardinality(RowsOf(u)' \ {s}) < MaxDeviceSlotsPerUser
        <5>1. task[r].user = u => s \in RowsOf(u)
          BY DEF Oldest
        <5>2. Cardinality(RowsOf(u)) <= MaxDeviceSlotsPerUser
          BY <3>1 DEF SlotsInv, UserSlots
        <5>3. task[r].user = u => Cardinality(RowsOf(u) \ {s}) = Cardinality(RowsOf(u)) - 1
          BY <5>1, RowsFinite, FS_RemoveElement
        <5>. QED  BY <3>1, <5>2, <5>3, RowsFinite
      <4>. QED  BY <2>4, <3>1, <4>1, <4>2 DEF LoginSteps
    <3>. QED  BY <2>6, <3>2, <3>3 DEF FindOldest
  <2>7. CASE DeleteOldest(r)
    <3>1. /\ u \notin raced /\ pc[r] = "deleteOldest" /\ pc'[r] = "create"
          /\ task' = task /\ \A q \in Requests \ {r} : Kept(q)
          /\ row' = [row EXCEPT ![task[r].victim] = NoRow]
      BY <2>7 DEF DeleteOldest, Goto, TypeOK, RequestsTyped
    <3>2. task[r].victim \in Sessions
      BY <3>1 DEF TypeOK, RequestsTyped, LoginSteps, LoginTask
    <3>3. RowsOf(u)' = RowsOf(u) \ {task[r].victim}
      BY <3>1, <3>2, RowsAfterDelete
    <3>4. task[r].user = u => Cardinality(RowsOf(u) \ {task[r].victim}) < MaxDeviceSlotsPerUser
      BY <3>1 DEF SlotsInv, UserSlots, LoggingIn, LoginSteps
    <3>. QED  BY <2>4, <3>1, <3>3, <3>4 DEF LoginSteps
  <2>8. CASE CreateRow(r)
    <3>1. /\ u \notin raced /\ pc[r] = "create" /\ pc'[r] = "idle"
          /\ \A q \in Requests \ {r} : Kept(q)
          /\ row' = [row EXCEPT ![task[r].session] =
                        [user |-> task[r].user, token |-> task[r].token,
                         expiresAt |-> task[r].expiresAt, createdAt |-> now,
                         lastAccessedAt |-> now]]
      BY <2>8 DEF CreateRow, Finish, TypeOK, RequestsTyped
    <3>2. CASE task[r].user # u
      <4>1. RowsOf(u)' \subseteq RowsOf(u)
        BY <3>1, <3>2 DEF RowsOf, HasRow, TypeOK, TableTyped
      <4>2. \A q \in Requests : LoggingIn(q, u)' =>
               LoggingIn(q, u) /\ pc'[q] = pc[q] /\ task'[q].victim = task[q].victim
        BY <3>1 DEF LoggingIn, LoginSteps
      <4>. QED  BY <3>1, <4>1, <4>2, OtherStep
    <3>3. CASE task[r].user = u
      <4>1. LoggingIn(r, u)
        BY <3>1, <3>3 DEF LoggingIn, LoginSteps
      <4>2. Cardinality(RowsOf(u)) < MaxDeviceSlotsPerUser /\ \A q \in Requests : LoggingIn(q, u) => q = r
        BY <3>1, <4>1 DEF SlotsInv, UserSlots
      <4>3. RowsOf(u)' \subseteq RowsOf(u) \cup {task[r].session}
        BY <3>1 DEF RowsOf, HasRow, TypeOK, TableTyped
      <4>4. /\ IsFiniteSet(RowsOf(u) \cup {task[r].session})
            /\ Cardinality(RowsOf(u) \cup {task[r].session}) <= Cardinality(RowsOf(u)) + 1
        <5>1. IsFiniteSet(RowsOf(u)) /\ Cardinality(RowsOf(u)) \in Nat
          BY RowsFinite
        <5>2. \/ Cardinality(RowsOf(u) \cup {task[r].session}) = Cardinality(RowsOf(u))
              \/ Cardinality(RowsOf(u) \cup {task[r].session}) = Cardinality(RowsOf(u)) + 1
          BY <5>1, FS_AddElement, Zenon
        <5>3. IsFiniteSet(RowsOf(u) \cup {task[r].session})
          BY <5>1, FS_AddElement, Zenon
        <5>. QED  BY <5>1, <5>2, <5>3
      <4>5. Cardinality(RowsOf(u)') <= MaxDeviceSlotsPerUser
        BY <4>2, <4>3, <4>4, RowsFinite, FewerRows
      <4>6. \A q \in Requests : ~LoggingIn(q, u)'
        BY <3>1, <4>2 DEF LoggingIn, LoginSteps
      <4>. QED  BY <4>5, <4>6 DEF UserSlots
    <3>. QED  BY <3>2, <3>3
  <2>9. CASE FindByToken(r)
    BY <2>2, <2>9 DEF FindByToken, Finish, Goto, LoginSteps, TypeOK, RequestsTyped
  <2>10. ASSUME pc[r] \in VisitSteps, Finish(r), raced' = raced,
                row' = [row EXCEPT ![task[r].session] = NoRow]
         PROVE  UserSlots(u)'
    <3>1. task[r].session \in Sessions
      BY <2>10 DEF TypeOK, RequestsTyped, VisitTask
    <3>. QED  BY <2>2, <2>10, <3>1 DEF Finish, LoginSteps, TypeOK, RequestsTyped
  <2>11. CASE DeleteExpired(r)
    BY <2>10, <2>11 DEF DeleteExpired, VisitSteps
  <2>12. CASE IsChainExpired(r)
    BY <2>2, <2>12 DEF IsChainExpired, Finish, Goto, LoginSteps, TypeOK, RequestsTyped
  <2>13. CASE DeleteChain(r)
    BY <2>10, <2>13 DEF DeleteChain, VisitSteps
  <2>14. CASE UpdateFind(r)
    BY <2>2, <2>14 DEF UpdateFind, Goto, LoginSteps, TypeOK, RequestsTyped
  <2>15. CASE Update(r)
    <3>1. /\ u \notin raced /\ pc'[r] \notin LoginSteps
          /\ \A q \in Requests \ {r} : Kept(q)
      BY <2>15 DEF Update, Finish, Goto, LoginSteps, TypeOK, RequestsTyped
    <3>2. RowsOf(u)' = RowsOf(u)
      <4>1. CASE row' = row
        BY <1>0, <4>1
      <4>2. CASE HasRow(task[r].session) /\ row' = [row EXCEPT ![task[r].session] = Rotated(task[r])]
        <5>1. task[r] \in VisitTask
          BY <2>15 DEF Update, VisitSteps, TypeOK, RequestsTyped
        <5>2. row[task[r].session] \in Row
          BY <4>2, <5>1 DEF HasRow, VisitTask, TypeOK, TableTyped
        <5>3. Rotated(task[r]) \in Row /\ Rotated(task[r]).user = row[task[r].session].user
          BY <5>1, <5>2 DEF Rotated, VisitTask, Row, TypeOK, TableTyped
        <5>. QED  BY <4>2, <5>3 DEF RowsOf, HasRow, TypeOK, TableTyped
      <4>. QED  BY <2>15, <4>1, <4>2 DEF Update, UpdateMatches
    <3>3. \A q \in Requests : LoggingIn(q, u)' =>
             LoggingIn(q, u) /\ pc'[q] = pc[q] /\ task'[q].victim = task[q].victim
      BY <3>1 DEF LoggingIn
    <3>. QED  BY <3>1, <3>2, <3>3, OtherStep
  <2>16. CASE Audit(r)
    BY <2>2, <2>16 DEF Audit, Finish, LoginSteps, TypeOK, RequestsTyped
  <2>17. CASE Revoke(r)
    BY <2>10, <2>17 DEF Revoke, VisitSteps
  <2>. QED  BY <1>3, <2>1, <2>3, <2>5, <2>6, <2>7, <2>8, <2>9, <2>11, <2>12, <2>13,
               <2>14, <2>15, <2>16, <2>17 DEF Serve
<1>4. CASE UNCHANGED vars
  <2>1. u \notin raced /\ \A q \in Requests : LoggingIn(q, u)' => LoggingIn(q, u)
    BY <1>4 DEF vars, LoggingIn
  <2>. QED  BY <1>0, <1>4, <2>1, OtherStep DEF vars
<1>. QED  BY <1>1, <1>2, <1>3, <1>4 DEF Next

(* A user whose logins never overlap holds at most MAX_DEVICE_SLOTS_PER_USER *)
(* sessions: count, eviction and insert need not be one transaction as long *)
(* as no second login of the same user runs between them.                  *)
THEOREM SerialSlots == Spec => []SerialLoginsRespectSlots
<1>1. Init => SlotsInv
  <2>. SUFFICES ASSUME Init, NEW u \in Users
                PROVE  /\ Cardinality(RowsOf(u)) <= MaxDeviceSlotsPerUser
                       /\ \A r \in Requests : ~LoggingIn(r, u)
    BY DEF SlotsInv, UserSlots
  <2>1. RowsOf(u) = {} /\ \A r \in Requests : ~LoggingIn(r, u)
    BY DEF Init, RowsOf, HasRow, LoggingIn, LoginSteps
  <2>. QED  BY <2>1, FS_EmptySet
<1>2. SlotsInv => SerialLoginsRespectSlots
  BY DEF SlotsInv, UserSlots, SerialLoginsRespectSlots
<1>. QED  BY <1>1, <1>2, SlotsStep, TypeCorrect, PTL DEF Spec
================================================================================
