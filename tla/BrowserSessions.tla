--------------------------- MODULE BrowserSessions ---------------------------
(***************************************************************************)
(* One browser with several sessions (profiles): its cookies, the routes   *)
(* under /api/auth that set and clear them, the auth slice of the          *)
(* frontend's store, and the answers that travel between them in any       *)
(* order.  The server decides a request in one step: RefreshTokens models  *)
(* the statements of which that step is made.                              *)
(***************************************************************************)
EXTENDS Naturals, SequencesExt

CONSTANTS
    Profiles,       \* session ids
    Accounts,       \* users
    HttpCalls,      \* requests that can be in flight together
    CookieLimit,    \* refresh cookies that are looked at, 5 in the code
    MaxRotations    \* bound on the tokens of one session

ASSUME BrowserAssumption ==
    /\ CookieLimit \in Nat \ {0} /\ MaxRotations \in Nat \ {0}
    /\ "none" \notin Profiles \cup Accounts

VARIABLES
    current,        \* refresh_tokens: the number of a session's token, 0: no row
    owner,          \* the user a session was opened for
    jar,            \* refresh cookies, oldest first: a sequence of [session, token]
    access,         \* the sessions whose access cookie the browser has
    requests,       \* each request with what it carries and its answer
    shown           \* the store: [session, user], "none" on the login page

browserVars == <<current, owner, jar, access, requests, shown>>

NoCall == [kind |-> "none", stage |-> "idle", session |-> "none", user |-> "none",
           token |-> 0, cookies |-> <<>>, list |-> {}]
Nobody == [session |-> "none", user |-> "none"]
IsAuthenticated == shown # Nobody
CookieOf(s) == {i \in DOMAIN jar : jar[i].session = s}

BrInit ==
    /\ current = [s \in Profiles |-> 0] /\ owner = [s \in Profiles |-> "none"]
    /\ jar = <<>> /\ access = {}
    /\ shown = Nobody
    /\ requests = [c \in HttpCalls |-> NoCall]

Loading(kind) == \E c \in HttpCalls : requests[c].kind = kind
CallWith(call, stage, fields) ==
    [f \in DOMAIN NoCall |-> IF f \in DOMAIN fields THEN fields[f]
                             ELSE IF f = "stage" THEN stage ELSE call[f]]
SendCall(c, fields) ==
    /\ requests[c] = NoCall
    /\ requests' = [requests EXCEPT ![c] = CallWith(NoCall, "sent", fields)]
AnswerWith(c, fields) == requests' = [requests EXCEPT ![c] = CallWith(requests[c], "answered", fields)]
Handled(c, kind) == requests[c].kind = kind /\ requests[c].stage = "sent"
Answered(c, kind) == requests[c].kind = kind /\ requests[c].stage = "answered"

-----------------------------------------------------------------------------
(* What the frontend and the other tabs send.                              *)

\* The page is loaded again: a new store, which asks for the sessions.
OpenPage(c) ==
    /\ \A d \in HttpCalls : requests[d].kind \notin {"login", "sessions", "lists"}
    /\ shown' = Nobody
    /\ SendCall(c, [kind |-> "sessions", cookies |-> jar])
    /\ UNCHANGED <<current, owner, jar, access>>

\* The form of the login page, disabled while a login is loading.
SubmitLogin(c, u) ==
    /\ ~IsAuthenticated /\ ~Loading("login")
    /\ SendCall(c, [kind |-> "login", user |-> u])
    /\ UNCHANGED <<current, owner, jar, access, shown>>

\* The home page asks for its lists in the name of the session shown.
AskLists(c) ==
    /\ IsAuthenticated /\ ~Loading("lists")
    /\ SendCall(c, [kind |-> "lists", session |-> shown.session, user |-> shown.user,
                token |-> IF shown.session \in access THEN 1 ELSE 0])
    /\ UNCHANGED <<current, owner, jar, access, shown>>

\* Any client that shares the cookies refreshes or ends a session.
Request(c, kind, s) ==
    /\ kind \in {"refresh", "logout"}
    /\ \E i \in CookieOf(s) : SendCall(c, [kind |-> kind, session |-> s, token |-> jar[i].token])
    /\ UNCHANGED <<current, owner, jar, access, shown>>

-----------------------------------------------------------------------------
(* What the server does with it.                                           *)

Accepted(session, token) == current[session] = token
NewSession(s) == owner[s] = "none"      \* random: never opened before
FirstToken == 1

HandleLogin(c, s) ==
    /\ Handled(c, "login") /\ NewSession(s)
    /\ owner' = [owner EXCEPT ![s] = requests[c].user]
    /\ current' = [current EXCEPT ![s] = FirstToken]
    /\ AnswerWith(c, [session |-> s, token |-> FirstToken])
    /\ UNCHANGED <<jar, access, shown>>

\* token 0 in an answer: refused
HandleRefresh(c) ==
    /\ Handled(c, "refresh")
    /\ LET s == requests[c].session
       IN  IF Accepted(s, requests[c].token)
           THEN /\ current[s] < MaxRotations
                /\ current' = [current EXCEPT ![s] = @ + 1]
                /\ AnswerWith(c, [token |-> current[s] + 1, user |-> owner[s]])
           ELSE AnswerWith(c, [token |-> 0]) /\ UNCHANGED current
    /\ UNCHANGED <<owner, jar, access, shown>>

\* A token that is not accepted is an error, before any cookie is cleared.
HandleLogout(c) ==
    /\ Handled(c, "logout")
    /\ LET s == requests[c].session
       IN  IF Accepted(s, requests[c].token)
           THEN current' = [current EXCEPT ![s] = 0] /\ AnswerWith(c, [user |-> owner[s]])
           ELSE UNCHANGED current /\ AnswerWith(c, [token |-> 0])
    /\ UNCHANGED <<owner, jar, access, shown>>

\* Only the first refresh cookies are looked at, dead ones included.
ListedFrom(cookies) ==
    LET looked == {cookies[i] : i \in {j \in DOMAIN cookies : j <= CookieLimit}}
    IN  {[session |-> k.session, user |-> owner[k.session]] :
            k \in {cookie \in looked : Accepted(cookie.session, cookie.token)}}

HandleSessions(c) ==
    /\ Handled(c, "sessions")
    /\ AnswerWith(c, [list |-> ListedFrom(requests[c].cookies), cookies |-> <<>>])
    /\ UNCHANGED <<current, owner, jar, access, shown>>

\* The middleware takes the user from the access token of the named session.
HandleLists(c) ==
    /\ Handled(c, "lists")
    /\ AnswerWith(c, [list |-> IF requests[c].token = 0 THEN {} ELSE {owner[requests[c].session]}])
    /\ UNCHANGED <<current, owner, jar, access, shown>>

\* Another device's login evicts the session, or it expires with its cookie.
Evict(s) ==
    /\ current[s] # 0
    /\ current' = [current EXCEPT ![s] = 0]
    /\ UNCHANGED <<owner, jar, access, requests, shown>>

RefreshExpires(s) ==
    /\ CookieOf(s) # {}
    /\ current' = [current EXCEPT ![s] = 0]
    /\ jar' = RemoveAt(jar, CHOOSE i \in CookieOf(s) : TRUE)
    /\ UNCHANGED <<owner, access, requests, shown>>

AccessExpires(s) ==
    /\ s \in access
    /\ access' = access \ {s}
    /\ UNCHANGED <<current, owner, jar, requests, shown>>

-----------------------------------------------------------------------------
(* What the browser and the store do with the answer.                      *)

\* Mutation: a refresh sets its cookie with another path than a login.
SetAnother(s, token) ==
    /\ jar' = Append(jar, [session |-> s, token |-> token])
    /\ access' = access \cup {s}

\* setCookies: a cookie that exists keeps its place.
SetCookies(s, token) ==
    /\ jar' = IF CookieOf(s) = {} THEN Append(jar, [session |-> s, token |-> token])
              ELSE [i \in DOMAIN jar |-> IF jar[i].session = s
                                         THEN [session |-> s, token |-> token] ELSE jar[i]]
    /\ access' = access \cup {s}

\* Mutation: the deletion names the path of the refresh cookie.
ClearBoth(s) ==
    /\ access' = access \ {s}
    /\ jar' = SelectSeq(jar, LAMBDA k : k.session # s)

\* deleteCookie without a path names the path "/": the access cookie is that
\* one, the refresh cookie, of the path /api/auth/, is another and stays.
ClearCookies(s) == access' = access \ {s} /\ UNCHANGED jar

LoginAnswered(c) ==
    /\ Answered(c, "login")
    /\ SetCookies(requests[c].session, requests[c].token)
    /\ shown' = [session |-> requests[c].session, user |-> requests[c].user]
    /\ requests' = [requests EXCEPT ![c] = NoCall]
    /\ UNCHANGED <<current, owner>>

RefreshAnswered(c) ==
    /\ Answered(c, "refresh")
    /\ IF requests[c].token = 0 THEN ClearCookies(requests[c].session)
                             ELSE SetCookies(requests[c].session, requests[c].token)
    /\ requests' = [requests EXCEPT ![c] = NoCall]
    /\ UNCHANGED <<current, owner, shown>>

LogoutAnswered(c) ==
    /\ Answered(c, "logout")
    /\ IF requests[c].token = 0 THEN UNCHANGED <<jar, access>>
       ELSE ClearCookies(requests[c].session)
    /\ requests' = [requests EXCEPT ![c] = NoCall]
    /\ UNCHANGED <<current, owner, shown>>

\* A session that is not listed is given up; the only one there is is taken.
Selected(list) ==
    IF \E x \in list : x.session = shown.session THEN shown
    ELSE IF \E x \in list : list = {x} THEN CHOOSE x \in list : TRUE ELSE Nobody

SessionsAnswered(c) ==
    /\ Answered(c, "sessions")
    /\ shown' = Selected(requests[c].list)
    /\ requests' = [requests EXCEPT ![c] = NoCall]
    /\ UNCHANGED <<current, owner, jar, access>>

ListsAnswered(c) ==
    /\ Answered(c, "lists")
    /\ requests' = [requests EXCEPT ![c] = NoCall]
    /\ UNCHANGED <<current, owner, jar, access, shown>>

BrNext ==
    \/ \E c \in HttpCalls :
          \/ OpenPage(c) \/ AskLists(c)
          \/ \E u \in Accounts : SubmitLogin(c, u)
          \/ \E s \in Profiles : HandleLogin(c, s)
          \/ \E s \in Profiles, kind \in {"refresh", "logout"} : Request(c, kind, s)
          \/ HandleRefresh(c) \/ HandleLogout(c) \/ HandleSessions(c) \/ HandleLists(c)
          \/ LoginAnswered(c) \/ RefreshAnswered(c) \/ LogoutAnswered(c)
          \/ SessionsAnswered(c) \/ ListsAnswered(c)
    \/ \E s \in Profiles : Evict(s) \/ RefreshExpires(s) \/ AccessExpires(s)

BrSpec == BrInit /\ [][BrNext]_browserVars

-----------------------------------------------------------------------------
BrTypeOK ==
    /\ \A s \in Profiles : current[s] \in 0..MaxRotations
                           /\ owner[s] \in Accounts \cup {"none"}
    /\ \A i, j \in DOMAIN jar : jar[i].session = jar[j].session => i = j
    /\ access \subseteq Profiles
    /\ shown \in {Nobody} \cup [session : Profiles, user : Accounts]

(***************************************************************************)
(* Tabs that refresh and end the same sessions, answers that overtake each *)
(* other and refused refreshes that clear cookies never cost the browser a *)
(* session that is still open: when nothing about it is in flight, the     *)
(* refresh cookie holds the token of its row; and the page is served, if   *)
(* at all, as the user it shows (auth.routes.ts:108-173, auth.ts:40-99).   *)
(***************************************************************************)
BrowserKeepsItsSessions ==
    /\ \A s \in Profiles :
          current[s] # 0 /\ (\A c \in HttpCalls : requests[c].session # s) =>
             \E i \in CookieOf(s) : jar[i].token = current[s]
    /\ \A c \in HttpCalls : Answered(c, "lists") => requests[c].list \subseteq {requests[c].user}
=============================================================================
