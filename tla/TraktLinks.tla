----------------------------- MODULE TraktLinks -----------------------------
(***************************************************************************)
(* The association of Trakt accounts (slugs) with users: a user approves a *)
(* device code at Trakt and has it checked (TraktService.checkDeviceAuth), *)
(* and an admin associates a slug with a user.  Each is a series of        *)
(* statements on the table trakt_users, of which another may come between; *)
(* the table has at most one row of a slug and one of a user, and no row   *)
(* without a user.                                                         *)
(***************************************************************************)
EXTENDS Naturals

CONSTANTS
    TraktMembers,  \* users
    Slugs,
    MaxRows        \* bound on the rows that are ever created

ASSUME TraktAssumption == MaxRows \in Nat /\ "admin" \notin TraktMembers

VARIABLES
    links,         \* trakt_users: a set of [id, slug, user, tokens]
    rowsMade,      \* rows created so far; a row's id is its number
    tasks,         \* what each user and the admin are at
    earned         \* history: the pairs of slug and user approved or associated

traktVars == <<links, rowsMade, tasks, earned>>

Linkers == TraktMembers \cup {"admin"}
NoTask == [stage |-> "idle", slug |-> "none", user |-> "none", found |-> 0, owner |-> "none"]

TInit ==
    /\ links = {} /\ rowsMade = 0
    /\ tasks = [a \in Linkers |-> NoTask]
    /\ earned = {}

OfSlug(s) == {r \in links : r.slug = s}       \* findByTraktSlug
OfUser(u) == {r \in links : r.user = u}       \* findByUserId

Step(a, stage) == tasks' = [tasks EXCEPT ![a].stage = stage]
Free(a) == tasks[a].stage \in {"idle", "linked", "refused"}

\* checkDeviceCode answers that the user has approved the code for an
\* account, and getProfile names it.  Before that nothing is done.
Approve(u, s) ==
    /\ Free(u)
    /\ tasks' = [tasks EXCEPT ![u] = [NoTask EXCEPT !.stage = "approved", !.slug = s, !.user = u]]
    /\ earned' = earned \cup {<<s, u>>}
    /\ UNCHANGED <<links, rowsMade>>

\* The route /admin/associate.
AdminAssociates(s, u) ==
    /\ Free("admin")
    /\ tasks' = [tasks EXCEPT !["admin"] = [NoTask EXCEPT !.stage = "associating", !.slug = s, !.user = u]]
    /\ earned' = earned \cup {<<s, u>>}
    /\ UNCHANGED <<links, rowsMade>>

\* A row of another user is to be removed first.
FindLink(a) ==
    /\ tasks[a].stage = "approved"
    /\ Step(a, IF \E r \in OfSlug(tasks[a].slug) : r.user # a THEN "dropping" ELSE "storing")
    /\ UNCHANGED <<links, rowsMade, earned>>

\* disassociateUser: the row of the slug is looked up, then deleted by its id.
Disassociate(a) ==
    /\ tasks[a].stage = "dropping"
    /\ \/ /\ OfSlug(tasks[a].slug) = {} /\ Step(a, "storing")
       \/ \E r \in OfSlug(tasks[a].slug) :
             tasks' = [tasks EXCEPT ![a].stage = "deletingOther", ![a].found = r.id]
    /\ UNCHANGED <<links, rowsMade, earned>>

DeleteFound(a) ==
    /\ tasks[a].stage \in {"deletingOther", "deletingOwn"}
    /\ links' = {r \in links : r.id # tasks[a].found}
    /\ Step(a, IF tasks[a].stage = "deletingOther" THEN "storing" ELSE "creating")
    /\ UNCHANGED <<rowsMade, earned>>

\* updateTokens: without a row it creates one that has no user, which the
\* table refuses.
FindForTokens(a) ==
    /\ tasks[a].stage = "storing"
    /\ \/ OfSlug(tasks[a].slug) = {} /\ Step(a, "refused")
       \/ \E r \in OfSlug(tasks[a].slug) :
             tasks' = [tasks EXCEPT ![a].stage = "saving", ![a].found = r.id, ![a].owner = r.user]
    /\ UNCHANGED <<links, rowsMade, earned>>

\* Mutation: only the slug is a unique column.
TakenSlug(slug, user) == OfSlug(slug) # {}

\* A unique column has the value already.
Taken(slug, user) == OfSlug(slug) \cup OfUser(user) # {}

\* The row is saved whole: when it was deleted meanwhile, it is inserted again.
SaveTokens(a) ==
    /\ tasks[a].stage = "saving"
    /\ LET same == {r \in links : r.id = tasks[a].found}
           saved == [id |-> tasks[a].found, slug |-> tasks[a].slug, user |-> tasks[a].owner, tokens |-> TRUE]
       IN  IF same = {} /\ Taken(saved.slug, saved.user)
           THEN Step(a, "refused") /\ UNCHANGED links
           ELSE Step(a, "associating") /\ links' = (links \ same) \cup {saved}
    /\ UNCHANGED <<rowsMade, earned>>

\* associateUser: a row of the slug and of this user is enough, one of
\* another user is an error.
FindForUser(a) ==
    /\ tasks[a].stage = "associating"
    /\ \/ OfSlug(tasks[a].slug) = {} /\ Step(a, "unlinking")
       \/ \E r \in OfSlug(tasks[a].slug) :
             Step(a, IF r.user = tasks[a].user THEN "linked" ELSE "refused")
    /\ UNCHANGED <<links, rowsMade, earned>>

\* It then looks for another row of the user, which is deleted by its id.
FindOwn(a) ==
    /\ tasks[a].stage = "unlinking"
    /\ \/ OfUser(tasks[a].user) = {} /\ Step(a, "creating")
       \/ \E r \in OfUser(tasks[a].user) :
             tasks' = [tasks EXCEPT ![a].stage = "deletingOwn", ![a].found = r.id]
    /\ UNCHANGED <<links, rowsMade, earned>>

CreateLink(a) ==
    /\ tasks[a].stage = "creating" /\ rowsMade < MaxRows
    /\ IF Taken(tasks[a].slug, tasks[a].user)
       THEN Step(a, "refused") /\ UNCHANGED <<links, rowsMade>>
       ELSE /\ links' = links \cup {[id |-> rowsMade + 1, slug |-> tasks[a].slug,
                                     user |-> tasks[a].user, tokens |-> FALSE]}
            /\ rowsMade' = rowsMade + 1
            /\ Step(a, "linked")
    /\ UNCHANGED earned

TNext ==
    \/ \E s \in Slugs, u \in TraktMembers : Approve(u, s) \/ AdminAssociates(s, u)
    \/ \E a \in Linkers :
          \/ FindLink(a) \/ Disassociate(a) \/ DeleteFound(a)
          \/ FindForTokens(a) \/ SaveTokens(a)
          \/ FindForUser(a) \/ FindOwn(a) \/ CreateLink(a)

TSpec == TInit /\ [][TNext]_traktVars

-----------------------------------------------------------------------------
TTypeOK ==
    /\ \A r \in links : r.id \in 1..rowsMade /\ r.slug \in Slugs /\ r.user \in TraktMembers
    /\ rowsMade \in 0..MaxRows
    /\ \A a \in Linkers : ~Free(a) => tasks[a].slug \in Slugs /\ tasks[a].user \in TraktMembers
    /\ earned \subseteq Slugs \X TraktMembers

(***************************************************************************)
(* However checks and associations come between each other's lookups,      *)
(* deletions and saves of whole rows, nobody ends up with an account that  *)
(* they did not approve and that no admin gave them, nor with two          *)
(* (trakt.service.ts:91-134, trakt-user.repository.ts:48-113).             *)
(***************************************************************************)
LinksAreEarned ==
    \A r \in links : /\ <<r.slug, r.user>> \in earned
                     /\ \A q \in links : q.slug = r.slug \/ q.user = r.user => q = r
=============================================================================
