--------------------------- MODULE DiscussionAccess ---------------------------
(***************************************************************************)
(* Who takes part in the discussion of a project, and how long: the access *)
(* of its users changes while requests run and sockets are open.           *)
(* discussion_service.py asks for it when a request begins or fetches a    *)
(* page, discussion_ws.py when a socket is opened, and never again of that *)
(* socket.                                                                 *)
(*                                                                         *)
(* Changes of access are whole transactions here; who may make them, and   *)
(* their own races, are Accounts' and Workspace's.  Roles stay.            *)
(***************************************************************************)
EXTENDS Discussion

ASSUME AccessAssumption == Requests \intersect Sockets = {}

VARIABLES members,       \* users with a row of project_members that is not removed
          usable,        \* users that are neither deleted nor suspended
          organization,  \* whether their organization is neither
          project,       \* whether the project is not deleted
          overtaken      \* history: requests and sockets whose user lost access since
                         \* it was checked

access == <<members, usable, organization, project>>
allvars == <<vars, access, overtaken>>

\* The creator of a project is its first member.
AccessInit == /\ Init
              /\ \E creator \in Users : members = {creator}
              /\ usable = Users
              /\ organization = TRUE
              /\ project = TRUE
              /\ overtaken = {}

-------------------------------------------------------------------------------
(* Access is checked                                                       *)

is_account_usable(u) == organization /\ u \in usable

get_accessible_project(u) == /\ is_account_usable(u)
                             /\ project
                             /\ u \in Admins \union members

\* Posting and marking as read take access to the project; a comment is edited
\* and deleted by whoever is allowed to, a member or not (_get_comment).
begin(r, u) == /\ \/ get_accessible_project(u) /\ (post_message(r, u) \/ mark_read(r, u))
                  \/ /\ is_account_usable(u)
                     /\ \E m \in Messages : update_comment(r, u, m) \/ delete_comment(r, u, m)
               /\ overtaken' = overtaken \ {r}
               /\ UNCHANGED access

fetch(u) == get_accessible_project(u) /\ list_messages /\ UNCHANGED <<access, overtaken>>

\* As if the socket were opened for every user with a token.
open_any(s, u) == is_account_usable(u) /\ authorize(s, u) /\ UNCHANGED <<access, overtaken>>

open(s, u) == get_accessible_project(u) /\ authorize(s, u) /\ UNCHANGED <<access, overtaken>>

\* What goes on without a check.
proceed == /\ \/ \E r \in Requests : Serve(r)
              \/ publish
              \/ \E s \in Sockets : connect(s) \/ close(s) \/ disconnect(s)
              \/ crash
           /\ UNCHANGED <<access, overtaken>>

-------------------------------------------------------------------------------
(* Access changes                                                          *)

\* The requests and sockets that go on without the access their user had.
Overtake ==
  overtaken' = overtaken
    \union {r \in Requests : req[r].step # "idle" /\ ~get_accessible_project(req[r].user)'}
    \union {s \in Sockets : /\ socket[s].state \in {"authorized", "open"}
                            /\ ~get_accessible_project(socket[s].user)'}

\* Active users that are no admins are added, to a project that is there.
create_project_member(u) ==
  /\ u \notin Admins \union members /\ is_account_usable(u) /\ project
  /\ members' = members \union {u}
  /\ UNCHANGED <<vars, usable, organization, project, overtaken>>

\* removed_at is set, of whoever is no admin; nothing is said to the sockets.
delete_project_member(u) ==
  /\ u \in members \ Admins
  /\ members' = members \ {u}
  /\ UNCHANGED <<vars, usable, organization, project>>
  /\ Overtake

\* The comments of the project and its members stay.
delete_project ==
  /\ project /\ project' = FALSE
  /\ UNCHANGED <<vars, members, usable, organization>>
  /\ Overtake

\* A user is suspended or deleted, or active again: update_user and delete_user
\* revoke the sessions, and the sockets hear nothing of it.
update_user(u) ==
  /\ usable' = IF u \in usable THEN usable \ {u} ELSE usable \union {u}
  /\ UNCHANGED <<vars, members, organization, project>>
  /\ Overtake

\* The organization is suspended or deleted, or active again.
update_organization ==
  /\ organization' = ~organization
  /\ UNCHANGED <<vars, members, usable, project>>
  /\ Overtake

AccessNext == \/ \E r \in Requests, u \in Users : begin(r, u)
              \/ \E u \in Users : fetch(u)
              \/ \E s \in Sockets, u \in Users : open(s, u)
              \/ proceed
              \/ \E u \in Users : \/ create_project_member(u) \/ delete_project_member(u)
                                  \/ update_user(u)
              \/ delete_project
              \/ update_organization

AccessSpec == AccessInit /\ [][AccessNext]_allvars

-------------------------------------------------------------------------------
(* Properties                                                              *)

\* The discussion works as Discussion says however the access of its users
\* changes: losing it takes nothing from the manager's list or from the
\* requests that are running (discussion_ws.py asks once, when the socket is
\* opened).
ImplementsDiscussion == Spec

\* Whoever posts, marks as read, or has a socket that is registered or about to
\* be, has access to the project, or had it when it was checked and lost it
\* since (_get_accessible_project before every write, _authorize before accept).
StrangersOnlyByRace ==
  /\ \A r \in Requests : req[r].step \in {"post", "read", "created"}
                           => get_accessible_project(req[r].user) \/ r \in overtaken
  /\ \A s \in Sockets : socket[s].state \in {"authorized", "open"}
                          => get_accessible_project(socket[s].user) \/ s \in overtaken
===============================================================================
