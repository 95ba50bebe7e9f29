------------------------------- MODULE Discussion -------------------------------
(***************************************************************************)
(* The discussion of one project: discussion_service.py and                *)
(* comment_service.py write the messages and read markers, realtime.py     *)
(* and discussion_ws.py carry the events to the sockets.                   *)
(*                                                                         *)
(* A writing request has three steps: its transaction begins, and it loads *)
(* and checks what it needs; it writes and commits; its event is handed to *)
(* the event loop.  now() is the start of the transaction, and time passes *)
(* while a transaction runs.  Messages of a comment's other targets, and   *)
(* wording, are left out.                                                  *)
(***************************************************************************)
EXTENDS Naturals, Sequences, FiniteSets, SequencesExt

CONSTANTS Users,          \* users of the organization; DiscussionAccess has whom
                          \* _get_accessible_project lets in
          Admins,
          Requests,       \* requests being served at the same time
          Sockets,        \* websockets opened by clients
          NumMessages,    \* bound on messages
          MaxClock,       \* bound on the starts of transactions
          PageLimit,      \* messages on a page
          MaxSockets,     \* MAX_SOCKETS_PER_USER_PROJECT
          None

ASSUME DiscussionAssumption ==
  /\ Admins \subseteq Users /\ None \notin Users \union Nat
  /\ NumMessages \in Nat /\ MaxClock \in Nat
  /\ PageLimit \in Nat \ {0} /\ MaxSockets \in Nat \ {0}

\* Ids are random: the next message gets any of them.
Messages == 1 .. NumMessages

VARIABLES clock,      \* the clock of the database
          comment,    \* the comments table
          last_read,  \* project_discussion_reads; 0 is no row
          req,        \* the requests
          walk,       \* a client that fetches the discussion page by page
          has_loop,   \* whether the manager has captured the event loop
          loop,       \* events scheduled on the event loop
          conns,      \* the registered sockets, oldest first
          socket,     \* the sockets
          view,       \* history: the last event each registered socket received of a message
          raced,      \* history: messages on which two requests overlapped
          marker      \* history: last_read when the request of a message began

dbvars == <<clock, comment, last_read>>
wsvars == <<has_loop, loop, conns, socket, view>>
vars == <<dbvars, wsvars, req, walk, raced, marker>>

Comment == [exists : BOOLEAN, deleted : BOOLEAN, author : Users \union {None},
            created : Nat, content : Nat]
NoComment == [exists |-> FALSE, deleted |-> FALSE, author |-> None,
              created |-> 0, content |-> 0]

\* What a socket received last of a message: no event yet, or none since the
\* message was there "before" the socket.
Event == [type : {"none", "before", "created", "updated", "deleted"}, content : Nat]
NoEvent == [type |-> "none", content |-> 0]
NoView == [m \in Messages |-> NoEvent]

IdleRequest == [step |-> "idle", user |-> None, msg |-> None, at |-> 0, content |-> 0]
NoWalk == [step |-> "none", cursor |-> <<0, 0>>, got |-> <<>>, due |-> {}]
NewSocket == [state |-> "new", user |-> None]

Init == /\ clock = 1
        /\ comment = [m \in Messages |-> NoComment]
        /\ last_read = [u \in Users |-> 0]
        /\ req = [r \in Requests |-> IdleRequest]
        /\ walk = NoWalk
        /\ has_loop = FALSE
        /\ loop = <<>>
        /\ conns = <<>>
        /\ socket = [s \in Sockets |-> NewSocket]
        /\ view = [s \in Sockets |-> NoView]
        /\ raced = {}
        /\ marker = [m \in Messages |-> [u \in Users |-> 0]]

-------------------------------------------------------------------------------
(* Requests begin                                                          *)

Live(m) == comment[m].exists /\ ~comment[m].deleted

InFlight(m) == \E r \in Requests : req[r].step # "idle" /\ req[r].msg = m

Begin(r, u, step, m) ==
  /\ req[r].step = "idle"
  /\ clock < MaxClock
  /\ req' = [req EXCEPT ![r] = [step |-> step, user |-> u, msg |-> m, at |-> clock,
                                content |-> 0]]
  /\ UNCHANGED <<dbvars, wsvars, walk>>

post_message(r, u) ==
  /\ \E m \in Messages :
       /\ ~comment[m].exists /\ ~InFlight(m)
       /\ Begin(r, u, "post", m)
       /\ marker' = [marker EXCEPT ![m] = last_read]
  /\ UNCHANGED raced

mark_read(r, u) ==
  /\ Begin(r, u, "read", None)
  /\ UNCHANGED <<raced, marker>>

Race(m) == raced' = IF InFlight(m) THEN raced \union {m} ELSE raced

\* Only the author may rewrite a comment.
update_comment(r, u, m) ==
  /\ Live(m)
  /\ comment[m].author = u
  /\ Begin(r, u, "edit", m)
  /\ Race(m)
  /\ UNCHANGED marker

delete_comment(r, u, m) ==
  /\ Live(m)
  /\ comment[m].author = u \/ u \in Admins
  /\ Begin(r, u, "delete", m)
  /\ Race(m)
  /\ UNCHANGED marker

-------------------------------------------------------------------------------
(* Requests commit, or fail                                                *)

\* As if the marker were set by the clock of the application, which runs ahead.
upsert_read_app_clock(r) == last_read' = [last_read EXCEPT ![req[r].user] = req[r].at + 2]

upsert_read(r) == last_read' = [last_read EXCEPT ![req[r].user] = req[r].at]

\* db.commit(), after which the request has an event to publish, or ends.
Commit(r, step, event) ==
  /\ req[r].step = step
  /\ clock' = clock + 1
  /\ req' = [req EXCEPT ![r] = IF event = NoEvent THEN IdleRequest
                               ELSE [@ EXCEPT !.step = event.type, !.content = event.content]]
  /\ UNCHANGED <<wsvars, walk, raced, marker>>

commit_post(r) ==
  /\ Commit(r, "post", [type |-> "created", content |-> 0])
  /\ comment' = [comment EXCEPT ![req[r].msg] =
                   [exists |-> TRUE, deleted |-> FALSE, author |-> req[r].user,
                    created |-> req[r].at, content |-> 0]]
  /\ upsert_read(r)

commit_read(r) ==
  /\ Commit(r, "read", NoEvent)
  /\ upsert_read(r)
  /\ UNCHANGED comment

\* The UPDATE sets the content, and the row may have been deleted meanwhile.
commit_update(r) ==
  LET content == comment[req[r].msg].content + 1
  IN  /\ Commit(r, "edit", [type |-> "updated", content |-> content])
      /\ comment' = [comment EXCEPT ![req[r].msg].content = content]
      /\ UNCHANGED last_read

commit_delete(r) ==
  /\ Commit(r, "delete", [type |-> "deleted", content |-> 0])
  /\ comment' = [comment EXCEPT ![req[r].msg].deleted = TRUE]
  /\ UNCHANGED last_read

\* The request fails before its commit.
rollback(r) ==
  /\ req[r].step \in {"post", "read", "edit", "delete"}
  /\ req' = [req EXCEPT ![r] = IdleRequest]
  /\ UNCHANGED <<dbvars, wsvars, walk, raced, marker>>

-------------------------------------------------------------------------------
(* Reads of the discussion                                                 *)

\* The messages that count_unread counts for user u.
unread(u) == {m \in Messages : /\ Live(m)
                               /\ comment[m].author # u
                               /\ last_read[u] = 0 \/ comment[m].created > last_read[u]}

Key(m) == <<comment[m].created, m>>

\* As if pages were separated by created_at alone.
BelowByTime(a, b) == a[1] < b[1]

Below(a, b) == a[1] < b[1] \/ (a[1] = b[1] /\ a[2] < b[2])

\* The elements of S in the order of R; any order of elements R does not order.
InOrder(S, R) ==
  CHOOSE seq \in Bijection(1 .. Cardinality(S), S) :
    \A i, j \in 1 .. Cardinality(S) : i < j => <<seq[j], seq[i]>> \notin R

Newer == {p \in Messages \X Messages : Below(Key(p[2]), Key(p[1]))}

\* The rows of list_page: newest first, before the cursor if there is one.
list_page(cursor, limit) ==
  LET rows == {m \in Messages : Live(m) /\ (cursor = <<0, 0>> \/ Below(Key(m), cursor))}
      newest_first == InOrder(rows, Newer)
  IN  SubSeq(newest_first, 1, IF Len(newest_first) < limit THEN Len(newest_first) ELSE limit)

\* A client fetches the first page, or the next one; it has seen the messages
\* that were there all the time.
list_messages ==
  /\ walk.step # "done"
  /\ LET rows == list_page(walk.cursor, PageLimit + 1)
         has_more == Len(rows) > PageLimit
         items == IF has_more THEN SubSeq(rows, 1, PageLimit) ELSE rows
     IN  walk' = [step   |-> IF has_more THEN "more" ELSE "done",
                  cursor |-> IF has_more THEN Key(Last(items)) ELSE <<0, 0>>,
                  got    |-> walk.got \o items,
                  due    |-> IF walk.step = "none" THEN {m \in Messages : Live(m)}
                             ELSE walk.due]
  /\ UNCHANGED <<dbvars, wsvars, req, raced, marker>>

-------------------------------------------------------------------------------
(* The event loop                                                          *)

Registered(s) == s \in Range(conns)

\* publish_threadsafe, in the thread of the request; before the first connect
\* there is no loop to schedule on.
publish_event(r) ==
  /\ req[r].step \in {"created", "updated", "deleted"}
  /\ loop' = IF has_loop THEN Append(loop, [type |-> req[r].step, content |-> req[r].content,
                                             msg |-> req[r].msg])
             ELSE loop
  /\ req' = [req EXCEPT ![r] = IdleRequest]
  /\ UNCHANGED <<dbvars, has_loop, conns, socket, view, walk, raced, marker>>

\* Which sockets are before which in the list.
Older == {p \in Sockets \X Sockets : \E i, j \in DOMAIN conns : i < j /\ p = <<conns[i], conns[j]>>}

\* What is left of the list.
Without(gone) == InOrder(Range(conns) \ gone, Older)

\* A slow socket misses the event and stays.
publish_keep_slow ==
  /\ loop # <<>>
  /\ loop' = Tail(loop)
  /\ \E failed \in SUBSET Range(conns) :
       view' = [s \in Sockets |->
                  IF Registered(s) /\ s \notin failed
                  THEN [view[s] EXCEPT ![Head(loop).msg] =
                          [type |-> Head(loop).type, content |-> Head(loop).content]]
                  ELSE view[s]]
  /\ UNCHANGED <<dbvars, has_loop, conns, socket, req, walk, raced, marker>>

\* The fan-out of one event; a socket that is slow or dead is dropped.
publish ==
  /\ loop # <<>>
  /\ loop' = Tail(loop)
  /\ \E failed \in SUBSET Range(conns) :
       /\ view' = [s \in Sockets |->
                     IF Registered(s) /\ s \notin failed
                     THEN [view[s] EXCEPT ![Head(loop).msg] =
                             [type |-> Head(loop).type, content |-> Head(loop).content]]
                     ELSE NoView]
       /\ conns' = Without(failed)
       /\ socket' = [s \in Sockets |-> IF s \in failed THEN [socket[s] EXCEPT !.state = "closing"]
                                       ELSE socket[s]]
  /\ UNCHANGED <<dbvars, has_loop, req, walk, raced, marker>>

\* _authorize in a thread, with its own session.
authorize(s, u) ==
  /\ socket[s].state = "new"
  /\ socket' = [socket EXCEPT ![s] = [state |-> "authorized", user |-> u]]
  /\ UNCHANGED <<dbvars, has_loop, loop, conns, view, req, walk, raced, marker>>

\* The oldest sockets of the user that have to go for a new one.
Evicted(u) ==
  LET mine == {s \in Range(conns) : socket[s].user = u}
  IN  {s \in mine : Cardinality({t \in mine : <<s, t>> \in Older}) + 1 >= MaxSockets}

\* connect: registered, and the evicted are about to be closed.
connect(s) ==
  /\ socket[s].state = "authorized"
  /\ LET evicted == Evicted(socket[s].user)
     IN  /\ conns' = Append(Without(evicted), s)
         /\ socket' = [t \in Sockets |->
                         IF t = s THEN [socket[t] EXCEPT !.state = "open"]
                         ELSE IF t \in evicted THEN [socket[t] EXCEPT !.state = "closing"]
                         ELSE socket[t]]
         /\ view' = [t \in Sockets |->
                       IF t = s THEN [m \in Messages |-> IF comment[m].exists
                                                       THEN [NoEvent EXCEPT !.type = "before"]
                                                       ELSE NoEvent]
                       ELSE IF t \in evicted THEN NoView
                       ELSE view[t]]
  /\ has_loop' = TRUE
  /\ UNCHANGED <<dbvars, loop, req, walk, raced, marker>>

\* _close: it may fail or time out, and the handler stays in its receive loop.
close(s) ==
  /\ socket[s].state = "closing"
  /\ \E state \in {"closed", "deaf"} : socket' = [socket EXCEPT ![s].state = state]
  /\ UNCHANGED <<dbvars, has_loop, loop, conns, view, req, walk, raced, marker>>

\* A handler that ends without its finally.
disconnect_leak(s) ==
  /\ socket[s].state \in {"authorized", "open", "deaf"}
  /\ socket' = [socket EXCEPT ![s].state = "closed"]
  /\ view' = [view EXCEPT ![s] = NoView]
  /\ UNCHANGED <<dbvars, has_loop, loop, conns, req, walk, raced, marker>>

\* The handler ends: the client left or sent too much, or the token expired.
disconnect(s) ==
  /\ socket[s].state \in {"authorized", "open", "deaf"}
  /\ socket' = [socket EXCEPT ![s].state = "closed"]
  /\ conns' = Without({s})
  /\ view' = [view EXCEPT ![s] = NoView]
  /\ UNCHANGED <<dbvars, has_loop, loop, req, walk, raced, marker>>

\* The process dies, and with it its requests, its event loop and its sockets.
crash ==
  /\ req' = [r \in Requests |-> IdleRequest]
  /\ has_loop' = FALSE
  /\ loop' = <<>>
  /\ conns' = <<>>
  /\ socket' = [s \in Sockets |-> IF socket[s].state = "new" THEN NewSocket
                                  ELSE [socket[s] EXCEPT !.state = "closed"]]
  /\ view' = [s \in Sockets |-> NoView]
  /\ UNCHANGED <<dbvars, walk, raced, marker>>

Serve(r) == \/ commit_post(r) \/ commit_read(r) \/ commit_update(r) \/ commit_delete(r)
            \/ rollback(r) \/ publish_event(r)

Next == \/ \E r \in Requests :
             \/ \E u \in Users : post_message(r, u) \/ mark_read(r, u)
             \/ \E u \in Users, m \in Messages : update_comment(r, u, m) \/ delete_comment(r, u, m)
             \/ Serve(r)
        \/ list_messages
        \/ publish
        \/ \E s \in Sockets : (\E u \in Users : authorize(s, u)) \/ connect(s) \/ close(s)
                               \/ disconnect(s)
        \/ crash

Spec == Init /\ [][Next]_vars

-------------------------------------------------------------------------------
(* Properties                                                              *)

\* Types; the sockets registered are those that are open, each once, and no more
\* of a user than allowed; the events on their way are of committed messages.
TypeOK ==
  /\ clock \in Nat
  /\ comment \in [Messages -> Comment]
  /\ last_read \in [Users -> Nat]
  /\ \A r \in Requests :
       /\ req[r].step \in {"idle", "post", "read", "edit", "delete", "created", "updated", "deleted"}
       /\ req[r].step # "idle" => req[r].user \in Users /\ req[r].at <= clock
       /\ req[r].step \notin {"idle", "read"} => req[r].msg \in Messages
  /\ has_loop \in BOOLEAN
  /\ \A i \in DOMAIN loop : comment[loop[i].msg].exists
  /\ IsInjective(conns)
  /\ Range(conns) = {s \in Sockets : socket[s].state = "open"}
  /\ \A u \in Users : Cardinality({s \in Range(conns) : socket[s].user = u}) <= MaxSockets
  /\ view \in [Sockets -> [Messages -> Event]]

\* A message whose request began when a reader had marked the discussion read
\* is unread until the reader marks it again (upsert_read: the marker and
\* created_at come from the same clock).
NewMessagesAreUnread ==
  \A m \in Messages, u \in Users :
    Live(m) /\ comment[m].author # u /\ last_read[u] = marker[m][u] => m \in unread(u)

\* Fetched page by page, the discussion shows every message that was there from
\* the first page to the last, and none twice, whatever is posted or deleted
\* meanwhile (list_page, next_cursor).
PagesComplete ==
  /\ IsInjective(walk.got)
  /\ walk.step = "done" => \A m \in walk.due : Live(m) => m \in Range(walk.got)

\* When no request or event of a message is on its way, every socket that was
\* registered before the message has heard of it, and what a registered socket
\* heard last is what the database holds - unless two requests on the message
\* overlapped, whose events may be published in the other order (publish_event
\* only after the commit; sockets that fail are dropped).
ViewsAgree ==
  \A s \in Sockets, m \in Messages :
    /\ Registered(s) /\ view[s][m].type # "before"
    /\ ~InFlight(m) /\ m \notin raced
    /\ \A i \in DOMAIN loop : loop[i].msg # m
    => /\ comment[m].exists = (view[s][m] # NoEvent)
       /\ comment[m].deleted = (view[s][m].type = "deleted")
       /\ ~comment[m].deleted => view[s][m].content = comment[m].content
===============================================================================
