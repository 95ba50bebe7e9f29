\* Two requests at once, two sockets, pages of one message; or changes of access
\* around one request and one socket.
SPECIFICATION MCSpec
CONSTANTS
  Users = {admin, member}
  Admins = {admin}
  Requests = {r1, r2}
  Sockets = {s1, s2}
  NumMessages = 2
  MaxClock = 3
  PageLimit = 1
  MaxSockets = 1
  None = None
SYMMETRY Symmetric
INVARIANTS
  TypeOK
  NewMessagesAreUnread
  PagesComplete
  ViewsAgree
  StrangersOnlyByRace
