-------------------------------- MODULE OrmProofs --------------------------------
(***************************************************************************)
(* What the steps of Orm do, for any rows and requests.                    *)
(***************************************************************************)
EXTENDS Orm, TLAPS

\* One row.
LEMMA OneRow ==
  ASSUME NEW x, NEW y
  PROVE  DOMAIN (x :> y) = {x} /\ (x :> y)[x] = y
BY DEF :>

\* Two functions in one, of which the first prevails.
LEMMA Over ==
  ASSUME NEW f, NEW g
  PROVE  /\ DOMAIN (f @@ g) = DOMAIN f \union DOMAIN g
         /\ \A x \in DOMAIN f : (f @@ g)[x] = f[x]
         /\ \A x \in DOMAIN g \ DOMAIN f : (f @@ g)[x] = g[x]
BY DEF @@

\* A row is written with the columns that change.
LEMMA ChangesOfRow ==
  ASSUME NEW row, NEW new
  PROVE  /\ DOMAIN Changes(row, new) = {f \in DOMAIN new : new[f] # row[f]}
         /\ \A f \in DOMAIN Changes(row, new) : Changes(row, new)[f] = new[f]
BY DEF Changes

LEMMA ChangesWithin ==
  ASSUME NEW row, NEW new
  PROVE  DOMAIN Changes(row, new) \subseteq DOMAIN new
BY DEF Changes

\* Written over the row, they leave it with the new values.
LEMMA ChangedRow ==
  ASSUME NEW row, NEW new, DOMAIN new \subseteq DOMAIN row
  PROVE  /\ \A f \in DOMAIN new : (Changes(row, new) @@ row)[f] = new[f]
         /\ \A f \in DOMAIN row \ DOMAIN new : (Changes(row, new) @@ row)[f] = row[f]
<1> DEFINE w == Changes(row, new)
<1>1. /\ DOMAIN w = {f \in DOMAIN new : new[f] # row[f]}
      /\ \A f \in DOMAIN w : w[f] = new[f]
  BY DEF Changes
<1>2. /\ \A f \in DOMAIN w : (w @@ row)[f] = w[f]
      /\ \A f \in DOMAIN row \ DOMAIN w : (w @@ row)[f] = row[f]
  BY Over
<1> HIDE DEF w
<1> QED
  BY <1>1, <1>2 DEF w

LEMMA NothingIsEmpty == DOMAIN Nothing = {}
BY DEF Nothing

\* The functions of a request.
OpenSessions == DOMAIN caller = Requests /\ DOMAIN loaded = Requests /\ DOMAIN write = Requests

LEMMA FlushEffect ==
  ASSUME OpenSessions, NEW r \in Requests, NEW rows, Flush(r, rows)
  PROVE  /\ OpenSessions' /\ db' = db /\ caller' = caller /\ loaded' = loaded
         /\ write'[r] = rows
         /\ \A q \in Requests \ {r} : write'[q] = write[q]
BY DEF OpenSessions, Flush

LEMMA DoneEffect ==
  ASSUME OpenSessions, NEW r \in Requests, Done(r)
  PROVE  /\ OpenSessions'
         /\ caller'[r] = None /\ loaded'[r] = Nothing /\ write'[r] = Nothing
         /\ \A q \in Requests \ {r} : /\ caller'[q] = caller[q] /\ loaded'[q] = loaded[q]
                                      /\ write'[q] = write[q]
BY DEF OpenSessions, Done

\* A commit merges what the request writes into the rows.
LEMMA WrittenRows ==
  ASSUME NEW r
  PROVE  /\ DOMAIN Written(r) = DOMAIN db
         /\ \A x \in DOMAIN db :
              /\ x \in DOMAIN write[r] => Written(r)[x] = write[r][x] @@ db[x]
              /\ x \notin DOMAIN write[r] => Written(r)[x] = db[x]
BY DEF Written

\* When requests do not interleave, all others are outside the bound.
LEMMA SerialRequest ==
  ASSUME Serial, NEW r \in Used(Requests), NEW q \in Used(Requests)
  PROVE  q = r
BY DEF Serial
===============================================================================
