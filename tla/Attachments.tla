------------------------------ MODULE Attachments ------------------------------
(***************************************************************************)
(* Files attached to projects, features, tasks and activities, between the *)
(* database and the object storage: attachment_service.py and storage.py,  *)
(* composed with Workspace.                                                *)
(*                                                                         *)
(* A client asks for a presigned URL, puts its file there, and registers   *)
(* the key.  The storage knows nothing of the database's transactions: the *)
(* URL accepts any size, and again and again, until it expires.            *)
(***************************************************************************)
EXTENDS Workspace

CONSTANTS Attachments,    \* attachments rows
          Keys,           \* object keys that storage.build_object_key makes
          Sizes,          \* file sizes
          ATTACHMENT_MAX_SIZE_BYTES

ASSUME AttachmentsAssumption ==
  /\ Sizes \subseteq Nat \ {0} /\ ATTACHMENT_MAX_SIZE_BYTES \in Nat
  /\ Attachments \intersect Rows = {}

VARIABLES objects,    \* the size of the stored object by key, 0 if there is none
          url         \* the upload URL by key: "none", "valid" or "expired"

files == <<objects, url>>

NewAttachment(k, n, x, u) == [exists |-> TRUE, deleted |-> FALSE, s3_key |-> k,
                              size_bytes |-> n, of |-> x, uploaded_by |-> u]

WorkInit == /\ db = [x \in Rows \union Attachments |-> Absent]
            /\ Idle
            /\ objects = [k \in Keys |-> 0]
            /\ url = [k \in Keys |-> "none"]

\* The rows that are not deleted.
s3_key_exists_active(k) == \E x \in Attachments : Present(x) /\ db[x].s3_key = k

s3_key_exists(k) == \E x \in Attachments : db[x].exists /\ db[x].s3_key = k

\* The key is free and the target is there.
CanRegister(r, k, x) == Serving(r) /\ ~s3_key_exists(k) /\ Present(x)

SizeRefused(k, n) == objects[k] # n \/ objects[k] > ATTACHMENT_MAX_SIZE_BYTES

\* Answered without a write.
create_upload_url(r, k, n) ==
  /\ Serving(r)
  /\ n <= ATTACHMENT_MAX_SIZE_BYTES
  /\ url[k] = "none"
  /\ url' = [url EXCEPT ![k] = "valid"]
  /\ Done(r)
  /\ UNCHANGED <<db, objects>>

create_attachment(r, a, k, n, x) ==
  /\ CanRegister(r, k, x)
  /\ objects[k] # 0
  /\ ~SizeRefused(k, n)
  /\ NewId(a)
  /\ Flush(r, a :> NewAttachment(k, n, x, caller[r]))
  /\ UNCHANGED files

\* create_attachment of a file with another size: the object is deleted, which
\* the rollback does not undo.
refuse_attachment(r, k, n, x) ==
  /\ CanRegister(r, k, x)
  /\ objects[k] # 0
  /\ SizeRefused(k, n)
  /\ objects' = [objects EXCEPT ![k] = 0]
  /\ Done(r)
  /\ UNCHANGED <<db, url>>

delete_attachment(r, a) ==
  /\ Serving(r)
  /\ Present(a)
  /\ db[a].uploaded_by = caller[r] \/ caller[r] \in Admins \union Managers
  /\ Flush(r, a :> [deleted |-> TRUE])
  /\ UNCHANGED files

\* The client and the storage.
put_object(k, n) == /\ url[k] = "valid"
                    /\ objects' = [objects EXCEPT ![k] = n]
                    /\ UNCHANGED <<db, caller, loaded, write, url>>

expire_url(k) == /\ url[k] = "valid"
                 /\ url' = [url EXCEPT ![k] = "expired"]
                 /\ UNCHANGED <<db, caller, loaded, write, objects>>

AttachmentNext ==
  \/ \E r \in Used(Requests), k \in Used(Keys) :
       \/ \E n \in Sizes : create_upload_url(r, k, n)
       \/ \E n \in Sizes, x \in Used(UNION {Projects, Features, Tasks, Activities}) :
            \/ \E a \in Used(Attachments) : create_attachment(r, a, k, n, x)
            \/ refuse_attachment(r, k, n, x)
  \/ \E r \in Used(Requests), a \in Used(Attachments) : delete_attachment(r, a)
  \/ \E k \in Used(Keys) : (\E n \in Sizes : put_object(k, n)) \/ expire_url(k)

WorkNext == (Next /\ UNCHANGED files) \/ AttachmentNext

WorkSpec == WorkInit /\ [][WorkNext /\ UNCHANGED scope]_<<vars, files>>

-------------------------------------------------------------------------------
(* Properties                                                              *)

\* "The stored object key must stay unique": unless requests interleave, a file
\* is registered once, its attachment deleted or not, and a registered file is
\* never taken out of the storage, whatever size later requests declare for
\* its key.
FilesKept ==
  Serial => \A a \in Attachments : db[a].exists =>
              /\ objects[db[a].s3_key] # 0
              /\ \A b \in Attachments \ {a} : db[b].exists => db[b].s3_key # db[a].s3_key
===============================================================================
