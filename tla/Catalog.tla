------------------------------ MODULE Catalog ------------------------------
(***************************************************************************)
(* What the accounting of db.rs promises its callers: uploads, content     *)
(* replacements and deletions take effect one at a time and atomically,    *)
(* and an upload or a replacement takes effect only if the tables it       *)
(* leaves respect both caps and the per-uploader deduplication.            *)
(***************************************************************************)
EXTENDS Storage

VARIABLE rows

RespectsCaps(t) ==
  /\ TotalBytes(t) <= GlobalMax
  /\ \A u \in Users : UserBytes(t, u) <= PerUserMax

Deduplicated(t) ==
  \A i \in Live(t) : ~ Taken(t, i, t[i].uploader, t[i].hash)

Init == rows = [i \in Ids |-> NoRow]

Upload(i, u, c) ==
  /\ rows[i] = NoRow
  /\ rows' = [rows EXCEPT ![i] = [uploader |-> u, hash |-> c]]
  /\ RespectsCaps(rows')
  /\ Deduplicated(rows')

Replace(i, c) ==
  /\ rows[i] # NoRow
  /\ rows' = [rows EXCEPT ![i] = [uploader |-> rows[i].uploader, hash |-> c]]
  /\ RespectsCaps(rows')
  /\ Deduplicated(rows')

Delete(i) ==
  /\ rows[i] # NoRow
  /\ rows' = [rows EXCEPT ![i] = NoRow]

Next ==
  \E i \in Ids :
    \/ \E u \in Users, c \in Contents : Upload(i, u, c)
    \/ \E c \in Contents : Replace(i, c)
    \/ Delete(i)

Spec == Init /\ [][Next]_rows
=============================================================================
