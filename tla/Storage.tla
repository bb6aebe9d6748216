------------------------------ MODULE Storage ------------------------------
(***************************************************************************)
(* The two tables the storage caps are about: gifs and gif_renditions      *)
(* (migrations/001_init.sql), and the sums that db.rs takes over them.     *)
(*                                                                         *)
(* A table is a function from gif ids to rows.  The three rendition rows   *)
(* of a gif are written and removed with its gifs row (one transaction,    *)
(* ON DELETE CASCADE), and their sizes are a function of the uploaded      *)
(* bytes, so a row only records the content hash and Size gives the bytes  *)
(* its renditions occupy.  SUM(size_bytes) is the number of byte slots the *)
(* rows occupy.                                                            *)
(***************************************************************************)
EXTENDS Integers, FiniteSets

CONSTANTS
  Ids,          \* gif ids (Uuid::new_v4)
  Users,        \* Matrix ids that upload
  Contents,     \* uploaded files, identified with their SHA-256
  Size,         \* bytes the three renditions of a content occupy
  MaxBytes,     \* bound on Size
  GlobalMax,    \* STORAGE_MAX_BYTES
  PerUserMax,   \* PER_USER_STORAGE_BYTES
  U64,          \* 2^64: a cap of U64 - 1 is a disabled cap (parse_size)
  NoRow         \* the value of an id without a row

Row == [uploader : Users, hash : Contents]

Tables == [Ids -> Row \cup {NoRow}]

ASSUME StorageAssumption ==
  /\ IsFiniteSet(Ids)
  /\ MaxBytes \in Nat
  /\ Size \in [Contents -> 0..MaxBytes]
  /\ U64 \in Nat
  /\ GlobalMax \in 0..(U64 - 1)
  /\ PerUserMax \in 0..(U64 - 1)
  /\ NoRow \notin Row

Live(t) == {i \in Ids : t[i] # NoRow}

Owned(t, u) == {i \in Live(t) : t[i].uploader = u}

\* The byte slots taken by the renditions of the gifs in S.
Slots(t, S) ==
  {p \in S \X (1..MaxBytes) : t[p[1]] # NoRow /\ p[2] <= Size[t[p[1]].hash]}

\* The bytes gif i occupies, 0 if it has no row.
RowBytes(t, i) == IF t[i] = NoRow THEN 0 ELSE Size[t[i].hash]

TotalBytes(t) == Cardinality(Slots(t, Ids))

UserBytes(t, u) == Cardinality(Slots(t, Owned(t, u)))

\* Another gif of u than i already holds content c: UNIQUE (uploader_id, hash).
Taken(t, i, u, c) == \E k \in Owned(t, u) \ {i} : t[k].hash = c

\* The cast of a possibly negative i64 byte count, `n as u64`.
AsU64(n) == IF n < 0 THEN n + U64 ELSE n

Exceeds(n, cap) == AsU64(n) > cap
=============================================================================
