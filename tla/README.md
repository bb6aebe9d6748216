# TLA+ specifications of gif-server

gif-server stores GIFs for a Matrix client: rows in Postgres, three rendition
files per gif on disk, an axum HTTP server in between. This directory models
its core, the scripts that back it up included, checks it with TLC on small
instances and proves what matters most with TLAPS for every value of the
constants.

1. [The system](#1-the-system)
2. [Modules](#2-modules)
3. [Runs and what they show](#3-runs-and-what-they-show)
4. [Disagreements with docs, comments and tests](#4-disagreements-with-docs-comments-and-tests)
5. [Fairness and deadlock](#5-fairness-and-deadlock)
6. [Proofs](#6-proofs)
7. [Abstractions, and what is not modelled](#7-abstractions-and-what-is-not-modelled)
8. [Plan](#8-plan)

To check a run: `tlc -config QuotaTx_transactions.cfg MCQuotaTx`; to check the
proofs of a module: `tlapm QuotaTxProofs.tla`.

## 1. The system

One process (`main.rs`) runs every request as a tokio task. The tasks share a
pool of ten Postgres connections and a storage directory; they do not share
memory otherwise. Every `.await` lets other requests run, and is a place where
a request whose client has gone away is dropped.

| component | state | operations | what makes it correct |
|---|---|---|---|
| storage accounting (`storage/db.rs` 91-310) | `gifs`, `gif_renditions`, one advisory lock | `insert_gif_quota`, `replace_gif_quota`, `delete_gif`, `total_storage_bytes` | committed bytes stay within both caps; one gif per uploader and content; no 500 from the unique index; a deleted gif stays deleted |
| files and rows (`routes/upload.rs`, `routes/fetch.rs`, `storage/files.rs`) | the rows above, rendition files | `upload`, `replace_file`, `delete_gif`, `serve_file` | a row has its files, files have a row, the bytes are those of the row's hash, caches hold the bytes of the version they asked for |
| selections (`storage/db.rs` 356-362, 550-594) | `selections.used_at`, `gifs.uses` | `record_selection`, `increment_uses` | a user counts at most once a day per gif; the ranking is the number of selections that counted |
| tags (`routes/tags.rs`, `storage/db.rs` 320-354) | `tags` | `set_tags`, `add_tags`, `remove_tags` | PUT replaces, PATCH adds, DELETE removes, however they overlap |
| access control (`auth.rs` 37-48, `load_viewable`, `load_mutable`, `patch_gif`) | `visibility`, `is_nsfw` | check, then act | nobody acts on a gif they may not see; admins never reach private gifs |
| listings and search (`routes/search.rs`, `routes/favorites.rs`) | none (cursors travel with the client) | `search`, `featured`, `recent`, `favorites`, `hidden`, `history`, `suggest` | filters respected; paging visits every gif once when nothing changes |
| favorites and hidden (`routes/favorites.rs`) | `favorites`, `hidden` | idempotent PUT and DELETE | |
| sessions (`auth.rs`, `routes/auth.rs`, `middleware/auth.rs`) | none on the server; JWTs at the clients | `matrix_login`, `require_session` | a principal is who the homeserver vouched for, an admin was one, not longer ago than a session lasts; a new secret ends all sessions |
| rate limiting (`lib.rs`) | token buckets, in memory | layered limiters | calls to the homeserver are bounded; one caller cannot use up everybody's tokens |
| GIF codec (`storage/mod.rs`) | canvas, while it runs | `parse_gif_info`, `resize_gif`, `extract_thumbnail` | bounded cost, rows that describe what is encoded, a preview that shows what the gif shows |
| backup and restore (`deploy/*.sh`) | an archive; the storage directory and the database, behind the server's back | one backup, one restore | an archive has a file for each of its rows; a restore leaves rows and files of one backup |
| configuration, startup (`config.rs`, `main.rs`) | environment | | caps mean what they say |
| errors, health (`error.rs`, `routes/health.rs`) | none | `/health` asks the database through the pool | |

How they interact. An upload or replacement passes the session middleware and
a rate limiter, looks up a duplicate, decodes the file off the runtime, runs
one accounting transaction and then writes three files; `serve_file` and the
listings read the rows that the transaction committed. `backup.sh` reads files
and rows beside all of this, one after the other. Selections, tags,
favorites and hidden rows hang off `gifs` by foreign keys with ON DELETE
CASCADE. Nothing but the order of statements ties rows to files.

Hard behaviours: Postgres at READ COMMITTED (each statement sees a new
snapshot), an advisory lock that deletions do not take, statements whose
`now()` is older than the row they overwrite, files that change after their
row was committed, errors that are ignored while an error is being undone,
handlers that are dropped between any two steps, and restarts that repair
nothing. `PROJECT.json` lists these as hazards, each with the line where it
bites and the properties that cover it.

## 2. Modules

```
Storage ── Catalog ◄─(refinement)─ QuotaTx ─┬─ MCQuotaTx        Selections ─┬─ MCSelections
              ▲                             └─ QuotaTxProofs                └─ SelectionsProofs
              └─ GifStore ─┬─ MCGifStore  (INSTANCE Catalog)
                           ├─ GifStoreProofs ─┐                 Tags ─┬─ MCTags
                           └─ Backup ─┬───────┴─ BackupProofs         └─ TagsProofs
                                      └─ MCBackup
                                                                Access ── Browse ─┬─ MCBrowse
Player ◄─(refinement)─ Codec ─┬─ MCCodec                                          └─ AccessProofs
                              └─ CodecProofs                    Gateway ─┬─ MCGateway
                                                                         └─ GatewayProofs
```

**Storage** has the two tables the caps are about (`migrations/001_init.sql`)
and the sums over them. A table maps ids to rows; a row is its uploader and
its content hash. The sizes of the three renditions are a function `Size` of
the content, because `resize_gif` and `extract_thumbnail` are deterministic.
`SUM(size_bytes)` is the cardinality of a set of byte slots, which is what
makes it provable without recursion. `Exceeds` models `(n) as u64 > cap`: a
negative i64 becomes a huge u64.

**Catalog** is what the accounting promises: `Upload`, `Replace` and `Delete`
are atomic, and the first two happen only if the tables they leave respect both
caps and the per-uploader deduplication.

**QuotaTx** is `insert_gif_quota` and `replace_gif_quota`, one action per SQL
statement:

| action | code |
|---|---|
| `StartUpload`, `StartReplace` | the handlers up to the transaction, `upload.rs:76-148`, `fetch.rs:161-244`; a replacement keeps the uploader it loaded then |
| `TakeConnection`, `GiveConnection` | any other handler that uses the pool, `/health` included (`others` counts them) |
| `Begin` | `pool.begin()`, waits until one of `MaxConns` connections is free |
| `TakeLock` | `pg_advisory_xact_lock(UPLOAD_LOCK_ID)` |
| `CheckDuplicate` | `SELECT … WHERE uploader_id AND hash [AND id <> …]` |
| `ReadOld` | `old_total`, replacement only |
| `CheckGlobal`, `CheckUser` | the two sums and the comparison with the caps |
| `WriteRows` | INSERTs or UPDATEs; the unique index makes them wait or fail, a missing row makes `fetch_one` fail |
| `Commit`, `Abort` | COMMIT; a failed statement, a dropped handler or a dead server |
| `DeleteGif` | `db::delete_gif`, an autocommitted statement that takes no lock but waits for a row under update |

An upload and a replacement share actions because their statements differ only
in `ReadOld`; `old` is 0 for an upload.

**GifStore** composes those transactions, each as one step of `Catalog` (which
`QuotaTx` is shown to implement), with the files. `pc` follows a handler
through its awaits:

| handler | labels |
|---|---|
| upload | `lookup` → `insert` → (`open` → `close`) per file → `answer`; on a failed write `undo` → `unlink` per file |
| replace_file | `list` → `update` → (`tmp` → `rename`) per file → `answer` |
| delete_gif | `deleterow` → `unlink` per file |
| serve_file (a client) | `url` (it has a versioned URL) → `found` (rows read) → `cached` (file read, or 404) |

`write_file` is two steps, because `fs::write` truncates before it writes;
`write_file_atomic` is the private temporary file and the rename. Faults are a
constant: failing writes, failing unlinks, failing statements, dropped handlers
and restarts. `hit[i]` remembers which faults cut short a handler of gif `i`,
and `contended` which gifs two handlers worked on at once, so that a property
can say under which of them it holds.

**Selections** is `POST /gifs/:id/select` for one gif: `record_selection`'s two
statements and `increment_uses`, with a clock. `now()` is taken when a
statement begins; the row is read and written when it gets the lock, at most
`MaxLag` later.

**Tags** is the three tag handlers on one gif. A `DELETE` takes a snapshot and
then locks row after row; what another transaction commits after the snapshot is
invisible to it, what another transaction has locked is waited for. An `INSERT`
waits for an uncommitted row with its key, and fails (PUT) or passes (PATCH) if
the key is there. `DeadlockVictim` is Postgres's deadlock detector.

**Access** is who may see and change a gif and the lists users keep of gifs
(favorites, hidden, history). A handler is two or three steps: the check
(`MayStart` is `load_viewable` or `require_viewable`, then `can_mutate`), and
one step per statement that follows (`SetVisibility` then `SetNsfw`;
`RecordSelection` then `IncrementUses`; one for the others, where `Rewrite` is
what `replace_file` and the tag handlers commit, counted by the row's
`revision`). `exposed[r]` remembers whether the gif was shared at some time while
request `r` ran. A list is a sequence, newest first, which is how `created_at` and
`used_at` order it. Both are the time at which the statement began, and
`uploaded_at` is that at which the transaction did: a row may be put behind those
that came while its request ran (`newer`, `PutOnList`), and a gif has its place
among the uploads before it is there (`BeginUpload`, `pending`, `UploadGif`).

**Browse** composes Access with clients that page through a listing. A page is
a query over the rows as they are then (`QueryPage`; `search` runs a second one,
`QueryNames`, if the page is short), and the cursor it returns is an offset or a
seed and an offset. `first`, `last`, `grew`, `shrank` and `moved` are history:
what the listing was on the first page, on the last one, and how it differed
from page to page.

| code | definitions |
|---|---|
| `visibility_clause`, `list_filters`, `hidden_clause` | `Visible`, `Listed`, `NotHidden` |
| `list_recent`, `list_featured`, `list_featured_random`, `search_by_tags` | `Sorted`: what is `Listed`, `InOrder` of `Before`, which is by `Key` and then `uploaded_at` |
| `list_favorites`, `list_hidden`, `list_history` | `Listing`: what is `Kept` of the user's list, in the order in which one gif `Precedes` another there |
| `search_by_filename` | `NameListings`, any order among gifs of equal rank and uses |
| `limit.min(MAX_LIMIT)`, `LIMIT`, `OFFSET` | `StartWalk`, `Window` |
| `encode_offset`, `decode_offset`, `encode_seeded_offset`, `decode_seeded_offset` | the same names; `NextCursor`, `Decode` |

**Gateway** is the way in. A bucket counts ticks of a clock, so that limits of
different rates share it.

| code | definitions |
|---|---|
| `MxidKeyExtractor`, `SmartIpKeyExtractor`, `GlobalKeyExtractor` | `Keys`: a bucket per user and class of routes, per address, and one for all logins |
| the layers of `/auth/matrix`, the outer one first | `Login`: spends the global bucket, then looks at the address |
| `verify_openid_token` | `Waits`, `Vouch` (the homeserver speaks), `Verified`, `FailLogin` |
| `mint_session`, `verify_session`, `require_session` | `Minted` in `Mint`; `verify_session` in `Request` |
| `from_env` at the next start | `Restart`: another list of admins, another secret, full buckets, no logins |

A session is its claims and which secret signed it. `vouched`, `listed` and
`rotated` are history: when the homeserver spoke for the user, when the user was
last on the list of admins, when the secret last changed.

**Codec** is what an upload does to its bytes, one frame per step: the limits of
`parse_gif_info`, the canvas, `prev_canvas` and disposal of `resize_gif`, the
first frame of `extract_thumbnail`, and the dimensions, which `resize_gif`,
`extract_thumbnail` and `upload` each work out (`Size`, `ThumbnailSize`, `PreviewRow`).
`decoded` counts the pixels of the frames that the three readers have decoded. A picture is a function from pixels to colours. **Player**
is the abstract specification: what a player of GIFs shows of a stream of
frames. `Codec!Playing` instantiates it with the canvas as the base picture and
the frames of the preview as what was shown, and a second time, as a function
(`Pictures`), over the preview itself.

**Backup** puts the two scripts beside `GifStore`, all of whose steps are steps
of `Handle`. A script is at a command (`script`); `set -e` makes every command a
place where it can end (`Abort`, and the failing halves of `Extract`,
`DropDatabase` and `Replay`), and it can be started again.

| command | actions |
|---|---|
| `tar` | `CopyFile`, path by path in any order |
| `pg_dump` | `Dump`, the rows of one moment |
| `diff` of names | `Matches` in `Verify`; a mismatch is a warning |
| `pg_stat_activity`, the prompt | `CheckConnections`, then any time passes |
| `mv`, `tar x`, DROP, CREATE, `psql` | `MoveAside`, `Extract`, `DropDatabase`, `CreateDatabase`, `Replay` |
| `docker compose stop app`, `up -d app` | `StopApp`, `StartApp` (which migrates an empty database) |

`connected` is whether the pool holds a connection: `main.rs` sets a maximum and
no minimum, so an idle pool closes its last one (`CloseIdle`). As deployed that
does not last: the health check of `docker-compose.yml` calls `/health` every 10 s,
whose `SELECT 1` takes a connection (`Connect`). A running app without a
connection is then a matter of a moment (a connection that failed or was too old
and has not been replaced) or of a deployment without the check.

Each MC module gives the constants of its component small values. Definitions
marked "Mutant" are wrong variants of the definition that follows them; nothing
uses them, they stand for the bugs the properties are there to catch.

## 3. Runs and what they show

| run | properties | bounds |
|---|---|---|
| `quota` (`QuotaTx_transactions.cfg`) | `GlobalCap`, `UserCap`, `NoConstraintError`, `NoResurrection`, the inductive `IInv`, `ImplementsCatalog`, `TransactionsEnd` | 2 ids, 2 users, contents of 1, 2, 3 bytes, caps 4 and 3, 2 requests and deletions, 2 connections for them and the other handlers |
| `files` | `LiveIsServable`, `RestingIsComplete`, `RestingIsUpToDate` | 2 gifs, 1 uploader, 2 contents, 2 renditions, 2 handlers, failing writes and unlinks |
| `faults` | `FilesWereCommitted`, `CreatedStays`, `TornReadsOnlyDuringUpload` | 1 gif, 1 client, all five faults |
| `selections` | `UsesAreCounts`, `CountsAreSpaced` | 2 users, 2 handlers, a day of 3 ticks, lag 1, clock 0..5, drops, deletion |
| `tags` | `TypeOK`, `PutReplacesWhatItSaw`, `PutFailsForCause`, `RequestsEnd` | 2 handlers, 2 tags, lists of up to 2, drops |
| `walks` (`Browse_walks.cfg`) | `TypeOK`, `ListsReferToGifs`, `WalkIsListing`, `NothingTwice`, `NothingMissed`, `PagesAreSets`, `PrivateIsUploadersOnly` | 3 gifs, 2 users of which one is an admin and pages through a listing (7 kinds, with no filter or all of them, pages of 2), 2 requests, 3 bodies of PATCH, 3 catalogues to start from |
| `gateway` (`Gateway_sessions.cfg`) | `TypeOK`, `SessionsAreRecent`, `AdminsWereListed`, `RotationRevokes`, `LoadIsBounded` | 3 addresses, 2 users and a foreign one, 3 logins at once, a global limit of 2 and an address limit of 1, TTL, leeway and timeout of a tick, clock 0..4, one change of the secret, one kept session |
| `codec` (`Codec_uploads.cfg`) | `TypeOK`, `WorkIsBounded`, `RowsDescribeFiles`, `PlaysTheSameUnlessUncovered`, `ShowsEveryPicture` | every file of 1 to 3 frames out of 27 (whole, partial and overhanging, transparent or not, 3 disposals) on a canvas of two pixels; canvases of 0x0 to 4x4 with 0 to 4 frames; frames of 3x3 on a canvas of 1x1; limits of 3 (side), 3 (frames), 18 (pixels), preview width 2 |
| `backup` (`Backup_restore.cfg`) | `BackupTypeOK`, `QuietGifsAreArchived`, `MatchingArchiveHasFiles`, `RestoreIsBackup` | 1 gif, 2 contents, 2 renditions, 1 handler at a time, one backup after any number of attempts, any number of restores, stops and starts |

Why the bounds suffice. *Quota*: with caps of 4 and 3 and sizes 1 to 3, a cap
can be met exactly and missed by one, a replacement can fit only because of
what it frees, two users can share the global cap unevenly, and either gif can
be deleted while two transactions run; each check of each kind fails somewhere.
More ids and requests are covered by the proofs of the safety properties. For
`TransactionsEnd` the pool is exhausted in each way that matters: by the
transaction that holds the lock and the one that waits for it (at `CheckGlobal`, say),
by other handlers alone, and by one transaction and another handler, so that the
second waits at `Begin`. *Files*: files
of different gifs do not interact, and the two gifs are there for the
deduplication; two renditions already give a first and a last file; any two of
the three kinds of handler overlap. *Selections*: five ticks hold two counted
selections one day apart, a late statement and a third selection after it.
*Tags*: two tags and two requests give repeated tags, crossing lock orders and
disjoint lists. *Walks*: three gifs in pages of two make a full page and a short
one, a listing that ends with a full page, and a gif on either side of the
cursor that can vanish, appear or change places; one of the two limits is above
`MaxLimit`. *Gateway*: the global limit admits two of the three logins and an
address one of its own, so that each limit refuses while the other admits; four
ticks hold a login, a session, its leeway and a tick beyond it, with a restart
anywhere. *Codec*: two pixels tell a partial frame from a whole one and from an
overhanging one; three frames are what a disposal needs to be seen (one that
paints, one that disposes, one that shows what is left) and what `prev_canvas`
needs to be stale; each limit is met and exceeded by one, and a canvas may have
no pixel. *Backup*: gifs are archived
independently of each other, and two renditions let tar read one before and one
after whatever happens to a gif.

What is shown, in words:

- However uploads, replacements, deletions and failures interleave, the caps
  hold, nobody owns a content twice, the INSERT never trips over the unique
  index, and the UPDATE of a replacement never brings back a deleted gif. The
  check of a replacement uses bytes read two statements earlier; a deletion in
  between can only lower the sums (and can make it fail at its UPDATE).
- A gif that nobody is working on and that has a row can be served in every
  rendition, whatever overlapped and whichever writes and unlinks failed. If its
  handlers did not overlap it also has no files without a row, and if nothing
  failed the bytes are those of the row.
- A path never holds bytes that no commit put there, and a 201 is never taken
  back, whatever fails.
- A client sees half a file only while an upload is writing it.
- Every counted selection reaches `uses` once, but for handlers dropped in
  between; counted selections of a user are `Day - MaxLag` apart.
- A PUT of tags removes everything that was committed when its DELETE looked,
  fails only because of its own repetition or of a tag committed later, and
  does not deadlock for good.
- Paging through a listing that does not change shows it, once and in order, the
  shuffled one too. Gifs that vanish between two pages never cause a repetition
  and gifs that appear never cause a gap. A search keeps the second promise for
  gifs that a tag matches, and names no gif twice on a page.
- Whoever a handler is told is calling was vouched for by the homeserver, and an
  admin was on the list, at most a session's life ago, plus the leeway of 60 s of
  the JWT library and (for the former) the timeout of the call. A new secret ends
  every session, also those of logins that were under way. At most `burst + timeout /
  period` calls wait for the homeserver, 70 in total and 15 for an address in
  the deployed configuration, restarts included.
- `resize_gif` is a player of GIFs: it composites partial, transparent,
  overhanging frames and all disposals exactly as the abstract player does. The
  file it encodes then plays the same exactly if nothing is uncovered: no pixel of a
  picture is transparent that was painted in the one before. The rows describe the
  files: frames, dimensions of preview and thumbnail. What passes the limits
  becomes a gif unless its preview would have no pixel. The limits bound the
  composited frames; they bound what is decoded if no frame is larger than the canvas.
- A gif that nobody touched while the backup was taken is archived whole. An
  archive that "matches" has a file for every rendition of every row, except for
  uploads under way at the dump and gifs deleted before the comparison. A restore
  that ends with the app down throughout leaves exactly the backup, after any
  number of failed attempts.
- The accounting transactions end although the pool may be exhausted, because
  none needs a second connection while it holds the lock.
- A gif that stays private is changed by nobody but its uploader. Lists never
  name a deleted gif, even if it was deleted between the check and the insert.

## 4. Disagreements with docs, comments and tests

Each has a run that checks one property, which TLC finds violated.

| run | what is said | what the code does |
|---|---|---|
| `v_version` | `upload.rs:185` "caches … miss instead of serving the old bytes" | the row, and the `?v=` with it, changes before the files; `serve_file` does not look at `v`: old bytes are cached for a year under the new URL |
| `v_drain` | `lib.rs:95` "a single attacker leaves headroom for legitimate users", `README.md:140` | the layer added last is the outermost: logins that the per-IP limit rejects have taken a token of the global bucket, so one address can empty it |
| `v_preview` | `mod.rs:70` "Correctly composites partial frames using each frame's offset and disposal method" | composited frames are encoded as frames that stay: where one is transparent, the preview goes on showing the one before |

More are worth knowing and have no run.

*Files and rows.* `replace_file` and `upload` write their files without looking
at the row again: after a deletion in between they stay without a row for good
(`README.md:187` "delete GIF and all rendition files"). Two overlapping
replacements are ordered while they commit, not while they rename: the row of the
one can end up with bytes of the other (`tests/api.rs:2438` "The served original
is now the new bytes, verbatim"). `RestingIsComplete` and `RestingIsUpToDate`
say what holds of gifs whose handlers did not overlap. The undo of an upload
ignores the error of its own DELETE (`upload.rs:168`), so a failing database
leaves a row without files.
`main.rs:37` compares two sums, so an orphaned and a missing file of the same
size cancel. A 200 for a duplicate may be given for an upload that is still
writing its files and then undoes itself.

*Selections and tags.* `used_at = now()` is the start of a statement that may
have waited, so it can move backwards past a selection that counted, and
selections can count less than a day apart (`db.rs:552`), by as much as a
statement can wait: `CountsAreSpaced`. Two overlapping PUTs of tags leave the
union of their lists, because the DELETE of one does not see what the other
commits.

*Access and listings.* The mutations check the row they loaded and then change
it by id: an admin's request that was admitted while the gif was shared takes
effect after its uploader made it private (`README.md:150` "Admins never see or touch
other users' private GIFs"). A search by name skips gifs: its second listing is
paged with the offset of the merged one. A `limit` of 0 gives a full page with
the same cursor.

*Sessions.* A session is accepted for 60 s after the `expires_in` that its
client was told. Removing an admin takes effect when the session ends.

*Codec.* "Caps to bound decode/resize cost regardless of how small the encoded file
is" (`mod.rs:16`) multiply the area of the canvas by the number of frames, and
nothing compares a frame with the canvas (`mod.rs:110` clips it). A frame that is larger is decoded
in full by each reader, before the product is compared by the first
(`mod.rs:58`), and walked pixel by pixel (`mod.rs:106-119`); the first one is
resampled at its own size (`mod.rs:186-202`). For such a file the caps bound the number
of frames and not the work, which is what `WorkIsBounded` excepts (`FramesFit`):
without that condition TLC finds a file of one pixel whose frames are 3x3. What the
`gif` crate refuses by itself is not in this repository. A gif more than 220 times as wide as it is
high, or of a canvas of width or height 0 (`mod.rs:31` refuses only what is too large),
passes the limits and ends in a 500, because its thumbnail would have no pixel. The thumbnail of a gif
whose first frame is partial is that frame stretched to the shape of the canvas. The product
`h * (220 / w)` is taken in f32: where `h * 220 / w` is whole it can come out one
less (253 x 69 gives 59), in all three places alike.

*Backup.* The comparison is of names only: a gif that was replaced while tar was
running can be in a "matching" archive with files of its old content and the
row of its new one. The check for connections passes a running app whose pool
has none at that moment; if it connects before the DROP, the restore stops there, with files of
the backup under the rows of now.

## 5. Fairness and deadlock

`QuotaTx!Fairness` is strong fairness of each request's statements, `Begin` and
`TakeLock` among them: Postgres answers, sqlx hands out connections and Postgres
grants advisory locks in the order of arrival, so a waiting request is not
passed over forever. Other handlers give their connections back in time
(`GiveConnection`): they run statements that do not wait for these transactions, except
for a deletion of a row that one is about to commit, and so nothing is promised of them while a
request is at its COMMIT. That the transactions end then rests on what the code does: a
transaction keeps to the connection it has. With one statement on the pool
(`CheckGlobalOnPool`) the holder of the lock and those who wait for it can use up
the pool and wait for each other. Nothing is assumed of clients. `Tags!FairSpec` is weak
fairness of every statement and of the deadlock detector; a blocked statement is
not enabled, so weak fairness promises nothing to a request that is starved,
and the requests of a run are finitely many.

Deadlock is checked in `MCQuotaTx`. It is off where the system may come to rest:
`MCGifStore` and `MCBackup` run out of ids, `MCBrowse` out of requests,
`MCSelections` and `MCGateway` out of time, `MCCodec` ends with its file, and in
`MCTags` every request runs once.

Symmetry sets are used in safety runs only; users, requests, ids and contents
are interchangeable where their model values are (in `MCQuotaTx` contents have
sizes and are not).

## 6. Proofs

**QuotaTxProofs** begins with the facts about the byte slots of `Storage`: they
are finite, a table that loses a row occupies no more than before
(`DeleteLowers`), and writing one row changes the sums by exactly its bytes
(`WriteTotal`, `WriteOwner`, `WriteOthers`). `ExceedsNotMeansWithin` is where the
cast to u64 matters: if the comparison passes, the number was not negative and
is within the cap. It proves, for any finite set of ids, any requests, users,
contents, sizes and caps (`StorageAssumption`, `QuotaTxAssumption`):

- `SpecIInv`: `Spec => []IInv`.
- `SpecGlobalCap`, `SpecUserCap`, `SpecNoResurrection`, `SpecNoConstraintError`.
- `SpecImplementsCatalog`: `Spec => Abstract!Spec`; a COMMIT or a DELETE is a
  step of the catalogue, every other step stutters.

The caps are not inductive: a COMMIT is safe because of a check several
statements before. `IInv` says what the lock holder's checks are still worth.
`LockInv`: past the lock there is one request. `JobInv`: the id of an upload is
its own. `OldInv`: the row of a replacement has the bytes that were read, or is
gone. `CapInv`: a check that passed still passes, unless the row is gone, in
which case the UPDATE will fail. `DedupInv` and `UniqueInv` say the same of the
deduplication. The steps that matter are `Commit` (uses all of them) and
`DeleteGif`, which runs beside the lock: it lowers the sums, and of its own gif
only the row.

**GifStoreProofs** proves, for any handlers, gifs, contents and renditions and
any set of faults (`StorageAssumption`, `GifStoreAssumption`), every property of
the runs `files` and `faults`: `SpecFilesWereCommitted`, `SpecCreatedStays`,
`SpecLiveIsServable`, `SpecRestingIsComplete`, `SpecRestingIsUpToDate` and the
action property `SpecTornReadsOnlyDuringUpload`; and `SpecImplementsCatalog`,
that its rows change by steps of `Catalog` only. The first of them speak of gifs
at rest and say nothing in between, so `IInv` says who is going to set right
what is not right yet. `OwnerInv` and `FreshInv`: an id is the one upload's that
drew it until it answers, and no row comes back to an id. `TornInv`: half a file
has an upload that is filling it, or is going to remove it. `LiveInv`: a missing
file under a row has a handler whose loop is not past it (`Loads`), and the file
an upload has open is there (`FillInv`), its own or a replacement's. `GoneInv`:
a file without a row has a handler that is going to unlink it (`Removes`).
`LatestInv`: a file that is not the row's has one that is going to write it
(`Writes`), because on an uncontended gif nobody else writes (`SoleInv`). Each
holds under exactly the faults that its property excepts.

**BackupProofs** proves, for any handlers, gifs, contents, renditions and faults
with crashes among them (`BackupAssumption`, besides the assumptions of
`GifStore`), all properties of the run `backup`: `SpecBackupTypeOK`,
`SpecQuietGifsAreArchived`, and the action properties
`SpecMatchingArchiveHasFiles` and `SpecRestoreIsBackup`. Until a backup is complete
nothing was restored, so that rows and files still have the `IInv` of
`GifStoreProofs`; after that only types are known of what the handlers do.
`DraftInv`: of a gif that no handler was about since tar began, what is in the
draft is what is there now, path by path as tar gets to them. `DumpedInv`: a gif of
the dump that was not being uploaded then is not uploaded later, ids being drawn
once, so that at the comparison `LiveInv` gives all its files and the names that
match put them in the archive. `AloneInv`: while the app is down nobody but
`restore.sh` writes, which at `psql` leaves the files of the archive.

**SelectionsProofs** proves, for any number of handlers and users and any clock:

- `SpecCountsAreSpaced`, from `SInv`: a statement's stamp is at most `MaxLag` old
  (`StampInv`), and `used_at` is at most `MaxLag` behind the last selection that
  counted (`WindowInv`).
- `SpecUsesAreCounts`, from `UInv`: the selections that counted are a finite set of
  pairs of a user and a number. `LengthInv`, which needs the spacing above, keeps
  the number within the bound on the clock; a statement that counts adds one
  pair and one handler before its increment, and the increment, or the drop,
  takes the handler away again.

**TagsProofs** proves, for any number of requests, tags and lists
(`TagsAssumption`), `SpecTypeOK` and the action properties
`SpecPutReplacesWhatItSaw` and `SpecPutFailsForCause`. Before the DELETE of a PUT
is through, a row is in its snapshot or came later (`SeenInv`); after it, a row
that it has not deleted came later (`LaterInv`); and what it has inserted is the
part of its list that its loop is through with (`NewInv`).

**AccessProofs** proves, for any users, gifs, bodies and handlers and any
catalogue that meets the constraints of the database (`Consistent`, which TLC
finds true of the three catalogues of `MCBrowse`), `SpecListsReferToGifs` and
the action property `SpecPrivateIsUploadersOnly`. `AllowedInv` is what a check is
still worth at the statement it was made for: if the gif is still there, it is
the uploader's own, or it was shared while the request ran, which a mutation
of somebody else's gif needs an admin for. It holds because ids are not used
twice (`UploadedInv`, with those of uploads that have not committed kept apart) and
nothing changes an uploader. `BrowseIsAccess` carries
both over to the program with its listings, which only read.

Its second half proves the promises of the listings, `SpecTypeOK`,
`SpecPagesAreSets`, `SpecNothingTwice`, `SpecNothingMissed` and
`SpecWalkIsListing`, for any filters, seeds and shuffles and any page sizes
but 0 (`BrowseAssumption`). First, what a listing is. `BeforeIsStrict`: by its key and
then by the time of the upload, any gif is before or behind any other. Of a
finite set so ordered there is a sorting (`InOrderFacts`: an element's place is the number
of those before it) and only one (`OneOrder`), so that two queries that find the same gifs in the
same order return the same rows, and the windows of one listing are disjoint and
join up (`WindowFacts`, `WindowsJoin`). Then, what a walk knows (`WalkInv`):
`CursorInv` and `PageInv`, that a page is the window its cursor asks for;
`AheadInv`, that unless a gif appeared or changed places those behind the cursor
were not shown; `BehindInv`, that unless one disappeared or changed places those
before it were; `SameInv`, that unless anything did the walk has shown the first
rows. A gif that vanishes moves the others towards the cursor, where they may be
skipped but not repeated, and one that appears moves them away from it.

**GatewayProofs** proves, for any number of addresses and clients and any limits,
lifetimes and lists of admins (`GatewayAssumption`), all properties of the run
`gateway`. `LoginInv` and `TokenInv` give what a token says an age: a login is
answered within `Timeout` of its start and survives no restart, so a token of the
present secret was vouched for since the secret changed. `LoadInv` is behind
`SpecLoadIsBounded`: for every tick `s`, what the logins begun since `s` have
cost and what the bucket still holds is no more than a full bucket and the time
since `s`. A login moves its cost from the bucket to the first term; a restart
fills the bucket and ends the logins.

**CodecProofs** proves, for any files and any limits (`CodecAssumption`: each
frame of a file has a pixel for each position it covers; the canvas may be empty and
the frame larger),
`SpecTypeOK`, `SpecWorkIsBounded`, `SpecRowsDescribeFiles` and
`SpecShowsEveryPicture`: `resize_gif` implements `Player`. `IInv` says that nothing
is composited before the totals were checked and that no more frames are read
than were counted, and that the dimensions stay within the limits (`RoundedDown`,
`SizeInLimits`). `DecodeInv` is behind `SpecWorkIsBounded`: what was decoded is at most the
area of the canvas for every frame a reader has read, if no frame is larger. In the refinement the canvas
under the next frame is the player's base picture; `prev_canvas` is only used
by the step that saved it. `SpecPlaysTheSameUnlessUncovered` is about the preview
played again: its frames stay, so that each is painted over what was shown
before, and gives the picture itself exactly if no pixel is clear in it that was not
clear there (`ChainInv` has what the player shows up to the frame that is next). What a player shows of a file is a recursive function,
`Pictures`; `PicturesOf` says that a sequence which meets its equation is what it
computes, because there is no least frame at which the two differ.

What the assumptions say of the constants is in the module that declares them,
and no more than the code and the database give: a value that stands for "none"
is not one of the others, the caps are below 2^64 (`U64`), periods and bursts are
positive, a statement takes less than a day. Every assumption is evaluated by the
run of its component.

The type invariants of QuotaTx, Selections, GifStore, Access and Backup are
conjuncts of their inductive invariants.

Every inductive invariant was checked by TLC on the instance of its component's
run, or a larger one, before it was proved; `IInv` of QuotaTx is also part of
the run `quota`.

Model-checked only: the two liveness properties, `TransactionsEnd` and
`RequestsEnd`, because TLAPS has no rules for ENABLED. Every other property of a
run that is expected to pass is a theorem.

## 7. Abstractions, and what is not modelled

- Ids, users, contents are model values; hash collisions do not happen. File
  names are a function of the id (`file_path`), so a path is an id and a number.
- A failed `write_file_atomic` may leave its temporary file; nothing reads it
  and it is not modelled.
- `GifStore!Refuse` lets a handler fail before its transaction changes anything
  for any reason (undecodable file, quota, error), whether or not one is there:
  more behaviours than the code has. In its instances all contents fit.
- Multipart parsing is an input. A handler that is dropped while a statement is
  in flight is the same as one dropped after it (or before it).
- In `Selections` a statement may wait at most `MaxLag` ticks, an assumption
  about the database that bounds the error of the window.
- In `Tags` the connection pool is left out: every request has a connection. The gif is
  not deleted meanwhile (its foreign key would fail the requests), and a row is told from a later one with the same key by the INSERT
  that it comes from (`Origins`).
- In `Access` a checked request is one whose answer is not 404 or 403: the
  refused ones change nothing. `RecordSelection` counts or not; when it does is
  the business of `Selections`. A change of tags counts as a revision here: in `Browse` the
  tags and names that a search matches are constants of a gif, `TagHits` and
  `NameRank`.
- In `Browse` timestamps do not tie. Cursors are records: base64 and decimal
  digits are left out, that a seeded cursor does not parse as a number is kept.
- In `Gateway` a bucket gains one tick per tick of the clock, which is the
  virtual scheduling that `tower_governor` computes with; refused requests leave
  no trace but the token they took. The secret and the signature are a number that is compared:
  cryptography is perfect. Clients keep at most `MaxSessions` tokens at a time.
  No wall clock is assumed to move backwards.
- In `Codec` a file is what its decoder makes of it: a header and the frames
  before the first error. Palettes, resampling, delays and the bytes are left
  out; a resized picture is the picture and its dimensions, f32 products are exact.
- In `Backup` one backup is taken, a restore uses it, and the handlers of an app
  whose storage directory was moved away under it are not followed
  (`displaced`): what such a restore leaves is not claimed. A mismatch with a busy
  server may be reported for a temporary file, which is not modelled otherwise.
  Where the archive has no name at all, `tar t | grep` fails and with it the
  script: the backup of an empty directory does not complete (`Verify`).
  The folder of a failed backup is not restored: `restore.sh` checks the completion
  marker of its dump.
- Not modelled: `suggest` (one query, no state), `parse_size` (a pure function
  of one string, with unit tests), reconciliation (it only logs), errors (a
  mapping), the answer of `/health` (its connection is modelled), CORS, migrations, nginx. Out of reach: pixels, bytes,
  cryptography, the homeserver's own behaviour beyond its answer.

## 8. Plan

Done, in this order, because data loss and the caps are what users would
notice: Storage, Catalog, QuotaTx (with proofs), GifStore, Selections (with
proofs), Tags, Access and Browse, Gateway, Codec and Player, Backup.

Proofs, done: the safety properties of every component, and the refinements of
`Catalog` and `Player`.

What could be added:

1. The hazards that `PROJECT.json` lists without a property: a retry of an upload
   that is answered from the row of a first attempt which then fails, a limit of
   0, temporary files that a crash leaves.
2. In `Backup`, what is left of a restore under a running app (`displaced`).
3. Liveness of the scripts and of the handlers of `GifStore`, for TLC.
