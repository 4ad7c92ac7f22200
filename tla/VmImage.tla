------------------------------ MODULE VmImage ------------------------------
(***************************************************************************)
(* A VM database as a value: vm_fs rows, the chunk rows of the live tree,  *)
(* of content snapshots and of undo records, the reference-counted         *)
(* vm_blobs they share, and vm_dirty, the files whose whole-file hash a    *)
(* deferred write left stale.                                              *)
(*                                                                         *)
(* Each SQL statement, with the triggers it fires, is an operator on such  *)
(* an image; an operation of the code composes them in the code's order.   *)
(*                                                                         *)
(* Abstractions: a blob is named by its content (sha256 is injective), a   *)
(* file's size is counted in chunks, and a whole-file hash is the chunk    *)
(* list it was computed from.                                              *)
(***************************************************************************)
EXTENDS Naturals, FiniteSets

CONSTANTS
  Path,       \* VM paths
  Piece,      \* contents of a chunk, and so the keys of vm_blobs
  MaxChunks,  \* bound: chunks of one file
  Snap,       \* ids of vm_snapshots
  Undo,       \* ids of vm_undo
  Live,       \* the owner of vm_fs and vm_file_chunks
  NoPiece,    \* no chunk row
  NoHash,     \* SQL NULL
  NoUndo      \* Option<i64>::None for an undo id

ASSUME ImageAssumption ==
  /\ IsFiniteSet(Path) /\ IsFiniteSet(Snap) /\ IsFiniteSet(Undo)
  /\ MaxChunks \in Nat \ {0}
  /\ Live \notin Snap \cup Undo /\ Snap \cap Undo = {}
  /\ NoPiece \notin Piece
  /\ NoUndo \notin Undo

Idx   == 0 .. (MaxChunks - 1)
Saved == Snap \cup Undo
Owner == {Live} \cup Saved
Key   == Owner \X Path \X Idx   \* primary keys of the three chunk tables

PieceOrNone == Piece \cup {NoPiece}
Kind        == {"none", "unknown", "file", "dir", "symlink"}
Hash        == [Idx -> PieceOrNone] \cup {NoHash}
Row         == [kind : Kind, size : 0 .. MaxChunks, hash : Hash]

\* "none": the path has no row; "unknown": the record does not cover the path.
NoRow   == [kind |-> "none",    size |-> 0, hash |-> NoHash]
Unknown == [kind |-> "unknown", size |-> 0, hash |-> NoHash]

Image == [chunk  : [Key -> PieceOrNone],
          blobs  : SUBSET Piece,
          refcnt : [Piece -> Nat],
          row    : [Owner \X Path -> Row],
          dirty  : SUBSET Path,
          saved  : SUBSET Saved]

-----------------------------------------------------------------------------
(* Statements and their triggers. *)

LiveKind(img, p) == img.row[<<Live, p>>].kind
LiveSize(img, p) == img.row[<<Live, p>>].size

Content(img, o, p) == [i \in Idx |-> img.chunk[<<o, p, i>>]]

Rows(o, P) == {o} \X P \X Idx

\* Deleting chunk rows K: per row, the trigger lowers refcnt and drops the
\* blob once it reaches zero.
DeleteChunks(img, K) ==
  LET Gone(b) == {k \in K : img.chunk[k] = b}
      kept    == {b \in img.blobs : Gone(b) = {} \/ img.refcnt[b] > Cardinality(Gone(b))}
  IN  [img EXCEPT
         !.chunk  = [k \in Key |-> IF k \in K THEN NoPiece ELSE img.chunk[k]],
         !.blobs  = kept,
         !.refcnt = [b \in Piece |-> IF b \in kept
                                     THEN img.refcnt[b] - Cardinality(Gone(b)) ELSE 0]]

BlobEnsure(img, B) == [img EXCEPT !.blobs = @ \cup B]

\* Inserting chunk rows (a function on keys that have no row): the trigger
\* counts a reference only on a blob row that exists.
InsertChunks(img, new) ==
  LET Added(b) == {k \in DOMAIN new : new[k] = b}
  IN  [img EXCEPT
         !.chunk  = [k \in Key |-> IF k \in DOMAIN new THEN new[k] ELSE img.chunk[k]],
         !.refcnt = [b \in Piece |-> IF b \in img.blobs
                                     THEN img.refcnt[b] + Cardinality(Added(b)) ELSE 0]]

\* Mutant: the chunk table has no insert trigger.
CopyChunksUncounted(img, from, to, P) ==
  [img EXCEPT !.chunk = [k \in Key |-> IF k \in Rows(to, P) THEN img.chunk[<<from, k[2], k[3]>>]
                                       ELSE img.chunk[k]]]

\* INSERT INTO <to> SELECT ... FROM <from> over the chunk rows of P.
CopyChunks(img, from, to, P) ==
  InsertChunks(img, [k \in {r \in Rows(to, P) : img.chunk[<<from, r[2], r[3]>>] # NoPiece}
                       |-> img.chunk[<<from, k[2], k[3]>>]])

SetRow(img, p, r) == [img EXCEPT !.row[<<Live, p>>] = r]

\* DELETE FROM vm_fs: the trigger takes the chunk rows, the foreign key vm_dirty.
DeleteRows(img, P) ==
  LET gone == DeleteChunks(img, Rows(Live, P))
  IN  [gone EXCEPT
         !.row   = [k \in Owner \X Path |->
                      IF k[1] = Live /\ k[2] \in P THEN NoRow ELSE img.row[k]],
         !.dirty = @ \ P]

-----------------------------------------------------------------------------
(* Operations of store.rs, snapshot.rs and undo.rs on one image. *)

Pieces == UNION {[0 .. (n - 1) -> Piece] : n \in 0 .. MaxChunks}

EmptyFile == [i \in {} |-> NoPiece]

Sha(f) == [i \in Idx |-> IF i \in DOMAIN f THEN f[i] ELSE NoPiece]

ChunksReplace(img, p, f) ==
  LET bare == DeleteChunks(img, Rows(Live, {p}))
      have == BlobEnsure(bare, {f[i] : i \in DOMAIN f})
  IN  InsertChunks(have, [k \in {Live} \X {p} \X DOMAIN f |-> f[k[3]]])

FsPutFile(img, p, f) ==
  SetRow(ChunksReplace(img, p, f), p,
         [kind |-> "file", size |-> Cardinality(DOMAIN f), hash |-> Sha(f)])

FsPutNode(img, p, k) ==
  SetRow(DeleteChunks(img, Rows(Live, {p})), p, [kind |-> k, size |-> 0, hash |-> NoHash])

\* Mutant: an unchanged chunk is deleted and inserted too.
PutChunkAlways(img, p, i, b) ==
  InsertChunks(DeleteChunks(BlobEnsure(img, {b}), {<<Live, p, i>>}), [r \in {<<Live, p, i>>} |-> b])

\* Point chunk i at piece b; an unchanged chunk is left alone, because deleting
\* its row could drop the blob the insert needs.
PutChunk(img, p, i, b) ==
  LET k == <<Live, p, i>>
  IN  IF img.chunk[k] = b THEN img
      ELSE InsertChunks(DeleteChunks(BlobEnsure(img, {b}), {k}), [r \in {k} |-> b])

\* Mutant: the size is one chunk too large.
MarkDirtyTooLong(img, p, n) ==
  [img EXCEPT !.row[<<Live, p>>].size = n + 1, !.dirty = @ \cup {p}]

\* Mutant: the stale hash is not recorded in vm_dirty.
MarkDirtyForgotten(img, p, n) == [img EXCEPT !.row[<<Live, p>>].size = n]

MarkDirty(img, p, n) ==
  [img EXCEPT !.row[<<Live, p>>].size = n, !.dirty = @ \cup {p}]

\* whole_file_hash reads chunks 0 .. size - 1, and each must be there.
Hashable(img, p) ==
  \A i \in Idx : i < img.row[<<Live, p>>].size => img.chunk[<<Live, p, i>>] # NoPiece

WholeFileHash(img, p) ==
  [i \in Idx |-> IF i < img.row[<<Live, p>>].size THEN img.chunk[<<Live, p, i>>] ELSE NoPiece]

FinalizeFile(img, p) ==
  IF p \in img.dirty
  THEN [img EXCEPT !.row[<<Live, p>>].hash = WholeFileHash(img, p), !.dirty = @ \ {p}]
  ELSE img

\* Mutant: only vm_fs.path is updated; the chunk rows keep the old path.
RenameRowOnly(img, p, q) ==
  LET base == DeleteRows(img, {q})
  IN  [base EXCEPT !.row[<<Live, q>>] = base.row[<<Live, p>>], !.row[<<Live, p>>] = NoRow,
                   !.dirty = IF p \in @ THEN (@ \ {p}) \cup {q} ELSE @]

RenameFile(img, p, q) ==
  LET base == DeleteRows(img, {q})
      from(k) == IF k[1] # Live THEN k
                 ELSE IF k[2] = q THEN <<Live, p, k[3]>> ELSE k
  IN  [base EXCEPT
         !.chunk = [k \in Key |-> IF k[1] = Live /\ k[2] = p THEN NoPiece
                                  ELSE base.chunk[from(k)]],
         !.row   = [k \in Owner \X Path |->
                      IF k = <<Live, p>> THEN NoRow
                      ELSE IF k = <<Live, q>> THEN base.row[<<Live, p>>] ELSE base.row[k]],
         !.dirty = IF p \in base.dirty THEN (base.dirty \ {p}) \cup {q} ELSE base.dirty]

\* Mutant: one chunk past the new end is kept.
BeyondNext(p, n) == {Live} \X {p} \X (Idx \ 0 .. n)

Beyond(p, n) == {Live} \X {p} \X (Idx \ 0 .. (n - 1))

UndoCapture(img, u, p) ==
  IF u = NoUndo \/ img.row[<<u, p>>].kind # "unknown" THEN img
  ELSE CopyChunks([img EXCEPT !.row[<<u, p>>] = img.row[<<Live, p>>]], Live, u, {p})

CopyRows(img, from, to, P) ==
  [img EXCEPT !.row = [k \in Owner \X Path |->
     IF k[1] = to /\ k[2] \in P THEN img.row[<<from, k[2]>>] ELSE img.row[k]]]

SnapshotTake(img, s) ==
  CopyChunks(CopyRows([img EXCEPT !.saved = @ \cup {s}], Live, s, Path), Live, s, Path)

SnapshotPut(img, s) ==
  LET bare == DeleteRows(DeleteChunks(img, Rows(Live, Path)), Path)
  IN  CopyChunks(CopyRows(bare, s, Live, Path), s, Live, Path)

UndoPut(img, u) ==
  LET P == {p \in Path : img.row[<<u, p>>].kind # "unknown"}
      E == {p \in P : img.row[<<u, p>>].kind # "none"}
  IN  CopyChunks(CopyRows(DeleteRows(img, P), u, Live, E), u, Live, E)

\* DELETE FROM vm_snapshots / vm_undo: ON DELETE CASCADE takes its rows.
DropSaved(img, o) ==
  [DeleteChunks(img, Rows(o, Path)) EXCEPT
     !.row   = [k \in Owner \X Path |-> IF k[1] = o THEN Unknown ELSE img.row[k]],
     !.saved = @ \ {o}]

EmptyImage ==
  [chunk  |-> [k \in Key |-> NoPiece],
   blobs  |-> {},
   refcnt |-> [b \in Piece |-> 0],
   row    |-> [k \in Owner \X Path |-> IF k[1] = Live THEN NoRow ELSE Unknown],
   dirty  |-> {},
   saved  |-> {}]

-----------------------------------------------------------------------------
(* What the triggers maintain. *)

Refs(img, b) == {k \in Key : img.chunk[k] = b}

\* The counts the triggers of schema.rs and undo.rs maintain: a blob row exists
\* exactly while some chunk row of the live tree, a snapshot or an undo record
\* refers to it, and refcnt is the number of those rows.
RefsExact(img) ==
  \A b \in Piece : /\ b \in img.blobs <=> Refs(img, b) # {}
                    /\ img.refcnt[b] = Cardinality(Refs(img, b))

=============================================================================
