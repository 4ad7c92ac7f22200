--------------------------- MODULE VmImageProofs ---------------------------
(***************************************************************************)
(* What the operators of VmImage do to the reference counts.  Each SQL     *)
(* statement (DeleteChunks, BlobEnsure, InsertChunks) has a lemma of its   *)
(* own; each operation of the code is a composition of statements, and has *)
(* a lemma that it keeps an image whole.  A second part says which entry   *)
(* (row and chunks) each of them leaves at every owner and path.           *)
(***************************************************************************)
EXTENDS VmImage, FiniteSetTheorems, TLAPS

\* refcnt counts the chunk rows, and a referenced blob is stored.
Counted(img) ==
  \A b \in Piece : /\ img.refcnt[b] = Cardinality(Refs(img, b))
                   /\ Refs(img, b) # {} => b \in img.blobs

\* Stored blobs no chunk row refers to.
Orphans(img) == {b \in img.blobs : Refs(img, b) = {}}

\* Snapshots cover every path, undo records the captured ones; what a record
\* does not cover has no chunk rows, so the copies into it insert new keys.
Shape(img) ==
  /\ \A p \in Path : img.row[<<Live, p>>].kind # "unknown"
  /\ \A s \in Snap, p \in Path : img.row[<<s, p>>].kind = "unknown" <=> s \notin img.saved
  /\ \A o \in Saved, p \in Path : img.row[<<o, p>>].kind = "unknown"
       => \A i \in Idx : img.chunk[<<o, p, i>>] = NoPiece

Whole(img) == img \in Image /\ Counted(img) /\ Orphans(img) = {} /\ Shape(img)

-----------------------------------------------------------------------------
(* Finite sets of chunk rows. *)

\* The key space of the chunk tables is finite.
LEMMA KeyFinite == IsFiniteSet(Key)
<1> DEFINE Pairs == (Owner \X Path) \X Idx
           f == [x \in Pairs |-> <<x[1][1], x[1][2], x[2]>>]
<1>1. IsFiniteSet(Owner)
  <2>1. IsFiniteSet({Live})  BY FS_Singleton
  <2>2. IsFiniteSet(Saved)   BY ImageAssumption, FS_Union DEF Saved
  <2> QED  BY <2>1, <2>2, FS_Union DEF Owner
<1>2. IsFiniteSet(Idx)  BY ImageAssumption, FS_Interval DEF Idx
<1>3. IsFiniteSet(Pairs)
  <2>1. IsFiniteSet(Owner \X Path)  BY <1>1, ImageAssumption, FS_Product
  <2> QED  BY <2>1, <1>2, FS_Product
<1>4. f \in Surjection(Pairs, Key)
  <2>1. f \in [Pairs -> Key]  BY DEF Key
  <2>2. ASSUME NEW k \in Key PROVE \E x \in Pairs : f[x] = k
    <3>1. <<<<k[1], k[2]>>, k[3]>> \in Pairs  BY DEF Key
    <3>2. f[<<<<k[1], k[2]>>, k[3]>>] = k  BY <3>1 DEF Key
    <3> QED  BY <3>1, <3>2
  <2> QED  BY <2>1, <2>2 DEF Surjection
<1> QED  BY <1>3, <1>4, FS_Surjection

\* A set of chunk rows is finite and has a natural cardinality.
LEMMA KeySubset ==
  ASSUME NEW K \in SUBSET Key
  PROVE  IsFiniteSet(K) /\ Cardinality(K) \in Nat /\ (Cardinality(K) = 0 <=> K = {})
BY KeyFinite, FS_Subset, FS_CardinalityType, FS_EmptySet

\* Cardinality of a set of chunk rows without some of its members.
LEMMA KeyMinus ==
  ASSUME NEW K \in SUBSET Key, NEW G \in SUBSET K
  PROVE  Cardinality(K \ G) = Cardinality(K) - Cardinality(G)
<1>1. IsFiniteSet(G) /\ IsFiniteSet(K \ G)  BY KeySubset
<1>2. (K \ G) \cup G = K /\ (K \ G) \cap G = {}  OBVIOUS
<1>3. Cardinality(K) = Cardinality(K \ G) + Cardinality(G) - Cardinality({})
  BY <1>1, <1>2, FS_Union
<1>4. Cardinality(K \ G) \in Nat /\ Cardinality(G) \in Nat  BY KeySubset
<1> QED  BY <1>3, <1>4, FS_EmptySet

\* Cardinality of two disjoint sets of chunk rows.
LEMMA KeyPlus ==
  ASSUME NEW K \in SUBSET Key, NEW G \in SUBSET Key, K \cap G = {}
  PROVE  Cardinality(K \cup G) = Cardinality(K) + Cardinality(G)
<1>1. IsFiniteSet(G) /\ IsFiniteSet(K)  BY KeySubset
<1>2. Cardinality(K \cup G) = Cardinality(K) + Cardinality(G) - Cardinality({})
  BY <1>1, FS_Union
<1>3. Cardinality(K) \in Nat /\ Cardinality(G) \in Nat  BY KeySubset
<1> QED  BY <1>2, <1>3, FS_EmptySet

\* RefsExact is Counted without orphans.
LEMMA ExactWhole ==
  ASSUME NEW img, Counted(img), Orphans(img) = {}
  PROVE  RefsExact(img)
BY DEF Counted, Orphans, RefsExact

-----------------------------------------------------------------------------
(* What the statements do to the reference counts. *)

\* Deleting chunk rows keeps the counts right and makes no new orphan.
LEMMA DeleteChunksCounted ==
  ASSUME NEW img \in Image, Counted(img), NEW K \in SUBSET Key
  PROVE  LET D == DeleteChunks(img, K)
         IN  /\ D \in Image
             /\ Counted(D)
             /\ Orphans(D) \subseteq Orphans(img)
             /\ Orphans(img) \subseteq D.blobs
             /\ D.chunk = [k \in Key |-> IF k \in K THEN NoPiece ELSE img.chunk[k]]
             /\ D.row = img.row /\ D.dirty = img.dirty /\ D.saved = img.saved
<1> DEFINE D == DeleteChunks(img, K)
           Gone(b) == {k \in K : img.chunk[k] = b}
           kept == {b \in img.blobs : Gone(b) = {} \/ img.refcnt[b] > Cardinality(Gone(b))}
<1>1. /\ D.chunk = [k \in Key |-> IF k \in K THEN NoPiece ELSE img.chunk[k]]
      /\ D.blobs = kept
      /\ D.refcnt = [b \in Piece |-> IF b \in kept THEN img.refcnt[b] - Cardinality(Gone(b)) ELSE 0]
      /\ D.row = img.row /\ D.dirty = img.dirty /\ D.saved = img.saved
  BY DEF DeleteChunks, Image
<1>2. ASSUME NEW b \in Piece
      PROVE  /\ Refs(D, b) = Refs(img, b) \ Gone(b)
             /\ Gone(b) \in SUBSET Refs(img, b) /\ Refs(img, b) \in SUBSET Key
             /\ Refs(D, b) \in SUBSET Key
             /\ Cardinality(Refs(D, b)) = Cardinality(Refs(img, b)) - Cardinality(Gone(b))
             /\ Cardinality(Refs(D, b)) \in Nat /\ Cardinality(Gone(b)) \in Nat
             /\ Cardinality(Refs(img, b)) \in Nat
             /\ Cardinality(Refs(D, b)) = 0 <=> Refs(D, b) = {}
  <2>1. Gone(b) \in SUBSET Refs(img, b) /\ Refs(img, b) \in SUBSET Key  BY DEF Refs
  <2>2. Refs(D, b) = Refs(img, b) \ Gone(b)
    <3>1. \A k \in Key : D.chunk[k] = b <=> k \notin K /\ img.chunk[k] = b
      BY <1>1, ImageAssumption
    <3> QED  BY <3>1 DEF Refs
  <2>3. Refs(D, b) \in SUBSET Key /\ Gone(b) \in SUBSET Key  BY <2>1, <2>2
  <2>4. Cardinality(Refs(D, b)) = Cardinality(Refs(img, b)) - Cardinality(Gone(b))
    BY <2>1, <2>2, KeyMinus
  <2> HIDE DEF D, Gone
  <2> QED  BY <2>1, <2>2, <2>3, <2>4, KeySubset
<1>3. ASSUME NEW b \in Piece
      PROVE  /\ D.refcnt[b] = Cardinality(Refs(D, b))
             /\ Refs(D, b) # {} => b \in D.blobs
             /\ b \in D.blobs /\ Refs(D, b) = {} => b \in img.blobs /\ Refs(img, b) = {}
  <2>1. img.refcnt[b] = Cardinality(Refs(img, b)) /\ (Refs(img, b) # {} => b \in img.blobs)
    BY DEF Counted
  <2>2. b \in kept <=> b \in img.blobs /\ (Gone(b) = {} \/ img.refcnt[b] > Cardinality(Gone(b)))
    OBVIOUS
  <2>3. D.refcnt[b] = IF b \in kept THEN img.refcnt[b] - Cardinality(Gone(b)) ELSE 0
    BY <1>1
  <2>4. b \in D.blobs <=> b \in kept  BY <1>1
  <2>5. Cardinality(Refs(img, b)) = 0 <=> Refs(img, b) = {}  BY <1>2, KeySubset
  <2> HIDE DEF D, Gone, kept
  <2>6. CASE Refs(D, b) = {}
    <3>1. Cardinality(Refs(D, b)) = 0 /\ img.refcnt[b] = Cardinality(Gone(b))
      BY <2>6, <2>1, <1>2
    <3>2. b \in kept => b \in img.blobs /\ Gone(b) = {}  BY <3>1, <2>2, <1>2
    <3> QED  BY <3>1, <3>2, <2>3, <2>4, <2>6, <1>2
  <2>7. CASE Refs(D, b) # {}
    <3>1. Cardinality(Refs(D, b)) > 0  BY <2>7, <1>2
    <3>2. b \in img.blobs  BY <2>7, <2>1, <1>2
    <3>3. b \in kept  BY <3>1, <3>2, <2>1, <2>2, <1>2
    <3> QED  BY <3>3, <2>1, <2>3, <2>4, <2>7, <1>2
  <2> QED  BY <2>6, <2>7
<1>4. D \in Image
  <2>1. D.chunk \in [Key -> PieceOrNone]  BY <1>1 DEF Image, PieceOrNone
  <2>2. D.blobs \in SUBSET Piece  BY <1>1 DEF Image
  <2>3. D.refcnt \in [Piece -> Nat]
    <3>1. D.refcnt = [b \in Piece |-> D.refcnt[b]]  BY <1>1
    <3> HIDE DEF D, Gone, kept
    <3>2. \A b \in Piece : D.refcnt[b] \in Nat  BY <1>2, <1>3
    <3> QED  BY <3>1, <3>2
  <2> QED  BY <2>1, <2>2, <2>3, <1>1 DEF Image, DeleteChunks
<1>5. Counted(D)  BY <1>3 DEF Counted
<1>6. D.blobs \subseteq Piece  BY <1>4 DEF Image
<1>7. Orphans(D) \subseteq Orphans(img)
  <2> HIDE DEF D
  <2> QED  BY <1>3, <1>6 DEF Orphans
<1>8. Orphans(img) \subseteq D.blobs
  <2> SUFFICES ASSUME NEW b \in Orphans(img) PROVE b \in kept  BY <1>1
  <2>1. b \in img.blobs /\ Refs(img, b) = {}  BY DEF Orphans
  <2>2. b \in Piece  BY <2>1 DEF Image
  <2>3. Gone(b) = {}  BY <2>1, <2>2, <1>2
  <2> QED  BY <2>1, <2>3
<1> QED  BY <1>1, <1>4, <1>5, <1>7, <1>8

\* Storing blobs counts no reference.
LEMMA BlobEnsureCounted ==
  ASSUME NEW img \in Image, Counted(img), NEW B \in SUBSET Piece
  PROVE  LET E == BlobEnsure(img, B)
         IN  /\ E \in Image
             /\ Counted(E)
             /\ E.blobs = img.blobs \cup B
             /\ Orphans(E) \subseteq Orphans(img) \cup B
             /\ \A b \in B : b \in Orphans(E) \/ Refs(img, b) # {}
             /\ E.chunk = img.chunk
             /\ E.row = img.row /\ E.dirty = img.dirty /\ E.saved = img.saved
<1> DEFINE E == BlobEnsure(img, B)
<1>1. /\ E.chunk = img.chunk /\ E.refcnt = img.refcnt /\ E.blobs = img.blobs \cup B
      /\ E.row = img.row /\ E.dirty = img.dirty /\ E.saved = img.saved
      /\ E \in Image
  BY DEF BlobEnsure, Image
<1>2. \A b : Refs(E, b) = Refs(img, b)  BY <1>1 DEF Refs
<1> HIDE DEF E
<1>3. Counted(E)  BY <1>1, <1>2 DEF Counted
<1> QED  BY <1>1, <1>2, <1>3 DEF Orphans, E

\* Inserting new chunk rows of stored blobs keeps the counts right, and every
\* blob they name stops being an orphan.
LEMMA InsertChunksCounted ==
  ASSUME NEW img \in Image, Counted(img),
         NEW N \in SUBSET Key, NEW new \in [N -> Piece],
         \A k \in N : new[k] \in img.blobs /\ img.chunk[k] = NoPiece
  PROVE  LET J == InsertChunks(img, new)
         IN  /\ J \in Image
             /\ Counted(J)
             /\ Orphans(J) \subseteq Orphans(img) \ {new[k] : k \in N}
             /\ J.chunk = [k \in Key |-> IF k \in N THEN new[k] ELSE img.chunk[k]]
             /\ J.row = img.row /\ J.dirty = img.dirty /\ J.saved = img.saved
<1> DEFINE J == InsertChunks(img, new)
           Added(b) == {k \in N : new[k] = b}
<1>0. DOMAIN new = N  OBVIOUS
<1>1. /\ J.chunk = [k \in Key |-> IF k \in N THEN new[k] ELSE img.chunk[k]]
      /\ J.blobs = img.blobs
      /\ J.refcnt = [b \in Piece |-> IF b \in img.blobs
                                     THEN img.refcnt[b] + Cardinality(Added(b)) ELSE 0]
      /\ J.row = img.row /\ J.dirty = img.dirty /\ J.saved = img.saved
  BY <1>0 DEF InsertChunks, Image
<1>2. ASSUME NEW b \in Piece
      PROVE  /\ Refs(J, b) = Refs(img, b) \cup Added(b)
             /\ Cardinality(Refs(J, b)) = Cardinality(Refs(img, b)) + Cardinality(Added(b))
             /\ Cardinality(Refs(J, b)) \in Nat
             /\ Refs(img, b) = {} => Cardinality(Refs(img, b)) = 0
             /\ Added(b) = {} => Cardinality(Added(b)) = 0
  <2>1. Added(b) \in SUBSET Key /\ Refs(img, b) \in SUBSET Key  BY DEF Refs
  <2>2. Refs(img, b) \cap Added(b) = {}  BY ImageAssumption DEF Refs
  <2>3. Refs(J, b) = Refs(img, b) \cup Added(b)
    <3>1. \A k \in Key : J.chunk[k] = b <=> k \in Added(b) \/ img.chunk[k] = b
      BY <1>1, ImageAssumption
    <3> QED  BY <3>1, <2>1 DEF Refs
  <2>4. Refs(J, b) \in SUBSET Key  BY DEF Refs
  <2> HIDE DEF J, Added
  <2>5. Cardinality(Refs(J, b)) = Cardinality(Refs(img, b)) + Cardinality(Added(b))
    BY <2>1, <2>2, <2>3, KeyPlus
  <2> QED  BY <2>1, <2>3, <2>4, <2>5, KeySubset
<1>3. ASSUME NEW b \in Piece
      PROVE  J.refcnt[b] = Cardinality(Refs(J, b)) /\ (Refs(J, b) # {} => b \in J.blobs)
  <2>1. img.refcnt[b] = Cardinality(Refs(img, b)) /\ (Refs(img, b) # {} => b \in img.blobs)
    BY DEF Counted
  <2>2. Added(b) # {} => b \in img.blobs  OBVIOUS
  <2>3. J.refcnt[b] = IF b \in img.blobs THEN img.refcnt[b] + Cardinality(Added(b)) ELSE 0
    BY <1>1
  <2>4. J.blobs = img.blobs  BY <1>1
  <2> HIDE DEF J, Added
  <2> QED  BY <2>1, <2>2, <2>3, <2>4, <1>2
<1>4. J \in Image
  <2>1. J.chunk \in [Key -> PieceOrNone]  BY <1>1 DEF Image, PieceOrNone
  <2>2. J.refcnt \in [Piece -> Nat]
    <3>1. \A b \in Piece : J.refcnt[b] \in Nat  BY <1>2, <1>3
    <3>2. J.refcnt = [b \in Piece |-> J.refcnt[b]]  BY <1>1
    <3> HIDE DEF J
    <3> QED  BY <3>1, <3>2
  <2> QED  BY <2>1, <2>2, <1>1 DEF Image, InsertChunks
<1>5. Counted(J)  BY <1>3 DEF Counted
<1>6. Orphans(J) \subseteq Orphans(img) \ {new[k] : k \in N}
  <2> SUFFICES ASSUME NEW b \in Orphans(J)
               PROVE  b \in Orphans(img) /\ \A k \in N : new[k] # b
    OBVIOUS
  <2>1. b \in img.blobs /\ b \in Piece /\ Refs(J, b) = {}  BY <1>1 DEF Orphans, Image
  <2>2. Refs(img, b) = {} /\ Added(b) = {}  BY <2>1, <1>2
  <2> QED  BY <2>1, <2>2 DEF Orphans
<1> QED  BY <1>1, <1>4, <1>5, <1>6

\* Counts and orphans depend on the chunk rows and the blobs only.
LEMMA SameBlobs ==
  ASSUME NEW img, NEW new,
         new.chunk = img.chunk, new.blobs = img.blobs, new.refcnt = img.refcnt
  PROVE  (Counted(img) => Counted(new)) /\ Orphans(new) = Orphans(img)
<1>1. \A b : Refs(new, b) = Refs(img, b)  BY DEF Refs
<1> QED  BY <1>1 DEF Counted, Orphans

\* A chunk row names a stored blob.
LEMMA ChunkStored ==
  ASSUME NEW img \in Image, Counted(img), NEW k \in Key, img.chunk[k] # NoPiece
  PROVE  img.chunk[k] \in Piece /\ img.chunk[k] \in img.blobs
<1>1. img.chunk[k] \in Piece  BY DEF Image, PieceOrNone
<1>2. k \in Refs(img, img.chunk[k])  BY DEF Refs
<1> QED  BY <1>1, <1>2 DEF Counted

\* Copying chunk rows from one owner to keys that are free.
LEMMA CopyChunksCounted ==
  ASSUME NEW img \in Image, Counted(img),
         NEW from \in Owner, NEW to \in Owner, NEW P \in SUBSET Path,
         \A p \in P, i \in Idx : img.chunk[<<to, p, i>>] = NoPiece
  PROVE  LET C == CopyChunks(img, from, to, P)
         IN  /\ C \in Image
             /\ Counted(C)
             /\ Orphans(C) \subseteq Orphans(img)
             /\ C.chunk = [k \in Key |-> IF k[1] = to /\ k[2] \in P
                                         THEN img.chunk[<<from, k[2], k[3]>>] ELSE img.chunk[k]]
             /\ C.row = img.row /\ C.dirty = img.dirty /\ C.saved = img.saved
<1> DEFINE N == {r \in Rows(to, P) : img.chunk[<<from, r[2], r[3]>>] # NoPiece}
           new == [k \in N |-> img.chunk[<<from, k[2], k[3]>>]]
           C == CopyChunks(img, from, to, P)
<1>1. C = InsertChunks(img, new)  BY DEF CopyChunks
<1>2. N \in SUBSET Key  BY DEF Rows, Key
<1>3. ASSUME NEW k \in N
      PROVE  new[k] \in Piece /\ new[k] \in img.blobs /\ img.chunk[k] = NoPiece
  <2>1. <<from, k[2], k[3]>> \in Key /\ img.chunk[<<from, k[2], k[3]>>] # NoPiece
    BY DEF Rows, Key
  <2>2. img.chunk[k] = NoPiece  BY DEF Rows
  <2> QED  BY <2>1, <2>2, ChunkStored
<1>4. new \in [N -> Piece]  BY <1>3
<1>5. [k \in Key |-> IF k \in N THEN new[k] ELSE img.chunk[k]] =
      [k \in Key |-> IF k[1] = to /\ k[2] \in P
                     THEN img.chunk[<<from, k[2], k[3]>>] ELSE img.chunk[k]]
  <2> SUFFICES ASSUME NEW k \in Key
               PROVE  (IF k \in N THEN new[k] ELSE img.chunk[k]) =
                      (IF k[1] = to /\ k[2] \in P
                       THEN img.chunk[<<from, k[2], k[3]>>] ELSE img.chunk[k])
    OBVIOUS
  <2>1. k \in Rows(to, P) <=> k[1] = to /\ k[2] \in P  BY DEF Rows, Key
  <2>2. k \in Rows(to, P) => img.chunk[k] = NoPiece  BY DEF Rows
  <2> QED  BY <2>1, <2>2
<1> HIDE DEF N, new, C
<1>6. \A k \in N : new[k] \in img.blobs /\ img.chunk[k] = NoPiece  BY <1>3
<1>7. LET J == InsertChunks(img, new)
      IN  /\ J \in Image
          /\ Counted(J)
          /\ Orphans(J) \subseteq Orphans(img) \ {new[k] : k \in N}
          /\ J.chunk = [k \in Key |-> IF k \in N THEN new[k] ELSE img.chunk[k]]
          /\ J.row = img.row /\ J.dirty = img.dirty /\ J.saved = img.saved
  BY <1>2, <1>4, <1>6, InsertChunksCounted
<1> QED  BY <1>1, <1>5, <1>7 DEF C

-----------------------------------------------------------------------------
(* The operations keep the store whole. *)

\* Operations on the live tree leave the shape of the saved ones.
LEMMA SameSaved ==
  ASSUME NEW img, Shape(img), NEW new, new.saved = img.saved,
         \A p \in Path : new.row[<<Live, p>>].kind # "unknown",
         \A o \in Saved, p \in Path : new.row[<<o, p>>] = img.row[<<o, p>>],
         \A o \in Saved, p \in Path, i \in Idx :
           img.chunk[<<o, p, i>>] = NoPiece => new.chunk[<<o, p, i>>] = NoPiece
  PROVE  Shape(new)
BY DEF Shape, Saved

\* Deleting chunk rows of the live tree.
LEMMA DeleteLiveWhole ==
  ASSUME NEW img, Whole(img), NEW K \in SUBSET Key, \A k \in K : k[1] = Live
  PROVE  Whole(DeleteChunks(img, K))
<1> DEFINE D == DeleteChunks(img, K)
<1>1. /\ D \in Image /\ Counted(D) /\ Orphans(D) \subseteq Orphans(img)
      /\ D.chunk = [k \in Key |-> IF k \in K THEN NoPiece ELSE img.chunk[k]]
      /\ D.row = img.row /\ D.saved = img.saved
  BY DeleteChunksCounted DEF Whole
<1> HIDE DEF D
<1>2. Shape(D)
  <2>1. \A o \in Saved, p \in Path, i \in Idx :
          img.chunk[<<o, p, i>>] = NoPiece => D.chunk[<<o, p, i>>] = NoPiece
    BY <1>1 DEF Key, Owner
  <2> QED  BY <1>1, <2>1 DEF Shape, Whole
<1> QED  BY <1>1, <1>2 DEF Whole, D

\* Deleting vm_fs rows with their chunk rows and vm_dirty entries.
LEMMA DeleteRowsWhole ==
  ASSUME NEW img, Whole(img), NEW P \in SUBSET Path
  PROVE  /\ Whole(DeleteRows(img, P))
         /\ DeleteRows(img, P).saved = img.saved
         /\ \A p \in P, i \in Idx : DeleteRows(img, P).chunk[<<Live, p, i>>] = NoPiece
         /\ \A o \in Saved, p \in Path : DeleteRows(img, P).row[<<o, p>>] = img.row[<<o, p>>]
<1> DEFINE D == DeleteChunks(img, Rows(Live, P))
           R == DeleteRows(img, P)
<1>1. Rows(Live, P) \in SUBSET Key /\ \A k \in Rows(Live, P) : k[1] = Live
  BY DEF Rows, Key, Owner
<1>2. /\ Whole(D)
      /\ D.chunk = [k \in Key |-> IF k \in Rows(Live, P) THEN NoPiece ELSE img.chunk[k]]
      /\ D.row = img.row /\ D.dirty = img.dirty /\ D.saved = img.saved
  BY <1>1, DeleteLiveWhole, DeleteChunksCounted DEF Whole
<1> HIDE DEF D
<1>3. /\ R.chunk = D.chunk /\ R.blobs = D.blobs /\ R.refcnt = D.refcnt /\ R.saved = D.saved
      /\ R.row = [k \in Owner \X Path |-> IF k[1] = Live /\ k[2] \in P THEN NoRow ELSE img.row[k]]
      /\ R.dirty = img.dirty \ P
      /\ R \in Image
  <2>1. D \in Image /\ img \in Image  BY <1>2 DEF Whole
  <2>2. NoRow \in Row  BY ImageAssumption DEF NoRow, Row, Kind, Hash
  <2> QED  BY <1>2, <2>1, <2>2 DEF DeleteRows, D, Image
<1>4. Counted(R) /\ Orphans(R) = {}  BY <1>2, <1>3, SameBlobs DEF Whole
<1>5. Shape(R)
  <2>1. \A p \in Path : R.row[<<Live, p>>].kind # "unknown"
    BY <1>2, <1>3 DEF Whole, Shape, NoRow, Owner
  <2>2. \A o \in Saved, p \in Path : R.row[<<o, p>>] = img.row[<<o, p>>]
    BY <1>3, ImageAssumption DEF Owner, Saved
  <2>3. \A o \in Saved, p \in Path, i \in Idx :
          img.chunk[<<o, p, i>>] = NoPiece => R.chunk[<<o, p, i>>] = NoPiece
    BY <1>2, <1>3 DEF Key, Owner
  <2>4. Shape(img) /\ R.saved = img.saved  BY <1>2, <1>3 DEF Whole
  <2> HIDE DEF R
  <2> QED  BY <2>1, <2>2, <2>3, <2>4, SameSaved
<1>6. \A p \in P, i \in Idx : R.chunk[<<Live, p, i>>] = NoPiece
  BY <1>2, <1>3 DEF Rows, Key, Owner
<1>7. \A o \in Saved, p \in Path : R.row[<<o, p>>] = img.row[<<o, p>>]
  BY <1>3, ImageAssumption DEF Owner, Saved
<1> QED  BY <1>2, <1>3, <1>4, <1>5, <1>6, <1>7 DEF Whole

\* Writing a vm_fs row of the live tree.
LEMMA SetRowWhole ==
  ASSUME NEW img, Whole(img), NEW p \in Path, NEW r \in Row, r.kind # "unknown"
  PROVE  Whole(SetRow(img, p, r))
<1> DEFINE R == SetRow(img, p, r)
<1>1. /\ R.chunk = img.chunk /\ R.blobs = img.blobs /\ R.refcnt = img.refcnt
      /\ R.saved = img.saved /\ R \in Image
      /\ R.row = [img.row EXCEPT ![<<Live, p>>] = r]
  BY DEF SetRow, Whole, Image
<1>2. Counted(R) /\ Orphans(R) = {}  BY <1>1, SameBlobs DEF Whole
<1>3. Shape(R)
  <2>0. img.row \in [Owner \X Path -> Row]  BY DEF Whole, Image
  <2>1. \A o \in Saved, q \in Path : R.row[<<o, q>>] = img.row[<<o, q>>]
    BY <1>1, <2>0, ImageAssumption DEF Owner, Saved
  <2>2. \A q \in Path : R.row[<<Live, q>>] = IF q = p THEN r ELSE img.row[<<Live, q>>]
    BY <1>1, <2>0 DEF Owner
  <2> HIDE DEF R
  <2> QED  BY <1>1, <2>1, <2>2, SameSaved DEF Whole, Shape
<1> QED  BY <1>1, <1>2, <1>3 DEF Whole

\* A file's chunk list is a function from its first chunks to pieces.
LEMMA PiecesType ==
  ASSUME NEW f \in Pieces
  PROVE  /\ DOMAIN f \subseteq Idx
         /\ f \in [DOMAIN f -> Piece]
         /\ Cardinality(DOMAIN f) \in 0 .. MaxChunks
         /\ Sha(f) \in Hash
<1>1. PICK n \in 0 .. MaxChunks : f \in [0 .. (n - 1) -> Piece]  BY DEF Pieces
<1>2. DOMAIN f = 0 .. (n - 1)  BY <1>1
<1>3. DOMAIN f \subseteq Idx  BY <1>1, <1>2, ImageAssumption DEF Idx
<1>4. Cardinality(DOMAIN f) = IF 0 > n - 1 THEN 0 ELSE n - 1 - 0 + 1
  BY <1>1, <1>2, FS_Interval, ImageAssumption
<1>5. Sha(f) \in [Idx -> PieceOrNone]  BY <1>1, <1>2 DEF Sha, PieceOrNone
<1> QED  BY <1>1, <1>2, <1>3, <1>4, <1>5, ImageAssumption DEF Hash

\* chunks_replace: the old rows go before the new blobs are stored, so a blob
\* the file keeps may be dropped and stored again.
LEMMA ChunksReplaceWhole ==
  ASSUME NEW img, Whole(img), NEW p \in Path, NEW f \in Pieces
  PROVE  Whole(ChunksReplace(img, p, f))
<1> DEFINE K == Rows(Live, {p})
           D == DeleteChunks(img, K)
           B == {f[i] : i \in DOMAIN f}
           E == BlobEnsure(D, B)
           N == {Live} \X {p} \X DOMAIN f
           new == [k \in N |-> f[k[3]]]
           J == InsertChunks(E, new)
<1>0. DOMAIN f \subseteq Idx /\ f \in [DOMAIN f -> Piece]  BY PiecesType
<1>1. K \in SUBSET Key /\ \A k \in K : k[1] = Live  BY DEF Rows, Key, Owner
<1>2. /\ Whole(D)
      /\ D.chunk = [k \in Key |-> IF k \in K THEN NoPiece ELSE img.chunk[k]]
  BY <1>1, DeleteLiveWhole, DeleteChunksCounted DEF Whole
<1>3. B \in SUBSET Piece  BY <1>0
<1>4. N \in SUBSET K /\ new \in [N -> Piece]  BY <1>0 DEF Rows
<1>5. ASSUME NEW b \in B PROVE \E k \in N : new[k] = b
  <2>1. PICK i \in DOMAIN f : b = f[i]  OBVIOUS
  <2>2. <<Live, p, i>> \in N /\ new[<<Live, p, i>>] = b  BY <2>1
  <2> QED  BY <2>2
<1>6. \A k \in N : new[k] \in B  OBVIOUS
<1>7. ChunksReplace(img, p, f) = J  BY DEF ChunksReplace
<1>8. \A o \in Saved, q \in Path, i \in Idx : <<o, q, i>> \notin N /\ <<o, q, i>> \in Key
  BY ImageAssumption DEF Saved, Key, Owner
<1> HIDE DEF K, D, B, N, new
<1>9. /\ E \in Image /\ Counted(E) /\ E.blobs = D.blobs \cup B
      /\ Orphans(E) \subseteq Orphans(D) \cup B
      /\ E.chunk = D.chunk /\ E.row = D.row /\ E.dirty = D.dirty /\ E.saved = D.saved
  BY <1>2, <1>3, BlobEnsureCounted DEF Whole
<1> HIDE DEF E
<1>10. \A k \in N : new[k] \in E.blobs /\ E.chunk[k] = NoPiece
  BY <1>1, <1>2, <1>4, <1>6, <1>9
<1>11. /\ J \in Image /\ Counted(J)
       /\ Orphans(J) \subseteq Orphans(E) \ {new[k] : k \in N}
       /\ J.chunk = [k \in Key |-> IF k \in N THEN new[k] ELSE E.chunk[k]]
       /\ J.row = E.row /\ J.saved = E.saved
  <2>1. N \in SUBSET Key  BY <1>1, <1>4
  <2> QED  BY <2>1, <1>4, <1>9, <1>10, InsertChunksCounted
<1> HIDE DEF J
<1>12. Orphans(J) = {}  BY <1>2, <1>5, <1>9, <1>11 DEF Whole
<1>13. Shape(J)
  <2>1. \A o \in Saved, q \in Path, i \in Idx :
          D.chunk[<<o, q, i>>] = NoPiece => J.chunk[<<o, q, i>>] = NoPiece
    BY <1>8, <1>9, <1>11
  <2>2. Shape(D) /\ J.saved = D.saved /\ J.row = D.row  BY <1>2, <1>9, <1>11 DEF Whole
  <2>3. \A q \in Path : J.row[<<Live, q>>].kind # "unknown"  BY <2>2 DEF Shape
  <2> QED  BY <2>1, <2>2, <2>3, SameSaved
<1> QED  BY <1>7, <1>11, <1>12, <1>13 DEF Whole

\* vm_add_bytes and the file case of sync_one.
LEMMA FsPutFileWhole ==
  ASSUME NEW img, Whole(img), NEW p \in Path, NEW f \in Pieces
  PROVE  Whole(FsPutFile(img, p, f))
<1> DEFINE r == [kind |-> "file", size |-> Cardinality(DOMAIN f), hash |-> Sha(f)]
<1>1. r \in Row /\ r.kind # "unknown"  BY PiecesType DEF Row, Kind
<1>2. Whole(ChunksReplace(img, p, f))  BY ChunksReplaceWhole
<1> QED  BY <1>1, <1>2, SetRowWhole DEF FsPutFile

\* Directories and symlinks.
LEMMA FsPutNodeWhole ==
  ASSUME NEW img, Whole(img), NEW p \in Path, NEW k \in {"dir", "symlink"}
  PROVE  Whole(FsPutNode(img, p, k))
<1> DEFINE r == [kind |-> k, size |-> 0, hash |-> NoHash]
<1>1. r \in Row /\ r.kind # "unknown"  BY ImageAssumption DEF Row, Kind, Hash
<1>2. Rows(Live, {p}) \in SUBSET Key /\ \A x \in Rows(Live, {p}) : x[1] = Live
  BY DEF Rows, Key, Owner
<1>3. Whole(DeleteChunks(img, Rows(Live, {p})))  BY <1>2, DeleteLiveWhole
<1> QED  BY <1>1, <1>3, SetRowWhole DEF FsPutNode

\* put_chunk: the blob is stored before the old row goes, and survives it
\* because the old row names another one.
LEMMA PutChunkWhole ==
  ASSUME NEW img, Whole(img), NEW p \in Path, NEW i \in Idx, NEW b \in Piece
  PROVE  Whole(PutChunk(img, p, i, b))
<1> DEFINE k == <<Live, p, i>>
           E == BlobEnsure(img, {b})
           D == DeleteChunks(E, {k})
           new == [r \in {k} |-> b]
           J == InsertChunks(D, new)
<1>1. CASE img.chunk[k] = b  BY <1>1 DEF PutChunk
<1>2. CASE img.chunk[k] # b
  <2>1. PutChunk(img, p, i, b) = J  BY <1>2 DEF PutChunk
  <2>2. {k} \in SUBSET Key /\ new \in [{k} -> Piece] /\ new[k] = b
        /\ \A o \in Saved, q \in Path, j \in Idx : <<o, q, j>> # k /\ <<o, q, j>> \in Key
    BY ImageAssumption DEF Key, Owner, Saved
  <2> HIDE DEF k, new
  <2>3. /\ E \in Image /\ Counted(E) /\ E.blobs = img.blobs \cup {b}
        /\ Orphans(E) \subseteq Orphans(img) \cup {b}
        /\ b \in Orphans(E) \/ Refs(img, b) # {}
        /\ E.chunk = img.chunk /\ E.row = img.row /\ E.saved = img.saved
    BY BlobEnsureCounted DEF Whole
  <2> HIDE DEF E
  <2>4. /\ D \in Image /\ Counted(D) /\ Orphans(D) \subseteq Orphans(E)
        /\ Orphans(E) \subseteq D.blobs
        /\ D.chunk = [x \in Key |-> IF x \in {k} THEN NoPiece ELSE E.chunk[x]]
        /\ D.row = E.row /\ D.saved = E.saved
    BY <2>2, <2>3, DeleteChunksCounted
  <2> HIDE DEF D
  <2>5. b \in D.blobs
    <3>1. CASE b \in Orphans(E)  BY <3>1, <2>4
    <3>2. CASE Refs(img, b) # {}
      <4>1. PICK x \in Key : img.chunk[x] = b  BY <3>2 DEF Refs
      <4>2. D.chunk[x] = b  BY <4>1, <1>2, <2>3, <2>4 DEF k
      <4> QED  BY <4>2, <2>4, ChunkStored, ImageAssumption
    <3> QED  BY <3>1, <3>2, <2>3
  <2>6. \A x \in {k} : new[x] \in D.blobs /\ D.chunk[x] = NoPiece
    BY <2>2, <2>4, <2>5
  <2>7. /\ J \in Image /\ Counted(J)
        /\ Orphans(J) \subseteq Orphans(D) \ {new[x] : x \in {k}}
        /\ J.chunk = [x \in Key |-> IF x \in {k} THEN new[x] ELSE D.chunk[x]]
        /\ J.row = D.row /\ J.saved = D.saved
    BY <2>2, <2>4, <2>6, InsertChunksCounted
  <2> HIDE DEF J
  <2>8. Orphans(J) = {}  BY <2>2, <2>3, <2>4, <2>7 DEF Whole
  <2>9. Shape(J)
    <3>1. \A o \in Saved, q \in Path, j \in Idx :
            img.chunk[<<o, q, j>>] = NoPiece => J.chunk[<<o, q, j>>] = NoPiece
      BY <2>2, <2>3, <2>4, <2>7
    <3>2. \A q \in Path : J.row[<<Live, q>>].kind # "unknown"
      BY <2>3, <2>4, <2>7 DEF Whole, Shape
    <3> QED  BY <2>3, <2>4, <2>7, <3>1, <3>2, SameSaved DEF Whole
  <2> QED  BY <2>1, <2>7, <2>8, <2>9 DEF Whole
<1> QED  BY <1>1, <1>2

\* Recording a deferred write.
LEMMA MarkDirtyWhole ==
  ASSUME NEW img, Whole(img), NEW p \in Path, NEW n \in 0 .. MaxChunks
  PROVE  Whole(MarkDirty(img, p, n))
<1> DEFINE M == MarkDirty(img, p, n)
<1>0. img.row \in [Owner \X Path -> Row] /\ <<Live, p>> \in Owner \X Path
  BY DEF Whole, Image, Owner
<1>1. /\ M.chunk = img.chunk /\ M.blobs = img.blobs /\ M.refcnt = img.refcnt
      /\ M.saved = img.saved
      /\ M.row = [img.row EXCEPT ![<<Live, p>>] = [@ EXCEPT !.size = n]]
  BY DEF MarkDirty, Whole, Image
<1>2. [img.row[<<Live, p>>] EXCEPT !.size = n] \in Row  BY <1>0 DEF Row
<1>3. M \in Image
  <2>1. M.row \in [Owner \X Path -> Row]  BY <1>0, <1>1, <1>2
  <2> QED  BY <2>1 DEF MarkDirty, Whole, Image
<1>4. Counted(M) /\ Orphans(M) = {}  BY <1>1, SameBlobs DEF Whole
<1>5. Shape(M)
  <2>1. \A q \in Path : M.row[<<Live, q>>].kind = img.row[<<Live, q>>].kind
    BY <1>0, <1>1 DEF Owner, Row
  <2>2. \A o \in Saved, q \in Path : M.row[<<o, q>>] = img.row[<<o, q>>]
    BY <1>0, <1>1, ImageAssumption DEF Owner, Saved
  <2>3. Shape(img)  BY DEF Whole
  <2>4. \A q \in Path : M.row[<<Live, q>>].kind # "unknown"  BY <2>1, <2>3 DEF Shape
  <2> HIDE DEF M
  <2> QED  BY <1>1, <2>2, <2>3, <2>4, SameSaved
<1> QED  BY <1>3, <1>4, <1>5 DEF Whole

\* finalize_file.
LEMMA FinalizeFileWhole ==
  ASSUME NEW img, Whole(img), NEW p \in Path
  PROVE  Whole(FinalizeFile(img, p))
<1> DEFINE h == WholeFileHash(img, p)
           M == [img EXCEPT !.row[<<Live, p>>].hash = h, !.dirty = @ \ {p}]
<1>0. img.row \in [Owner \X Path -> Row] /\ <<Live, p>> \in Owner \X Path
  BY DEF Whole, Image, Owner
<1>h. h \in Hash
  <2>1. img.chunk \in [Key -> PieceOrNone]  BY DEF Whole, Image
  <2>2. \A i \in Idx : img.chunk[<<Live, p, i>>] \in PieceOrNone  BY <2>1 DEF Key, Owner
  <2> QED  BY <2>2 DEF WholeFileHash, Hash, PieceOrNone
<1> HIDE DEF h
<1>1. /\ M.chunk = img.chunk /\ M.blobs = img.blobs /\ M.refcnt = img.refcnt
      /\ M.saved = img.saved
      /\ M.row = [img.row EXCEPT ![<<Live, p>>] = [@ EXCEPT !.hash = h]]
  BY DEF Whole, Image
<1>2. [img.row[<<Live, p>>] EXCEPT !.hash = h] \in Row  BY <1>0, <1>h DEF Row
<1>3. M \in Image
  <2>1. M.row \in [Owner \X Path -> Row]  BY <1>0, <1>1, <1>2
  <2> QED  BY <2>1 DEF Whole, Image
<1>4. Counted(M) /\ Orphans(M) = {}  BY <1>1, SameBlobs DEF Whole
<1>5. Shape(M)
  <2>1. \A q \in Path : M.row[<<Live, q>>].kind = img.row[<<Live, q>>].kind
    BY <1>0, <1>1 DEF Owner, Row
  <2>2. \A o \in Saved, q \in Path : M.row[<<o, q>>] = img.row[<<o, q>>]
    BY <1>0, <1>1, ImageAssumption DEF Owner, Saved
  <2>3. Shape(img)  BY DEF Whole
  <2>4. \A q \in Path : M.row[<<Live, q>>].kind # "unknown"  BY <2>1, <2>3 DEF Shape
  <2> HIDE DEF M
  <2> QED  BY <1>1, <2>2, <2>3, <2>4, SameSaved
<1>6. Whole(M)  BY <1>3, <1>4, <1>5 DEF Whole
<1> QED  BY <1>6 DEF FinalizeFile, h

\* rename(2) on a mount moves every chunk row of p to q, whose own are gone.
LEMMA RenameFileWhole ==
  ASSUME NEW img, Whole(img), NEW p \in Path, NEW q \in Path, p # q
  PROVE  Whole(RenameFile(img, p, q))
<1> DEFINE base == DeleteRows(img, {q})
           from(k) == IF k[1] # Live THEN k
                      ELSE IF k[2] = q THEN <<Live, p, k[3]>> ELSE k
           M == RenameFile(img, p, q)
<1>1. /\ Whole(base)
      /\ base.saved = img.saved
      /\ \A i \in Idx : base.chunk[<<Live, q, i>>] = NoPiece
  <2>1. {q} \in SUBSET Path /\ q \in {q}  OBVIOUS
  <2>2. /\ Whole(base)
        /\ base.saved = img.saved
        /\ \A x \in {q}, i \in Idx : base.chunk[<<Live, x, i>>] = NoPiece
    BY <2>1, DeleteRowsWhole
  <2> QED  BY <2>2
<1> HIDE DEF base
<1>2. /\ M.chunk = [k \in Key |-> IF k[1] = Live /\ k[2] = p THEN NoPiece ELSE base.chunk[from(k)]]
      /\ M.blobs = base.blobs /\ M.refcnt = base.refcnt /\ M.saved = base.saved
      /\ M.row = [k \in Owner \X Path |->
                    IF k = <<Live, p>> THEN NoRow
                    ELSE IF k = <<Live, q>> THEN base.row[<<Live, p>>] ELSE base.row[k]]
      /\ M.dirty = IF p \in base.dirty THEN (base.dirty \ {p}) \cup {q} ELSE base.dirty
  BY <1>1 DEF RenameFile, base, Whole, Image
<1>3. M \in Image
  <2>0. base \in Image  BY <1>1 DEF Whole
  <2>1. M.chunk \in [Key -> PieceOrNone]
    <3>1. \A k \in Key : from(k) \in Key  BY DEF Key, Owner
    <3> QED  BY <1>2, <2>0, <3>1 DEF Image, PieceOrNone
  <2>2. M.row \in [Owner \X Path -> Row]
    <3>1. NoRow \in Row /\ <<Live, p>> \in Owner \X Path
      BY ImageAssumption DEF NoRow, Row, Kind, Hash, Owner
    <3> QED  BY <1>2, <2>0, <3>1 DEF Image
  <2>3. M.dirty \in SUBSET Path  BY <1>2, <2>0 DEF Image
  <2> QED  BY <1>1, <1>2, <2>0, <2>1, <2>2, <2>3 DEF RenameFile, base, Image
<1>4. ASSUME NEW b \in Piece
      PROVE  /\ Cardinality(Refs(M, b)) = Cardinality(Refs(base, b))
             /\ Refs(M, b) = {} <=> Refs(base, b) = {}
  <2> DEFINE to(k) == IF k[1] = Live /\ k[2] = p THEN <<Live, q, k[3]>> ELSE k
             g == [k \in Refs(base, b) |-> to(k)]
  <2>1. ASSUME NEW k \in Refs(base, b)
        PROVE  k \in Key /\ to(k) \in Refs(M, b) /\ from(to(k)) = k
    <3>1. k \in Key /\ base.chunk[k] = b  BY DEF Refs
    <3>2. k = <<k[1], k[2], k[3]>> /\ k[1] \in Owner /\ k[2] \in Path /\ k[3] \in Idx
      BY <3>1 DEF Key
    <3>3. ~(k[1] = Live /\ k[2] = q)  BY <1>1, <3>1, <3>2, ImageAssumption
    <3>4. to(k) \in Key /\ from(to(k)) = k /\ ~(to(k)[1] = Live /\ to(k)[2] = p)
      BY <3>2, <3>3 DEF Key, Owner
    <3>5. M.chunk[to(k)] = b  BY <1>2, <3>1, <3>4
    <3> QED  BY <3>1, <3>4, <3>5 DEF Refs
  <2>2. ASSUME NEW m \in Refs(M, b)
        PROVE  from(m) \in Refs(base, b) /\ to(from(m)) = m
    <3>1. m \in Key /\ M.chunk[m] = b  BY DEF Refs
    <3>2. m = <<m[1], m[2], m[3]>> /\ m[1] \in Owner /\ m[2] \in Path /\ m[3] \in Idx
      BY <3>1 DEF Key
    <3>3. ~(m[1] = Live /\ m[2] = p) /\ base.chunk[from(m)] = b
      BY <1>2, <3>1, ImageAssumption
    <3>4. from(m) \in Key /\ to(from(m)) = m  BY <3>2, <3>3 DEF Key, Owner
    <3> QED  BY <3>3, <3>4 DEF Refs
  <2>3. g \in Bijection(Refs(base, b), Refs(M, b))
    <3>1. g \in [Refs(base, b) -> Refs(M, b)]  BY <2>1
    <3>2. \A x, y \in Refs(base, b) : g[x] = g[y] => x = y
      <4> SUFFICES ASSUME NEW x \in Refs(base, b), NEW y \in Refs(base, b), to(x) = to(y)
                   PROVE  x = y
        OBVIOUS
      <4>1. from(to(x)) = x /\ from(to(y)) = y  BY <2>1
      <4> HIDE DEF from, to
      <4> QED  BY <4>1
    <3>3. \A m \in Refs(M, b) : \E x \in Refs(base, b) : g[x] = m  BY <2>2
    <3> QED  BY <3>1, <3>2, <3>3 DEF Bijection, Injection, Surjection, IsInjective
  <2>4. IsFiniteSet(Refs(base, b))  BY KeySubset DEF Refs
  <2>5. ExistsBijection(Refs(base, b), Refs(M, b))  BY <2>3 DEF ExistsBijection
  <2>6. Cardinality(Refs(M, b)) = Cardinality(Refs(base, b))
    BY <2>4, <2>5, FS_Bijection
  <2> QED  BY <2>1, <2>2, <2>6
<1>5. Counted(M)  BY <1>1, <1>2, <1>4 DEF Counted, Whole
<1>6. Orphans(M) = {}
  <2>1. \A b \in M.blobs : b \in Piece /\ b \in base.blobs  BY <1>2, <1>3 DEF Image
  <2> HIDE DEF M
  <2> QED  BY <1>1, <1>4, <2>1 DEF Orphans, Whole
<1>7. Shape(M)
  <2>1. Shape(base) /\ M.saved = base.saved  BY <1>1, <1>2 DEF Whole
  <2>2. \A x \in Path : M.row[<<Live, x>>].kind # "unknown"
    BY <1>2, <2>1 DEF Shape, NoRow, Owner
  <2>3. \A o \in Saved, x \in Path : M.row[<<o, x>>] = base.row[<<o, x>>]
    BY <1>2, ImageAssumption DEF Owner, Saved
  <2>4. \A o \in Saved, x \in Path, i \in Idx :
          base.chunk[<<o, x, i>>] = NoPiece => M.chunk[<<o, x, i>>] = NoPiece
    BY <1>2, ImageAssumption DEF Key, Owner, Saved
  <2> HIDE DEF M
  <2> QED  BY <2>1, <2>2, <2>3, <2>4, SameSaved
<1> QED  BY <1>3, <1>5, <1>6, <1>7 DEF Whole

\* undo_capture: the first write to a path copies it, later ones do not.
LEMMA UndoCaptureWhole ==
  ASSUME NEW img, Whole(img), NEW u \in Undo \cup {NoUndo}, NEW p \in Path
  PROVE  Whole(UndoCapture(img, u, p))
<1> DEFINE r == img.row[<<Live, p>>]
           T == [img EXCEPT !.row[<<u, p>>] = r]
           C == CopyChunks(T, Live, u, {p})
<1>1. CASE u = NoUndo \/ img.row[<<u, p>>].kind # "unknown"  BY <1>1 DEF UndoCapture
<1>2. CASE u # NoUndo /\ img.row[<<u, p>>].kind = "unknown"
  <2>1. UndoCapture(img, u, p) = C  BY <1>2 DEF UndoCapture
  <2>2. /\ u \in Undo /\ u \in Owner /\ u \in Saved /\ u # Live /\ u \notin Snap
        /\ Live \in Owner /\ <<Live, p>> \in Owner \X Path /\ <<u, p>> \in Owner \X Path
    BY <1>2, ImageAssumption DEF Owner, Saved
  <2>3. img \in Image /\ Shape(img)  BY DEF Whole
  <2>4. r \in Row /\ r.kind # "unknown"  BY <2>2, <2>3 DEF Image, Shape
  <2> HIDE DEF r
  <2>5. /\ T.chunk = img.chunk /\ T.blobs = img.blobs /\ T.refcnt = img.refcnt
        /\ T.saved = img.saved /\ T \in Image
        /\ T.row = [img.row EXCEPT ![<<u, p>>] = r]
    BY <2>2, <2>3, <2>4 DEF Image
  <2>6. Counted(T) /\ Orphans(T) = {}  BY <2>5, SameBlobs DEF Whole
  <2> HIDE DEF T
  <2>7. \A x \in {p}, i \in Idx : T.chunk[<<u, x, i>>] = NoPiece
    BY <1>2, <2>2, <2>3, <2>5 DEF Shape
  <2>8. /\ C \in Image /\ Counted(C) /\ Orphans(C) \subseteq Orphans(T)
        /\ C.chunk = [k \in Key |-> IF k[1] = u /\ k[2] \in {p}
                                    THEN T.chunk[<<Live, k[2], k[3]>>] ELSE T.chunk[k]]
        /\ C.row = T.row /\ C.saved = T.saved
    BY <2>2, <2>5, <2>6, <2>7, CopyChunksCounted
  <2> HIDE DEF C
  <2>9. Shape(C)
    <3>1. \A o \in Owner, x \in Path :
            C.row[<<o, x>>] = IF o = u /\ x = p THEN r ELSE img.row[<<o, x>>]
      BY <2>3, <2>5, <2>8 DEF Image
    <3>2. \A x \in Path : C.row[<<Live, x>>].kind # "unknown"
      BY <2>2, <2>3, <2>4, <3>1 DEF Shape
    <3>3. ASSUME NEW s \in Snap, NEW x \in Path
          PROVE  C.row[<<s, x>>].kind = "unknown" <=> s \notin C.saved
      <4>1. s \in Owner /\ s # u  BY <2>2 DEF Owner, Saved
      <4>2. C.row[<<s, x>>] = img.row[<<s, x>>] /\ C.saved = img.saved
        BY <2>5, <2>8, <3>1, <4>1
      <4> QED  BY <2>3, <4>2 DEF Shape
    <3>4. ASSUME NEW o \in Saved, NEW x \in Path, C.row[<<o, x>>].kind = "unknown", NEW i \in Idx
          PROVE  C.chunk[<<o, x, i>>] = NoPiece
      <4>1. ~(o = u /\ x = p) /\ img.row[<<o, x>>].kind = "unknown"
        BY <2>4, <3>1, <3>4 DEF Owner
      <4>2. <<o, x, i>> \in Key  BY DEF Key, Owner
      <4>3. C.chunk[<<o, x, i>>] = img.chunk[<<o, x, i>>]  BY <2>5, <2>8, <4>1, <4>2
      <4> QED  BY <2>3, <4>1, <4>3 DEF Shape
    <3> QED  BY <3>2, <3>3, <3>4 DEF Shape
  <2> QED  BY <2>1, <2>6, <2>8, <2>9 DEF Whole
<1> QED  BY <1>1, <1>2

\* The record taken by snapshot_create: all rows and all chunk references.
LEMMA SnapshotTakeWhole ==
  ASSUME NEW img, Whole(img), NEW s \in Snap, s \notin img.saved
  PROVE  Whole(SnapshotTake(img, s))
<1> DEFINE A == [img EXCEPT !.saved = @ \cup {s}]
           T == CopyRows(A, Live, s, Path)
           C == CopyChunks(T, Live, s, Path)
<1>1. SnapshotTake(img, s) = C  BY DEF SnapshotTake
<1>2. s \in Owner /\ s \in Saved /\ s # Live /\ Live \in Owner
  BY ImageAssumption DEF Owner, Saved
<1>3. img \in Image /\ Shape(img)  BY DEF Whole
<1>4. /\ T.chunk = img.chunk /\ T.blobs = img.blobs /\ T.refcnt = img.refcnt
      /\ T.saved = img.saved \cup {s} /\ T \in Image
      /\ T.row = [k \in Owner \X Path |-> IF k[1] = s THEN img.row[<<Live, k[2]>>] ELSE img.row[k]]
  <2>1. /\ A.chunk = img.chunk /\ A.blobs = img.blobs /\ A.refcnt = img.refcnt
        /\ A.saved = img.saved \cup {s} /\ A.row = img.row /\ A \in Image
    BY <1>2, <1>3 DEF Image
  <2> HIDE DEF A
  <2>2. T = [A EXCEPT !.row = [k \in Owner \X Path |->
               IF k[1] = s /\ k[2] \in Path THEN A.row[<<Live, k[2]>>] ELSE A.row[k]]]
    BY DEF CopyRows
  <2>3. [k \in Owner \X Path |->
               IF k[1] = s /\ k[2] \in Path THEN A.row[<<Live, k[2]>>] ELSE A.row[k]]
        = [k \in Owner \X Path |-> IF k[1] = s THEN img.row[<<Live, k[2]>>] ELSE img.row[k]]
    BY <2>1
  <2>4. [k \in Owner \X Path |-> IF k[1] = s THEN img.row[<<Live, k[2]>>] ELSE img.row[k]]
          \in [Owner \X Path -> Row]
    BY <1>2, <1>3 DEF Image
  <2> HIDE DEF T
  <2> QED  BY <2>1, <2>2, <2>3, <2>4 DEF Image
<1>5. Counted(T) /\ Orphans(T) = {}  BY <1>4, SameBlobs DEF Whole
<1> HIDE DEF T
<1>6. \A x \in Path, i \in Idx : T.chunk[<<s, x, i>>] = NoPiece
  <2>1. \A x \in Path : img.row[<<s, x>>].kind = "unknown"  BY <1>3 DEF Shape
  <2>2. \A x \in Path, i \in Idx : img.chunk[<<s, x, i>>] = NoPiece
    BY <1>2, <1>3, <2>1 DEF Shape
  <2> QED  BY <1>4, <2>2
<1>7. /\ C \in Image /\ Counted(C) /\ Orphans(C) \subseteq Orphans(T)
      /\ C.chunk = [k \in Key |-> IF k[1] = s /\ k[2] \in Path
                                  THEN T.chunk[<<Live, k[2], k[3]>>] ELSE T.chunk[k]]
      /\ C.row = T.row /\ C.saved = T.saved
  <2>1. Path \in SUBSET Path  OBVIOUS
  <2> QED  BY <1>2, <1>4, <1>5, <1>6, <2>1, CopyChunksCounted
<1> HIDE DEF C
<1>8. Shape(C)
  <2>1. \A o \in Owner, x \in Path :
          C.row[<<o, x>>] = IF o = s THEN img.row[<<Live, x>>] ELSE img.row[<<o, x>>]
    BY <1>4, <1>7
  <2>2. \A x \in Path : C.row[<<Live, x>>].kind # "unknown" /\ C.row[<<s, x>>].kind # "unknown"
    BY <1>2, <1>3, <2>1 DEF Shape
  <2>3. ASSUME NEW t \in Snap, NEW x \in Path
        PROVE  C.row[<<t, x>>].kind = "unknown" <=> t \notin C.saved
    <3>1. CASE t = s  BY <3>1, <2>2, <1>4, <1>7
    <3>2. CASE t # s
      <4>1. t \in Owner  BY DEF Owner, Saved
      <4>2. C.row[<<t, x>>] = img.row[<<t, x>>] /\ (t \in C.saved <=> t \in img.saved)
        BY <3>2, <4>1, <2>1, <1>4, <1>7
      <4> QED  BY <1>3, <4>2 DEF Shape
    <3> QED  BY <3>1, <3>2
  <2>4. ASSUME NEW o \in Saved, NEW x \in Path, C.row[<<o, x>>].kind = "unknown", NEW i \in Idx
        PROVE  C.chunk[<<o, x, i>>] = NoPiece
    <3>1. o # s /\ img.row[<<o, x>>].kind = "unknown"  BY <2>1, <2>2, <2>4 DEF Owner
    <3>2. <<o, x, i>> \in Key  BY DEF Key, Owner
    <3>3. C.chunk[<<o, x, i>>] = img.chunk[<<o, x, i>>]  BY <1>4, <1>7, <3>1, <3>2
    <3> QED  BY <1>3, <3>1, <3>3 DEF Shape
  <2> QED  BY <2>2, <2>3, <2>4 DEF Shape
<1> QED  BY <1>1, <1>5, <1>7, <1>8 DEF Whole

\* Putting recorded rows back: the live rows of E are free and the record o
\* covers every path of E.
LEMMA PutBackWhole ==
  ASSUME NEW bare, Whole(bare), NEW o \in Saved, NEW E \in SUBSET Path,
         \A p \in E : bare.row[<<o, p>>].kind # "unknown",
         \A p \in E, i \in Idx : bare.chunk[<<Live, p, i>>] = NoPiece
  PROVE  Whole(CopyChunks(CopyRows(bare, o, Live, E), o, Live, E))
<1> DEFINE T == CopyRows(bare, o, Live, E)
           C == CopyChunks(T, o, Live, E)
<1>2. o \in Owner /\ o # Live /\ Live \in Owner  BY ImageAssumption DEF Owner, Saved
<1>3. bare \in Image /\ Shape(bare)  BY DEF Whole
<1>4. /\ T.chunk = bare.chunk /\ T.blobs = bare.blobs /\ T.refcnt = bare.refcnt
      /\ T.saved = bare.saved /\ T \in Image
      /\ T.row = [k \in Owner \X Path |-> IF k[1] = Live /\ k[2] \in E
                                          THEN bare.row[<<o, k[2]>>] ELSE bare.row[k]]
  <2>1. [k \in Owner \X Path |-> IF k[1] = Live /\ k[2] \in E
                                 THEN bare.row[<<o, k[2]>>] ELSE bare.row[k]]
          \in [Owner \X Path -> Row]
    BY <1>2, <1>3 DEF Image
  <2> QED  BY <1>3, <2>1 DEF CopyRows, Image
<1>5. Counted(T) /\ Orphans(T) = {}  BY <1>4, SameBlobs DEF Whole
<1> HIDE DEF T
<1>6. \A x \in E, i \in Idx : T.chunk[<<Live, x, i>>] = NoPiece  BY <1>4
<1>7. /\ C \in Image /\ Counted(C) /\ Orphans(C) \subseteq Orphans(T)
      /\ C.chunk = [k \in Key |-> IF k[1] = Live /\ k[2] \in E
                                  THEN T.chunk[<<o, k[2], k[3]>>] ELSE T.chunk[k]]
      /\ C.row = T.row /\ C.saved = T.saved
  BY <1>2, <1>4, <1>5, <1>6, CopyChunksCounted
<1> HIDE DEF C
<1>8. Shape(C)
  <2>1. \A x \in Path : C.row[<<Live, x>>].kind # "unknown"
    BY <1>2, <1>3, <1>4, <1>7 DEF Shape
  <2>2. \A t \in Saved, x \in Path : C.row[<<t, x>>] = bare.row[<<t, x>>]
    BY <1>4, <1>7, ImageAssumption DEF Owner, Saved
  <2>3. \A t \in Saved, x \in Path, i \in Idx :
          bare.chunk[<<t, x, i>>] = NoPiece => C.chunk[<<t, x, i>>] = NoPiece
    BY <1>4, <1>7, ImageAssumption DEF Key, Owner, Saved
  <2>4. C.saved = bare.saved  BY <1>4, <1>7
  <2> QED  BY <1>3, <2>1, <2>2, <2>3, <2>4, SameSaved
<1> QED  BY <1>5, <1>7, <1>8 DEF Whole, C, T

\* snapshot_restore: everything live goes, then the snapshot's rows come back.
LEMMA SnapshotPutWhole ==
  ASSUME NEW img, Whole(img), NEW s \in Snap, s \in img.saved
  PROVE  Whole(SnapshotPut(img, s))
<1> DEFINE D == DeleteChunks(img, Rows(Live, Path))
           bare == DeleteRows(D, Path)
<1>1. Rows(Live, Path) \in SUBSET Key /\ \A k \in Rows(Live, Path) : k[1] = Live
  BY DEF Rows, Key, Owner
<1>2. Whole(D) /\ D.row = img.row /\ D.saved = img.saved
  BY <1>1, DeleteLiveWhole, DeleteChunksCounted DEF Whole
<1> HIDE DEF D
<1>3. /\ Whole(bare) /\ bare.saved = D.saved
      /\ \A p \in Path, i \in Idx : bare.chunk[<<Live, p, i>>] = NoPiece
  <2>1. Path \in SUBSET Path  OBVIOUS
  <2> QED  BY <1>2, <2>1, DeleteRowsWhole
<1> HIDE DEF bare
<1>4. s \in Saved /\ \A p \in Path : bare.row[<<s, p>>].kind # "unknown"
  BY <1>2, <1>3 DEF Whole, Shape, Saved
<1>5. Whole(CopyChunks(CopyRows(bare, s, Live, Path), s, Live, Path))
  <2>1. Path \in SUBSET Path  OBVIOUS
  <2> QED  BY <1>3, <1>4, <2>1, PutBackWhole
<1> QED  BY <1>5 DEF SnapshotPut, bare, D

\* undo_apply: every captured path goes, and those that existed come back.
LEMMA UndoPutWhole ==
  ASSUME NEW img, Whole(img), NEW u \in Undo
  PROVE  Whole(UndoPut(img, u))
<1> DEFINE P == {p \in Path : img.row[<<u, p>>].kind # "unknown"}
           E == {p \in P : img.row[<<u, p>>].kind # "none"}
           bare == DeleteRows(img, P)
<1>1. u \in Saved /\ u # Live /\ u \in Owner  BY ImageAssumption DEF Saved, Owner
<1>2. E \in SUBSET P /\ P \in SUBSET Path /\ E \in SUBSET Path
      /\ \A p \in P : img.row[<<u, p>>].kind # "unknown"
  OBVIOUS
<1>3. UndoPut(img, u) = CopyChunks(CopyRows(bare, u, Live, E), u, Live, E)
  BY DEF UndoPut
<1> HIDE DEF P, E
<1>4. /\ Whole(bare)
      /\ \A p \in Path : bare.row[<<u, p>>] = img.row[<<u, p>>]
      /\ \A p \in P, i \in Idx : bare.chunk[<<Live, p, i>>] = NoPiece
  BY <1>1, <1>2, DeleteRowsWhole
<1> HIDE DEF bare
<1>5. \A p \in E : bare.row[<<u, p>>].kind # "unknown"  BY <1>1, <1>2, <1>4
<1>6. \A p \in E, i \in Idx : bare.chunk[<<Live, p, i>>] = NoPiece  BY <1>2, <1>4
<1> QED  BY <1>1, <1>2, <1>3, <1>4, <1>5, <1>6, PutBackWhole

\* Deleting a snapshot or an undo record releases its references.
LEMMA DropSavedWhole ==
  ASSUME NEW img, Whole(img), NEW o \in Saved
  PROVE  Whole(DropSaved(img, o))
<1> DEFINE K == Rows(o, Path)
           D == DeleteChunks(img, K)
           M == DropSaved(img, o)
<1>1. K \in SUBSET Key /\ o # Live /\ o \in Owner
  BY ImageAssumption DEF Rows, Key, Owner, Saved
<1>2. /\ D \in Image /\ Counted(D) /\ Orphans(D) \subseteq Orphans(img)
      /\ D.chunk = [k \in Key |-> IF k \in K THEN NoPiece ELSE img.chunk[k]]
      /\ D.row = img.row /\ D.saved = img.saved
  BY <1>1, DeleteChunksCounted DEF Whole
<1> HIDE DEF D
<1>3. /\ M.chunk = D.chunk /\ M.blobs = D.blobs /\ M.refcnt = D.refcnt
      /\ M.saved = img.saved \ {o} /\ M \in Image
      /\ M.row = [k \in Owner \X Path |-> IF k[1] = o THEN Unknown ELSE img.row[k]]
  <2>1. Unknown \in Row  BY ImageAssumption DEF Unknown, Row, Kind, Hash
  <2> QED  BY <1>2, <2>1 DEF DropSaved, D, Image
<1>4. Counted(M) /\ Orphans(M) = {}  BY <1>2, <1>3, SameBlobs DEF Whole
<1> HIDE DEF M
<1>5. Shape(M)
  <2>0. Shape(img)  BY DEF Whole
  <2>1. \A t \in Owner, x \in Path :
          M.row[<<t, x>>] = IF t = o THEN Unknown ELSE img.row[<<t, x>>]
    BY <1>3
  <2>2. \A x \in Path : M.row[<<Live, x>>].kind # "unknown"
    BY <1>1, <2>0, <2>1 DEF Shape, Owner
  <2>3. ASSUME NEW t \in Snap, NEW x \in Path
        PROVE  M.row[<<t, x>>].kind = "unknown" <=> t \notin M.saved
    <3>1. t \in Owner  BY DEF Owner, Saved
    <3>2. CASE t = o  BY <3>1, <3>2, <2>1, <1>3 DEF Unknown
    <3>3. CASE t # o
      <4>1. M.row[<<t, x>>] = img.row[<<t, x>>] /\ (t \in M.saved <=> t \in img.saved)
        BY <3>1, <3>3, <2>1, <1>3
      <4> QED  BY <2>0, <4>1 DEF Shape
    <3> QED  BY <3>2, <3>3
  <2>4. ASSUME NEW t \in Saved, NEW x \in Path, M.row[<<t, x>>].kind = "unknown", NEW i \in Idx
        PROVE  M.chunk[<<t, x, i>>] = NoPiece
    <3>1. <<t, x, i>> \in Key  BY DEF Key, Owner
    <3>2. CASE t = o
      <4>1. <<t, x, i>> \in K  BY <3>2 DEF Rows
      <4> QED  BY <1>2, <1>3, <3>1, <4>1
    <3>3. CASE t # o
      <4>1. img.chunk[<<t, x, i>>] = NoPiece  BY <2>0, <2>1, <2>4, <3>3 DEF Shape, Owner
      <4> QED  BY <1>2, <1>3, <3>1, <4>1
    <3> QED  BY <3>2, <3>3
  <2> QED  BY <2>2, <2>3, <2>4 DEF Shape
<1> QED  BY <1>3, <1>4, <1>5 DEF Whole, M

\* Starting an undo record.
LEMMA UndoBeginWhole ==
  ASSUME NEW img, Whole(img), NEW u \in Undo
  PROVE  Whole([img EXCEPT !.saved = @ \cup {u}])
<1> DEFINE A == [img EXCEPT !.saved = @ \cup {u}]
<1>1. /\ A.chunk = img.chunk /\ A.blobs = img.blobs /\ A.refcnt = img.refcnt
      /\ A.saved = img.saved \cup {u} /\ A.row = img.row /\ A \in Image
  BY DEF Whole, Image, Saved
<1>2. Counted(A) /\ Orphans(A) = {}  BY <1>1, SameBlobs DEF Whole
<1> HIDE DEF A
<1>3. Shape(A)
  <2>1. \A s \in Snap : s # u  BY ImageAssumption
  <2> QED  BY <1>1, <2>1 DEF Whole, Shape
<1> QED  BY <1>1, <1>2, <1>3 DEF Whole, A

\* The empty database is whole.
LEMMA EmptyImageWhole == Whole(EmptyImage)
<1> DEFINE Z == EmptyImage
<1>1. /\ Z.chunk = [k \in Key |-> NoPiece] /\ Z.blobs = {} /\ Z.refcnt = [b \in Piece |-> 0]
      /\ Z.row = [k \in Owner \X Path |-> IF k[1] = Live THEN NoRow ELSE Unknown]
      /\ Z.saved = {} /\ Z.dirty = {}
  BY DEF EmptyImage
<1>2. Z \in Image
  <2>1. NoRow \in Row /\ Unknown \in Row
    BY ImageAssumption DEF NoRow, Unknown, Row, Kind, Hash
  <2> QED  BY <2>1 DEF EmptyImage, Image, PieceOrNone
<1>3. \A b \in Piece : Refs(Z, b) = {}  BY <1>1, ImageAssumption DEF Refs
<1>4. Counted(Z) /\ Orphans(Z) = {}  BY <1>1, <1>3, FS_EmptySet DEF Counted, Orphans
<1>5. Shape(Z)
  <2>1. \A p \in Path : Z.row[<<Live, p>>] = NoRow  BY <1>1 DEF Owner
  <2>2. \A o \in Saved, p \in Path : Z.row[<<o, p>>] = Unknown
    BY <1>1, ImageAssumption DEF Owner, Saved
  <2>3. \A o \in Saved, p \in Path, i \in Idx : Z.chunk[<<o, p, i>>] = NoPiece
    BY <1>1 DEF Key, Owner
  <2> HIDE DEF Z
  <2>4. \A p \in Path : Z.row[<<Live, p>>].kind # "unknown"  BY <2>1 DEF NoRow
  <2>5. ASSUME NEW s \in Snap, NEW p \in Path
        PROVE  Z.row[<<s, p>>].kind = "unknown" /\ s \notin Z.saved
    <3>1. s \in Saved  BY DEF Saved
    <3>2. Z.row[<<s, p>>] = Unknown /\ Z.saved = {}  BY <1>1, <2>2, <3>1
    <3> QED  BY <3>2 DEF Unknown
  <2> QED  BY <2>3, <2>4, <2>5 DEF Shape
<1> QED  BY <1>2, <1>4, <1>5 DEF Whole


-----------------------------------------------------------------------------
(* What the operations do to the entries of an image: the row and the content *)
(* an owner has at a path. *)

Entry(img, o, p) == <<img.row[<<o, p>>], Content(img, o, p)>>

Blank   == [i \in Idx |-> NoPiece]
NoEntry == <<NoRow, Blank>>

\* An image has its six tables.
Tabled(img) ==
  /\ img = [chunk |-> img.chunk, blobs |-> img.blobs, refcnt |-> img.refcnt,
            row |-> img.row, dirty |-> img.dirty, saved |-> img.saved]
  /\ img.row = [k \in Owner \X Path |-> img.row[k]]

\* Well-typed images have them.
LEMMA ImageTabled ==
  ASSUME NEW img \in Image
  PROVE  Tabled(img)
BY DEF Image, Tabled

\* Entries are equal when row and chunks are.
LEMMA EntryEqual ==
  ASSUME NEW img, NEW o, NEW p, NEW r, NEW c, c = [i \in Idx |-> c[i]],
         img.row[<<o, p>>] = r, \A i \in Idx : img.chunk[<<o, p, i>>] = c[i]
  PROVE  Entry(img, o, p) = <<r, c>>
BY DEF Entry, Content

\* The parts of an entry.
LEMMA EntryParts ==
  ASSUME NEW img, NEW o, NEW p
  PROVE  /\ Entry(img, o, p)[1] = img.row[<<o, p>>]
         /\ Entry(img, o, p)[2] = Content(img, o, p)
         /\ Content(img, o, p) = [i \in Idx |-> Content(img, o, p)[i]]
         /\ \A i \in Idx : Content(img, o, p)[i] = img.chunk[<<o, p, i>>]
BY DEF Entry, Content

\* Entries carry over when row and chunks do.
LEMMA EntrySame ==
  ASSUME NEW img, NEW o, NEW p, NEW new, NEW w, NEW q,
         new.row[<<w, q>>] = img.row[<<o, p>>],
         \A i \in Idx : new.chunk[<<w, q, i>>] = img.chunk[<<o, p, i>>]
  PROVE  Entry(new, w, q) = Entry(img, o, p)
BY DEF Entry, Content

\* Keys of chunk rows by their parts.
LEMMA KeyParts ==
  ASSUME NEW o \in Owner, NEW p \in Path, NEW i \in Idx
  PROVE  /\ <<o, p, i>> \in Key /\ <<o, p, i>>[1] = o /\ <<o, p, i>>[2] = p /\ <<o, p, i>>[3] = i
         /\ \A w, P : <<o, p, i>> \in Rows(w, P) <=> o = w /\ p \in P
BY DEF Key, Rows

\* Deleting chunk rows.
LEMMA DeleteChunksDoes ==
  ASSUME NEW img, Tabled(img), NEW K
  PROVE  LET D == DeleteChunks(img, K)
         IN  /\ Tabled(D) /\ D.row = img.row /\ D.dirty = img.dirty /\ D.saved = img.saved
             /\ \A k \in Key : D.chunk[k] = IF k \in K THEN NoPiece ELSE img.chunk[k]
<1> DEFINE Gone(b) == {k \in K : img.chunk[k] = b}
           kept == {b \in img.blobs : Gone(b) = {} \/ img.refcnt[b] > Cardinality(Gone(b))}
           cnt  == [b \in Piece |-> IF b \in kept THEN img.refcnt[b] - Cardinality(Gone(b)) ELSE 0]
           chk  == [k \in Key |-> IF k \in K THEN NoPiece ELSE img.chunk[k]]
           D == DeleteChunks(img, K)
<1>1. D = [img EXCEPT !.chunk = chk, !.blobs = kept, !.refcnt = cnt]  BY DEF DeleteChunks
<1> HIDE DEF kept, cnt, D
<1>2. D = [chunk |-> chk, blobs |-> kept, refcnt |-> cnt,
           row |-> img.row, dirty |-> img.dirty, saved |-> img.saved]
  <2> HIDE DEF chk
  <2> QED  BY <1>1 DEF Tabled
<1>3. \A k \in Key : chk[k] = IF k \in K THEN NoPiece ELSE img.chunk[k]  OBVIOUS
<1> HIDE DEF chk
<1>4. Tabled(D)  BY <1>2 DEF Tabled
<1> QED  BY <1>2, <1>3, <1>4 DEF D

\* Inserting chunk rows.
LEMMA InsertChunksDoes ==
  ASSUME NEW img, Tabled(img), NEW new
  PROVE  LET J == InsertChunks(img, new)
         IN  /\ Tabled(J) /\ J.row = img.row /\ J.dirty = img.dirty /\ J.saved = img.saved
             /\ \A k \in Key : J.chunk[k] = IF k \in DOMAIN new THEN new[k] ELSE img.chunk[k]
<1> DEFINE Added(b) == {k \in DOMAIN new : new[k] = b}
           cnt == [b \in Piece |-> IF b \in img.blobs
                                   THEN img.refcnt[b] + Cardinality(Added(b)) ELSE 0]
           chk == [k \in Key |-> IF k \in DOMAIN new THEN new[k] ELSE img.chunk[k]]
           J == InsertChunks(img, new)
<1>1. J = [img EXCEPT !.chunk = chk, !.refcnt = cnt]  BY DEF InsertChunks
<1> HIDE DEF cnt, J
<1>2. J = [chunk |-> chk, blobs |-> img.blobs, refcnt |-> cnt,
           row |-> img.row, dirty |-> img.dirty, saved |-> img.saved]
  <2> HIDE DEF chk
  <2> QED  BY <1>1 DEF Tabled
<1>3. \A k \in Key : chk[k] = IF k \in DOMAIN new THEN new[k] ELSE img.chunk[k]  OBVIOUS
<1> HIDE DEF chk
<1>4. Tabled(J)  BY <1>2 DEF Tabled
<1> QED  BY <1>2, <1>3, <1>4 DEF J

\* Copying chunk rows to keys that are free.
LEMMA CopyChunksDoes ==
  ASSUME NEW img, Tabled(img), NEW from \in Owner, NEW to \in Owner, NEW P \in SUBSET Path,
         \A p \in P, i \in Idx : img.chunk[<<to, p, i>>] = NoPiece
  PROVE  LET C == CopyChunks(img, from, to, P)
         IN  /\ Tabled(C) /\ C.row = img.row /\ C.dirty = img.dirty /\ C.saved = img.saved
             /\ \A o \in Owner, p \in Path, i \in Idx :
                  C.chunk[<<o, p, i>>] = IF o = to /\ p \in P THEN img.chunk[<<from, p, i>>]
                                         ELSE img.chunk[<<o, p, i>>]
<1> DEFINE N == {r \in Rows(to, P) : img.chunk[<<from, r[2], r[3]>>] # NoPiece}
<1> DEFINE new == [k \in N |-> img.chunk[<<from, k[2], k[3]>>]]
<1> DEFINE C == InsertChunks(img, new)
<1>1. CopyChunks(img, from, to, P) = C  BY DEF CopyChunks
<1>2. DOMAIN new = N /\ \A k \in N : new[k] = img.chunk[<<from, k[2], k[3]>>]  OBVIOUS
<1>3. ASSUME NEW o \in Owner, NEW p \in Path, NEW i \in Idx
      PROVE  <<o, p, i>> \in N <=> o = to /\ p \in P /\ img.chunk[<<from, p, i>>] # NoPiece
  <2>1. <<o, p, i>>[2] = p /\ <<o, p, i>>[3] = i
        /\ (<<o, p, i>> \in Rows(to, P) <=> o = to /\ p \in P)
    BY KeyParts
  <2> QED  BY <2>1
<1> HIDE DEF N, new
<1>4. /\ Tabled(C) /\ C.row = img.row /\ C.dirty = img.dirty /\ C.saved = img.saved
      /\ \A k \in Key : C.chunk[k] = IF k \in DOMAIN new THEN new[k] ELSE img.chunk[k]
  BY InsertChunksDoes
<1> HIDE DEF C
<1>5. ASSUME NEW o \in Owner, NEW p \in Path, NEW i \in Idx
      PROVE  C.chunk[<<o, p, i>>] = IF o = to /\ p \in P THEN img.chunk[<<from, p, i>>]
                                    ELSE img.chunk[<<o, p, i>>]
  <2>1. <<o, p, i>> \in Key /\ <<o, p, i>>[2] = p /\ <<o, p, i>>[3] = i  BY KeyParts
  <2>2. C.chunk[<<o, p, i>>] = IF <<o, p, i>> \in N THEN new[<<o, p, i>>] ELSE img.chunk[<<o, p, i>>]
    BY <1>2, <1>4, <2>1
  <2>3. <<o, p, i>> \in N => new[<<o, p, i>>] = img.chunk[<<from, p, i>>]  BY <1>2, <2>1
  <2> QED  BY <1>3, <2>2, <2>3
<1> QED  BY <1>1, <1>4, <1>5

\* Copying rows.
LEMMA CopyRowsDoes ==
  ASSUME NEW img, Tabled(img), NEW from, NEW to, NEW P
  PROVE  LET C == CopyRows(img, from, to, P)
         IN  /\ Tabled(C) /\ C.chunk = img.chunk /\ C.dirty = img.dirty /\ C.saved = img.saved
             /\ \A o \in Owner, p \in Path :
                  C.row[<<o, p>>] = IF o = to /\ p \in P THEN img.row[<<from, p>>] ELSE img.row[<<o, p>>]
<1> DEFINE rw == [k \in Owner \X Path |->
                    IF k[1] = to /\ k[2] \in P THEN img.row[<<from, k[2]>>] ELSE img.row[k]]
           C == CopyRows(img, from, to, P)
<1>1. C = [img EXCEPT !.row = rw]  BY DEF CopyRows
<1>2. /\ rw = [k \in Owner \X Path |-> rw[k]]
      /\ \A o \in Owner, p \in Path :
           rw[<<o, p>>] = IF o = to /\ p \in P THEN img.row[<<from, p>>] ELSE img.row[<<o, p>>]
  OBVIOUS
<1> HIDE DEF rw, C
<1>3. C = [chunk |-> img.chunk, blobs |-> img.blobs, refcnt |-> img.refcnt,
           row |-> rw, dirty |-> img.dirty, saved |-> img.saved]
  BY <1>1 DEF Tabled
<1>4. Tabled(C)  BY <1>2, <1>3 DEF Tabled
<1>5. C.chunk = img.chunk /\ C.row = rw /\ C.dirty = img.dirty /\ C.saved = img.saved  BY <1>3
<1>6. \A o \in Owner, p \in Path :
        C.row[<<o, p>>] = IF o = to /\ p \in P THEN img.row[<<from, p>>] ELSE img.row[<<o, p>>]
  BY <1>2, <1>5
<1> QED  BY <1>4, <1>5, <1>6 DEF C

\* Storing blobs.
LEMMA BlobEnsureDoes ==
  ASSUME NEW img, Tabled(img), NEW B
  PROVE  LET D == BlobEnsure(img, B)
         IN  /\ Tabled(D) /\ D.chunk = img.chunk
             /\ D.row = img.row /\ D.dirty = img.dirty /\ D.saved = img.saved
<1> DEFINE D == BlobEnsure(img, B)
<1>1. D = [chunk |-> img.chunk, blobs |-> img.blobs \cup B, refcnt |-> img.refcnt,
           row |-> img.row, dirty |-> img.dirty, saved |-> img.saved]
  BY DEF BlobEnsure, Tabled
<1> HIDE DEF D
<1>2. Tabled(D)  BY <1>1 DEF Tabled
<1>3. D.chunk = img.chunk /\ D.row = img.row /\ D.dirty = img.dirty /\ D.saved = img.saved  BY <1>1
<1> QED  BY <1>2, <1>3 DEF D

\* Writing a vm_fs row.
LEMMA SetRowDoes ==
  ASSUME NEW img, Tabled(img), NEW p \in Path, NEW r
  PROVE  LET D == SetRow(img, p, r)
         IN  /\ Tabled(D) /\ D.chunk = img.chunk /\ D.dirty = img.dirty /\ D.saved = img.saved
             /\ \A o \in Owner, q \in Path :
                  D.row[<<o, q>>] = IF o = Live /\ q = p THEN r ELSE img.row[<<o, q>>]
<1> DEFINE rw == [img.row EXCEPT ![<<Live, p>>] = r]
           D == SetRow(img, p, r)
<1>1. D = [img EXCEPT !.row = rw]  BY DEF SetRow
<1>2. /\ rw = [k \in Owner \X Path |-> rw[k]]
      /\ \A o \in Owner, q \in Path :
           rw[<<o, q>>] = IF o = Live /\ q = p THEN r ELSE img.row[<<o, q>>]
  BY DEF Tabled, Owner
<1> HIDE DEF rw, D
<1>3. D = [chunk |-> img.chunk, blobs |-> img.blobs, refcnt |-> img.refcnt,
           row |-> rw, dirty |-> img.dirty, saved |-> img.saved]
  BY <1>1 DEF Tabled
<1>4. Tabled(D)  BY <1>2, <1>3 DEF Tabled
<1>5. D.chunk = img.chunk /\ D.row = rw /\ D.dirty = img.dirty /\ D.saved = img.saved  BY <1>3
<1>6. \A o \in Owner, q \in Path :
        D.row[<<o, q>>] = IF o = Live /\ q = p THEN r ELSE img.row[<<o, q>>]
  BY <1>2, <1>5
<1> QED  BY <1>4, <1>5, <1>6 DEF D

\* The live entry of p becomes e, and every other entry stays.
Puts(img, new, p, e) ==
  /\ Tabled(new) /\ new.saved = img.saved
  /\ Entry(new, Live, p) = e
  /\ \A o \in Owner, q \in Path : o # Live \/ q # p => Entry(new, o, q) = Entry(img, o, q)

\* The entry of a file of pieces f.
FileEntry(f) == <<[kind |-> "file", size |-> Cardinality(DOMAIN f), hash |-> Sha(f)], Sha(f)>>
NodeEntry(k) == <<[kind |-> k, size |-> 0, hash |-> NoHash], Blank>>

\* fs_put of a file stores exactly its pieces.
LEMMA FsPutFileDoes ==
  ASSUME NEW img, Tabled(img), NEW p \in Path, NEW f \in Pieces
  PROVE  Puts(img, FsPutFile(img, p, f), p, FileEntry(f)) /\ FsPutFile(img, p, f).dirty = img.dirty
<1> DEFINE K == Rows(Live, {p})
           D == DeleteChunks(img, K)
           B == {f[i] : i \in DOMAIN f}
           E == BlobEnsure(D, B)
           N == {Live} \X {p} \X DOMAIN f
           new == [k \in N |-> f[k[3]]]
           J == InsertChunks(E, new)
           r == [kind |-> "file", size |-> Cardinality(DOMAIN f), hash |-> Sha(f)]
           R == SetRow(J, p, r)
<1>1. FsPutFile(img, p, f) = R  BY DEF FsPutFile, ChunksReplace
<1>2. DOMAIN new = N /\ \A k \in N : new[k] = f[k[3]]  OBVIOUS
<1>3. DOMAIN f \subseteq Idx  BY PiecesType
<1>4. ASSUME NEW o \in Owner, NEW q \in Path, NEW i \in Idx
      PROVE  /\ <<o, q, i>> \in N <=> o = Live /\ q = p /\ i \in DOMAIN f
             /\ <<o, q, i>> \in K <=> o = Live /\ q = p
             /\ <<o, q, i>> \in Key /\ <<o, q, i>>[3] = i
  BY KeyParts
<1>5. Sha(f) = [i \in Idx |-> Sha(f)[i]]
      /\ \A i \in Idx : Sha(f)[i] = IF i \in DOMAIN f THEN f[i] ELSE NoPiece
  BY DEF Sha
<1> HIDE DEF N, new, B, K, r
<1>6. /\ Tabled(D) /\ D.row = img.row /\ D.dirty = img.dirty /\ D.saved = img.saved
      /\ \A k \in Key : D.chunk[k] = IF k \in K THEN NoPiece ELSE img.chunk[k]
  BY DeleteChunksDoes
<1> HIDE DEF D
<1>7. Tabled(E) /\ E.chunk = D.chunk /\ E.row = D.row /\ E.dirty = D.dirty /\ E.saved = D.saved
  BY <1>6, BlobEnsureDoes
<1> HIDE DEF E
<1>8. /\ Tabled(J) /\ J.row = E.row /\ J.dirty = E.dirty /\ J.saved = E.saved
      /\ \A k \in Key : J.chunk[k] = IF k \in DOMAIN new THEN new[k] ELSE E.chunk[k]
  BY <1>7, InsertChunksDoes
<1> HIDE DEF J
<1>9. /\ Tabled(R) /\ R.chunk = J.chunk /\ R.dirty = J.dirty /\ R.saved = J.saved
      /\ \A o \in Owner, q \in Path :
           R.row[<<o, q>>] = IF o = Live /\ q = p THEN r ELSE J.row[<<o, q>>]
  BY <1>8, SetRowDoes
<1> HIDE DEF R
<1>10. ASSUME NEW o \in Owner, NEW q \in Path, NEW i \in Idx
       PROVE  R.chunk[<<o, q, i>>] = IF o = Live /\ q = p THEN Sha(f)[i] ELSE img.chunk[<<o, q, i>>]
  <2>1. R.chunk[<<o, q, i>>] = IF <<o, q, i>> \in N THEN new[<<o, q, i>>] ELSE D.chunk[<<o, q, i>>]
    BY <1>2, <1>4, <1>7, <1>8, <1>9
  <2>2. <<o, q, i>> \in N => new[<<o, q, i>>] = f[i]  BY <1>2, <1>4
  <2>3. D.chunk[<<o, q, i>>] = IF o = Live /\ q = p THEN NoPiece ELSE img.chunk[<<o, q, i>>]
    BY <1>4, <1>6
  <2> QED  BY <1>4, <1>5, <2>1, <2>2, <2>3
<1>11. Entry(R, Live, p) = <<r, Sha(f)>>
  <2>1. R.row[<<Live, p>>] = r /\ \A i \in Idx : R.chunk[<<Live, p, i>>] = Sha(f)[i]
    BY <1>9, <1>10 DEF Owner
  <2> QED  BY <1>5, <2>1, EntryEqual
<1>12. ASSUME NEW o \in Owner, NEW q \in Path, o # Live \/ q # p
       PROVE  Entry(R, o, q) = Entry(img, o, q)
  <2>1. R.row[<<o, q>>] = img.row[<<o, q>>]  BY <1>6, <1>7, <1>8, <1>9, <1>12
  <2>2. \A i \in Idx : R.chunk[<<o, q, i>>] = img.chunk[<<o, q, i>>]  BY <1>10, <1>12
  <2> QED  BY <2>1, <2>2, EntrySame
<1>13. R.saved = img.saved /\ R.dirty = img.dirty  BY <1>6, <1>7, <1>8, <1>9
<1> QED  BY <1>1, <1>9, <1>11, <1>12, <1>13 DEF Puts, FileEntry, r

\* Deleting the live chunk rows of P.
LEMMA DeleteLiveDoes ==
  ASSUME NEW img, Tabled(img), NEW w \in Owner, NEW P \in SUBSET Path
  PROVE  LET D == DeleteChunks(img, Rows(w, P))
         IN  /\ Tabled(D) /\ D.row = img.row /\ D.dirty = img.dirty /\ D.saved = img.saved
             /\ \A o \in Owner, q \in Path, i \in Idx :
                  D.chunk[<<o, q, i>>] = IF o = w /\ q \in P THEN NoPiece ELSE img.chunk[<<o, q, i>>]
<1> DEFINE K == Rows(w, P)
           D == DeleteChunks(img, K)
<1>1. ASSUME NEW o \in Owner, NEW q \in Path, NEW i \in Idx
      PROVE  <<o, q, i>> \in Key /\ (<<o, q, i>> \in K <=> o = w /\ q \in P)
  BY KeyParts
<1> HIDE DEF K
<1>2. /\ Tabled(D) /\ D.row = img.row /\ D.dirty = img.dirty /\ D.saved = img.saved
      /\ \A k \in Key : D.chunk[k] = IF k \in K THEN NoPiece ELSE img.chunk[k]
  BY DeleteChunksDoes
<1> HIDE DEF D
<1> QED  BY <1>1, <1>2 DEF D, K

\* fs_put of a directory or a symlink takes the content of the path.
LEMMA FsPutNodeDoes ==
  ASSUME NEW img, Tabled(img), NEW p \in Path, NEW k
  PROVE  Puts(img, FsPutNode(img, p, k), p, NodeEntry(k)) /\ FsPutNode(img, p, k).dirty = img.dirty
<1> DEFINE D == DeleteChunks(img, Rows(Live, {p}))
           r == [kind |-> k, size |-> 0, hash |-> NoHash]
           R == SetRow(D, p, r)
<1>1. FsPutNode(img, p, k) = R  BY DEF FsPutNode
<1>2. /\ Tabled(D) /\ D.row = img.row /\ D.dirty = img.dirty /\ D.saved = img.saved
      /\ \A o \in Owner, q \in Path, i \in Idx :
           D.chunk[<<o, q, i>>] = IF o = Live /\ q \in {p} THEN NoPiece ELSE img.chunk[<<o, q, i>>]
  <2>1. Live \in Owner /\ {p} \in SUBSET Path  BY DEF Owner
  <2> QED  BY <2>1, DeleteLiveDoes
<1> HIDE DEF D, r
<1>3. /\ Tabled(R) /\ R.chunk = D.chunk /\ R.dirty = D.dirty /\ R.saved = D.saved
      /\ \A o \in Owner, q \in Path :
           R.row[<<o, q>>] = IF o = Live /\ q = p THEN r ELSE D.row[<<o, q>>]
  BY <1>2, SetRowDoes
<1> HIDE DEF R
<1>4. Entry(R, Live, p) = <<r, Blank>>
  <2>1. R.row[<<Live, p>>] = r /\ \A i \in Idx : R.chunk[<<Live, p, i>>] = Blank[i]
    BY <1>2, <1>3 DEF Owner, Blank
  <2>2. Blank = [i \in Idx |-> Blank[i]]  BY DEF Blank
  <2> QED  BY <2>1, <2>2, EntryEqual
<1>5. ASSUME NEW o \in Owner, NEW q \in Path, o # Live \/ q # p
      PROVE  Entry(R, o, q) = Entry(img, o, q)
  <2>1. R.row[<<o, q>>] = img.row[<<o, q>>]  BY <1>2, <1>3, <1>5
  <2>2. \A i \in Idx : R.chunk[<<o, q, i>>] = img.chunk[<<o, q, i>>]  BY <1>2, <1>3, <1>5
  <2> QED  BY <2>1, <2>2, EntrySame
<1>6. R.saved = img.saved /\ R.dirty = img.dirty  BY <1>2, <1>3
<1> QED  BY <1>1, <1>3, <1>4, <1>5, <1>6 DEF Puts, NodeEntry, r

\* DELETE FROM vm_fs takes row, content and vm_dirty entry.
LEMMA DeleteRowsDoes ==
  ASSUME NEW img, Tabled(img), NEW P \in SUBSET Path
  PROVE  LET R == DeleteRows(img, P)
         IN  /\ Tabled(R) /\ R.saved = img.saved /\ R.dirty = img.dirty \ P
             /\ \A p \in P : /\ Entry(R, Live, p) = NoEntry
                             /\ \A i \in Idx : R.chunk[<<Live, p, i>>] = NoPiece
             /\ \A o \in Owner, q \in Path :
                  o # Live \/ q \notin P => Entry(R, o, q) = Entry(img, o, q)
<1> DEFINE D == DeleteChunks(img, Rows(Live, P))
           rw == [k \in Owner \X Path |-> IF k[1] = Live /\ k[2] \in P THEN NoRow ELSE img.row[k]]
           R == DeleteRows(img, P)
<1>1. R = [D EXCEPT !.row = rw, !.dirty = D.dirty \ P]  BY DEF DeleteRows
<1>2. /\ Tabled(D) /\ D.row = img.row /\ D.dirty = img.dirty /\ D.saved = img.saved
      /\ \A o \in Owner, q \in Path, i \in Idx :
           D.chunk[<<o, q, i>>] = IF o = Live /\ q \in P THEN NoPiece ELSE img.chunk[<<o, q, i>>]
  <2>1. Live \in Owner  BY DEF Owner
  <2> QED  BY <2>1, DeleteLiveDoes
<1>3. /\ rw = [k \in Owner \X Path |-> rw[k]]
      /\ \A o \in Owner, q \in Path :
           rw[<<o, q>>] = IF o = Live /\ q \in P THEN NoRow ELSE img.row[<<o, q>>]
  OBVIOUS
<1> HIDE DEF D, rw, R
<1>4. R = [chunk |-> D.chunk, blobs |-> D.blobs, refcnt |-> D.refcnt,
           row |-> rw, dirty |-> D.dirty \ P, saved |-> D.saved]
  BY <1>1, <1>2 DEF Tabled
<1>5. Tabled(R)  BY <1>3, <1>4 DEF Tabled
<1>6. R.chunk = D.chunk /\ R.row = rw /\ R.dirty = img.dirty \ P /\ R.saved = img.saved
  BY <1>2, <1>4
<1>7. ASSUME NEW p \in P PROVE Entry(R, Live, p) = NoEntry /\ \A i \in Idx : R.chunk[<<Live, p, i>>] = NoPiece
  <2>1. /\ R.row[<<Live, p>>] = NoRow
        /\ \A i \in Idx : R.chunk[<<Live, p, i>>] = NoPiece /\ Blank[i] = NoPiece
    BY <1>2, <1>3, <1>6 DEF Owner, Blank
  <2>2. Blank = [i \in Idx |-> Blank[i]]  BY DEF Blank
  <2>3. Entry(R, Live, p) = <<NoRow, Blank>>  BY <2>1, <2>2, EntryEqual
  <2> QED  BY <2>1, <2>3 DEF NoEntry
<1>8. ASSUME NEW o \in Owner, NEW q \in Path, o # Live \/ q \notin P
      PROVE  Entry(R, o, q) = Entry(img, o, q)
  <2>1. R.row[<<o, q>>] = img.row[<<o, q>>]  BY <1>3, <1>6, <1>8
  <2>2. \A i \in Idx : R.chunk[<<o, q, i>>] = img.chunk[<<o, q, i>>]  BY <1>2, <1>6, <1>8
  <2> QED  BY <2>1, <2>2, EntrySame
<1> QED  BY <1>5, <1>6, <1>7, <1>8 DEF R

\* put_chunk moves one chunk of the live tree.
LEMMA PutChunkDoes ==
  ASSUME NEW img, Tabled(img), NEW p \in Path, NEW j \in Idx, NEW b
  PROVE  LET R == PutChunk(img, p, j, b)
         IN  /\ Tabled(R) /\ R.row = img.row /\ R.dirty = img.dirty /\ R.saved = img.saved
             /\ \A o \in Owner, q \in Path, i \in Idx :
                  R.chunk[<<o, q, i>>] = IF o = Live /\ q = p /\ i = j THEN b ELSE img.chunk[<<o, q, i>>]
<1> DEFINE k == <<Live, p, j>>
           R == PutChunk(img, p, j, b)
<1>1. CASE img.chunk[k] = b
  <2>1. R = img  BY <1>1 DEF PutChunk
  <2> QED  BY <1>1, <2>1
<1>2. CASE img.chunk[k] # b
  <2> DEFINE E == BlobEnsure(img, {b})
             K == {k}
             D == DeleteChunks(E, K)
             new == [r \in K |-> b]
             J == InsertChunks(D, new)
  <2>1. R = J  BY <1>2 DEF PutChunk
  <2>2. DOMAIN new = K /\ \A r \in K : new[r] = b  OBVIOUS
  <2>3. ASSUME NEW o \in Owner, NEW q \in Path, NEW i \in Idx
        PROVE  <<o, q, i>> \in Key /\ (<<o, q, i>> \in K <=> o = Live /\ q = p /\ i = j)
    BY KeyParts
  <2> HIDE DEF K, new, R
  <2>4. Tabled(E) /\ E.chunk = img.chunk /\ E.row = img.row /\ E.dirty = img.dirty /\ E.saved = img.saved
    BY BlobEnsureDoes
  <2> HIDE DEF E
  <2>5. /\ Tabled(D) /\ D.row = E.row /\ D.dirty = E.dirty /\ D.saved = E.saved
        /\ \A x \in Key : D.chunk[x] = IF x \in K THEN NoPiece ELSE E.chunk[x]
    BY <2>4, DeleteChunksDoes
  <2> HIDE DEF D
  <2>6. /\ Tabled(J) /\ J.row = D.row /\ J.dirty = D.dirty /\ J.saved = D.saved
        /\ \A x \in Key : J.chunk[x] = IF x \in DOMAIN new THEN new[x] ELSE D.chunk[x]
    BY <2>5, InsertChunksDoes
  <2> HIDE DEF J
  <2>7. ASSUME NEW o \in Owner, NEW q \in Path, NEW i \in Idx
        PROVE  R.chunk[<<o, q, i>>] = IF o = Live /\ q = p /\ i = j THEN b ELSE img.chunk[<<o, q, i>>]
    <3>1. R.chunk[<<o, q, i>>] = IF <<o, q, i>> \in K THEN b ELSE img.chunk[<<o, q, i>>]
      BY <2>1, <2>2, <2>3, <2>4, <2>5, <2>6
    <3> QED  BY <2>3, <3>1
  <2>8. Tabled(R) /\ R.row = img.row /\ R.dirty = img.dirty /\ R.saved = img.saved
    BY <2>1, <2>4, <2>5, <2>6
  <2> QED  BY <2>7, <2>8 DEF R
<1> QED  BY <1>1, <1>2

\* Setting the size of a live row and recording it in vm_dirty.
LEMMA MarkDirtyDoes ==
  ASSUME NEW img \in Image, NEW p \in Path, NEW n
  PROVE  LET R == MarkDirty(img, p, n)
             r == img.row[<<Live, p>>]
         IN  /\ Tabled(R) /\ R.saved = img.saved /\ R.dirty = img.dirty \cup {p}
             /\ R.chunk = img.chunk
             /\ R.row[<<Live, p>>] = [kind |-> r.kind, size |-> n, hash |-> r.hash]
             /\ \A o \in Owner, q \in Path :
                  o # Live \/ q # p => R.row[<<o, q>>] = img.row[<<o, q>>]
<1> DEFINE r == img.row[<<Live, p>>]
           e == [kind |-> r.kind, size |-> n, hash |-> r.hash]
           rw == [img.row EXCEPT ![<<Live, p>>] = e]
           R == MarkDirty(img, p, n)
<1>0. Tabled(img)  BY ImageTabled
<1>1. [img.row[<<Live, p>>] EXCEPT !.size = n] = e
  <2>1. img.row[<<Live, p>>] \in Row  BY DEF Image, Owner
  <2> QED  BY <2>1 DEF Row
<1>2. R = [img EXCEPT !.row = rw, !.dirty = img.dirty \cup {p}]
  BY <1>1 DEF MarkDirty, Image, Owner
<1> HIDE DEF e
<1>3. /\ rw = [k \in Owner \X Path |-> rw[k]]
      /\ rw[<<Live, p>>] = e
      /\ \A o \in Owner, q \in Path : o # Live \/ q # p => rw[<<o, q>>] = img.row[<<o, q>>]
  BY <1>0 DEF Tabled, Owner
<1> HIDE DEF rw, R
<1>4. R = [chunk |-> img.chunk, blobs |-> img.blobs, refcnt |-> img.refcnt,
           row |-> rw, dirty |-> img.dirty \cup {p}, saved |-> img.saved]
  BY <1>0, <1>2 DEF Tabled
<1>5. Tabled(R)  BY <1>3, <1>4 DEF Tabled
<1>6. R.chunk = img.chunk /\ R.row = rw /\ R.dirty = img.dirty \cup {p} /\ R.saved = img.saved
  BY <1>4
<1>7. /\ R.row[<<Live, p>>] = e
      /\ \A o \in Owner, q \in Path : o # Live \/ q # p => R.row[<<o, q>>] = img.row[<<o, q>>]
  BY <1>3, <1>6
<1> QED  BY <1>5, <1>6, <1>7 DEF R, e

\* finalize_file gives a dirty row the hash of its chunks.
LEMMA FinalizeFileDoes ==
  ASSUME NEW img \in Image, NEW p \in Path
  PROVE  LET R == FinalizeFile(img, p)
             r == img.row[<<Live, p>>]
         IN  /\ Tabled(R) /\ R.saved = img.saved /\ R.dirty = img.dirty \ {p}
             /\ R.chunk = img.chunk
             /\ p \in img.dirty => R.row[<<Live, p>>] =
                  [kind |-> r.kind, size |-> r.size, hash |-> WholeFileHash(img, p)]
             /\ \A o \in Owner, q \in Path :
                  o # Live \/ q # p \/ p \notin img.dirty => R.row[<<o, q>>] = img.row[<<o, q>>]
<1> DEFINE r == img.row[<<Live, p>>]
           h == WholeFileHash(img, p)
           e == [kind |-> r.kind, size |-> r.size, hash |-> h]
           rw == [img.row EXCEPT ![<<Live, p>>] = e]
           R == FinalizeFile(img, p)
<1>0. Tabled(img)  BY ImageTabled
<1>a. CASE p \notin img.dirty
  <2>1. R = img /\ img.dirty = img.dirty \ {p}  BY <1>a DEF FinalizeFile
  <2> QED  BY <1>0, <1>a, <2>1
<1>b. CASE p \in img.dirty
  <2> HIDE DEF h
  <2>1. [img.row[<<Live, p>>] EXCEPT !.hash = h] = e
    <3>1. img.row[<<Live, p>>] \in Row  BY DEF Image, Owner
    <3> QED  BY <3>1 DEF Row
  <2>2. R = [img EXCEPT !.row[<<Live, p>>].hash = h, !.dirty = img.dirty \ {p}]
    BY <1>b DEF FinalizeFile, h
  <2> HIDE DEF R
  <2>3. R = [img EXCEPT !.row = rw, !.dirty = img.dirty \ {p}]
    BY <2>1, <2>2 DEF Image, Owner
  <2> HIDE DEF e
  <2>4. /\ rw = [k \in Owner \X Path |-> rw[k]]
        /\ rw[<<Live, p>>] = e
        /\ \A o \in Owner, q \in Path : o # Live \/ q # p => rw[<<o, q>>] = img.row[<<o, q>>]
    BY <1>0 DEF Tabled, Owner
  <2> HIDE DEF rw
  <2>5. R = [chunk |-> img.chunk, blobs |-> img.blobs, refcnt |-> img.refcnt,
             row |-> rw, dirty |-> img.dirty \ {p}, saved |-> img.saved]
    BY <1>0, <2>3 DEF Tabled
  <2>6. Tabled(R)  BY <2>4, <2>5 DEF Tabled
  <2>7. R.chunk = img.chunk /\ R.row = rw /\ R.dirty = img.dirty \ {p} /\ R.saved = img.saved
    BY <2>5
  <2>8. /\ R.row[<<Live, p>>] = e
        /\ \A o \in Owner, q \in Path : o # Live \/ q # p => R.row[<<o, q>>] = img.row[<<o, q>>]
    BY <2>4, <2>7
  <2> QED  BY <1>b, <2>6, <2>7, <2>8 DEF R, e, h
<1> QED  BY <1>a, <1>b

\* A rename moves the entry.
LEMMA RenameFileDoes ==
  ASSUME NEW img, Tabled(img), NEW p \in Path, NEW q \in Path, p # q
  PROVE  LET R == RenameFile(img, p, q)
         IN  /\ Tabled(R) /\ R.saved = img.saved
             /\ p \in img.dirty => q \in R.dirty
             /\ \A x \in img.dirty : x # p /\ x # q => x \in R.dirty
             /\ Entry(R, Live, p) = NoEntry
             /\ Entry(R, Live, q) = Entry(img, Live, p)
             /\ \A o \in Owner, x \in Path :
                  o # Live \/ (x # p /\ x # q) => Entry(R, o, x) = Entry(img, o, x)
<1> DEFINE base == DeleteRows(img, {q})
           from(k) == IF k[1] # Live THEN k ELSE IF k[2] = q THEN <<Live, p, k[3]>> ELSE k
           chk == [k \in Key |-> IF k[1] = Live /\ k[2] = p THEN NoPiece ELSE base.chunk[from(k)]]
           rw == [k \in Owner \X Path |->
                    IF k = <<Live, p>> THEN NoRow
                    ELSE IF k = <<Live, q>> THEN base.row[<<Live, p>>] ELSE base.row[k]]
           d == IF p \in base.dirty THEN (base.dirty \ {p}) \cup {q} ELSE base.dirty
           R == RenameFile(img, p, q)
<1>1. R = [base EXCEPT !.chunk = chk, !.row = rw, !.dirty = d]  BY DEF RenameFile
<1>2. /\ Tabled(base) /\ base.saved = img.saved /\ base.dirty = img.dirty \ {q}
      /\ \A o \in Owner, x \in Path :
           o # Live \/ x \notin {q} => Entry(base, o, x) = Entry(img, o, x)
  <2>1. {q} \in SUBSET Path  OBVIOUS
  <2> HIDE DEF base
  <2> QED  BY <2>1, DeleteRowsDoes DEF base
<1> HIDE DEF base
<1>3. /\ rw = [k \in Owner \X Path |-> rw[k]]
      /\ rw[<<Live, p>>] = NoRow /\ rw[<<Live, q>>] = base.row[<<Live, p>>]
      /\ \A o \in Owner, x \in Path :
           o # Live \/ (x # p /\ x # q) => rw[<<o, x>>] = base.row[<<o, x>>]
  BY DEF Owner
<1>4. ASSUME NEW o \in Owner, NEW x \in Path, NEW i \in Idx
      PROVE  chk[<<o, x, i>>] = IF o = Live /\ x = p THEN NoPiece
                                ELSE IF o = Live /\ x = q THEN base.chunk[<<Live, p, i>>]
                                ELSE base.chunk[<<o, x, i>>]
  <2>1. /\ <<o, x, i>> \in Key /\ <<o, x, i>>[1] = o /\ <<o, x, i>>[2] = x /\ <<o, x, i>>[3] = i
    BY KeyParts
  <2> QED  BY <2>1
<1> HIDE DEF chk, rw, d, R
<1>5. R = [chunk |-> chk, blobs |-> base.blobs, refcnt |-> base.refcnt,
           row |-> rw, dirty |-> d, saved |-> base.saved]
  BY <1>1, <1>2 DEF Tabled
<1>6. Tabled(R)  BY <1>3, <1>5 DEF Tabled
<1>7. R.chunk = chk /\ R.row = rw /\ R.dirty = d /\ R.saved = img.saved  BY <1>2, <1>5
<1>8. Entry(R, Live, p) = NoEntry
  <2>1. /\ R.row[<<Live, p>>] = NoRow
        /\ \A i \in Idx : R.chunk[<<Live, p, i>>] = Blank[i]
    BY <1>3, <1>4, <1>7 DEF Owner, Blank
  <2>2. Blank = [i \in Idx |-> Blank[i]]  BY DEF Blank
  <2> QED  BY <2>1, <2>2, EntryEqual DEF NoEntry
<1>9. Entry(R, Live, q) = Entry(img, Live, p)
  <2>1. /\ R.row[<<Live, q>>] = base.row[<<Live, p>>]
        /\ \A i \in Idx : R.chunk[<<Live, q, i>>] = base.chunk[<<Live, p, i>>]
    BY <1>3, <1>4, <1>7 DEF Owner
  <2>2. Entry(R, Live, q) = Entry(base, Live, p)  BY <2>1, EntrySame
  <2> QED  BY <1>2, <2>2 DEF Owner
<1>10. ASSUME NEW o \in Owner, NEW x \in Path, o # Live \/ (x # p /\ x # q)
       PROVE  Entry(R, o, x) = Entry(img, o, x)
  <2>1. R.row[<<o, x>>] = base.row[<<o, x>>]  BY <1>3, <1>7, <1>10
  <2>2. \A i \in Idx : R.chunk[<<o, x, i>>] = base.chunk[<<o, x, i>>]  BY <1>4, <1>7, <1>10
  <2>3. Entry(R, o, x) = Entry(base, o, x)  BY <2>1, <2>2, EntrySame
  <2> QED  BY <1>2, <1>10, <2>3
<1>11. /\ p \in img.dirty => q \in R.dirty
       /\ \A x \in img.dirty : x # p /\ x # q => x \in R.dirty
  BY <1>2, <1>7 DEF d
<1> QED  BY <1>6, <1>7, <1>8, <1>9, <1>10, <1>11 DEF R

\* Copying rows and chunk rows copies entries.
LEMMA CopyDoes ==
  ASSUME NEW img, Tabled(img), NEW from \in Owner, NEW to \in Owner, NEW P \in SUBSET Path,
         \A p \in P, i \in Idx : img.chunk[<<to, p, i>>] = NoPiece
  PROVE  LET C == CopyChunks(CopyRows(img, from, to, P), from, to, P)
         IN  /\ Tabled(C) /\ C.dirty = img.dirty /\ C.saved = img.saved
             /\ \A p \in P : Entry(C, to, p) = Entry(img, from, p)
             /\ \A o \in Owner, q \in Path :
                  o # to \/ q \notin P => Entry(C, o, q) = Entry(img, o, q)
<1> DEFINE R == CopyRows(img, from, to, P)
           C == CopyChunks(R, from, to, P)
<1>1. /\ Tabled(R) /\ R.chunk = img.chunk /\ R.dirty = img.dirty /\ R.saved = img.saved
      /\ \A o \in Owner, p \in Path :
           R.row[<<o, p>>] = IF o = to /\ p \in P THEN img.row[<<from, p>>] ELSE img.row[<<o, p>>]
  BY CopyRowsDoes
<1> HIDE DEF R
<1>2. \A p \in P, i \in Idx : R.chunk[<<to, p, i>>] = NoPiece  BY <1>1
<1>3. /\ Tabled(C) /\ C.row = R.row /\ C.dirty = R.dirty /\ C.saved = R.saved
      /\ \A o \in Owner, p \in Path, i \in Idx :
           C.chunk[<<o, p, i>>] = IF o = to /\ p \in P THEN R.chunk[<<from, p, i>>]
                                  ELSE R.chunk[<<o, p, i>>]
  BY <1>1, <1>2, CopyChunksDoes
<1> HIDE DEF C
<1>4. ASSUME NEW p \in P PROVE Entry(C, to, p) = Entry(img, from, p)
  <2>1. /\ C.row[<<to, p>>] = img.row[<<from, p>>]
        /\ \A i \in Idx : C.chunk[<<to, p, i>>] = img.chunk[<<from, p, i>>]
    BY <1>1, <1>3
  <2> QED  BY <2>1, EntrySame
<1>5. ASSUME NEW o \in Owner, NEW q \in Path, o # to \/ q \notin P
      PROVE  Entry(C, o, q) = Entry(img, o, q)
  <2>1. /\ C.row[<<o, q>>] = img.row[<<o, q>>]
        /\ \A i \in Idx : C.chunk[<<o, q, i>>] = img.chunk[<<o, q, i>>]
    BY <1>1, <1>3, <1>5
  <2> QED  BY <2>1, EntrySame
<1> QED  BY <1>1, <1>3, <1>4, <1>5 DEF C, R

\* undo_capture copies the live entry into the record the first time only.
LEMMA UndoCaptureDoes ==
  ASSUME NEW img, Whole(img), NEW u \in Undo \cup {NoUndo}, NEW p \in Path
  PROVE  LET C == UndoCapture(img, u, p)
         IN  /\ Tabled(C) /\ C.dirty = img.dirty /\ C.saved = img.saved
             /\ u \in Undo => Entry(C, u, p) = IF img.row[<<u, p>>].kind = "unknown"
                                               THEN Entry(img, Live, p) ELSE Entry(img, u, p)
             /\ \A o \in Owner, q \in Path : o # u \/ q # p => Entry(C, o, q) = Entry(img, o, q)
<1> DEFINE C == UndoCapture(img, u, p)
<1>0. img \in Image /\ Tabled(img) /\ Shape(img)  BY ImageTabled DEF Whole
<1>1. CASE u = NoUndo \/ img.row[<<u, p>>].kind # "unknown"
  <2>1. C = img  BY <1>1 DEF UndoCapture
  <2>2. u \in Undo => img.row[<<u, p>>].kind # "unknown"  BY <1>1, ImageAssumption
  <2> QED  BY <1>0, <2>1, <2>2
<1>2. CASE u # NoUndo /\ img.row[<<u, p>>].kind = "unknown"
  <2> DEFINE rw == [img.row EXCEPT ![<<u, p>>] = img.row[<<Live, p>>]]
             M == [img EXCEPT !.row = rw]
             D == CopyChunks(M, Live, u, {p})
  <2>1. C = CopyChunks([img EXCEPT !.row[<<u, p>>] = img.row[<<Live, p>>]], Live, u, {p})
    BY <1>2 DEF UndoCapture
  <2>2. [img EXCEPT !.row[<<u, p>>] = img.row[<<Live, p>>]] = M  OBVIOUS
  <2>3. u \in Undo /\ u \in Owner /\ u \in Saved /\ Live \in Owner /\ {p} \in SUBSET Path /\ u # Live
    BY <1>2, ImageAssumption DEF Owner, Saved
  <2>4. /\ rw = [k \in Owner \X Path |-> rw[k]]
        /\ rw[<<u, p>>] = img.row[<<Live, p>>]
        /\ \A o \in Owner, q \in Path : o # u \/ q # p => rw[<<o, q>>] = img.row[<<o, q>>]
    BY <1>0, <2>3 DEF Tabled
  <2> HIDE DEF rw
  <2>5. M = [chunk |-> img.chunk, blobs |-> img.blobs, refcnt |-> img.refcnt,
             row |-> rw, dirty |-> img.dirty, saved |-> img.saved]
    BY <1>0 DEF Tabled
  <2> HIDE DEF M
  <2>6. Tabled(M)  BY <2>4, <2>5 DEF Tabled
  <2>7. M.chunk = img.chunk /\ M.row = rw /\ M.dirty = img.dirty /\ M.saved = img.saved  BY <2>5
  <2>8. \A q \in {p}, i \in Idx : M.chunk[<<u, q, i>>] = NoPiece
    BY <1>0, <1>2, <2>3, <2>7 DEF Shape
  <2>9. /\ Tabled(D) /\ D.row = M.row /\ D.dirty = M.dirty /\ D.saved = M.saved
        /\ \A o \in Owner, q \in Path, i \in Idx :
             D.chunk[<<o, q, i>>] = IF o = u /\ q \in {p} THEN M.chunk[<<Live, q, i>>]
                                    ELSE M.chunk[<<o, q, i>>]
    BY <2>3, <2>6, <2>8, CopyChunksDoes
  <2>10. C = D  BY <2>1, <2>2
  <2> HIDE DEF C, D
  <2>11. Entry(C, u, p) = Entry(img, Live, p)
    <3>1. /\ C.row[<<u, p>>] = img.row[<<Live, p>>]
          /\ \A i \in Idx : C.chunk[<<u, p, i>>] = img.chunk[<<Live, p, i>>]
      BY <2>3, <2>4, <2>7, <2>9, <2>10
    <3> QED  BY <3>1, EntrySame
  <2>12. ASSUME NEW o \in Owner, NEW q \in Path, o # u \/ q # p
         PROVE  Entry(C, o, q) = Entry(img, o, q)
    <3>1. C.row[<<o, q>>] = img.row[<<o, q>>]
      <4>1. C.row = rw  BY <2>7, <2>9, <2>10
      <4> QED  BY <4>1, <2>4, <2>12
    <3>2. \A i \in Idx : C.chunk[<<o, q, i>>] = img.chunk[<<o, q, i>>]
      BY <2>7, <2>9, <2>10, <2>12
    <3> QED  BY <3>1, <3>2, EntrySame
  <2>13. Tabled(C) /\ C.dirty = img.dirty /\ C.saved = img.saved  BY <2>7, <2>9, <2>10
  <2> QED  BY <1>2, <2>11, <2>12, <2>13 DEF C
<1> QED  BY <1>1, <1>2

\* snapshot_create copies every live entry.
LEMMA SnapshotTakeDoes ==
  ASSUME NEW img, Whole(img), NEW s \in Snap, s \notin img.saved
  PROVE  LET C == SnapshotTake(img, s)
         IN  /\ Tabled(C) /\ C.dirty = img.dirty /\ C.saved = img.saved \cup {s}
             /\ \A p \in Path : Entry(C, s, p) = Entry(img, Live, p)
             /\ \A o \in Owner, q \in Path : o # s => Entry(C, o, q) = Entry(img, o, q)
<1> DEFINE M == [img EXCEPT !.saved = @ \cup {s}]
           C == CopyChunks(CopyRows(M, Live, s, Path), Live, s, Path)
<1>0. img \in Image /\ Tabled(img) /\ Shape(img)  BY ImageTabled DEF Whole
<1>1. SnapshotTake(img, s) = C  BY DEF SnapshotTake
<1>2. M = [chunk |-> img.chunk, blobs |-> img.blobs, refcnt |-> img.refcnt,
           row |-> img.row, dirty |-> img.dirty, saved |-> img.saved \cup {s}]
  BY <1>0 DEF Tabled
<1> HIDE DEF M
<1>3. Tabled(M)  BY <1>0, <1>2 DEF Tabled
<1>4. M.chunk = img.chunk /\ M.row = img.row /\ M.dirty = img.dirty /\ M.saved = img.saved \cup {s}
  BY <1>2
<1>5. s \in Owner /\ s \in Saved /\ Live \in Owner /\ Path \in SUBSET Path  BY DEF Owner, Saved
<1>6. \A p \in Path, i \in Idx : M.chunk[<<s, p, i>>] = NoPiece  BY <1>0, <1>4, <1>5 DEF Shape
<1>7. /\ Tabled(C) /\ C.dirty = M.dirty /\ C.saved = M.saved
      /\ \A p \in Path : Entry(C, s, p) = Entry(M, Live, p)
      /\ \A o \in Owner, q \in Path : o # s \/ q \notin Path => Entry(C, o, q) = Entry(M, o, q)
  BY <1>3, <1>5, <1>6, CopyDoes
<1>8. ASSUME NEW o \in Owner, NEW q \in Path PROVE Entry(M, o, q) = Entry(img, o, q)
  <2>1. /\ M.row[<<o, q>>] = img.row[<<o, q>>]
        /\ \A i \in Idx : M.chunk[<<o, q, i>>] = img.chunk[<<o, q, i>>]
    BY <1>4
  <2> QED  BY <2>1, EntrySame
<1> HIDE DEF C
<1> QED  BY <1>1, <1>4, <1>5, <1>7, <1>8

\* snapshot_restore replaces the live tree.
LEMMA SnapshotPutDoes ==
  ASSUME NEW img, Tabled(img), NEW s \in Snap
  PROVE  LET C == SnapshotPut(img, s)
         IN  /\ Tabled(C) /\ C.dirty = img.dirty \ Path /\ C.saved = img.saved
             /\ \A p \in Path : Entry(C, Live, p) = Entry(img, s, p)
             /\ \A o \in Owner, q \in Path : o # Live => Entry(C, o, q) = Entry(img, o, q)
<1> DEFINE D == DeleteChunks(img, Rows(Live, Path))
           R == DeleteRows(D, Path)
           C == CopyChunks(CopyRows(R, s, Live, Path), s, Live, Path)
<1>1. SnapshotPut(img, s) = C  BY DEF SnapshotPut
<1>2. s \in Owner /\ Live \in Owner /\ Path \in SUBSET Path /\ s # Live
  BY ImageAssumption DEF Owner, Saved
<1>3. /\ Tabled(D) /\ D.row = img.row /\ D.dirty = img.dirty /\ D.saved = img.saved
      /\ \A o \in Owner, q \in Path, i \in Idx :
           D.chunk[<<o, q, i>>] = IF o = Live /\ q \in Path THEN NoPiece ELSE img.chunk[<<o, q, i>>]
  BY <1>2, DeleteLiveDoes
<1> HIDE DEF D
<1>4. ASSUME NEW o \in Owner, NEW q \in Path, o # Live PROVE Entry(D, o, q) = Entry(img, o, q)
  <2>1. /\ D.row[<<o, q>>] = img.row[<<o, q>>]
        /\ \A i \in Idx : D.chunk[<<o, q, i>>] = img.chunk[<<o, q, i>>]
    BY <1>3, <1>4
  <2> QED  BY <2>1, EntrySame
<1>5. /\ Tabled(R) /\ R.saved = D.saved /\ R.dirty = D.dirty \ Path
      /\ \A p \in Path : \A i \in Idx : R.chunk[<<Live, p, i>>] = NoPiece
      /\ \A o \in Owner, q \in Path : o # Live \/ q \notin Path => Entry(R, o, q) = Entry(D, o, q)
  BY <1>2, <1>3, DeleteRowsDoes
<1> HIDE DEF R
<1>6. /\ Tabled(C) /\ C.dirty = R.dirty /\ C.saved = R.saved
      /\ \A p \in Path : Entry(C, Live, p) = Entry(R, s, p)
      /\ \A o \in Owner, q \in Path : o # Live \/ q \notin Path => Entry(C, o, q) = Entry(R, o, q)
  BY <1>2, <1>5, CopyDoes
<1> HIDE DEF C
<1> QED  BY <1>1, <1>2, <1>3, <1>4, <1>5, <1>6

\* undo_apply puts back what the record covers.
LEMMA UndoPutDoes ==
  ASSUME NEW img, Tabled(img), NEW u \in Undo
  PROVE  LET C == UndoPut(img, u)
             P == {p \in Path : img.row[<<u, p>>].kind # "unknown"}
         IN  /\ Tabled(C) /\ C.dirty = img.dirty \ P /\ C.saved = img.saved
             /\ \A p \in P : Entry(C, Live, p) = IF img.row[<<u, p>>].kind = "none" THEN NoEntry
                                                 ELSE Entry(img, u, p)
             /\ \A o \in Owner, q \in Path : o # Live \/ q \notin P => Entry(C, o, q) = Entry(img, o, q)
<1> DEFINE P == {p \in Path : img.row[<<u, p>>].kind # "unknown"}
           E == {p \in P : img.row[<<u, p>>].kind # "none"}
           R == DeleteRows(img, P)
           C == CopyChunks(CopyRows(R, u, Live, E), u, Live, E)
<1>1. UndoPut(img, u) = C  BY DEF UndoPut
<1>2. u \in Owner /\ Live \in Owner /\ P \in SUBSET Path /\ E \in SUBSET Path /\ E \subseteq P /\ u # Live
  BY ImageAssumption DEF Owner, Saved
<1>e. \A p \in P : p \in E <=> img.row[<<u, p>>].kind # "none"  OBVIOUS
<1> HIDE DEF P, E
<1>5. /\ Tabled(R) /\ R.saved = img.saved /\ R.dirty = img.dirty \ P
      /\ \A p \in P : Entry(R, Live, p) = NoEntry /\ \A i \in Idx : R.chunk[<<Live, p, i>>] = NoPiece
      /\ \A o \in Owner, q \in Path : o # Live \/ q \notin P => Entry(R, o, q) = Entry(img, o, q)
  BY <1>2, DeleteRowsDoes
<1> HIDE DEF R
<1>6. \A p \in E, i \in Idx : R.chunk[<<Live, p, i>>] = NoPiece  BY <1>2, <1>5
<1>7. /\ Tabled(C) /\ C.dirty = R.dirty /\ C.saved = R.saved
      /\ \A p \in E : Entry(C, Live, p) = Entry(R, u, p)
      /\ \A o \in Owner, q \in Path : o # Live \/ q \notin E => Entry(C, o, q) = Entry(R, o, q)
  BY <1>2, <1>5, <1>6, CopyDoes
<1> HIDE DEF C
<1>8. ASSUME NEW p \in P
      PROVE  Entry(C, Live, p) = IF img.row[<<u, p>>].kind = "none" THEN NoEntry ELSE Entry(img, u, p)
  <2>1. CASE p \in E  BY <1>2, <1>5, <1>7, <1>e, <2>1
  <2>2. CASE p \notin E  BY <1>2, <1>5, <1>7, <1>e, <2>2
  <2> QED  BY <2>1, <2>2
<1>9. \A o \in Owner, q \in Path : o # Live \/ q \notin P => Entry(C, o, q) = Entry(img, o, q)
  BY <1>2, <1>5, <1>7
<1> QED  BY <1>1, <1>5, <1>7, <1>8, <1>9 DEF P

\* Dropping a snapshot or an undo record.
LEMMA DropSavedDoes ==
  ASSUME NEW img, Tabled(img), NEW w \in Saved
  PROVE  LET C == DropSaved(img, w)
         IN  /\ Tabled(C) /\ C.dirty = img.dirty /\ C.saved = img.saved \ {w}
             /\ \A p \in Path : Entry(C, w, p) = <<Unknown, Blank>>
             /\ \A o \in Owner, q \in Path : o # w => Entry(C, o, q) = Entry(img, o, q)
<1> DEFINE D == DeleteChunks(img, Rows(w, Path))
           rw == [k \in Owner \X Path |-> IF k[1] = w THEN Unknown ELSE img.row[k]]
           R == DropSaved(img, w)
<1>1. R = [D EXCEPT !.row = rw, !.saved = D.saved \ {w}]  BY DEF DropSaved
<1>0. w \in Owner /\ Path \in SUBSET Path  BY DEF Owner
<1>2. /\ Tabled(D) /\ D.row = img.row /\ D.dirty = img.dirty /\ D.saved = img.saved
      /\ \A o \in Owner, q \in Path, i \in Idx :
           D.chunk[<<o, q, i>>] = IF o = w /\ q \in Path THEN NoPiece ELSE img.chunk[<<o, q, i>>]
  BY <1>0, DeleteLiveDoes
<1>3. /\ rw = [k \in Owner \X Path |-> rw[k]]
      /\ \A o \in Owner, q \in Path : rw[<<o, q>>] = IF o = w THEN Unknown ELSE img.row[<<o, q>>]
  OBVIOUS
<1> HIDE DEF D, rw, R
<1>4. R = [chunk |-> D.chunk, blobs |-> D.blobs, refcnt |-> D.refcnt,
           row |-> rw, dirty |-> D.dirty, saved |-> D.saved \ {w}]
  BY <1>1, <1>2 DEF Tabled
<1>5. Tabled(R)  BY <1>3, <1>4 DEF Tabled
<1>6. R.chunk = D.chunk /\ R.row = rw /\ R.dirty = img.dirty /\ R.saved = img.saved \ {w}
  BY <1>2, <1>4
<1>7. ASSUME NEW p \in Path PROVE Entry(R, w, p) = <<Unknown, Blank>>
  <2>1. /\ R.row[<<w, p>>] = Unknown
        /\ \A i \in Idx : R.chunk[<<w, p, i>>] = Blank[i]
    BY <1>0, <1>2, <1>3, <1>6 DEF Blank
  <2>2. Blank = [i \in Idx |-> Blank[i]]  BY DEF Blank
  <2> QED  BY <2>1, <2>2, EntryEqual
<1>8. ASSUME NEW o \in Owner, NEW q \in Path, o # w
      PROVE  Entry(R, o, q) = Entry(img, o, q)
  <2>1. R.row[<<o, q>>] = img.row[<<o, q>>]  BY <1>3, <1>6, <1>8
  <2>2. \A i \in Idx : R.chunk[<<o, q, i>>] = img.chunk[<<o, q, i>>]  BY <1>2, <1>6, <1>8
  <2> QED  BY <2>1, <2>2, EntrySame
<1> QED  BY <1>5, <1>6, <1>7, <1>8 DEF R

\* Equal entries have equal rows and chunks.
LEMMA EntryGives ==
  ASSUME NEW a, NEW o, NEW p, NEW b, NEW w, NEW q, Entry(a, o, p) = Entry(b, w, q)
  PROVE  /\ a.row[<<o, p>>] = b.row[<<w, q>>]
         /\ Content(a, o, p) = Content(b, w, q)
         /\ \A i \in Idx : a.chunk[<<o, p, i>>] = b.chunk[<<w, q, i>>]
<1>1. Entry(a, o, p)[1] = Entry(b, w, q)[1] /\ Entry(a, o, p)[2] = Entry(b, w, q)[2]  OBVIOUS
<1>2. a.row[<<o, p>>] = b.row[<<w, q>>]  BY <1>1, EntryParts
<1>3. Content(a, o, p) = Content(b, w, q)  BY <1>1 DEF Entry
<1>4. ASSUME NEW i \in Idx PROVE a.chunk[<<o, p, i>>] = b.chunk[<<w, q, i>>]
  <2>1. Content(a, o, p)[i] = a.chunk[<<o, p, i>>] /\ Content(b, w, q)[i] = b.chunk[<<w, q, i>>]
    BY DEF Content
  <2> QED  BY <1>3, <2>1
<1> QED  BY <1>2, <1>3, <1>4

\* An operation on the live tree: snapshots and undo records keep their entries.
OnlyLive(img, new) ==
  /\ new.saved = img.saved
  /\ \A o \in Saved, p \in Path : Entry(new, o, p) = Entry(img, o, p)

\* fs_put, delete and rename are.
LEMMA FsOpsOnlyLive ==
  ASSUME NEW img, Tabled(img), NEW p \in Path
  PROVE  /\ \A f \in Pieces : OnlyLive(img, FsPutFile(img, p, f))
         /\ \A k : OnlyLive(img, FsPutNode(img, p, k))
         /\ \A P \in SUBSET Path : OnlyLive(img, DeleteRows(img, P))
         /\ \A q \in Path : p # q => OnlyLive(img, RenameFile(img, p, q))
<1>0. \A o \in Saved : o \in Owner /\ o # Live  BY ImageAssumption DEF Owner, Saved
<1>1. ASSUME NEW f \in Pieces PROVE OnlyLive(img, FsPutFile(img, p, f))
  <2>1. Puts(img, FsPutFile(img, p, f), p, FileEntry(f))  BY FsPutFileDoes
  <2> QED  BY <1>0, <2>1 DEF Puts, OnlyLive
<1>2. ASSUME NEW k PROVE OnlyLive(img, FsPutNode(img, p, k))
  <2>1. Puts(img, FsPutNode(img, p, k), p, NodeEntry(k))  BY FsPutNodeDoes
  <2> QED  BY <1>0, <2>1 DEF Puts, OnlyLive
<1>3. ASSUME NEW P \in SUBSET Path PROVE OnlyLive(img, DeleteRows(img, P))
  <2>1. /\ DeleteRows(img, P).saved = img.saved
        /\ \A o \in Owner, q \in Path : o # Live \/ q \notin P
             => Entry(DeleteRows(img, P), o, q) = Entry(img, o, q)
    BY DeleteRowsDoes
  <2> QED  BY <1>0, <2>1 DEF OnlyLive
<1>4. ASSUME NEW q \in Path, p # q PROVE OnlyLive(img, RenameFile(img, p, q))
  <2> DEFINE R == RenameFile(img, p, q)
  <2>1. /\ Tabled(R) /\ R.saved = img.saved
        /\ p \in img.dirty => q \in R.dirty
        /\ \A x \in img.dirty : x # p /\ x # q => x \in R.dirty
        /\ Entry(R, Live, p) = NoEntry
        /\ Entry(R, Live, q) = Entry(img, Live, p)
        /\ \A o \in Owner, x \in Path :
             o # Live \/ (x # p /\ x # q) => Entry(R, o, x) = Entry(img, o, x)
    BY <1>4, RenameFileDoes
  <2> HIDE DEF R
  <2>2. OnlyLive(img, R)  BY <1>0, <2>1 DEF OnlyLive
  <2> QED  BY <2>2 DEF R
<1> QED  BY <1>1, <1>2, <1>3, <1>4

\* The steps of a deferred write are.
LEMMA WriteOpsOnlyLive ==
  ASSUME NEW img \in Image, NEW p \in Path
  PROVE  /\ \A n : OnlyLive(img, DeleteChunks(img, Beyond(p, n)))
         /\ \A j \in Idx, b \in Piece : OnlyLive(img, PutChunk(img, p, j, b))
         /\ \A n : OnlyLive(img, MarkDirty(img, p, n))
         /\ OnlyLive(img, FinalizeFile(img, p))
<1>0. \A o \in Saved : o \in Owner /\ o # Live  BY ImageAssumption DEF Owner, Saved
<1>t. Tabled(img)  BY ImageTabled
<1>s. ASSUME NEW new, new.saved = img.saved,
             \A o \in Saved, q \in Path : new.row[<<o, q>>] = img.row[<<o, q>>],
             \A o \in Saved, q \in Path, i \in Idx : new.chunk[<<o, q, i>>] = img.chunk[<<o, q, i>>]
      PROVE  OnlyLive(img, new)
  <2>1. ASSUME NEW o \in Saved, NEW q \in Path PROVE Entry(new, o, q) = Entry(img, o, q)
    <3>1. /\ new.row[<<o, q>>] = img.row[<<o, q>>]
          /\ \A i \in Idx : new.chunk[<<o, q, i>>] = img.chunk[<<o, q, i>>]
      BY <1>s
    <3> QED  BY <3>1, EntrySame
  <2> QED  BY <1>s, <2>1 DEF OnlyLive
<1>1. ASSUME NEW n PROVE OnlyLive(img, DeleteChunks(img, Beyond(p, n)))
  <2> DEFINE K == Beyond(p, n)
             D == DeleteChunks(img, K)
  <2>1. \A o \in Saved, q \in Path, i \in Idx : <<o, q, i>> \in Key /\ <<o, q, i>> \notin K
    BY <1>0 DEF Beyond, Key
  <2> HIDE DEF K
  <2>2. /\ D.row = img.row /\ D.saved = img.saved
        /\ \A k \in Key : D.chunk[k] = IF k \in K THEN NoPiece ELSE img.chunk[k]
    BY <1>t, DeleteChunksDoes
  <2> HIDE DEF D
  <2>3. \A o \in Saved, q \in Path, i \in Idx : D.chunk[<<o, q, i>>] = img.chunk[<<o, q, i>>]
    BY <2>1, <2>2
  <2>4. OnlyLive(img, D)  BY <1>s, <2>2, <2>3
  <2> QED  BY <2>4 DEF D, K
<1>2. ASSUME NEW j \in Idx, NEW b \in Piece PROVE OnlyLive(img, PutChunk(img, p, j, b))
  <2> DEFINE D == PutChunk(img, p, j, b)
  <2>1. /\ D.row = img.row /\ D.saved = img.saved
        /\ \A o \in Owner, q \in Path, i \in Idx :
             D.chunk[<<o, q, i>>] = IF o = Live /\ q = p /\ i = j THEN b ELSE img.chunk[<<o, q, i>>]
    BY <1>t, PutChunkDoes
  <2> HIDE DEF D
  <2>2. \A o \in Saved, q \in Path, i \in Idx : D.chunk[<<o, q, i>>] = img.chunk[<<o, q, i>>]
    BY <1>0, <2>1
  <2>3. OnlyLive(img, D)  BY <1>s, <2>1, <2>2
  <2> QED  BY <2>3 DEF D
<1>3. ASSUME NEW n PROVE OnlyLive(img, MarkDirty(img, p, n))
  <2> DEFINE D == MarkDirty(img, p, n)
             r == img.row[<<Live, p>>]
  <2>1. /\ Tabled(D) /\ D.saved = img.saved /\ D.dirty = img.dirty \cup {p}
        /\ D.chunk = img.chunk
        /\ D.row[<<Live, p>>] = [kind |-> r.kind, size |-> n, hash |-> r.hash]
        /\ \A o \in Owner, q \in Path : o # Live \/ q # p => D.row[<<o, q>>] = img.row[<<o, q>>]
    BY MarkDirtyDoes
  <2> HIDE DEF D
  <2>2. \A o \in Saved, q \in Path : D.row[<<o, q>>] = img.row[<<o, q>>]  BY <1>0, <2>1
  <2>3. OnlyLive(img, D)  BY <1>s, <2>1, <2>2
  <2> QED  BY <2>3 DEF D
<1>4. OnlyLive(img, FinalizeFile(img, p))
  <2> DEFINE D == FinalizeFile(img, p)
  <2>1. /\ D.chunk = img.chunk /\ D.saved = img.saved
        /\ \A o \in Owner, q \in Path :
             o # Live \/ q # p \/ p \notin img.dirty => D.row[<<o, q>>] = img.row[<<o, q>>]
    BY FinalizeFileDoes
  <2> HIDE DEF D
  <2>2. \A o \in Saved, q \in Path : D.row[<<o, q>>] = img.row[<<o, q>>]  BY <1>0, <2>1
  <2>3. OnlyLive(img, D)  BY <1>s, <2>1, <2>2
  <2> QED  BY <2>3 DEF D
<1> QED  BY <1>1, <1>2, <1>3, <1>4

\* Restoring a snapshot and applying an undo record are.
LEMMA RestoreOnlyLive ==
  ASSUME NEW img, Tabled(img)
  PROVE  /\ \A s \in Snap : OnlyLive(img, SnapshotPut(img, s))
         /\ \A u \in Undo : OnlyLive(img, UndoPut(img, u))
<1>0. \A o \in Saved : o \in Owner /\ o # Live  BY ImageAssumption DEF Owner, Saved
<1>1. ASSUME NEW s \in Snap PROVE OnlyLive(img, SnapshotPut(img, s))
  <2>1. /\ SnapshotPut(img, s).saved = img.saved
        /\ \A o \in Owner, q \in Path : o # Live => Entry(SnapshotPut(img, s), o, q) = Entry(img, o, q)
    BY SnapshotPutDoes
  <2> QED  BY <1>0, <2>1 DEF OnlyLive
<1>2. ASSUME NEW u \in Undo PROVE OnlyLive(img, UndoPut(img, u))
  <2> DEFINE P == {p \in Path : img.row[<<u, p>>].kind # "unknown"}
  <2>1. /\ UndoPut(img, u).saved = img.saved
        /\ \A o \in Owner, q \in Path : o # Live \/ q \notin P => Entry(UndoPut(img, u), o, q) = Entry(img, o, q)
    BY UndoPutDoes
  <2> HIDE DEF P
  <2> QED  BY <1>0, <2>1 DEF OnlyLive
<1> QED  BY <1>1, <1>2
=============================================================================
