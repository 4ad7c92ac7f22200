--------------------------- MODULE OverlayProofs ---------------------------
(***************************************************************************)
(* Proofs about Overlay for every tree of paths, every Base, content and   *)
(* run.  LayerInv says that each layer is sound by itself, CountInv that   *)
(* the Delta's blobs are counted, BurialInv and AbsorbInv what the         *)
(* merged view shows while a run is absorbed.  What one write leaves is    *)
(* proved with Shown, the view of a Delta and a set of whiteouts.          *)
(***************************************************************************)
EXTENDS Overlay, VmImageProofs, WellFoundedInduction

-----------------------------------------------------------------------------
(* Chunks put one after the other. *)

\* A set of numbers has a least one.
LEMMA Least ==
  ASSUME NEW S \in SUBSET Nat, S # {}
  PROVE  \E i \in S : \A j \in S : i <= j
<1> DEFINE R == OpToRel(<, Nat)
<1>1. \A i, j \in Nat : <<j, i>> \in R <=> j < i  BY DEF OpToRel
<1>2. IsWellFoundedOn(R, Nat)  BY NatLessThanWellFounded
<1> HIDE DEF R
<1>3. PICK i \in S : \A j \in S : ~(<<j, i>> \in R)  BY <1>2, WFMin
<1>4. \A j \in S : ~(j < i)  BY <1>1, <1>3
<1> QED  BY <1>4

\* The stages of a sequence of puts, up to the n-th.
Stages(f, d, p, g, a, n) ==
  f = [m \in 0 .. n |-> IF m = 0 THEN d ELSE PutOne(f[m - 1], p, a + m - 1, g[a + m - 1])]

\* There are stages up to every n: the last one is put on top of those before.
LEMMA StagesExist ==
  ASSUME NEW d, NEW p, NEW g, NEW a, NEW n \in Nat
  PROVE  \E f : Stages(f, d, p, g, a, n)
<1> DEFINE S == {m \in Nat : ~ \E f : Stages(f, d, p, g, a, m)}
<1>1. SUFFICES ASSUME S # {} PROVE FALSE  OBVIOUS
<1>2. PICK m \in S : \A j \in S : m <= j
  <2>1. S \in SUBSET Nat  OBVIOUS
  <2> HIDE DEF S
  <2> QED  BY <1>1, <2>1, Least
<1>3. m \in Nat /\ ~ \E f : Stages(f, d, p, g, a, m)  BY <1>2
<1>4. m # 0
  <2> DEFINE z == [j \in 0 .. 0 |-> d]
  <2>1. z = [j \in 0 .. 0 |-> IF j = 0 THEN d ELSE PutOne(z[j - 1], p, a + j - 1, g[a + j - 1])]
    OBVIOUS
  <2>2. Stages(z, d, p, g, a, 0)  BY <2>1 DEF Stages
  <2> QED  BY <1>3, <2>2
<1>5. m - 1 \in Nat /\ m - 1 \notin S
  <2>1. m - 1 \in Nat /\ ~(m <= m - 1)  BY <1>3, <1>4
  <2> HIDE DEF S
  <2> QED  BY <1>2, <2>1
<1>6. PICK f : Stages(f, d, p, g, a, m - 1)  BY <1>5
<1> DEFINE h == [j \in 0 .. m |-> IF j = m THEN PutOne(f[m - 1], p, a + m - 1, g[a + m - 1]) ELSE f[j]]
           k == [j \in 0 .. m |-> IF j = 0 THEN d ELSE PutOne(h[j - 1], p, a + j - 1, g[a + j - 1])]
<1>7. ASSUME NEW j \in 0 .. m PROVE h[j] = k[j]
  <2>1. CASE j = m
    <3>1. h[m - 1] = f[m - 1]  BY <1>3, <1>4
    <3> QED  BY <1>3, <1>4, <2>1, <3>1
  <2>2. CASE j # m /\ j = 0
    <3>1. h[j] = f[j] /\ j \in 0 .. (m - 1)  BY <1>3, <2>2
    <3>2. f[j] = d  BY <1>6, <2>2, <3>1 DEF Stages
    <3> QED  BY <2>2, <3>1, <3>2
  <2>3. CASE j # m /\ j # 0
    <3>1. h[j] = f[j] /\ j \in 0 .. (m - 1) /\ j - 1 \in 0 .. m /\ j - 1 # m  BY <1>3, <2>3
    <3>2. f[j] = PutOne(f[j - 1], p, a + j - 1, g[a + j - 1])  BY <1>6, <2>3, <3>1 DEF Stages
    <3>3. h[j - 1] = f[j - 1]  BY <3>1
    <3> QED  BY <2>3, <3>1, <3>2, <3>3
  <2> QED  BY <2>1, <2>2, <2>3
<1>8. h = k  BY <1>7
<1>9. Stages(h, d, p, g, a, m)  BY <1>8 DEF Stages
<1> QED  BY <1>3, <1>9

\* What put_chunks leaves is the last of some stages.
LEMMA PutChunksStages ==
  ASSUME NEW d, NEW p, NEW g, Length(g) \in Nat
  PROVE  \E f : Stages(f, d, p, g, First(g), Length(g)) /\ PutChunks(d, p, g) = f[Length(g)]
<1> DEFINE n == Length(g)
           a == First(g)
           f == CHOOSE x : x = [m \in 0 .. n |-> IF m = 0 THEN d ELSE PutOne(x[m - 1], p, a + m - 1, g[a + m - 1])]
<1>1. PutChunks(d, p, g) = f[n]  BY DEF PutChunks
<1>2. \E x : x = [m \in 0 .. n |-> IF m = 0 THEN d ELSE PutOne(x[m - 1], p, a + m - 1, g[a + m - 1])]
  <2> HIDE DEF n, a
  <2>1. n \in Nat  BY DEF n
  <2>2. \E x : Stages(x, d, p, g, a, n)  BY <2>1, StagesExist
  <2> QED  BY <2>2 DEF Stages
<1>3. f = [m \in 0 .. n |-> IF m = 0 THEN d ELSE PutOne(f[m - 1], p, a + m - 1, g[a + m - 1])]
  BY <1>2
<1> QED  BY <1>1, <1>3 DEF Stages

-----------------------------------------------------------------------------
(* Statements on vm_fs. *)

\* Rows are replaced, and nothing else.
LEMMA RowsDo ==
  ASSUME NEW d, Tabled(d), NEW rw, rw = [k \in Owner \X Path |-> rw[k]]
  PROVE  LET R == [d EXCEPT !.row = rw]
         IN  /\ Tabled(R) /\ R.row = rw
             /\ R.chunk = d.chunk /\ R.blobs = d.blobs /\ R.refcnt = d.refcnt
             /\ R.dirty = d.dirty /\ R.saved = d.saved
<1> DEFINE R == [d EXCEPT !.row = rw]
<1>1. R = [chunk |-> d.chunk, blobs |-> d.blobs, refcnt |-> d.refcnt,
           row |-> rw, dirty |-> d.dirty, saved |-> d.saved]
  BY DEF Tabled
<1> HIDE DEF R
<1>2. Tabled(R)  BY <1>1 DEF Tabled
<1> QED  BY <1>1, <1>2 DEF R

\* A database whose live rows are replaced stays whole.
LEMMA RowsWhole ==
  ASSUME NEW d, Whole(d), NEW rw \in [Owner \X Path -> Row],
         \A q \in Path : rw[<<Live, q>>].kind # "unknown",
         \A o \in Saved, q \in Path : rw[<<o, q>>] = d.row[<<o, q>>]
  PROVE  Whole([d EXCEPT !.row = rw])
<1> DEFINE R == [d EXCEPT !.row = rw]
<1>1. Tabled(d)  BY ImageTabled DEF Whole
<1>2. /\ Tabled(R) /\ R.row = rw
      /\ R.chunk = d.chunk /\ R.blobs = d.blobs /\ R.refcnt = d.refcnt
      /\ R.dirty = d.dirty /\ R.saved = d.saved
  <2>1. rw = [k \in Owner \X Path |-> rw[k]]  OBVIOUS
  <2> QED  BY <1>1, <2>1, RowsDo
<1>3. R \in Image  BY DEF Whole, Image
<1> HIDE DEF R
<1>4. Counted(R) /\ Orphans(R) = {}  BY <1>2, SameBlobs DEF Whole
<1>5. Shape(d)  BY DEF Whole
<1>6. \A o \in Saved, q \in Path, i \in Idx :
        d.chunk[<<o, q, i>>] = NoPiece => R.chunk[<<o, q, i>>] = NoPiece
  BY <1>2
<1>7. (\A q \in Path : R.row[<<Live, q>>].kind # "unknown")
      /\ \A o \in Saved, q \in Path : R.row[<<o, q>>] = d.row[<<o, q>>]
  BY <1>2
<1>8. Shape(R)  BY <1>2, <1>5, <1>6, <1>7, SameSaved
<1> QED  BY <1>3, <1>4, <1>8 DEF Whole, R

DirRow == [kind |-> "dir", size |-> 0, hash |-> NoHash]

\* Every ancestor has a row, and no other row changes.
LEMMA EnsureParentDirsDoes ==
  ASSUME NEW d, Tabled(d), NEW p
  PROVE  LET R == EnsureParentDirs(d, p)
         IN  /\ Tabled(R) /\ R.chunk = d.chunk
             /\ \A o \in Owner, q \in Path :
                  R.row[<<o, q>>] = IF o = Live /\ q \in Anc[p] /\ LiveKind(d, q) = "none"
                                    THEN DirRow ELSE d.row[<<o, q>>]
<1> DEFINE rw == [k \in Owner \X Path |->
                    IF k[1] = Live /\ k[2] \in Anc[p] /\ LiveKind(d, k[2]) = "none"
                    THEN DirRow ELSE d.row[k]]
           R == [d EXCEPT !.row = rw]
<1>1. EnsureParentDirs(d, p) = R  BY DEF EnsureParentDirs, DirRow, Tabled
<1>2. rw = [k \in Owner \X Path |-> rw[k]]  OBVIOUS
<1>3. \A o \in Owner, q \in Path :
        rw[<<o, q>>] = IF o = Live /\ q \in Anc[p] /\ LiveKind(d, q) = "none"
                       THEN DirRow ELSE d.row[<<o, q>>]
  OBVIOUS
<1> HIDE DEF rw
<1>4. Tabled(R) /\ R.row = rw /\ R.chunk = d.chunk  BY <1>2, RowsDo
<1> QED  BY <1>1, <1>3, <1>4

LEMMA EnsureParentDirsWhole ==
  ASSUME NEW d, Whole(d), NEW p
  PROVE  Whole(EnsureParentDirs(d, p))
<1> DEFINE rw == [k \in Owner \X Path |->
                    IF k[1] = Live /\ k[2] \in Anc[p] /\ LiveKind(d, k[2]) = "none"
                    THEN DirRow ELSE d.row[k]]
<1>1. d.row \in [Owner \X Path -> Row] /\ Shape(d)  BY DEF Whole, Image
<1>2. EnsureParentDirs(d, p) = [d EXCEPT !.row = rw]
  <2>1. Tabled(d)  BY ImageTabled DEF Whole
  <2> QED  BY <2>1 DEF EnsureParentDirs, DirRow, Tabled
<1>3. DirRow \in Row /\ DirRow.kind = "dir"
  <2>1. 0 \in 0 .. MaxChunks  BY ImageAssumption
  <2> QED  BY <2>1 DEF DirRow, Row, Kind, Hash
<1>4. rw \in [Owner \X Path -> Row]  BY <1>1, <1>3
<1>5. \A q \in Path : rw[<<Live, q>>].kind # "unknown"
  <2> TAKE q \in Path
  <2>1. rw[<<Live, q>>] = DirRow \/ rw[<<Live, q>>] = d.row[<<Live, q>>]  BY DEF Owner
  <2> HIDE DEF rw
  <2> QED  BY <1>1, <1>3, <2>1 DEF Shape
<1>6. \A o \in Saved, q \in Path : rw[<<o, q>>] = d.row[<<o, q>>]
  BY ImageAssumption DEF Owner, Saved
<1> HIDE DEF rw
<1>7. Whole([d EXCEPT !.row = rw])  BY <1>4, <1>5, <1>6, RowsWhole
<1> QED  BY <1>2, <1>7

\* The row p gets when its file is to have n chunks.
SizedRow(d, p, n) ==
  IF LiveKind(d, p) # "none"
  THEN [kind |-> LiveKind(d, p), size |-> n, hash |-> d.row[<<Live, p>>].hash]
  ELSE [kind |-> "file", size |-> n, hash |-> NoHash]

\* The live row of p becomes r.
WithRow(d, p, r) == [d EXCEPT !.row = [d.row EXCEPT ![<<Live, p>>] = r]]

LEMMA WithRowDoes ==
  ASSUME NEW d, Tabled(d), NEW p \in Path, NEW r
  PROVE  LET R == WithRow(d, p, r)
         IN  /\ Tabled(R) /\ R.chunk = d.chunk /\ R.blobs = d.blobs
             /\ \A o \in Owner, q \in Path :
                  R.row[<<o, q>>] = IF o = Live /\ q = p THEN r ELSE d.row[<<o, q>>]
<1> DEFINE rw == [d.row EXCEPT ![<<Live, p>>] = r]
           R == [d EXCEPT !.row = rw]
<1>1. rw = [k \in Owner \X Path |-> rw[k]]  BY DEF Tabled
<1>2. \A o \in Owner, q \in Path : rw[<<o, q>>] = IF o = Live /\ q = p THEN r ELSE d.row[<<o, q>>]
  BY DEF Tabled, Owner
<1> HIDE DEF rw
<1>3. Tabled(R) /\ R.row = rw /\ R.chunk = d.chunk /\ R.blobs = d.blobs  BY <1>1, RowsDo
<1>4. WithRow(d, p, r) = R  BY DEF WithRow, rw
<1> QED  BY <1>2, <1>3, <1>4

LEMMA WithRowWhole ==
  ASSUME NEW d, Whole(d), NEW p \in Path, NEW r \in Row, r.kind # "unknown"
  PROVE  Whole(WithRow(d, p, r))
<1> DEFINE rw == [d.row EXCEPT ![<<Live, p>>] = r]
<1>1. d.row \in [Owner \X Path -> Row] /\ Shape(d)  BY DEF Whole, Image
<1>2. rw \in [Owner \X Path -> Row]  BY <1>1
<1>3. \A q \in Path : rw[<<Live, q>>].kind # "unknown"  BY <1>1 DEF Shape, Owner
<1>4. \A o \in Saved, q \in Path : rw[<<o, q>>] = d.row[<<o, q>>]
  BY <1>1, ImageAssumption DEF Owner, Saved
<1> HIDE DEF rw
<1>5. Whole([d EXCEPT !.row = rw])  BY <1>2, <1>3, <1>4, RowsWhole
<1> QED  BY <1>5 DEF WithRow, rw

\* ensure_delta_file_row writes one row.
LEMMA EnsureDeltaFileRowIs ==
  ASSUME NEW d, Tabled(d), NEW p \in Path, d.row[<<Live, p>>] \in Row, NEW n
  PROVE  EnsureDeltaFileRow(d, p, n) = WithRow(d, p, SizedRow(d, p, n))
<1>1. CASE LiveKind(d, p) # "none"
  <2> DEFINE r == d.row[<<Live, p>>]
  <2>1. [r EXCEPT !.size = n] = SizedRow(d, p, n)  BY <1>1 DEF SizedRow, Row, LiveKind
  <2>2. <<Live, p>> \in Owner \X Path  BY DEF Owner
  <2>3. EnsureDeltaFileRow(d, p, n) = [d EXCEPT !.row = [d.row EXCEPT ![<<Live, p>>] = [r EXCEPT !.size = n]]]
    BY <1>1, <2>2 DEF EnsureDeltaFileRow, Tabled
  <2> QED  BY <2>1, <2>3 DEF WithRow
<1>2. CASE LiveKind(d, p) = "none"
  BY <1>2 DEF EnsureDeltaFileRow, SetRow, WithRow, SizedRow, Tabled
<1> QED  BY <1>1, <1>2

\* So does refresh_delta_file.
LEMMA RefreshDeltaFileIs ==
  ASSUME NEW d, Tabled(d), NEW p \in Path, d.row[<<Live, p>>] \in Row
  PROVE  RefreshDeltaFile(d, p)
           = WithRow(d, p, [kind |-> LiveKind(d, p), size |-> LiveSize(d, p), hash |-> Sha(LayeredFile(d, p))])
<1> DEFINE r == d.row[<<Live, p>>]
           h == Sha(LayeredFile(d, p))
<1> HIDE DEF h
<1>1. [r EXCEPT !.hash = h] = [kind |-> LiveKind(d, p), size |-> LiveSize(d, p), hash |-> h]
  BY DEF Row, LiveKind, LiveSize
<1>2. <<Live, p>> \in Owner \X Path  BY DEF Owner
<1>3. RefreshDeltaFile(d, p) = [d EXCEPT !.row = [d.row EXCEPT ![<<Live, p>>] = [r EXCEPT !.hash = h]]]
  BY <1>2 DEF RefreshDeltaFile, Tabled, h
<1> QED  BY <1>1, <1>3 DEF WithRow, h

-----------------------------------------------------------------------------
(* Chunks put without put_chunk's guard. *)

\* One chunk moves; at most its blob is stored.
LEMMA PutOneDoes ==
  ASSUME NEW d, Tabled(d), NEW p \in Path, NEW j \in Idx, NEW b
  PROVE  LET R == PutOne(d, p, j, b)
         IN  /\ Tabled(R) /\ R.row = d.row /\ R.blobs \subseteq d.blobs \cup {b}
             /\ \A o \in Owner, q \in Path, i \in Idx :
                  R.chunk[<<o, q, i>>] = IF o = Live /\ q = p /\ i = j THEN b ELSE d.chunk[<<o, q, i>>]
<1> DEFINE k == <<Live, p, j>>
           E == BlobEnsure(d, {b})
           K == {k}
           D == DeleteChunks(E, K)
           new == [r \in K |-> b]
           J == InsertChunks(D, new)
<1>1. PutOne(d, p, j, b) = J  BY DEF PutOne
<1>2. DOMAIN new = K /\ \A r \in K : new[r] = b  OBVIOUS
<1>3. ASSUME NEW o \in Owner, NEW q \in Path, NEW i \in Idx
      PROVE  <<o, q, i>> \in Key /\ (<<o, q, i>> \in K <=> o = Live /\ q = p /\ i = j)
  BY KeyParts
<1> HIDE DEF K, new
<1>4. Tabled(E) /\ E.chunk = d.chunk /\ E.row = d.row  BY BlobEnsureDoes
<1>5. E.blobs = d.blobs \cup {b}  BY DEF BlobEnsure, Tabled
<1> HIDE DEF E
<1>6. /\ Tabled(D) /\ D.row = E.row
      /\ \A x \in Key : D.chunk[x] = IF x \in K THEN NoPiece ELSE E.chunk[x]
  BY <1>4, DeleteChunksDoes
<1>7. D.blobs \subseteq E.blobs  BY <1>4 DEF DeleteChunks, Tabled
<1> HIDE DEF D
<1>8. /\ Tabled(J) /\ J.row = D.row
      /\ \A x \in Key : J.chunk[x] = IF x \in DOMAIN new THEN new[x] ELSE D.chunk[x]
  BY <1>6, InsertChunksDoes
<1>9. J.blobs = D.blobs  BY <1>6 DEF InsertChunks, Tabled
<1> HIDE DEF J
<1>10. ASSUME NEW o \in Owner, NEW q \in Path, NEW i \in Idx
       PROVE  J.chunk[<<o, q, i>>] = IF o = Live /\ q = p /\ i = j THEN b ELSE d.chunk[<<o, q, i>>]
  <2>1. J.chunk[<<o, q, i>>] = IF <<o, q, i>> \in K THEN b ELSE d.chunk[<<o, q, i>>]
    BY <1>2, <1>3, <1>4, <1>6, <1>8
  <2> QED  BY <1>3, <2>1
<1> QED  BY <1>1, <1>4, <1>5, <1>6, <1>7, <1>8, <1>9, <1>10

\* It keeps the counts, unless the chunk was the last reference to its own content: then
\* the blob is gone, and the row written has none.
LEMMA PutOneWhole ==
  ASSUME NEW d, Whole(d), NEW p \in Path, NEW j \in Idx, NEW b \in Piece
  PROVE  \/ Whole(PutOne(d, p, j, b))
         \/ b \notin PutOne(d, p, j, b).blobs /\ d.chunk[<<Live, p, j>>] = b
<1> DEFINE k == <<Live, p, j>>
<1>1. CASE d.chunk[k] # b
  <2>1. PutOne(d, p, j, b) = PutChunk(d, p, j, b)  BY <1>1 DEF PutOne, PutChunk
  <2> QED  BY <2>1, PutChunkWhole
<1>2. CASE d.chunk[k] = b
  <2> DEFINE K == {k}
             E == BlobEnsure(d, {b})
             D == DeleteChunks(E, K)
             new == [r \in K |-> b]
             J == InsertChunks(D, new)
  <2>1. PutOne(d, p, j, b) = J  BY DEF PutOne
  <2>2. K \in SUBSET Key /\ new \in [K -> Piece] /\ \A x \in K : new[x] = b /\ x[1] = Live
    BY DEF Key, Owner
  <2>3. d \in Image /\ Counted(d) /\ k \in Key /\ b # NoPiece  BY <2>2, ImageAssumption DEF Whole
  <2>4. b \in d.blobs  BY <1>2, <2>3, ChunkStored
  <2>5. E = d  BY <2>3, <2>4 DEF BlobEnsure, Image
  <2> HIDE DEF K, new, E
  <2>6. Whole(D)  BY <2>2, <2>5, DeleteLiveWhole
  <2>7. /\ D.chunk = [x \in Key |-> IF x \in K THEN NoPiece ELSE E.chunk[x]]
    BY <2>2, <2>3, <2>5, DeleteChunksCounted
  <2> HIDE DEF D
  <2>8. J.blobs = D.blobs  BY <2>6 DEF InsertChunks, Whole, Image
  <2>9. CASE b \in D.blobs
    <3>1. \A x \in K : new[x] \in D.blobs /\ D.chunk[x] = NoPiece  BY <2>2, <2>7, <2>9
    <3>2. /\ J \in Image /\ Counted(J)
          /\ Orphans(J) \subseteq Orphans(D) \ {new[x] : x \in K}
          /\ J.chunk = [x \in Key |-> IF x \in K THEN new[x] ELSE D.chunk[x]]
          /\ J.row = D.row /\ J.saved = D.saved
      BY <2>2, <2>6, <3>1, InsertChunksCounted DEF Whole
    <3> HIDE DEF J
    <3>3. Orphans(J) = {}  BY <2>6, <3>2 DEF Whole
    <3>4. Shape(D)  BY <2>6 DEF Whole
    <3>5. \A o \in Saved, q \in Path, i \in Idx : <<o, q, i>> \in Key /\ <<o, q, i>> \notin K
      <4> TAKE o \in Saved, q \in Path, i \in Idx
      <4>1. o # Live /\ <<o, q, i>>[1] = o /\ <<o, q, i>> \in Key  BY ImageAssumption DEF Saved, Owner, Key
      <4> QED  BY <2>2, <4>1
    <3>6. \A o \in Saved, q \in Path, i \in Idx :
            D.chunk[<<o, q, i>>] = NoPiece => J.chunk[<<o, q, i>>] = NoPiece
      BY <3>2, <3>5
    <3>7. (\A q \in Path : J.row[<<Live, q>>].kind # "unknown")
          /\ \A o \in Saved, q \in Path : J.row[<<o, q>>] = D.row[<<o, q>>]
      BY <3>2, <3>4 DEF Shape
    <3>8. Shape(J)  BY <3>2, <3>4, <3>6, <3>7, SameSaved
    <3> QED  BY <2>1, <3>2, <3>3, <3>8 DEF Whole
  <2>10. CASE b \notin D.blobs  BY <1>2, <2>1, <2>8, <2>10
  <2> QED  BY <2>9, <2>10
<1> QED  BY <1>1, <1>2

\* A range: pieces for the chunks from a to e - 1.
RangeOf(g, a, e) ==
  /\ a \in 0 .. MaxChunks /\ e \in 0 .. MaxChunks /\ a <= e
  /\ g \in [a .. (e - 1) -> Piece]

LEMMA RangeLength ==
  ASSUME NEW g, NEW a, NEW e, RangeOf(g, a, e)
  PROVE  /\ Length(g) = e - a /\ e - a \in Nat
         /\ a < e => First(g) = a
         /\ \A i \in DOMAIN g : i \in Idx /\ a <= i /\ i < e /\ g[i] \in Piece
         /\ DOMAIN g = a .. (e - 1)
<1>1. a \in Nat /\ e \in Nat /\ MaxChunks \in Nat /\ DOMAIN g = a .. (e - 1)
  BY ImageAssumption DEF RangeOf
<1>2. e - a \in Nat  BY <1>1 DEF RangeOf
<1>3. Cardinality(a .. (e - 1)) = e - a
  <2>1. e - 1 \in Int /\ a \in Int  BY <1>1
  <2>2. Cardinality(a .. (e - 1)) = IF a > e - 1 THEN 0 ELSE (e - 1) - a + 1
    BY <2>1, FS_Interval
  <2> QED  BY <1>1, <2>2 DEF RangeOf
<1>4. ASSUME a < e PROVE First(g) = a
  <2>1. a \in DOMAIN g /\ \A j \in DOMAIN g : a <= j  BY <1>1, <1>4
  <2>2. \A i \in DOMAIN g : (\A j \in DOMAIN g : i <= j) => i = a  BY <1>1, <2>1
  <2> QED  BY <2>1, <2>2 DEF First
<1>5. \A i \in DOMAIN g : i \in Idx /\ a <= i /\ i < e /\ g[i] \in Piece
  BY <1>1 DEF RangeOf, Idx
<1> QED  BY <1>1, <1>2, <1>3, <1>4, <1>5 DEF Length

\* The database after the chunks from a to c - 1 of a range g: they are in place, and no
\* other row has changed.
Placed(d, R, p, g, a, c) ==
  /\ Tabled(R) /\ R.row = d.row
  /\ \A o \in Owner, q \in Path, i \in Idx :
       R.chunk[<<o, q, i>>] = IF o = Live /\ q = p /\ a <= i /\ i < c THEN g[i] ELSE d.chunk[<<o, q, i>>]

\* No chunk that a range rewrites with the piece it has is followed by one with that piece.
Once(d, p, g) == \A i, j \in DOMAIN g : i < j /\ g[i] = g[j] => d.chunk[<<Live, p, i>>] # g[i]

\* Either the counts are right, or a chunk put so far has lost its blob for good.
Unspoiled(d, R, p, g, a, c) ==
  \/ Whole(R)
  \/ \E i \in a .. (c - 1) : g[i] \notin R.blobs /\ d.chunk[<<Live, p, i>>] = g[i]

LEMMA PlacedNext ==
  ASSUME NEW d, NEW R, NEW p \in Path, NEW g, NEW a, NEW e, RangeOf(g, a, e), NEW c \in a .. (e - 1),
         Placed(d, R, p, g, a, c)
  PROVE  /\ Placed(d, PutOne(R, p, c, g[c]), p, g, a, c + 1)
         /\ Once(d, p, g) /\ Unspoiled(d, R, p, g, a, c)
              => Unspoiled(d, PutOne(R, p, c, g[c]), p, g, a, c + 1)
<1> DEFINE T == PutOne(R, p, c, g[c])
<1>1. a \in Nat /\ e \in Nat /\ c \in Nat /\ c \in Idx /\ g[c] \in Piece /\ DOMAIN g = a .. (e - 1) /\ c \in DOMAIN g
  <2>1. a \in Nat /\ e \in Nat  BY ImageAssumption DEF RangeOf
  <2>2. DOMAIN g = a .. (e - 1)  BY DEF RangeOf
  <2>3. c \in DOMAIN g  BY <2>2
  <2> QED  BY <2>1, <2>2, <2>3, RangeLength
<1>2. /\ Tabled(T) /\ T.row = R.row /\ T.blobs \subseteq R.blobs \cup {g[c]}
      /\ \A o \in Owner, q \in Path, i \in Idx :
           T.chunk[<<o, q, i>>] = IF o = Live /\ q = p /\ i = c THEN g[c] ELSE R.chunk[<<o, q, i>>]
  <2>1. Tabled(R)  BY DEF Placed
  <2> QED  BY <1>1, <2>1, PutOneDoes
<1>3. Whole(R) => Whole(T) \/ (g[c] \notin T.blobs /\ d.chunk[<<Live, p, c>>] = g[c])
  <2>1. Whole(R) => Whole(T) \/ (g[c] \notin T.blobs /\ R.chunk[<<Live, p, c>>] = g[c])
    BY <1>1, PutOneWhole
  <2>2. ~(c < c) /\ Live \in Owner  BY <1>1 DEF Owner
  <2>3. R.chunk[<<Live, p, c>>] = d.chunk[<<Live, p, c>>]  BY <1>1, <2>2 DEF Placed
  <2> HIDE DEF T
  <2> QED  BY <2>1, <2>3
<1> HIDE DEF T
<1>4. Placed(d, T, p, g, a, c + 1)
  <2>1. ASSUME NEW o \in Owner, NEW q \in Path, NEW i \in Idx
        PROVE  T.chunk[<<o, q, i>>]
                 = IF o = Live /\ q = p /\ a <= i /\ i < c + 1 THEN g[i] ELSE d.chunk[<<o, q, i>>]
    <3>1. i \in Nat  BY ImageAssumption DEF Idx
    <3>2. i < c + 1 <=> i < c \/ i = c  BY <1>1, <3>1
    <3>3. a <= c  BY <1>1
    <3>4. R.chunk[<<o, q, i>>] = IF o = Live /\ q = p /\ a <= i /\ i < c THEN g[i] ELSE d.chunk[<<o, q, i>>]
      BY DEF Placed
    <3>5. T.chunk[<<o, q, i>>] = IF o = Live /\ q = p /\ i = c THEN g[c] ELSE R.chunk[<<o, q, i>>]
      BY <1>2
    <3> QED  BY <3>2, <3>3, <3>4, <3>5
  <2> QED  BY <1>2, <2>1 DEF Placed
<1>5. ASSUME Once(d, p, g), Unspoiled(d, R, p, g, a, c)
      PROVE  Unspoiled(d, T, p, g, a, c + 1)
  <2>1. CASE Whole(R)
    <3>1. c \in a .. ((c + 1) - 1)  BY <1>1
    <3> QED  BY <1>3, <2>1, <3>1 DEF Unspoiled
  <2>2. CASE ~Whole(R)
    <3>1. PICK i \in a .. (c - 1) : g[i] \notin R.blobs /\ d.chunk[<<Live, p, i>>] = g[i]
      BY <1>5, <2>2 DEF Unspoiled
    <3>2. i \in DOMAIN g /\ i < c /\ i \in a .. ((c + 1) - 1)  BY <1>1
    <3>3. g[i] # g[c]  BY <1>1, <1>5, <3>1, <3>2 DEF Once
    <3> QED  BY <1>2, <3>1, <3>2, <3>3 DEF Unspoiled
  <2> QED  BY <2>1, <2>2
<1> QED  BY <1>4, <1>5 DEF T

\* put_chunks leaves the range in place.
LEMMA PutChunksDoes ==
  ASSUME NEW d, Tabled(d), NEW p \in Path, NEW g, NEW a, NEW e, RangeOf(g, a, e)
  PROVE  /\ Placed(d, PutChunks(d, p, g), p, g, a, e)
         /\ Whole(d) /\ Once(d, p, g) => Unspoiled(d, PutChunks(d, p, g), p, g, a, e)
<1> DEFINE n == Length(g)
           Ok(R, c) == Placed(d, R, p, g, a, c) /\ (Whole(d) /\ Once(d, p, g) => Unspoiled(d, R, p, g, a, c))
<1>1. a \in Nat /\ e \in Nat /\ n = e - a /\ n \in Nat /\ (a < e => First(g) = a) /\ a <= e
  <2>1. a \in Nat /\ e \in Nat /\ a <= e  BY ImageAssumption DEF RangeOf
  <2> QED  BY <2>1, RangeLength
<1>2. PICK f : Stages(f, d, p, g, First(g), n) /\ PutChunks(d, p, g) = f[n]
  BY <1>1, PutChunksStages
<1>3. Ok(d, a)
  <2>1. \A i \in Idx : ~(a <= i /\ i < a)  BY <1>1, ImageAssumption DEF Idx
  <2> QED  BY <2>1 DEF Placed, Unspoiled
<1> HIDE DEF n
<1>4. ASSUME NEW m \in 0 .. n PROVE Ok(f[m], a + m)
  <2> DEFINE S == {x \in 0 .. n : ~Ok(f[x], a + x)}
  <2>1. SUFFICES ASSUME S # {} PROVE FALSE  OBVIOUS
  <2>2. PICK x \in S : \A j \in S : x <= j
    <3>1. S \in SUBSET Nat  BY <1>1
    <3> HIDE DEF S
    <3> QED  BY <2>1, <3>1, Least
  <2>3. x \in 0 .. n /\ ~Ok(f[x], a + x)  BY <2>2
  <2>4. x # 0
    <3>1. f[0] = d /\ a + 0 = a  BY <1>1, <1>2 DEF Stages
    <3> QED  BY <1>3, <2>3, <3>1
  <2> DEFINE y == x - 1
  <2>5. y \in 0 .. n /\ y \notin S /\ x = y + 1
    <3>1. y \in 0 .. n /\ ~(x <= y) /\ x = y + 1  BY <1>1, <2>3, <2>4
    <3> HIDE DEF S
    <3> QED  BY <2>2, <3>1
  <2>6. Ok(f[y], a + y)  BY <2>5
  <2>7. First(g) = a /\ a + y \in a .. (e - 1)  BY <1>1, <2>3, <2>5
  <2>8. f[x] = PutOne(f[y], p, a + y, g[a + y])
    <3>1. f[x] = PutOne(f[x - 1], p, First(g) + x - 1, g[First(g) + x - 1])
      BY <1>1, <1>2, <2>3, <2>4 DEF Stages
    <3>2. First(g) + x - 1 = a + y  BY <1>1, <2>3, <2>5, <2>7
    <3> QED  BY <3>1, <3>2
  <2>9. a + x = (a + y) + 1  BY <1>1, <2>3, <2>5
  <2> HIDE DEF y, S
  <2>10. Placed(d, f[y], p, g, a, a + y)  BY <2>6
  <2>11. /\ Placed(d, f[x], p, g, a, a + x)
         /\ Once(d, p, g) /\ Unspoiled(d, f[y], p, g, a, a + y) => Unspoiled(d, f[x], p, g, a, a + x)
    BY <2>7, <2>8, <2>9, <2>10, PlacedNext
  <2>12. Ok(f[x], a + x)  BY <2>6, <2>11
  <2> QED  BY <2>3, <2>12
<1>5. a + n = e /\ n \in 0 .. n  BY <1>1
<1>6. Ok(f[n], e)  BY <1>4, <1>5
<1> QED  BY <1>2, <1>6

-----------------------------------------------------------------------------
(* The invariant. *)

\* An entry of the Delta: a row of a directory or a file, or none, and then no chunks; a
\* file can be put together from its own chunks and the Base's.
SoundAt(d, p) ==
  /\ d.row[<<Live, p>>] \in Row
  /\ LiveKind(d, p) \in {"none", "dir", "file"}
  /\ \A i \in Idx : d.chunk[<<Live, p, i>>] \in PieceOrNone
  /\ LiveKind(d, p) = "none" => \A i \in Idx : d.chunk[<<Live, p, i>>] = NoPiece
  /\ LiveKind(d, p) = "file" =>
       /\ \A i \in 0 .. (LiveSize(d, p) - 1) : LayeredChunk(d, p, i) # NoPiece
       /\ d.row[<<Live, p>>].hash = Sha(LayeredFile(d, p))

Sound(d) == Tabled(d) /\ \A p \in Path : SoundAt(d, p)

\* The Delta and what a rollback returns to; the other variables have their types.
LayerInv ==
  /\ base \in Tables /\ tree \in Trees
  /\ Sound(delta) /\ Sound(before)
  /\ white \in SUBSET Path /\ todo \in SUBSET Path

\* Both are counted exactly.
CountInv == ~respun => Whole(delta) /\ Whole(before)

\* The hidden rows are those a rollback buried.
BurialInv == buried = Hidden

Kept(p) == tree[p].kind # "none"

\* How far an absorb has come: what was walked is shown, and nothing of it lies below a path
\* that is still to be walked; then only what is to be removed differs from the tree.
AbsorbInv ==
  /\ pc = "absorb" => \A p \in Path : /\ p \in todo => Kept(p)
                                      /\ Kept(p) /\ p \notin todo => View(p) = tree[p] /\ Anc[p] \cap todo = {}
  /\ pc = "gone" => \A p \in Path : /\ p \in todo => ~Kept(p)
                                    /\ p \notin todo => View(p) = tree[p]
  /\ pc = "done" => \A p \in Path : View(p) = tree[p]

-----------------------------------------------------------------------------
(* Files and nodes. *)

DirNode == NodeOf("dir", EmptyFile)

\* A file's chunks are numbered from 0.
LEMMA PiecesShape ==
  ASSUME NEW f \in Pieces
  PROVE  /\ Length(f) \in 0 .. MaxChunks /\ DOMAIN f = 0 .. (Length(f) - 1)
         /\ \A i \in DOMAIN f : i \in Idx /\ f[i] \in Piece
         /\ f = [i \in 0 .. (Length(f) - 1) |-> f[i]]
<1>1. PICK n \in 0 .. MaxChunks : f \in [0 .. (n - 1) -> Piece]  BY DEF Pieces
<1>2. n \in Nat /\ MaxChunks \in Nat  BY <1>1, ImageAssumption
<1>3. Cardinality(0 .. (n - 1)) = n
  <2>1. 0 \in Int /\ n - 1 \in Int  BY <1>2
  <2>2. Cardinality(0 .. (n - 1)) = IF 0 > n - 1 THEN 0 ELSE (n - 1) - 0 + 1  BY <2>1, FS_Interval
  <2> QED  BY <1>2, <2>2
<1>4. DOMAIN f = 0 .. (n - 1)  BY <1>1
<1>5. Length(f) = n  BY <1>3, <1>4 DEF Length
<1>6. \A i \in DOMAIN f : i \in Idx /\ f[i] \in Piece  BY <1>1, <1>2, <1>4 DEF Idx
<1> QED  BY <1>1, <1>4, <1>5, <1>6

LEMMA EmptyPieces == EmptyFile \in Pieces /\ DOMAIN EmptyFile = {}
<1>1. 0 .. (0 - 1) = {} /\ 0 \in 0 .. MaxChunks  BY ImageAssumption
<1>2. EmptyFile \in [0 .. (0 - 1) -> Piece]  BY <1>1 DEF EmptyFile
<1> QED  BY <1>1, <1>2 DEF Pieces, EmptyFile

\* What a table has at a path.
LEMMA TableNode ==
  ASSUME NEW t \in Tables, NEW p \in Path
  PROVE  /\ t[p].kind \in {"none", "dir", "file"}
         /\ t[p].kind = "none" => t[p] = NoNode
         /\ t[p].kind = "dir" => t[p] = DirNode
         /\ t[p].kind = "file" => t[p].data \in Bodies[p] /\ t[p] = NodeOf("file", t[p].data)
         /\ t[p].data \in Pieces
<1>1. t[p] \in Nodes(p)  BY DEF Tables
<1>2. Bodies[p] \subseteq Pieces  BY OverlayAssumption
<1>3. CASE t[p] = NoNode  BY <1>1, <1>3, EmptyPieces DEF NoNode, NodeOf
<1>4. CASE t[p] = DirNode  BY <1>1, <1>4, EmptyPieces DEF DirNode, NodeOf
<1>5. CASE \E f \in Bodies[p] : t[p] = NodeOf("file", f)
  <2>1. PICK f \in Bodies[p] : t[p] = NodeOf("file", f)  BY <1>5
  <2>2. t[p].kind = "file" /\ t[p].data = f  BY <2>1 DEF NodeOf
  <2> QED  BY <1>1, <1>2, <2>1, <2>2
<1>6. t[p] = NoNode \/ t[p] = DirNode \/ \E f \in Bodies[p] : t[p] = NodeOf("file", f)
  BY <1>1 DEF Nodes, DirNode
<1> QED  BY <1>3, <1>4, <1>5, <1>6

\* A tree on the host is a table, with directories above every entry.
LEMMA TreeNode ==
  ASSUME NEW t \in Trees, NEW p \in Path
  PROVE  /\ t \in Tables
         /\ t[p].kind # "none" => \A a \in Anc[p] : t[a].kind = "dir"
BY DEF Trees

\* Two databases with the same entry at p show the same file there.
LEMMA LayeredSame ==
  ASSUME NEW d, NEW e, NEW p \in Path, d.row[<<Live, p>>] \in Row,
         Entry(e, Live, p) = Entry(d, Live, p)
  PROVE  /\ LiveKind(e, p) = LiveKind(d, p) /\ LiveSize(e, p) = LiveSize(d, p)
         /\ e.row[<<Live, p>>] = d.row[<<Live, p>>]
         /\ \A i \in Idx : e.chunk[<<Live, p, i>>] = d.chunk[<<Live, p, i>>]
         /\ \A i \in 0 .. (LiveSize(d, p) - 1) : LayeredChunk(e, p, i) = LayeredChunk(d, p, i)
         /\ LayeredFile(e, p) = LayeredFile(d, p)
<1>1. e.row[<<Live, p>>] = d.row[<<Live, p>>]  BY EntryParts
<1>2. \A i \in Idx : e.chunk[<<Live, p, i>>] = d.chunk[<<Live, p, i>>]
  BY EntryParts
<1>3. LiveSize(d, p) \in 0 .. MaxChunks /\ MaxChunks \in Nat  BY ImageAssumption DEF LiveSize, Row
<1>4. \A i \in 0 .. (LiveSize(d, p) - 1) : i \in Idx  BY <1>3 DEF Idx
<1>5. \A i \in 0 .. (LiveSize(d, p) - 1) : LayeredChunk(e, p, i) = LayeredChunk(d, p, i)
  BY <1>2, <1>4 DEF LayeredChunk
<1>6. LiveKind(e, p) = LiveKind(d, p) /\ LiveSize(e, p) = LiveSize(d, p)
  BY <1>1 DEF LiveKind, LiveSize
<1>7. LayeredFile(e, p) = LayeredFile(d, p)  BY <1>5, <1>6 DEF LayeredFile
<1> QED  BY <1>1, <1>2, <1>5, <1>6, <1>7

LEMMA SoundSame ==
  ASSUME NEW d, NEW e, NEW p \in Path, SoundAt(d, p), Entry(e, Live, p) = Entry(d, Live, p)
  PROVE  SoundAt(e, p)
<1>1. d.row[<<Live, p>>] \in Row  BY DEF SoundAt
<1>2. /\ LiveKind(e, p) = LiveKind(d, p) /\ LiveSize(e, p) = LiveSize(d, p)
      /\ e.row[<<Live, p>>] = d.row[<<Live, p>>]
      /\ \A i \in Idx : e.chunk[<<Live, p, i>>] = d.chunk[<<Live, p, i>>]
      /\ \A i \in 0 .. (LiveSize(d, p) - 1) : LayeredChunk(e, p, i) = LayeredChunk(d, p, i)
      /\ LayeredFile(e, p) = LayeredFile(d, p)
  BY <1>1, LayeredSame
<1> QED  BY <1>2 DEF SoundAt

\* Bounds of a sound entry.
LEMMA SoundSize ==
  ASSUME NEW d, NEW p \in Path, SoundAt(d, p)
  PROVE  /\ LiveSize(d, p) \in 0 .. MaxChunks /\ LiveSize(d, p) \in Nat
         /\ \A i \in 0 .. (LiveSize(d, p) - 1) : i \in Idx
<1>1. LiveSize(d, p) \in 0 .. MaxChunks /\ MaxChunks \in Nat  BY ImageAssumption DEF SoundAt, LiveSize, Row
<1> QED  BY <1>1 DEF Idx

\* A file written as a whole is sound and shows what was written.
LEMMA FileSound ==
  ASSUME NEW d, NEW p \in Path, NEW f \in Pieces, Entry(d, Live, p) = FileEntry(f)
  PROVE  /\ SoundAt(d, p) /\ LiveKind(d, p) = "file" /\ LayeredFile(d, p) = f
<1>1. /\ Length(f) \in 0 .. MaxChunks /\ DOMAIN f = 0 .. (Length(f) - 1)
      /\ \A i \in DOMAIN f : i \in Idx /\ f[i] \in Piece
      /\ f = [i \in 0 .. (Length(f) - 1) |-> f[i]]
  BY PiecesShape
<1>2. d.row[<<Live, p>>] = [kind |-> "file", size |-> Length(f), hash |-> Sha(f)]
  BY DEF Entry, FileEntry, Length
<1>3. ASSUME NEW i \in Idx PROVE d.chunk[<<Live, p, i>>] = IF i \in DOMAIN f THEN f[i] ELSE NoPiece
  <2>1. Content(d, Live, p) = Sha(f)  BY DEF Entry, FileEntry
  <2>2. Content(d, Live, p)[i] = d.chunk[<<Live, p, i>>]  BY DEF Content
  <2> QED  BY <2>1, <2>2 DEF Sha
<1>4. LiveKind(d, p) = "file" /\ LiveSize(d, p) = Length(f) /\ d.row[<<Live, p>>].hash = Sha(f)
  BY <1>2 DEF LiveKind, LiveSize
<1>5. ASSUME NEW i \in DOMAIN f PROVE LayeredChunk(d, p, i) = f[i] /\ f[i] # NoPiece
  BY <1>1, <1>3, ImageAssumption DEF LayeredChunk
<1>6. LayeredFile(d, p) = f  BY <1>1, <1>4, <1>5 DEF LayeredFile
<1>7. d.row[<<Live, p>>] \in Row
  <2>1. Sha(f) \in Hash  BY PiecesType
  <2> QED  BY <1>1, <1>2, <2>1 DEF Row, Kind
<1>8. \A i \in Idx : d.chunk[<<Live, p, i>>] \in PieceOrNone  BY <1>1, <1>3 DEF PieceOrNone
<1>9. \A i \in 0 .. (LiveSize(d, p) - 1) : LayeredChunk(d, p, i) # NoPiece
  BY <1>1, <1>4, <1>5
<1> QED  BY <1>4, <1>6, <1>7, <1>8, <1>9 DEF SoundAt

\* So is a directory, and a path without a row.
LEMMA NodeSound ==
  ASSUME NEW d, NEW p \in Path, NEW k \in {"none", "dir"}, Entry(d, Live, p) = NodeEntry(k)
  PROVE  SoundAt(d, p) /\ LiveKind(d, p) = k
<1>1. d.row[<<Live, p>>] = [kind |-> k, size |-> 0, hash |-> NoHash]  BY DEF Entry, NodeEntry
<1>2. ASSUME NEW i \in Idx PROVE d.chunk[<<Live, p, i>>] = NoPiece
  <2>1. Content(d, Live, p) = Blank  BY DEF Entry, NodeEntry
  <2>2. Content(d, Live, p)[i] = d.chunk[<<Live, p, i>>]  BY DEF Content
  <2> QED  BY <2>1, <2>2 DEF Blank
<1>3. d.row[<<Live, p>>] \in Row
  <2>1. 0 \in 0 .. MaxChunks  BY ImageAssumption
  <2> QED  BY <1>1, <2>1 DEF Row, Kind, Hash
<1>4. LiveKind(d, p) = k  BY <1>1 DEF LiveKind
<1>5. \A i \in Idx : d.chunk[<<Live, p, i>>] \in PieceOrNone  BY <1>2 DEF PieceOrNone
<1> QED  BY <1>2, <1>3, <1>4, <1>5 DEF SoundAt

-----------------------------------------------------------------------------
(* The view. *)

\* What the Delta d shows at p with the whiteouts w.
Shown(d, w, p) ==
  IF WhitedOut(w, p) THEN NoNode
  ELSE IF LiveKind(d, p) = "file" THEN NodeOf("file", LayeredFile(d, p))
  ELSE IF LiveKind(d, p) # "none" THEN NodeOf(LiveKind(d, p), EmptyFile)
  ELSE base[p]

LEMMA ViewShown ==
  ASSUME base \in Tables, NEW p \in Path
  PROVE  View(p) = Shown(delta, white, p)
<1>1. base[p].kind = "none" => base[p] = NoNode  BY TableNode
<1> QED  BY <1>1 DEF View, Locate, Shown, InDelta, InBase

LEMMA ViewShownNext ==
  ASSUME base \in Tables, base' = base, NEW p \in Path
  PROVE  View(p)' = Shown(delta', white', p)
<1>1. base[p].kind = "none" => base[p] = NoNode  BY TableNode
<1>2. LayeredFile(delta, p)' = LayeredFile(delta', p)  BY DEF LayeredFile, LayeredChunk
<1> QED  BY <1>1, <1>2 DEF View, Locate, Shown, InDelta, InBase

\* It depends on the entry at p and on whether a whiteout hides p.
LEMMA ShownSame ==
  ASSUME NEW d, NEW e, NEW w, NEW x, NEW p \in Path, SoundAt(d, p),
         Entry(e, Live, p) = Entry(d, Live, p), WhitedOut(x, p) <=> WhitedOut(w, p)
  PROVE  Shown(e, x, p) = Shown(d, w, p)
<1>1. LiveKind(e, p) = LiveKind(d, p) /\ LayeredFile(e, p) = LayeredFile(d, p)
  BY LayeredSame DEF SoundAt
<1> QED  BY <1>1 DEF Shown

\* A directory shown is an empty node of that kind.
LEMMA ShownDir ==
  ASSUME base \in Tables, NEW d, NEW w, NEW p \in Path, Shown(d, w, p).kind = "dir"
  PROVE  Shown(d, w, p) = DirNode
<1>1. base[p].kind = "dir" => base[p] = DirNode  BY TableNode
<1> QED  BY <1>1 DEF Shown, NoNode, NodeOf, DirNode

-----------------------------------------------------------------------------
(* Whiteouts. *)

\* clear_whiteouts_for makes p and its ancestors visible, hides nothing that was visible,
\* and keeps every removed Base path beside them hidden, and those below p if p was removed.
LEMMA ClearShows ==
  ASSUME NEW p \in Path, white \in SUBSET Path
  PROVE  LET W == ClearWhiteoutsFor(p)
         IN  /\ W \in SUBSET Path
             /\ ~WhitedOut(W, p)
             /\ \A a \in Anc[p] : ~WhitedOut(W, a)
             /\ \A q \in Path : WhitedOut(W, q) => WhitedOut(white, q)
             /\ \A q \in Path : q # p /\ q \notin Anc[p] /\ q \notin Revived(p) /\ InBase(q) /\ WhitedOut(white, q)
                  => WhitedOut(W, q)
             /\ ~WhitedOut(white, p) => W = white
<1> DEFINE W == ClearWhiteoutsFor(p)
           hiders == Anc[p] \cap white
           beside == {q \in Path : InBase(q) /\ Anc[q] \cap hiders # {}} \ ({p} \cup Anc[p] \cup Below(p))
           below  == IF p \in white THEN {q \in Below(p) : InBase(q)} ELSE {}
<1>1. W = (white \cup beside \cup below) \ ({p} \cup Anc[p])  BY DEF ClearWhiteoutsFor
<1>2. /\ Anc[p] \subseteq Path /\ p \notin Anc[p]
      /\ \A q \in Path : q \notin Anc[q] /\ Anc[q] \subseteq Path /\ \A a \in Anc[q] : Anc[a] \subseteq Anc[q]
  BY OverlayAssumption
<1>3. \A x : x \in W <=> (x \in white \/ x \in beside \/ x \in below) /\ x # p /\ x \notin Anc[p]
  BY <1>1
<1>4. \A x : x \in beside <=> x \in Path /\ InBase(x) /\ (\E h \in Anc[x] : h \in Anc[p] /\ h \in white)
                              /\ x # p /\ x \notin Anc[p] /\ x \notin Below(p)
  OBVIOUS
<1>5. \A x : x \in below <=> p \in white /\ x \in Below(p) /\ InBase(x)
  OBVIOUS
<1>6. \A x : x \in Below(p) <=> x \in Path /\ p \in Anc[x]  BY DEF Below
<1> HIDE DEF W, beside, below, hiders
<1>7. W \in SUBSET Path  BY <1>3, <1>4, <1>5, <1>6
<1>8. ~WhitedOut(W, p)  BY <1>3 DEF WhitedOut
<1>9. \A a \in Anc[p] : ~WhitedOut(W, a)  BY <1>2, <1>3 DEF WhitedOut
<1>10. ASSUME NEW q \in Path, WhitedOut(W, q) PROVE WhitedOut(white, q)
  <2>1. PICK x \in {q} \cup Anc[q] : x \in W  BY <1>10 DEF WhitedOut
  <2>2. x \in Path /\ Anc[x] \subseteq Anc[q]  BY <1>2
  <2>3. CASE x \in white  BY <2>3 DEF WhitedOut
  <2>4. CASE x \in beside
    <3>1. PICK h \in Anc[x] : h \in white  BY <1>4, <2>4
    <3> QED  BY <2>2, <3>1 DEF WhitedOut
  <2>5. CASE x \in below
    <3>1. p \in white /\ p \in Anc[x]  BY <1>5, <1>6, <2>5
    <3> QED  BY <2>2, <3>1 DEF WhitedOut
  <2> QED  BY <1>3, <2>1, <2>3, <2>4, <2>5
<1>11. ASSUME NEW q \in Path, q # p, q \notin Anc[p], q \notin Revived(p), InBase(q), WhitedOut(white, q)
       PROVE  WhitedOut(W, q)
  <2>1. CASE q \in white  BY <1>3, <1>11, <2>1 DEF WhitedOut
  <2>4. CASE p \in white /\ q \in Below(p)
    <3>1. q \in below  BY <1>5, <1>11, <2>4
    <3> QED  BY <1>3, <1>11, <3>1 DEF WhitedOut
  <2>2. CASE (\E h \in Anc[q] : h \in white) /\ ~(p \in white /\ q \in Below(p))
    <3>1. PICK h \in Anc[q] : h \in white  BY <2>2
    <3>2. h # p  BY <1>6, <2>2, <3>1
    <3>3. CASE h \in Anc[p]
      <4>0. q \notin Below(p)
        <5>1. Anc[p] \cap white # {}  BY <3>1, <3>3
        <5> QED  BY <1>11, <2>2, <5>1 DEF Revived
      <4>1. q \in beside  BY <1>4, <1>11, <3>1, <3>3, <4>0
      <4> QED  BY <1>3, <1>11, <4>1 DEF WhitedOut
    <3>4. CASE h \notin Anc[p]
      <4>1. h \in W  BY <1>3, <3>1, <3>2, <3>4
      <4> QED  BY <3>1, <4>1 DEF WhitedOut
    <3> QED  BY <3>3, <3>4
  <2> QED  BY <1>11, <2>1, <2>2, <2>4 DEF WhitedOut
<1>12. ASSUME ~WhitedOut(white, p) PROVE W = white
  <2>1. p \notin white /\ \A a \in Anc[p] : a \notin white  BY <1>12 DEF WhitedOut
  <2>2. \A x : x \notin beside /\ x \notin below  BY <1>4, <1>5, <2>1
  <2>3. \A x : x \in W <=> x \in white  BY <1>3, <2>1, <2>2
  <2> QED  BY <2>3
<1> QED  BY <1>7, <1>8, <1>9, <1>10, <1>11, <1>12 DEF W

-----------------------------------------------------------------------------
(* Whole writes. *)

\* The entries once every ancestor of p has a row.
LEMMA ParentsEntries ==
  ASSUME NEW d, Sound(d), NEW p \in Path
  PROVE  LET E == EnsureParentDirs(d, p)
         IN  /\ Tabled(E)
             /\ \A q \in Path : IF q \in Anc[p] /\ LiveKind(d, q) = "none"
                                THEN Entry(E, Live, q) = NodeEntry("dir")
                                ELSE Entry(E, Live, q) = Entry(d, Live, q)
<1> DEFINE E == EnsureParentDirs(d, p)
<1>1. /\ Tabled(E) /\ E.chunk = d.chunk
      /\ \A o \in Owner, q \in Path :
           E.row[<<o, q>>] = IF o = Live /\ q \in Anc[p] /\ LiveKind(d, q) = "none"
                             THEN DirRow ELSE d.row[<<o, q>>]
  BY EnsureParentDirsDoes DEF Sound
<1> HIDE DEF E
<1>2. ASSUME NEW q \in Path, q \in Anc[p], LiveKind(d, q) = "none"
      PROVE  Entry(E, Live, q) = NodeEntry("dir")
  <2>1. E.row[<<Live, q>>] = DirRow  BY <1>1, <1>2 DEF Owner
  <2>2. \A i \in Idx : E.chunk[<<Live, q, i>>] = NoPiece  BY <1>1, <1>2 DEF Sound, SoundAt
  <2>3. Content(E, Live, q) = Blank  BY <2>2 DEF Content, Blank
  <2> QED  BY <2>1, <2>3 DEF Entry, NodeEntry, DirRow
<1>3. ASSUME NEW q \in Path, ~(q \in Anc[p] /\ LiveKind(d, q) = "none")
      PROVE  Entry(E, Live, q) = Entry(d, Live, q)
  <2>1. E.row[<<Live, q>>] = d.row[<<Live, q>>]  BY <1>1, <1>3 DEF Owner
  <2>2. Content(E, Live, q) = Content(d, Live, q)  BY <1>1 DEF Content
  <2> QED  BY <2>1, <2>2 DEF Entry
<1> QED  BY <1>1, <1>2, <1>3 DEF E

\* The whiteouts w hide no row of d that is not hidden now.
Visible(d, w) == \A q \in Path : LiveKind(d, q) # "none" /\ WhitedOut(w, q) => q \in Hidden

\* With d and w the view is as now beside p, but for ancestors that have become directories,
\* Base paths that reappear below p, and rows that are hidden now.
Beside(d, w, p) ==
  \A q \in Path : q # p /\ q \notin Revived(p) /\ q \notin Hidden =>
    \/ Shown(d, w, q) = Shown(delta, white, q)
    \/ q \in Anc[p] /\ Shown(d, w, q).kind = "dir"

LEMMA PutShows ==
  ASSUME LayerInv, NEW p \in Path, NEW D, NEW e, Puts(EnsureParentDirs(delta, p), D, p, e),
         SoundAt(D, p), LiveKind(D, p) # "none"
  PROVE  /\ Sound(D)
         /\ Visible(D, ClearWhiteoutsFor(p)) /\ Beside(D, ClearWhiteoutsFor(p), p)
<1> DEFINE E == EnsureParentDirs(delta, p)
           W == ClearWhiteoutsFor(p)
<1>1. Sound(delta) /\ base \in Tables /\ white \in SUBSET Path  BY DEF LayerInv
<1>2. \A q \in Path : IF q \in Anc[p] /\ LiveKind(delta, q) = "none"
                      THEN Entry(E, Live, q) = NodeEntry("dir")
                      ELSE Entry(E, Live, q) = Entry(delta, Live, q)
  BY <1>1, ParentsEntries
<1>3. Tabled(D) /\ \A q \in Path : q # p => Entry(D, Live, q) = Entry(E, Live, q)
  BY DEF Puts, Owner
<1>4. /\ ~WhitedOut(W, p)
      /\ \A a \in Anc[p] : ~WhitedOut(W, a)
      /\ \A q \in Path : WhitedOut(W, q) => WhitedOut(white, q)
      /\ \A q \in Path : q # p /\ q \notin Anc[p] /\ q \notin Revived(p) /\ InBase(q) /\ WhitedOut(white, q)
           => WhitedOut(W, q)
  BY <1>1, ClearShows
<1> HIDE DEF E, W
<1>5. ASSUME NEW q \in Path, q # p, q \in Anc[p], LiveKind(delta, q) = "none"
      PROVE  SoundAt(D, q) /\ LiveKind(D, q) = "dir"
  <2>1. Entry(D, Live, q) = NodeEntry("dir")  BY <1>2, <1>3, <1>5
  <2> QED  BY <2>1, NodeSound
<1>6. ASSUME NEW q \in Path, q # p, ~(q \in Anc[p] /\ LiveKind(delta, q) = "none")
      PROVE  /\ Entry(D, Live, q) = Entry(delta, Live, q)
             /\ SoundAt(D, q) /\ LiveKind(D, q) = LiveKind(delta, q)
  <2>1. Entry(D, Live, q) = Entry(delta, Live, q)  BY <1>2, <1>3, <1>6
  <2>2. SoundAt(delta, q)  BY <1>1 DEF Sound
  <2>3. SoundAt(D, q)  BY <2>1, <2>2, SoundSame
  <2>4. LiveKind(D, q) = LiveKind(delta, q)  BY <2>1, <2>2, LayeredSame DEF SoundAt
  <2> QED  BY <2>1, <2>3, <2>4
<1>7. Sound(D)  BY <1>3, <1>5, <1>6 DEF Sound
<1>8. Visible(D, W)
  <2> SUFFICES ASSUME NEW q \in Path, LiveKind(D, q) # "none", WhitedOut(W, q) PROVE q \in Hidden
    BY DEF Visible
  <2>1. q # p /\ q \notin Anc[p]  BY <1>4
  <2>2. LiveKind(delta, q) # "none"  BY <1>6, <2>1
  <2> QED  BY <1>4, <2>2 DEF Hidden, InDelta
<1>9. ASSUME NEW q \in Path, q # p, q \notin Revived(p), q \notin Hidden
      PROVE  Shown(D, W, q) = Shown(delta, white, q) \/ (q \in Anc[p] /\ Shown(D, W, q).kind = "dir")
  <2>1. CASE q \in Anc[p] /\ LiveKind(delta, q) = "none"
    <3>1. LiveKind(D, q) = "dir" /\ ~WhitedOut(W, q)  BY <1>4, <1>5, <1>9, <2>1
    <3> QED  BY <2>1, <3>1 DEF Shown, NodeOf
  <2>2. CASE ~(q \in Anc[p] /\ LiveKind(delta, q) = "none")
    <3>1. /\ Entry(D, Live, q) = Entry(delta, Live, q)
          /\ LiveKind(D, q) = LiveKind(delta, q)
      BY <1>6, <1>9, <2>2
    <3>2. SoundAt(delta, q)  BY <1>1 DEF Sound
    <3>3. CASE LiveKind(delta, q) # "none"
      <4>1. ~WhitedOut(white, q)  BY <1>9, <3>3 DEF Hidden, InDelta
      <4>2. ~WhitedOut(W, q)  BY <1>4, <4>1
      <4> QED  BY <3>1, <3>2, <4>1, <4>2, ShownSame
    <3>4. CASE LiveKind(delta, q) = "none" /\ InBase(q)
      <4>1. WhitedOut(W, q) <=> WhitedOut(white, q)  BY <1>4, <1>9, <2>2, <3>4
      <4> QED  BY <3>1, <3>2, <4>1, ShownSame
    <3>5. CASE LiveKind(delta, q) = "none" /\ ~InBase(q)
      <4>1. base[q] = NoNode  BY <1>1, <3>5, TableNode DEF InBase
      <4> QED  BY <3>1, <3>5, <4>1 DEF Shown
    <3> QED  BY <3>3, <3>4, <3>5
  <2> QED  BY <2>1, <2>2
<1> QED  BY <1>7, <1>8, <1>9 DEF Beside, W

\* What a change of the Delta and the whiteouts has to leave.
Leaves(p, n) ==
  /\ Visible(delta', white')
  /\ Shown(delta', white', p) = n
  /\ Beside(delta', white', p)

LEMMA WriteLeaves ==
  ASSUME LayerInv, NEW p \in Path, NEW f \in Pieces, Write(p, f)
  PROVE  /\ Sound(delta') /\ white' \in SUBSET Path
         /\ Leaves(p, NodeOf("file", f))
<1> DEFINE E == EnsureParentDirs(delta, p)
           D == FsPutFile(E, p, f)
           W == ClearWhiteoutsFor(p)
<1>1. delta' = D /\ white' = W  BY DEF Write
<1>2. Tabled(E)  BY ParentsEntries DEF LayerInv
<1> HIDE DEF E
<1>3. Puts(E, D, p, FileEntry(f))  BY <1>2, FsPutFileDoes
<1> HIDE DEF D
<1>4. Entry(D, Live, p) = FileEntry(f)  BY <1>3 DEF Puts
<1>5. SoundAt(D, p) /\ LiveKind(D, p) = "file" /\ LayeredFile(D, p) = f  BY <1>4, FileSound
<1>6. W \in SUBSET Path /\ ~WhitedOut(W, p)  BY ClearShows DEF LayerInv
<1>7. Sound(D) /\ Visible(D, W) /\ Beside(D, W, p)
  BY <1>3, <1>5, PutShows DEF E
<1>8. Shown(D, W, p) = NodeOf("file", f)  BY <1>5, <1>6 DEF Shown
<1> QED  BY <1>1, <1>6, <1>7, <1>8 DEF Leaves

LEMMA MkdirLeaves ==
  ASSUME LayerInv, NEW p \in Path, Mkdir(p)
  PROVE  /\ Sound(delta') /\ white' \in SUBSET Path
         /\ Leaves(p, DirNode)
<1> DEFINE E == EnsureParentDirs(delta, p)
           D == FsPutNode(E, p, "dir")
           W == ClearWhiteoutsFor(p)
<1>1. delta' = D /\ white' = W  BY DEF Mkdir
<1>2. Tabled(E)  BY ParentsEntries DEF LayerInv
<1> HIDE DEF E
<1>3. Puts(E, D, p, NodeEntry("dir"))  BY <1>2, FsPutNodeDoes
<1> HIDE DEF D
<1>4. Entry(D, Live, p) = NodeEntry("dir")  BY <1>3 DEF Puts
<1>5. SoundAt(D, p) /\ LiveKind(D, p) = "dir"  BY <1>4, NodeSound
<1>6. W \in SUBSET Path /\ ~WhitedOut(W, p)  BY ClearShows DEF LayerInv
<1>7. Sound(D) /\ Visible(D, W) /\ Beside(D, W, p)
  BY <1>3, <1>5, PutShows DEF E
<1>8. Shown(D, W, p) = DirNode  BY <1>5, <1>6 DEF Shown, DirNode
<1> QED  BY <1>1, <1>6, <1>7, <1>8 DEF Leaves

\* remove takes the subtree out of the view, and nothing else.
LEMMA RemoveLeaves ==
  ASSUME LayerInv, NEW p \in Path, Remove(p)
  PROVE  /\ Sound(delta') /\ white' \in SUBSET Path
         /\ Visible(delta', white')
         /\ \A q \in Path : Shown(delta', white', q)
              = IF q = p \/ q \in Below(p) THEN NoNode ELSE Shown(delta, white, q)
<1> DEFINE P == {p} \cup Below(p)
           D == DeleteRows(delta, P)
<1>1. P \in SUBSET Path /\ \A q : q \in P <=> q = p \/ q \in Below(p)  BY DEF Below
<1>2. /\ Sound(delta) /\ Tabled(delta) /\ base \in Tables /\ white \in SUBSET Path
      /\ \A q \in Path : SoundAt(delta, q)
  BY DEF LayerInv, Sound
<1>3. delta' = D /\ white' = IF \E q \in P : InBase(q) THEN white \cup {p} ELSE white  BY DEF Remove
<1> HIDE DEF P
<1>4. /\ Tabled(D)
      /\ \A q \in P : Entry(D, Live, q) = NoEntry
      /\ \A q \in Path : q \notin P => Entry(D, Live, q) = Entry(delta, Live, q)
  <2>1. /\ Tabled(D) /\ D.saved = delta.saved /\ D.dirty = delta.dirty \ P
        /\ \A q \in P : /\ Entry(D, Live, q) = NoEntry
                        /\ \A i \in Idx : D.chunk[<<Live, q, i>>] = NoPiece
        /\ \A o \in Owner, q \in Path : o # Live \/ q \notin P => Entry(D, o, q) = Entry(delta, o, q)
    BY <1>1, <1>2, DeleteRowsDoes
  <2> QED  BY <2>1 DEF Owner
<1> HIDE DEF D
<1>5. ASSUME NEW q \in P PROVE SoundAt(D, q) /\ LiveKind(D, q) = "none"
  <2>1. Entry(D, Live, q) = NodeEntry("none")  BY <1>4 DEF NoEntry, NodeEntry, NoRow
  <2>2. q \in Path  BY <1>1
  <2> QED  BY <2>1, <2>2, NodeSound
<1>6. ASSUME NEW q \in Path, q \notin P
      PROVE  SoundAt(D, q) /\ LiveKind(D, q) = LiveKind(delta, q)
  <2>1. Entry(D, Live, q) = Entry(delta, Live, q)  BY <1>4, <1>6
  <2>2. SoundAt(D, q)  BY <1>2, <2>1, SoundSame
  <2>3. LiveKind(D, q) = LiveKind(delta, q)  BY <1>2, <2>1, LayeredSame DEF SoundAt
  <2> QED  BY <2>2, <2>3
<1>7. Sound(D)  BY <1>4, <1>5, <1>6 DEF Sound
<1>8. white' \in SUBSET Path  BY <1>2, <1>3
<1>9. ASSUME NEW q \in Path, q \notin P PROVE WhitedOut(white', q) <=> WhitedOut(white, q)
  <2>1. q # p /\ p \notin Anc[q]  BY <1>1, <1>9 DEF Below
  <2> QED  BY <1>3, <2>1 DEF WhitedOut
<1>10. Visible(D, white')
  <2> SUFFICES ASSUME NEW q \in Path, LiveKind(D, q) # "none", WhitedOut(white', q) PROVE q \in Hidden
    BY DEF Visible
  <2>1. q \notin P  BY <1>5
  <2>2. LiveKind(delta, q) # "none"  BY <1>6, <2>1
  <2> QED  BY <1>9, <2>1, <2>2 DEF Hidden, InDelta
<1>11. ASSUME NEW q \in P PROVE Shown(D, white', q) = NoNode
  <2>1. q \in Path /\ (q = p \/ p \in Anc[q])  BY <1>1 DEF Below
  <2>2. CASE InBase(q)
    <3>1. p \in white'  BY <1>3, <2>2
    <3>2. WhitedOut(white', q)  BY <2>1, <3>1 DEF WhitedOut
    <3> QED  BY <3>2 DEF Shown
  <2>3. CASE ~InBase(q)
    <3>1. base[q] = NoNode  BY <1>2, <2>1, <2>3, TableNode DEF InBase
    <3> QED  BY <1>5, <3>1 DEF Shown
  <2> QED  BY <2>2, <2>3
<1>12. ASSUME NEW q \in Path, q \notin P PROVE Shown(D, white', q) = Shown(delta, white, q)
  <2>1. Entry(D, Live, q) = Entry(delta, Live, q) /\ SoundAt(delta, q)  BY <1>2, <1>4, <1>12
  <2> QED  BY <1>9, <1>12, <2>1, ShownSame
<1> QED  BY <1>1, <1>3, <1>7, <1>8, <1>10, <1>11, <1>12

-----------------------------------------------------------------------------
(* Writes of ranges. *)

\* The chunk rows that go lie at or beyond the new end of p.
CutOf(cut, p, n) ==
  /\ cut \in SUBSET Key /\ \A k \in cut : k[1] = Live
  /\ \A q \in Path, i \in Idx : <<Live, q, i>> \in cut => q = p /\ i >= n

LEMMA CutNone == ASSUME NEW p, NEW n PROVE CutOf({}, p, n)
BY DEF CutOf

LEMMA CutBeyond ==
  ASSUME NEW p \in Path, NEW n \in Nat
  PROVE  CutOf(Beyond(p, n), p, n)
<1>1. Beyond(p, n) \in SUBSET Key /\ \A k \in Beyond(p, n) : k[1] = Live  BY DEF Beyond, Key, Owner
<1>2. ASSUME NEW q \in Path, NEW i \in Idx, <<Live, q, i>> \in Beyond(p, n) PROVE q = p /\ i >= n
  <2>1. q = p /\ i \notin 0 .. (n - 1)  BY <1>2 DEF Beyond
  <2>2. i \in Nat  BY ImageAssumption DEF Idx
  <2> QED  BY <2>1, <2>2
<1> QED  BY <1>1, <1>2 DEF CutOf

\* What Rewrite leaves: at p a file, or the directory that was there, of n chunks, those of
\* the range and otherwise the ones it had; elsewhere the entries there were.
Rewritten(p, n, g) ==
  /\ Tabled(delta')
  /\ \A q \in Path : q # p => Entry(delta', Live, q) = Entry(delta, Live, q)
  /\ LiveKind(delta', p) = IF LiveKind(delta, p) = "none" THEN "file" ELSE LiveKind(delta, p)
  /\ LiveSize(delta', p) = n
  /\ \A i \in 0 .. (n - 1) :
       LayeredChunk(delta', p, i) = IF i \in DOMAIN g THEN g[i] ELSE LayeredChunk(delta, p, i)

LEMMA LayeredType ==
  ASSUME base \in Tables, NEW d, NEW p \in Path, NEW i \in Idx, d.chunk[<<Live, p, i>>] \in PieceOrNone
  PROVE  LayeredChunk(d, p, i) \in PieceOrNone
<1>1. base[p].data \in Pieces  BY TableNode
<1>2. \A j \in DOMAIN base[p].data : base[p].data[j] \in Piece  BY <1>1, PiecesShape
<1> QED  BY <1>2 DEF LayeredChunk, PieceOrNone

LEMMA RewriteDoes ==
  ASSUME LayerInv, NEW p \in Path, NEW old, NEW n \in 0 .. MaxChunks,
         NEW g, NEW a, NEW e, RangeOf(g, a, e), e <= n,
         NEW cut, CutOf(cut, p, n), Rewrite(p, old, n, g, cut),
         LiveKind(delta, p) # "dir" =>
           \A i \in 0 .. (n - 1) : i \in DOMAIN g \/ LayeredChunk(delta, p, i) # NoPiece
  PROVE  /\ Rewritten(p, n, g)
         /\ Sound(delta')
         /\ Whole(delta) /\ Once(delta, p, g) => Whole(delta')
<1> DEFINE r == SizedRow(delta, p, n)
           A == WithRow(delta, p, r)
           B == PutChunks(A, p, g)
           C == DeleteChunks(B, cut)
           h == Sha(LayeredFile(C, p))
           s == [kind |-> LiveKind(C, p), size |-> LiveSize(C, p), hash |-> h]
           F == WithRow(C, p, s)
<1>1. Sound(delta) /\ Tabled(delta) /\ base \in Tables /\ SoundAt(delta, p)
  BY DEF LayerInv, Sound
<1>2. delta.row[<<Live, p>>] \in Row /\ LiveKind(delta, p) \in {"none", "dir", "file"}
  BY <1>1 DEF SoundAt
<1>3. EnsureDeltaFileRow(delta, p, n) = A  BY <1>1, <1>2, EnsureDeltaFileRowIs
<1>4. delta' = RefreshDeltaFile(C, p) /\ Refreshable(C, p)  BY <1>3 DEF Rewrite
<1>5. /\ r \in Row /\ r.size = n
      /\ r.kind = IF LiveKind(delta, p) = "none" THEN "file" ELSE LiveKind(delta, p)
  BY <1>2 DEF SizedRow, Row, Kind, Hash, LiveKind
<1>6. n \in Nat /\ MaxChunks \in Nat /\ e \in Nat /\ a \in Nat  BY ImageAssumption DEF RangeOf
<1>7. DOMAIN g = a .. (e - 1) /\ \A i \in DOMAIN g : i \in Idx /\ a <= i /\ i < e /\ g[i] \in Piece
  BY RangeLength
<1> HIDE DEF r
<1>8. /\ Tabled(A) /\ A.chunk = delta.chunk
      /\ \A o \in Owner, q \in Path : A.row[<<o, q>>] = IF o = Live /\ q = p THEN r ELSE delta.row[<<o, q>>]
  BY <1>1, WithRowDoes
<1>9. ASSUME Whole(delta) PROVE Whole(A)
  <2>1. r.kind # "unknown"  BY <1>2, <1>5
  <2> QED  BY <1>5, <1>9, <2>1, WithRowWhole
<1> HIDE DEF A
<1>10. Placed(A, B, p, g, a, e)
       /\ (Whole(A) /\ Once(A, p, g) => Unspoiled(A, B, p, g, a, e))
  BY <1>8, PutChunksDoes
<1> HIDE DEF B
<1>11. /\ Tabled(C) /\ C.row = B.row
       /\ \A k \in Key : C.chunk[k] = IF k \in cut THEN NoPiece ELSE B.chunk[k]
  <2>1. Tabled(B)  BY <1>10 DEF Placed
  <2> QED  BY <2>1, DeleteChunksDoes
<1>12. C.blobs \subseteq B.blobs
  <2>1. Tabled(B)  BY <1>10 DEF Placed
  <2> QED  BY <2>1 DEF DeleteChunks, Tabled
<1>13. ASSUME Whole(B) PROVE Whole(C)  BY <1>13, DeleteLiveWhole DEF CutOf
<1> HIDE DEF C
<1>14. \A q \in Path : C.row[<<Live, q>>] = IF q = p THEN r ELSE delta.row[<<Live, q>>]
  BY <1>8, <1>10, <1>11 DEF Placed, Owner
<1>15. ASSUME NEW q \in Path, NEW i \in Idx
       PROVE  C.chunk[<<Live, q, i>>] = IF <<Live, q, i>> \in cut THEN NoPiece
                                        ELSE IF q = p /\ i \in DOMAIN g THEN g[i] ELSE delta.chunk[<<Live, q, i>>]
  <2>1. Live \in Owner /\ <<Live, q, i>> \in Key  BY DEF Owner, Key
  <2>2. i \in DOMAIN g <=> a <= i /\ i < e  BY <1>6, <1>7, ImageAssumption DEF Idx
  <2>3. B.chunk[<<Live, q, i>>] = IF q = p /\ i \in DOMAIN g THEN g[i] ELSE A.chunk[<<Live, q, i>>]
    BY <1>10, <2>1, <2>2 DEF Placed
  <2> QED  BY <1>8, <1>11, <2>1, <2>3
<1>16. LiveKind(C, p) = r.kind /\ LiveSize(C, p) = n /\ C.row[<<Live, p>>] = r
  BY <1>5, <1>14 DEF LiveKind, LiveSize
<1>17. ASSUME NEW i \in 0 .. (n - 1)
       PROVE  /\ i \in Idx /\ <<Live, p, i>> \notin cut
              /\ LayeredChunk(C, p, i) = IF i \in DOMAIN g THEN g[i] ELSE LayeredChunk(delta, p, i)
              /\ LayeredChunk(C, p, i) \in PieceOrNone
  <2>1. i \in Idx /\ ~(i >= n)  BY <1>6 DEF Idx
  <2>2. <<Live, p, i>> \notin cut  BY <2>1 DEF CutOf
  <2>3. C.chunk[<<Live, p, i>>] = IF i \in DOMAIN g THEN g[i] ELSE delta.chunk[<<Live, p, i>>]
    BY <1>15, <2>1, <2>2
  <2>4. delta.chunk[<<Live, p, i>>] \in PieceOrNone  BY <1>1, <2>1 DEF SoundAt
  <2>5. i \in DOMAIN g => g[i] \in Piece /\ g[i] # NoPiece  BY <1>7, ImageAssumption
  <2>6. C.chunk[<<Live, p, i>>] \in PieceOrNone  BY <2>3, <2>4, <2>5 DEF PieceOrNone
  <2>7. LayeredChunk(C, p, i) \in PieceOrNone  BY <1>1, <2>1, <2>6, LayeredType
  <2> QED  BY <2>1, <2>2, <2>3, <2>5, <2>7 DEF LayeredChunk
<1>18. LayeredFile(C, p) = [i \in 0 .. (n - 1) |-> LayeredChunk(C, p, i)]  BY <1>16 DEF LayeredFile
<1>19. h \in Hash
  <2>1. \A i \in Idx : h[i] \in PieceOrNone  BY <1>17, <1>18 DEF Sha, PieceOrNone
  <2>2. h = [i \in Idx |-> h[i]]  BY DEF Sha
  <2> HIDE DEF h
  <2> QED  BY <2>1, <2>2 DEF Hash
<1> HIDE DEF h
<1>20. delta' = F  BY <1>4, <1>5, <1>11, <1>16, RefreshDeltaFileIs DEF h
<1>21. s \in Row /\ s.kind = r.kind /\ s.size = n /\ s.hash = h
  BY <1>5, <1>16, <1>19 DEF Row
<1> HIDE DEF s
<1>22. /\ Tabled(F) /\ F.chunk = C.chunk
       /\ \A o \in Owner, q \in Path : F.row[<<o, q>>] = IF o = Live /\ q = p THEN s ELSE C.row[<<o, q>>]
  BY <1>11, WithRowDoes
<1>23. ASSUME Whole(C) PROVE Whole(F)
  <2>1. s.kind # "unknown"  BY <1>2, <1>5, <1>21
  <2> QED  BY <1>21, <1>23, <2>1, WithRowWhole
<1> HIDE DEF F
<1>24. F.row[<<Live, p>>] = s /\ LiveKind(F, p) = r.kind /\ LiveSize(F, p) = n
  BY <1>21, <1>22 DEF LiveKind, LiveSize, Owner
<1>25. \A i \in 0 .. (n - 1) : LayeredChunk(F, p, i) = LayeredChunk(C, p, i)
  BY <1>22 DEF LayeredChunk
<1>26. LayeredFile(F, p) = LayeredFile(C, p)  BY <1>18, <1>24, <1>25 DEF LayeredFile
<1>27. ASSUME NEW q \in Path, q # p PROVE Entry(F, Live, q) = Entry(delta, Live, q)
  <2>1. F.row[<<Live, q>>] = delta.row[<<Live, q>>]  BY <1>14, <1>22, <1>27 DEF Owner
  <2>2. \A i \in Idx : <<Live, q, i>> \notin cut  BY <1>27 DEF CutOf
  <2>3. \A i \in Idx : F.chunk[<<Live, q, i>>] = delta.chunk[<<Live, q, i>>]  BY <1>15, <1>22, <1>27, <2>2
  <2> QED  BY <2>1, <2>3 DEF Entry, Content
<1>28. Rewritten(p, n, g)  BY <1>5, <1>17, <1>20, <1>22, <1>24, <1>25, <1>27 DEF Rewritten
<1>29. SoundAt(F, p)
  <2>1. LiveKind(F, p) \in {"dir", "file"}  BY <1>2, <1>5, <1>24
  <2>2. ASSUME NEW i \in Idx PROVE F.chunk[<<Live, p, i>>] \in PieceOrNone
    <3>1. delta.chunk[<<Live, p, i>>] \in PieceOrNone  BY <1>1 DEF SoundAt
    <3> QED  BY <1>7, <1>15, <1>22, <3>1 DEF PieceOrNone
  <2>3. ASSUME LiveKind(F, p) = "file", NEW i \in 0 .. (n - 1) PROVE LayeredChunk(F, p, i) # NoPiece
    <3>1. LiveKind(delta, p) # "dir"  BY <1>2, <1>5, <1>24, <2>3
    <3>2. i \in DOMAIN g => g[i] \in Piece /\ g[i] # NoPiece  BY <1>7, ImageAssumption
    <3> QED  BY <1>17, <1>25, <3>1, <3>2
  <2>4. F.row[<<Live, p>>].hash = Sha(LayeredFile(F, p))  BY <1>21, <1>24, <1>26 DEF h
  <2> QED  BY <1>21, <1>24, <2>1, <2>2, <2>3, <2>4 DEF SoundAt
<1>30. Sound(F)
  <2>1. ASSUME NEW q \in Path, q # p PROVE SoundAt(F, q)
    <3>1. SoundAt(delta, q)  BY <1>1 DEF Sound
    <3> QED  BY <1>27, <2>1, <3>1, SoundSame
  <2> QED  BY <1>22, <1>29, <2>1 DEF Sound
<1>31. ASSUME Whole(delta), Once(delta, p, g) PROVE Whole(F)
  <2>0. Once(A, p, g)  BY <1>8, <1>31 DEF Once
  <2>1. Unspoiled(A, B, p, g, a, e)  BY <1>9, <1>10, <1>31, <2>0
  <2>2. CASE Whole(B)  BY <1>13, <1>23, <2>2
  <2>3. CASE \E i \in a .. (e - 1) : g[i] \notin B.blobs
    <3>1. PICK i \in DOMAIN g : g[i] \notin B.blobs  BY <1>7, <2>3
    <3>2. i \in 0 .. (n - 1) /\ g[i] # NoPiece  BY <1>6, <1>7, ImageAssumption DEF Idx
    <3>3. C.chunk[<<Live, p, i>>] = g[i]  BY <1>15, <1>17, <3>1, <3>2
    <3>4. C.chunk[<<Live, p, i>>] \in C.blobs \cup {NoPiece}
      BY <1>4, <1>16, <3>2 DEF Refreshable, Stored
    <3> QED  BY <1>12, <3>1, <3>2, <3>3, <3>4
  <2> QED  BY <2>1, <2>2, <2>3 DEF Unspoiled
<1> QED  BY <1>20, <1>28, <1>30, <1>31

\* The chunks of the file that is looked up at p are all there.
LEMMA SizeCovered ==
  ASSUME LayerInv, NEW w, NEW p \in Path
  PROVE  /\ FileSize(w, p) \in 0 .. MaxChunks
         /\ \A i \in 0 .. (FileSize(w, p) - 1) : LayeredChunk(delta, p, i) # NoPiece
<1>1. base \in Tables /\ SoundAt(delta, p) /\ 0 \in 0 .. MaxChunks
  BY ImageAssumption DEF LayerInv, Sound
<1>2. CASE LookupFile(w, p) = "main"
  <2>1. LiveKind(delta, p) = "file"  BY <1>2 DEF LookupFile
  <2>2. FileSize(w, p) = LiveSize(delta, p)  BY <1>2 DEF FileSize
  <2>3. LiveSize(delta, p) \in 0 .. MaxChunks  BY <1>1, SoundSize
  <2> QED  BY <1>1, <2>1, <2>2, <2>3 DEF SoundAt
<1>3. CASE LookupFile(w, p) = "base"
  <2> DEFINE f == base[p].data
  <2>1. LiveKind(delta, p) = "none"  BY <1>3 DEF LookupFile, InDelta
  <2>2. FileSize(w, p) = Length(f)  BY <1>3 DEF FileSize
  <2>3. f \in Pieces  BY <1>1, TableNode
  <2> HIDE DEF f
  <2>4. /\ Length(f) \in 0 .. MaxChunks /\ DOMAIN f = 0 .. (Length(f) - 1)
        /\ \A i \in DOMAIN f : i \in Idx /\ f[i] \in Piece
    BY <2>3, PiecesShape
  <2>5. ASSUME NEW i \in DOMAIN f PROVE LayeredChunk(delta, p, i) # NoPiece
    <3>1. delta.chunk[<<Live, p, i>>] = NoPiece  BY <1>1, <2>1, <2>4 DEF SoundAt
    <3> QED  BY <2>4, <3>1, ImageAssumption DEF LayeredChunk, f
  <2> QED  BY <2>2, <2>4, <2>5
<1>4. CASE LookupFile(w, p) \notin {"main", "base"}
  <2>1. FileSize(w, p) = 0  BY <1>4 DEF FileSize
  <2>2. 0 .. (0 - 1) = {}  OBVIOUS
  <2> QED  BY <1>1, <2>1, <2>2
<1> QED  BY <1>2, <1>3, <1>4

\* A file the view shows is the one that is looked up.
LEMMA ShownFile ==
  ASSUME LayerInv, NEW p \in Path, Shown(delta, white, p).kind = "file"
  PROVE  /\ ~WhitedOut(white, p) /\ LiveKind(delta, p) # "dir"
         /\ Shown(delta, white, p).data
              = [i \in 0 .. (FileSize(white, p) - 1) |-> LayeredChunk(delta, p, i)]
         /\ FileSize(white, p) = Length(Shown(delta, white, p).data)
         /\ Shown(delta, white, p).data \in Pieces
<1>1. base \in Tables /\ SoundAt(delta, p)  BY DEF LayerInv, Sound
<1>2. ~WhitedOut(white, p)  BY DEF Shown, NoNode, NodeOf
<1>3. CASE LiveKind(delta, p) = "file"
  <2> DEFINE n == LiveSize(delta, p)
             f == LayeredFile(delta, p)
  <2>1. Shown(delta, white, p).data = f  BY <1>2, <1>3 DEF Shown, NodeOf
  <2>2. FileSize(white, p) = n  BY <1>3 DEF FileSize, LookupFile, InDelta
  <2>3. f = [i \in 0 .. (n - 1) |-> LayeredChunk(delta, p, i)]  BY DEF LayeredFile
  <2>4. n \in 0 .. MaxChunks /\ n \in Nat /\ \A i \in 0 .. (n - 1) : i \in Idx  BY <1>1, SoundSize
  <2> HIDE DEF n
  <2>5. ASSUME NEW i \in 0 .. (n - 1) PROVE LayeredChunk(delta, p, i) \in Piece
    <3>1. delta.chunk[<<Live, p, i>>] \in PieceOrNone /\ LayeredChunk(delta, p, i) # NoPiece
      BY <1>1, <1>3, <2>4 DEF SoundAt, n
    <3>2. LayeredChunk(delta, p, i) \in PieceOrNone  BY <1>1, <2>4, <3>1, LayeredType
    <3> QED  BY <3>1, <3>2 DEF PieceOrNone
  <2>6. f \in [0 .. (n - 1) -> Piece] /\ DOMAIN f = 0 .. (n - 1)  BY <2>3, <2>5
  <2> HIDE DEF f
  <2>7. f \in Pieces  BY <2>4, <2>6 DEF Pieces
  <2>8. Length(f) \in 0 .. MaxChunks /\ DOMAIN f = 0 .. (Length(f) - 1)  BY <2>7, PiecesShape
  <2>9. Length(f) = n
    <3>1. Cardinality(0 .. (n - 1)) = IF 0 > n - 1 THEN 0 ELSE (n - 1) - 0 + 1
      <4>1. 0 \in Int /\ n - 1 \in Int  BY <2>4
      <4> QED  BY <4>1, FS_Interval
    <3> QED  BY <2>4, <2>6, <3>1 DEF Length
  <2> QED  BY <1>2, <1>3, <2>1, <2>2, <2>3, <2>7, <2>9
<1>4. CASE LiveKind(delta, p) # "file"
  <2> DEFINE f == base[p].data
  <2>1. LiveKind(delta, p) = "none"  BY <1>1, <1>2, <1>4 DEF SoundAt, Shown, NodeOf
  <2>2. Shown(delta, white, p) = base[p]  BY <1>2, <2>1 DEF Shown
  <2>3. FileSize(white, p) = Length(f)  BY <1>2, <2>1, <2>2 DEF FileSize, LookupFile, InDelta
  <2>4. f \in Pieces  BY <1>1, TableNode
  <2> HIDE DEF f
  <2>5. /\ DOMAIN f = 0 .. (Length(f) - 1) /\ \A i \in DOMAIN f : i \in Idx /\ f[i] \in Piece
        /\ f = [i \in 0 .. (Length(f) - 1) |-> f[i]]
    BY <2>4, PiecesShape
  <2>6. ASSUME NEW i \in DOMAIN f PROVE LayeredChunk(delta, p, i) = f[i]
    <3>1. delta.chunk[<<Live, p, i>>] = NoPiece  BY <1>1, <2>1, <2>5 DEF SoundAt
    <3> QED  BY <3>1 DEF LayeredChunk, f
  <2>7. f = [i \in 0 .. (Length(f) - 1) |-> LayeredChunk(delta, p, i)]  BY <2>5, <2>6
  <2> QED  BY <1>2, <2>1, <2>2, <2>3, <2>4, <2>7 DEF f
<1> QED  BY <1>3, <1>4

\* A rewrite hides no Delta row, and what the view shows beside a path it showed stays.
LEMMA RewriteShows ==
  ASSUME LayerInv, NEW p \in Path, NEW n, NEW g, Rewritten(p, n, g), white' = ClearWhiteoutsFor(p)
  PROVE  /\ white' \in SUBSET Path
         /\ Visible(delta', white')
         /\ ~WhitedOut(white, p) => white' = white /\ Beside(delta', white', p)
<1>1. /\ white \in SUBSET Path /\ \A q \in Path : SoundAt(delta, q)  BY DEF LayerInv, Sound
<1>2. /\ white' \in SUBSET Path
      /\ ~WhitedOut(white', p)
      /\ \A q \in Path : WhitedOut(white', q) => WhitedOut(white, q)
      /\ ~WhitedOut(white, p) => white' = white
  BY <1>1, ClearShows
<1>3. \A q \in Path : q # p => Entry(delta', Live, q) = Entry(delta, Live, q)  BY DEF Rewritten
<1>4. Visible(delta', white')
  <2> SUFFICES ASSUME NEW q \in Path, LiveKind(delta', q) # "none", WhitedOut(white', q), q # p PROVE q \in Hidden
    BY <1>2 DEF Visible
  <2>1. Entry(delta', Live, q) = Entry(delta, Live, q) /\ delta.row[<<Live, q>>] \in Row
    BY <1>1, <1>3 DEF SoundAt
  <2>2. LiveKind(delta', q) = LiveKind(delta, q)  BY <2>1, LayeredSame
  <2> QED  BY <1>2, <2>2 DEF Hidden, InDelta
<1>5. ASSUME ~WhitedOut(white, p) PROVE Beside(delta', white', p)
  <2> SUFFICES ASSUME NEW q \in Path, q # p PROVE Shown(delta', white', q) = Shown(delta, white, q)
    BY DEF Beside
  <2>1. Entry(delta', Live, q) = Entry(delta, Live, q) /\ SoundAt(delta, q)  BY <1>1, <1>3
  <2>2. white' = white  BY <1>2, <1>5
  <2> QED  BY <2>1, <2>2, ShownSame
<1> QED  BY <1>2, <1>4, <1>5

\* What write_range leaves.
LEMMA WriteRangeLeaves ==
  ASSUME LayerInv, NEW p \in Path, NEW g, NEW a, NEW e, RangeOf(g, a, e), WriteRange(p, g)
  PROVE  /\ Sound(delta') /\ white' \in SUBSET Path
         /\ Whole(delta) /\ Once(delta, p, g) => Whole(delta')
         /\ Visible(delta', white')
         /\ Shown(delta, white, p).kind = "file" =>
              /\ Shown(delta', white', p) = NodeOf("file", Overwritten(Shown(delta, white, p).data, g))
              /\ Beside(delta', white', p)
<1> DEFINE W == ClearWhiteoutsFor(p)
           old == FileSize(W, p)
           end == 1 + CHOOSE i \in DOMAIN g : \A j \in DOMAIN g : i >= j
           n == IF old < end THEN end ELSE old
<1>1. /\ DOMAIN g # {} /\ \E i \in DOMAIN g : i <= old
      /\ white' = W /\ Rewrite(p, old, n, g, {})
  BY DEF WriteRange
<1>2. a \in Nat /\ e \in Nat /\ MaxChunks \in Nat /\ a < e /\ e <= MaxChunks /\ DOMAIN g = a .. (e - 1)
  <2>1. a \in Nat /\ e \in Nat /\ MaxChunks \in Nat /\ DOMAIN g = a .. (e - 1) /\ e <= MaxChunks
    BY ImageAssumption, RangeLength DEF RangeOf
  <2> QED  BY <1>1, <2>1
<1>3. end = e
  <2>1. e - 1 \in DOMAIN g /\ \A j \in DOMAIN g : e - 1 >= j  BY <1>2
  <2>2. \A i \in DOMAIN g : (\A j \in DOMAIN g : i >= j) => i = e - 1  BY <1>2, <2>1
  <2> DEFINE c == CHOOSE i \in DOMAIN g : \A j \in DOMAIN g : i >= j
  <2>3. c = e - 1  BY <2>1, <2>2
  <2>4. end = 1 + c  OBVIOUS
  <2> HIDE DEF c, end
  <2> QED  BY <1>2, <2>3, <2>4
<1> HIDE DEF end
<1>4. old \in 0 .. MaxChunks /\ \A i \in 0 .. (old - 1) : LayeredChunk(delta, p, i) # NoPiece
  BY SizeCovered
<1> HIDE DEF old
<1>5. n \in 0 .. MaxChunks /\ e <= n /\ n = (IF old < e THEN e ELSE old) /\ a <= old
  BY <1>1, <1>2, <1>3, <1>4
<1> HIDE DEF n
<1>6. \A i \in 0 .. (n - 1) : i \in DOMAIN g \/ i \in 0 .. (old - 1)  BY <1>2, <1>4, <1>5
<1>7. \A i \in 0 .. (n - 1) : i \in DOMAIN g \/ LayeredChunk(delta, p, i) # NoPiece  BY <1>4, <1>6
<1>8. /\ Rewritten(p, n, g)
      /\ Sound(delta')
      /\ Whole(delta) /\ Once(delta, p, g) => Whole(delta')
  BY <1>1, <1>5, <1>7, CutNone, RewriteDoes
<1>9. /\ white' \in SUBSET Path
      /\ Visible(delta', white')
      /\ ~WhitedOut(white, p) => white' = white /\ Beside(delta', white', p)
  BY <1>1, <1>8, RewriteShows
<1>10. ASSUME Shown(delta, white, p).kind = "file"
       PROVE  /\ Shown(delta', white', p) = NodeOf("file", Overwritten(Shown(delta, white, p).data, g))
              /\ Beside(delta', white', p)
  <2> DEFINE f == Shown(delta, white, p).data
  <2>1. /\ ~WhitedOut(white, p) /\ LiveKind(delta, p) # "dir"
        /\ f = [i \in 0 .. (FileSize(white, p) - 1) |-> LayeredChunk(delta, p, i)]
    BY <1>10, ShownFile
  <2>2. white' = white /\ old = FileSize(white, p)  BY <1>1, <1>9, <2>1 DEF old
  <2>3. f = [i \in 0 .. (old - 1) |-> LayeredChunk(delta, p, i)]  BY <2>1, <2>2
  <2> HIDE DEF f
  <2>4. DOMAIN f \cup DOMAIN g = 0 .. (n - 1)
    <3>1. DOMAIN f = 0 .. (old - 1)  BY <2>3
    <3> QED  BY <1>2, <1>4, <1>5, <3>1
  <2>5. LiveKind(delta', p) = "file" /\ LiveSize(delta', p) = n
    <3>1. LiveKind(delta, p) \in {"none", "dir", "file"}  BY DEF LayerInv, Sound, SoundAt
    <3> QED  BY <1>8, <2>1, <3>1 DEF Rewritten
  <2>6. ASSUME NEW i \in 0 .. (n - 1) PROVE LayeredChunk(delta', p, i) = IF i \in DOMAIN g THEN g[i] ELSE f[i]
    <3>1. LayeredChunk(delta', p, i) = IF i \in DOMAIN g THEN g[i] ELSE LayeredChunk(delta, p, i)
      BY <1>8 DEF Rewritten
    <3>2. i \notin DOMAIN g => f[i] = LayeredChunk(delta, p, i)  BY <1>6, <2>3
    <3> QED  BY <3>1, <3>2
  <2>7. LayeredFile(delta', p) = [i \in 0 .. (n - 1) |-> LayeredChunk(delta', p, i)]  BY <2>5 DEF LayeredFile
  <2>8. LayeredFile(delta', p) = Overwritten(f, g)  BY <2>4, <2>6, <2>7 DEF Overwritten
  <2>9. Shown(delta', white', p) = NodeOf("file", LayeredFile(delta', p))
    BY <2>1, <2>2, <2>5 DEF Shown
  <2> QED  BY <1>9, <2>1, <2>8, <2>9 DEF f
<1> QED  BY <1>8, <1>9, <1>10

LEMMA RangesOf ==
  ASSUME NEW g \in Ranges
  PROVE  \E a, e : RangeOf(g, a, e) /\ (a < e \/ e = 0)
<1>1. PICK x \in 0 .. MaxChunks, y \in 0 .. MaxChunks : g \in [x .. (y - 1) -> Piece]
  BY DEF Ranges
<1>2. x \in Nat /\ y \in Nat /\ MaxChunks \in Nat  BY <1>1, ImageAssumption
<1>3. CASE x < y
  <2>1. RangeOf(g, x, y)  BY <1>1, <1>2, <1>3 DEF RangeOf
  <2> QED  BY <1>3, <2>1 DEF Ranges
<1>4. CASE ~(x < y)
  <2>1. x .. (y - 1) = {} /\ 0 .. (0 - 1) = {} /\ 0 \in 0 .. MaxChunks /\ 0 <= 0  BY <1>2, <1>4
  <2>2. RangeOf(g, 0, 0)  BY <1>1, <2>1 DEF RangeOf
  <2> QED  BY <2>2 DEF Ranges
<1> QED  BY <1>3, <1>4 DEF Ranges

\* What truncate_range leaves.
LEMMA TruncateRangeLeaves ==
  ASSUME LayerInv, NEW p \in Path, NEW n \in 0 .. MaxChunks, NEW g \in Ranges, TruncateRange(p, n, g)
  PROVE  /\ Sound(delta') /\ white' \in SUBSET Path
         /\ Whole(delta) /\ Once(delta, p, g) => Whole(delta')
         /\ Visible(delta', white')
<1> DEFINE W == ClearWhiteoutsFor(p)
           old == FileSize(W, p)
           low == IF n < old THEN n ELSE old
<1>1. /\ \E from \in {low, low - 1} : DOMAIN g = from .. (n - 1)
      /\ white' = W
      /\ IF n = old /\ DOMAIN g = {} THEN delta' = delta ELSE Rewrite(p, old, n, g, Beyond(p, n))
  BY DEF TruncateRange
<1>2. PICK a, e : RangeOf(g, a, e) /\ (a < e \/ e = 0)  BY RangesOf
<1>3. a \in Nat /\ e \in Nat /\ MaxChunks \in Nat /\ n \in Nat /\ DOMAIN g = a .. (e - 1)
  BY <1>2, ImageAssumption, RangeLength DEF RangeOf
<1>4. old \in 0 .. MaxChunks /\ \A i \in 0 .. (old - 1) : LayeredChunk(delta, p, i) # NoPiece
  BY SizeCovered
<1>5. white \in SUBSET Path /\ Sound(delta)  BY DEF LayerInv
<1>6. W \in SUBSET Path /\ \A q \in Path : WhitedOut(W, q) => WhitedOut(white, q)
  BY <1>5, ClearShows
<1> HIDE DEF W
<1>7. CASE n = old /\ DOMAIN g = {}
  <2>1. delta' = delta /\ white' = W  BY <1>1, <1>7
  <2>2. Visible(delta', white')  BY <1>6, <2>1 DEF Hidden, InDelta, Visible
  <2> QED  BY <1>5, <1>6, <2>1, <2>2
<1>8. CASE ~(n = old /\ DOMAIN g = {})
  <2> HIDE DEF old
  <2>1. Rewrite(p, old, n, g, Beyond(p, n))  BY <1>1, <1>8
  <2>2. PICK from \in {low, low - 1} : DOMAIN g = from .. (n - 1)  BY <1>1
  <2>3. from \in Int /\ low \in Nat /\ low <= old /\ from <= low  BY <1>3, <1>4, <2>2
  <2>4. e <= n
    <3>1. CASE a < e
      <4>1. e - 1 \in DOMAIN g  BY <1>3, <3>1
      <4> QED  BY <1>3, <2>2, <2>3, <4>1
    <3>2. CASE e = 0  BY <1>3, <3>2
    <3> QED  BY <1>2, <3>1, <3>2
  <2> HIDE DEF low
  <2>5. \A i \in 0 .. (n - 1) : i \in DOMAIN g \/ i \in 0 .. (old - 1)  BY <1>3, <1>4, <2>2, <2>3
  <2>6. \A i \in 0 .. (n - 1) : i \in DOMAIN g \/ LayeredChunk(delta, p, i) # NoPiece  BY <1>4, <2>5
  <2>7. CutOf(Beyond(p, n), p, n)  BY <1>3, CutBeyond
  <2>8. /\ Rewritten(p, n, g)
        /\ Sound(delta')
        /\ Whole(delta) /\ Once(delta, p, g) => Whole(delta')
    BY <1>2, <2>1, <2>4, <2>6, <2>7, RewriteDoes
  <2>9. Visible(delta', white')  BY <1>1, <2>8, RewriteShows DEF W
  <2> QED  BY <1>1, <1>6, <2>8, <2>9
<1> QED  BY <1>7, <1>8

\* The counts under writes of one layer.
LEMMA WritesCount ==
  ASSUME Whole(delta), NEW p \in Path
  PROVE  /\ \A f \in Pieces : Write(p, f) => Whole(delta')
         /\ Mkdir(p) => Whole(delta')
         /\ Remove(p) => Whole(delta')
<1>1. Whole(EnsureParentDirs(delta, p))  BY EnsureParentDirsWhole
<1>2. ASSUME NEW f \in Pieces, Write(p, f) PROVE Whole(delta')
  BY <1>1, <1>2, FsPutFileWhole DEF Write
<1>3. ASSUME Mkdir(p) PROVE Whole(delta')
  BY <1>1, <1>3, FsPutNodeWhole DEF Mkdir
<1>4. ASSUME Remove(p) PROVE Whole(delta')
  <2>1. {p} \cup Below(p) \in SUBSET Path  BY DEF Below
  <2> QED  BY <1>4, <2>1, DeleteRowsWhole DEF Remove
<1> QED  BY <1>2, <1>3, <1>4

\* The smallest write of a file the view shows leaves the file.
LEMMA WriteSmallestLeaves ==
  ASSUME LayerInv, NEW p \in Path, NEW f \in Pieces, Shown(delta, white, p).kind = "file",
         WriteSmallest(p, f, Shown(delta, white, p).data)
  PROVE  /\ Sound(delta') /\ white' \in SUBSET Path
         /\ Whole(delta) => Whole(delta')
         /\ Leaves(p, NodeOf("file", f))
<1> DEFINE now == Shown(delta, white, p).data
           changed == {i \in DOMAIN f : f[i] # now[i]}
           g == [i \in changed |-> f[i]]
<1>1. CASE ~(Length(f) = Length(now) /\ Length(f) > 1 /\ Cardinality(changed) = 1)
  <2>1. Write(p, f)  BY <1>1 DEF WriteSmallest
  <2> QED  BY <2>1, WriteLeaves, WritesCount
<1>2. CASE Length(f) = Length(now) /\ Length(f) > 1 /\ Cardinality(changed) = 1
  <2>1. WriteRange(p, g)  BY <1>2 DEF WriteSmallest
  <2>2. now \in Pieces  BY ShownFile
  <2> HIDE DEF now
  <2>3. /\ Length(f) \in 0 .. MaxChunks /\ DOMAIN f = 0 .. (Length(f) - 1)
        /\ \A i \in DOMAIN f : i \in Idx /\ f[i] \in Piece
        /\ f = [i \in 0 .. (Length(f) - 1) |-> f[i]]
    BY PiecesShape
  <2>4. DOMAIN now = DOMAIN f  BY <1>2, <2>2, <2>3, PiecesShape
  <2>5. PICK c : changed = {c}
    <3>1. IsFiniteSet(0 .. (Length(f) - 1))
      <4>1. 0 \in Int /\ Length(f) - 1 \in Int  BY <2>3, ImageAssumption
      <4> QED  BY <4>1, FS_Interval
    <3>2. changed \subseteq 0 .. (Length(f) - 1)  BY <2>3
    <3> HIDE DEF changed
    <3>3. IsFiniteSet(changed)  BY <3>1, <3>2, FS_Subset
    <3> QED  BY <1>2, <3>3, FS_Singleton
  <2>6. c \in DOMAIN f  BY <2>5
  <2>7. c \in Nat /\ c + 1 \in 0 .. MaxChunks /\ c .. ((c + 1) - 1) = {c} /\ c \in 0 .. MaxChunks /\ c <= c + 1
    <3>1. c \in Idx  BY <2>3, <2>6
    <3>2. MaxChunks \in Nat /\ c \in 0 .. (MaxChunks - 1)  BY <3>1, ImageAssumption DEF Idx
    <3> QED  BY <3>2
  <2>8. RangeOf(g, c, c + 1)
    <3>1. g \in [{c} -> Piece]  BY <2>3, <2>5, <2>6
    <3> HIDE DEF g
    <3> QED  BY <2>7, <3>1 DEF RangeOf
  <2>9. Overwritten(now, g) = f
    <3>1. DOMAIN now \cup DOMAIN g = DOMAIN f  BY <2>4
    <3>2. \A i \in DOMAIN f : (IF i \in DOMAIN g THEN g[i] ELSE now[i]) = f[i]  OBVIOUS
    <3> HIDE DEF g
    <3> QED  BY <2>3, <3>1, <3>2 DEF Overwritten
  <2>10. Once(delta, p, g)
    <3>1. \A i, j \in DOMAIN g : i = c /\ j = c  BY <2>5
    <3>2. ~(c < c)  BY <2>7
    <3> HIDE DEF g
    <3> QED  BY <3>1, <3>2 DEF Once
  <2> HIDE DEF g
  <2>11. /\ Sound(delta') /\ white' \in SUBSET Path
         /\ Whole(delta) /\ Once(delta, p, g) => Whole(delta')
         /\ Visible(delta', white')
         /\ Shown(delta, white, p).kind = "file" =>
              /\ Shown(delta', white', p) = NodeOf("file", Overwritten(Shown(delta, white, p).data, g))
              /\ Beside(delta', white', p)
    BY <2>1, <2>8, WriteRangeLeaves
  <2> QED  BY <2>9, <2>10, <2>11 DEF Leaves, now
<1> QED  BY <1>1, <1>2

-----------------------------------------------------------------------------
(* Steps. *)

\* The Base does not change.
LEMMA BaseStays == ASSUME [Next]_vars PROVE base' = base
<1>1. ASSUME Next PROVE base' = base
  BY <1>1 DEF Next, Call, Start, AbsorbEntry, AbsorbGone, AbsorbWalked, Absorbed, Finish, Abandon,
                 RangeCall, WholeCall, Run
<1> QED  BY <1>1 DEF vars

\* Soundness is with respect to the Base.
LEMMA SoundNext ==
  ASSUME base' = base
  PROVE  /\ Sound(delta') => Sound(delta)'
         /\ Sound(before') => Sound(before)'
<1>1. /\ \A p, i : LayeredChunk(delta, p, i)' = LayeredChunk(delta', p, i)
      /\ \A p, i : LayeredChunk(before, p, i)' = LayeredChunk(before', p, i)
  BY DEF LayeredChunk
<1>2. /\ \A p : LayeredFile(delta, p)' = LayeredFile(delta', p)
      /\ \A p : LayeredFile(before, p)' = LayeredFile(before', p)
  BY <1>1 DEF LayeredFile
<1>3. /\ \A p : SoundAt(delta', p) => SoundAt(delta, p)'
      /\ \A p : SoundAt(before', p) => SoundAt(before, p)'
  BY <1>1, <1>2 DEF SoundAt
<1> QED  BY <1>3 DEF Sound

\* An empty database, and the tree of no run.
LEMMA Empty == Sound(EmptyImage) /\ NoTree \in Trees /\ \A p \in Path : LiveKind(EmptyImage, p) = "none"
<1> DEFINE Z == EmptyImage
<1>1. /\ Z.chunk = [k \in Key |-> NoPiece]
      /\ Z.row = [k \in Owner \X Path |-> IF k[1] = Live THEN NoRow ELSE Unknown]
  BY DEF EmptyImage
<1>2. Tabled(Z)  BY EmptyImageWhole, ImageTabled DEF Whole
<1> HIDE DEF Z
<1>3. ASSUME NEW q \in Path PROVE SoundAt(Z, q) /\ LiveKind(Z, q) = "none"
  <2>1. Z.row[<<Live, q>>] = NoRow  BY <1>1 DEF Owner
  <2>2. \A i \in Idx : Z.chunk[<<Live, q, i>>] = NoPiece  BY <1>1 DEF Key, Owner
  <2>3. Entry(Z, Live, q) = NodeEntry("none")  BY <2>1, <2>2 DEF Entry, Content, Blank, NodeEntry, NoRow
  <2> QED  BY <2>3, NodeSound
<1>4. NoTree \in Trees
  <2>1. \A p \in Path : NoTree[p] = NoNode /\ NoNode \in Nodes(p)  BY DEF NoTree, Nodes
  <2>2. NoNode.kind = "none"  BY DEF NoNode, NodeOf
  <2>3. NoTree \in [Path -> UNION {Nodes(p) : p \in Path}]  BY <2>1 DEF NoTree
  <2> QED  BY <2>1, <2>2, <2>3 DEF Trees, Tables
<1> QED  BY <1>2, <1>3, <1>4 DEF Sound, Z

\* One entry of the walk: the view shows it, and nothing else has changed beside it.
LEMMA AbsorbEntryLeaves ==
  ASSUME LayerInv, NEW p \in Path, AbsorbEntry(p)
  PROVE  /\ Sound(delta') /\ white' \in SUBSET Path
         /\ Whole(delta) => Whole(delta')
         /\ Kept(p) => Leaves(p, tree[p])
<1> DEFINE now == Shown(delta, white, p)
           new == tree[p]
<1>1. View(p) = now  BY ViewShown DEF LayerInv
<1>2. IF now = new THEN UNCHANGED <<delta, white>>
      ELSE IF new.kind = "dir" THEN Mkdir(p)
      ELSE IF now.kind = "file" THEN WriteSmallest(p, new.data, now.data)
      ELSE Write(p, new.data)
  BY <1>1 DEF AbsorbEntry
<1>3. /\ new.data \in Pieces
      /\ new.kind = "dir" => new = DirNode
      /\ new.kind \notin {"dir", "none"} => new = NodeOf("file", new.data)
  BY TreeNode, TableNode DEF LayerInv
<1>4. Sound(delta) /\ white \in SUBSET Path  BY DEF LayerInv
<1>5. CASE now = new
  <2>1. delta' = delta /\ white' = white  BY <1>2, <1>5
  <2>2. Leaves(p, new)
    BY <1>5, <2>1 DEF Leaves, Beside, Visible, Hidden, InDelta
  <2> QED  BY <1>4, <2>1, <2>2
<1> HIDE DEF now
<1>6. CASE now # new /\ new.kind = "dir"
  <2>1. Mkdir(p)  BY <1>2, <1>6
  <2> QED  BY <1>3, <1>6, <2>1, MkdirLeaves, WritesCount
<1>7. CASE now # new /\ new.kind # "dir" /\ now.kind = "file"
  <2>1. WriteSmallest(p, new.data, now.data)  BY <1>2, <1>7
  <2>2. /\ Sound(delta') /\ white' \in SUBSET Path
        /\ Whole(delta) => Whole(delta')
        /\ Leaves(p, NodeOf("file", new.data))
    BY <1>3, <1>7, <2>1, WriteSmallestLeaves DEF now
  <2> QED  BY <1>3, <1>7, <2>2 DEF Kept
<1>8. CASE now # new /\ new.kind # "dir" /\ now.kind # "file"
  <2>1. Write(p, new.data)  BY <1>2, <1>8
  <2>2. /\ Sound(delta') /\ white' \in SUBSET Path
        /\ Leaves(p, NodeOf("file", new.data))
    BY <1>3, <2>1, WriteLeaves
  <2> QED  BY <1>3, <1>8, <2>1, <2>2, WritesCount DEF Kept
<1> QED  BY <1>5, <1>6, <1>7, <1>8

LEMMA LayerNext == ASSUME LayerInv, [Next]_vars PROVE LayerInv'
<1> DEFINE Ok == /\ tree' \in Trees /\ Sound(delta') /\ Sound(before')
                 /\ white' \in SUBSET Path /\ todo' \in SUBSET Path
<1>1. base' = base  BY BaseStays
<1>2. /\ base \in Tables /\ tree \in Trees /\ Sound(delta) /\ Sound(before)
      /\ white \in SUBSET Path /\ todo \in SUBSET Path
  BY DEF LayerInv
<1>3. SUFFICES Ok
  BY <1>1, <1>2, SoundNext DEF LayerInv
<1>4. \A p \in Path : Bodies[p] \subseteq Pieces  BY OverlayAssumption
<1>5. Wide \subseteq Path  BY OverlayAssumption
<1>6. CASE UNCHANGED vars  BY <1>2, <1>6 DEF vars
<1>7. ASSUME NEW p \in Path, NEW f \in Bodies[p], Call(Write(p, f)) PROVE Ok
  <2>1. Write(p, f) /\ UNCHANGED <<tree, todo, before>>  BY <1>7 DEF Call
  <2>2. Sound(delta') /\ white' \in SUBSET Path  BY <1>4, <2>1, WriteLeaves
  <2> QED  BY <1>2, <2>1, <2>2
<1>8. ASSUME NEW p \in Path, Call(Mkdir(p)) PROVE Ok
  <2>1. Mkdir(p) /\ UNCHANGED <<tree, todo, before>>  BY <1>8 DEF Call
  <2>2. Sound(delta') /\ white' \in SUBSET Path  BY <2>1, MkdirLeaves
  <2> QED  BY <1>2, <2>1, <2>2
<1>9. ASSUME NEW p \in Path, Call(Remove(p)) PROVE Ok
  <2>1. Remove(p) /\ UNCHANGED <<tree, todo, before>>  BY <1>9 DEF Call
  <2>2. Sound(delta') /\ white' \in SUBSET Path  BY <2>1, RemoveLeaves
  <2> QED  BY <1>2, <2>1, <2>2
<1>10. ASSUME NEW p \in Wide, NEW g \in Ranges, Call(WriteRange(p, g)) PROVE Ok
  <2>1. WriteRange(p, g) /\ UNCHANGED <<tree, todo, before>> /\ p \in Path  BY <1>5, <1>10 DEF Call
  <2>2. PICK a, e : RangeOf(g, a, e)  BY RangesOf
  <2>3. Sound(delta') /\ white' \in SUBSET Path  BY <2>1, <2>2, WriteRangeLeaves
  <2> QED  BY <1>2, <2>1, <2>3
<1>11. ASSUME NEW p \in Wide, NEW n \in 0 .. MaxChunks, NEW g \in Ranges, Call(TruncateRange(p, n, g)) PROVE Ok
  <2>1. TruncateRange(p, n, g) /\ UNCHANGED <<tree, todo, before>> /\ p \in Path  BY <1>5, <1>11 DEF Call
  <2>2. Sound(delta') /\ white' \in SUBSET Path  BY <2>1, TruncateRangeLeaves
  <2> QED  BY <1>2, <2>1, <2>2
<1>12. CASE Start  BY <1>2, <1>12 DEF Start
<1>13. ASSUME NEW p \in Path, AbsorbEntry(p) PROVE Ok
  <2>1. todo' = todo \ {p} /\ UNCHANGED <<tree, before>>  BY <1>13 DEF AbsorbEntry
  <2>2. Sound(delta') /\ white' \in SUBSET Path  BY <1>13, AbsorbEntryLeaves
  <2> QED  BY <1>2, <2>1, <2>2
<1>14. ASSUME NEW p \in Path, AbsorbGone(p) PROVE Ok
  <2>1. Remove(p) /\ todo' = todo \ {p} /\ UNCHANGED <<tree, before>>  BY <1>14 DEF AbsorbGone
  <2>2. Sound(delta') /\ white' \in SUBSET Path  BY <2>1, RemoveLeaves
  <2> QED  BY <1>2, <2>1, <2>2
<1>15. CASE AbsorbWalked  BY <1>2, <1>15 DEF AbsorbWalked, GonePaths
<1>16. CASE Absorbed  BY <1>2, <1>16 DEF Absorbed
<1>17. ASSUME NEW rollback \in Rollback, Finish(rollback) PROVE Ok
  <2>1. /\ delta' = before \/ delta' = delta
        /\ tree' = NoTree /\ todo' = {} /\ before' = EmptyImage /\ white' = white
    BY <1>17 DEF Finish, RunOver
  <2> QED  BY <1>2, <2>1, Empty
<1>18. CASE Abandon
  <2>1. delta' = delta /\ tree' = NoTree /\ todo' = {} /\ before' = EmptyImage /\ white' = white
    BY <1>18 DEF Abandon, RunOver
  <2> QED  BY <1>2, <2>1, Empty
<1> QED
  BY <1>6, <1>7, <1>8, <1>9, <1>10, <1>11, <1>12, <1>13, <1>14, <1>15, <1>16, <1>17, <1>18
  DEF Next, RangeCall, WholeCall, Run

\* The counts stay exact.
LEMMA CountNext == ASSUME LayerInv, CountInv, [Next]_vars PROVE CountInv'
<1> SUFFICES ASSUME ~respun' PROVE Whole(delta') /\ Whole(before')  BY DEF CountInv
<1>2. ~respun  BY DEF Next, RangeCall, vars
<1>1. Whole(delta) /\ Whole(before)  BY <1>2 DEF CountInv
<1>3. \A p \in Path : Bodies[p] \subseteq Pieces  BY OverlayAssumption
<1>4. Wide \subseteq Path  BY OverlayAssumption
<1>5. CASE UNCHANGED vars  BY <1>1, <1>5 DEF vars
<1>6. ASSUME NEW p \in Path, NEW f \in Bodies[p], Call(Write(p, f)) PROVE Whole(delta') /\ Whole(before')
  BY <1>1, <1>3, <1>6, WritesCount DEF Call
<1>7. ASSUME NEW p \in Path, Call(Mkdir(p)) PROVE Whole(delta') /\ Whole(before')
  BY <1>1, <1>7, WritesCount DEF Call
<1>8. ASSUME NEW p \in Path, Call(Remove(p)) PROVE Whole(delta') /\ Whole(before')
  BY <1>1, <1>8, WritesCount DEF Call
<1>18. ASSUME NEW p, NEW g, respun' = (respun \/ Respins(p, g)) PROVE Once(delta, p, g)
  <2>1. ~Respins(p, g)  BY <1>18
  <2> QED  BY <2>1 DEF Respins, Once
<1>9. ASSUME NEW p \in Wide, NEW g \in Ranges, Call(WriteRange(p, g)), respun' = (respun \/ Respins(p, g))
      PROVE  Whole(delta') /\ Whole(before')
  <2>1. WriteRange(p, g) /\ before' = before /\ p \in Path  BY <1>4, <1>9 DEF Call
  <2>2. PICK a, e : RangeOf(g, a, e)  BY RangesOf
  <2>3. Once(delta, p, g)  BY <1>9, <1>18
  <2>4. Whole(delta) /\ Once(delta, p, g) => Whole(delta')
    BY <2>1, <2>2, WriteRangeLeaves
  <2> QED  BY <1>1, <2>1, <2>3, <2>4
<1>10. ASSUME NEW p \in Wide, NEW n \in 0 .. MaxChunks, NEW g \in Ranges, Call(TruncateRange(p, n, g)),
              respun' = (respun \/ Respins(p, g))
       PROVE  Whole(delta') /\ Whole(before')
  <2>1. TruncateRange(p, n, g) /\ before' = before /\ p \in Path  BY <1>4, <1>10 DEF Call
  <2>3. Once(delta, p, g)  BY <1>10, <1>18
  <2>2. Whole(delta')  BY <1>1, <2>1, <2>3, TruncateRangeLeaves
  <2> QED  BY <1>1, <2>1, <2>2
<1>11. CASE Start  BY <1>1, <1>11 DEF Start
<1>12. ASSUME NEW p \in Path, AbsorbEntry(p) PROVE Whole(delta') /\ Whole(before')
  <2>1. before' = before  BY <1>12 DEF AbsorbEntry
  <2>2. Whole(delta')  BY <1>1, <1>12, AbsorbEntryLeaves
  <2> QED  BY <1>1, <2>1, <2>2
<1>13. ASSUME NEW p \in Path, AbsorbGone(p) PROVE Whole(delta') /\ Whole(before')
  BY <1>1, <1>13, WritesCount DEF AbsorbGone
<1>14. CASE AbsorbWalked  BY <1>1, <1>14 DEF AbsorbWalked
<1>15. CASE Absorbed  BY <1>1, <1>15 DEF Absorbed
<1>16. ASSUME NEW rollback \in Rollback, Finish(rollback) PROVE Whole(delta') /\ Whole(before')
  <2>1. (delta' = before \/ delta' = delta) /\ before' = EmptyImage  BY <1>16 DEF Finish, RunOver
  <2> QED  BY <1>1, <2>1, EmptyImageWhole
<1>17. CASE Abandon
  <2>1. delta' = delta /\ before' = EmptyImage  BY <1>17 DEF Abandon, RunOver
  <2> QED  BY <1>1, <2>1, EmptyImageWhole
<1> QED
  BY <1>5, <1>6, <1>7, <1>8, <1>9, <1>10, <1>11, <1>12, <1>13, <1>14, <1>15, <1>16, <1>17
  DEF Next, RangeCall, WholeCall, Run

\* An entry is absorbed.
LEMMA AbsorbEntryNext ==
  ASSUME LayerInv, AbsorbInv, base' = base, NEW p \in Path, AbsorbEntry(p)
  PROVE  AbsorbInv'
<1>1. /\ pc = "absorb" /\ p \in todo /\ Anc[p] \cap todo = {} /\ todo' = todo \ {p}
      /\ pc' = pc /\ tree' = tree
  BY DEF AbsorbEntry
<1>2. base \in Tables /\ tree \in Trees /\ todo \in SUBSET Path  BY DEF LayerInv
<1>3. \A q \in Path : /\ q \in todo => Kept(q)
                      /\ Kept(q) /\ q \notin todo => View(q) = tree[q] /\ Anc[q] \cap todo = {}
  BY <1>1 DEF AbsorbInv
<1>4. Leaves(p, tree[p]) /\ Kept(p)  BY <1>1, <1>3, AbsorbEntryLeaves
<1>6. ASSUME NEW q \in Path, q \in todo' PROVE Kept(q)'  BY <1>1, <1>3, <1>6 DEF Kept
<1>7. ASSUME NEW q \in Path, Kept(q)', q \notin todo' PROVE View(q)' = tree[q] /\ Anc[q] \cap todo' = {}
  <2>1. View(q)' = Shown(delta', white', q)  BY <1>2, ViewShownNext
  <2>2. CASE q = p  BY <1>1, <1>4, <2>1, <2>2 DEF Leaves
  <2>3. CASE q # p
    <3>1. q \notin todo /\ Kept(q)  BY <1>1, <1>7, <2>3 DEF Kept
    <3>2. View(q) = tree[q] /\ Anc[q] \cap todo = {}  BY <1>3, <3>1
    <3>3. q \notin Revived(p)  BY <1>1, <3>2 DEF Below, Revived
    <3>4. Shown(delta, white, q) = tree[q]  BY <1>2, <3>2, ViewShown
    <3>7. q \notin Hidden
      <4>1. Shown(delta, white, q).kind # "none"  BY <3>1, <3>4 DEF Kept
      <4> QED  BY <4>1 DEF Shown, NoNode, NodeOf, Hidden
    <3>5. \/ Shown(delta', white', q) = Shown(delta, white, q)
          \/ q \in Anc[p] /\ Shown(delta', white', q).kind = "dir"
      BY <1>4, <2>3, <3>3, <3>7 DEF Leaves, Beside
    <3>6. ASSUME q \in Anc[p], Shown(delta', white', q).kind = "dir"
          PROVE  Shown(delta', white', q) = tree[q]
      <4>1. tree[q].kind = "dir"  BY <1>2, <1>4, <3>6, TreeNode DEF Kept
      <4>2. tree[q] = DirNode  BY <1>2, <4>1, TreeNode, TableNode
      <4>3. Shown(delta', white', q) = DirNode  BY <1>2, <3>6, ShownDir
      <4> QED  BY <4>2, <4>3
    <3> QED  BY <1>1, <2>1, <3>2, <3>4, <3>5, <3>6
  <2> QED  BY <2>2, <2>3
<1> QED  BY <1>1, <1>6, <1>7 DEF AbsorbInv

\* The walk is over: what differs from the tree is what it no longer has.
LEMMA AbsorbWalkedNext ==
  ASSUME LayerInv, AbsorbInv, base' = base, AbsorbWalked
  PROVE  AbsorbInv'
<1>1. /\ pc = "absorb" /\ todo = {} /\ todo' = GonePaths /\ pc' = "gone"
      /\ UNCHANGED <<delta, white, tree>>
  BY DEF AbsorbWalked
<1>2. base \in Tables /\ tree \in Trees  BY DEF LayerInv
<1>4. \A q \in Path : View(q)' = View(q)
  <2> TAKE q \in Path
  <2>1. View(q)' = Shown(delta', white', q) /\ View(q) = Shown(delta, white, q)
    BY <1>2, ViewShown, ViewShownNext
  <2> QED  BY <1>1, <2>1
<1>5. ASSUME NEW q \in Path, q \in todo' PROVE ~Kept(q)'  BY <1>1, <1>5 DEF GonePaths, Kept
<1>6. ASSUME NEW q \in Path, q \notin todo' PROVE View(q)' = tree'[q]
  <2>1. CASE Kept(q)  BY <1>1, <1>4, <2>1 DEF AbsorbInv
  <2>2. CASE ~Kept(q)
    <3>1. tree[q] = NoNode  BY <1>2, <2>2, TreeNode, TableNode DEF Kept
    <3>2. ~InDelta(q) /\ ~BaseShown(q)  BY <1>1, <1>6, <2>2 DEF GonePaths, Kept
    <3>3. View(q) = NoNode  BY <3>2 DEF View, Locate, BaseShown
    <3> QED  BY <1>1, <1>4, <3>1, <3>3
  <2> QED  BY <2>1, <2>2
<1> QED  BY <1>1, <1>5, <1>6 DEF AbsorbInv

\* A path the tree no longer has is removed; the tree has nothing below it.
LEMMA AbsorbGoneNext ==
  ASSUME LayerInv, AbsorbInv, base' = base, NEW p \in Path, AbsorbGone(p)
  PROVE  AbsorbInv'
<1>1. /\ pc = "gone" /\ p \in todo /\ Remove(p) /\ todo' = todo \ {p} /\ pc' = pc /\ tree' = tree
  BY DEF AbsorbGone
<1>2. base \in Tables /\ tree \in Trees  BY DEF LayerInv
<1>3. \A q \in Path : (q \in todo => ~Kept(q)) /\ (q \notin todo => View(q) = tree[q])
  BY <1>1 DEF AbsorbInv
<1>4. /\ Visible(delta', white')
      /\ \A q \in Path : Shown(delta', white', q)
           = IF q = p \/ q \in Below(p) THEN NoNode ELSE Shown(delta, white, q)
  BY <1>1, RemoveLeaves
<1>6. ASSUME NEW q \in Path, q \in todo' PROVE ~Kept(q)'  BY <1>1, <1>3, <1>6 DEF Kept
<1>7. ASSUME NEW q \in Path, q \notin todo' PROVE View(q)' = tree'[q]
  <2>1. View(q)' = Shown(delta', white', q)  BY <1>2, ViewShownNext
  <2>2. CASE q = p \/ q \in Below(p)
    <3>1. ~Kept(p)  BY <1>1, <1>3
    <3>2. ~Kept(q)
      <4>1. CASE q = p  BY <3>1, <4>1
      <4>2. CASE p \in Anc[q]
        <5>1. Kept(q) => tree[p].kind = "dir"  BY <1>2, <4>2, TreeNode DEF Kept
        <5> QED  BY <3>1, <5>1 DEF Kept
      <4> QED  BY <2>2, <4>1, <4>2 DEF Below
    <3>3. tree[q] = NoNode  BY <1>2, <3>2, TreeNode, TableNode DEF Kept
    <3> QED  BY <1>1, <1>4, <2>1, <2>2, <3>3
  <2>3. CASE ~(q = p \/ q \in Below(p))
    <3>1. View(q) = tree[q]  BY <1>1, <1>3, <1>7, <2>3
    <3>2. View(q) = Shown(delta, white, q)  BY <1>2, ViewShown
    <3> QED  BY <1>1, <1>4, <2>1, <2>3, <3>1, <3>2
  <2> QED  BY <2>2, <2>3
<1> QED  BY <1>1, <1>6, <1>7 DEF AbsorbInv

\* How an absorb comes on.
LEMMA AbsorbNext == ASSUME LayerInv, AbsorbInv, [Next]_vars PROVE AbsorbInv'
<1>1. base' = base  BY BaseStays
<1>2. base \in Tables  BY DEF LayerInv
<1>3. ASSUME UNCHANGED <<delta, white>>, NEW p \in Path PROVE View(p)' = View(p)
  <2>1. View(p)' = Shown(delta', white', p) /\ View(p) = Shown(delta, white, p)
    BY <1>1, <1>2, ViewShown, ViewShownNext
  <2> QED  BY <1>3, <2>1
<1>4. ASSUME pc' = "idle" PROVE AbsorbInv'  BY <1>4 DEF AbsorbInv
<1>5. CASE UNCHANGED vars
  <2>1. UNCHANGED <<delta, white>> /\ UNCHANGED <<pc, tree, todo>>  BY <1>5 DEF vars
  <2>2. \A p \in Path : View(p)' = View(p)  BY <1>3, <2>1
  <2> QED  BY <2>1, <2>2 DEF AbsorbInv, Kept
<1>6. CASE RangeCall \/ WholeCall  BY <1>4, <1>6 DEF RangeCall, WholeCall, Call
<1>7. CASE Start
  <2>1. pc' = "absorb" /\ todo' = {p \in Path : tree'[p].kind # "none"}  BY <1>7 DEF Start
  <2> QED  BY <2>1 DEF AbsorbInv, Kept
<1>8. ASSUME NEW p \in Path, AbsorbEntry(p) PROVE AbsorbInv'  BY <1>1, <1>8, AbsorbEntryNext
<1>9. ASSUME NEW p \in Path, AbsorbGone(p) PROVE AbsorbInv'  BY <1>1, <1>9, AbsorbGoneNext
<1>10. CASE AbsorbWalked  BY <1>1, <1>10, AbsorbWalkedNext
<1>11. CASE Absorbed
  <2>1. pc = "gone" /\ todo = {} /\ pc' = "done" /\ UNCHANGED <<delta, white>> /\ UNCHANGED <<tree, todo>>
    BY <1>11 DEF Absorbed
  <2>2. \A p \in Path : View(p)' = View(p) /\ View(p) = tree[p]  BY <1>3, <2>1 DEF AbsorbInv
  <2> QED  BY <2>1, <2>2 DEF AbsorbInv
<1>12. ASSUME NEW rollback \in Rollback, Finish(rollback) PROVE AbsorbInv'
  BY <1>4, <1>12 DEF Finish, RunOver
<1>13. CASE Abandon  BY <1>4, <1>13 DEF Abandon, RunOver
<1> QED  BY <1>5, <1>6, <1>7, <1>8, <1>9, <1>10, <1>11, <1>12, <1>13 DEF Next, Run

\* No call and no step of a run, but for a rollback, hides a Delta row.
LEMMA StepVisible ==
  ASSUME LayerInv, AbsorbInv, RangeCall \/ WholeCall \/ Run
  PROVE  Hidden' \subseteq Hidden
<1>1. SUFFICES Visible(delta', white')  BY DEF Visible, Hidden, InDelta, WhitedOut
<1>2. \A p \in Path : Bodies[p] \subseteq Pieces  BY OverlayAssumption
<1>3. Wide \subseteq Path  BY OverlayAssumption
<1>4. ASSUME UNCHANGED <<delta, white>> PROVE Visible(delta', white')
  BY <1>4 DEF Visible, Hidden, InDelta
<1>5. CASE RangeCall
  <2>1. PICK p \in Wide, g \in Ranges :
          WriteRange(p, g) \/ \E n \in 0 .. MaxChunks : TruncateRange(p, n, g)
    BY <1>5 DEF RangeCall, Call
  <2>2. p \in Path  BY <1>3
  <2>3. CASE WriteRange(p, g)
    <3>1. PICK a, e : RangeOf(g, a, e)  BY RangesOf
    <3> QED  BY <2>2, <2>3, <3>1, WriteRangeLeaves
  <2>4. ASSUME NEW n \in 0 .. MaxChunks, TruncateRange(p, n, g) PROVE Visible(delta', white')
    BY <2>2, <2>4, TruncateRangeLeaves
  <2> QED  BY <2>1, <2>3, <2>4
<1>6. ASSUME NEW p \in Path, NEW f \in Bodies[p], Call(Write(p, f)) PROVE Visible(delta', white')
  BY <1>2, <1>6, WriteLeaves DEF Call, Leaves
<1>7. ASSUME NEW p \in Path, Call(Mkdir(p)) PROVE Visible(delta', white')
  BY <1>7, MkdirLeaves DEF Call, Leaves
<1>8. ASSUME NEW p \in Path, Remove(p) PROVE Visible(delta', white')
  BY <1>8, RemoveLeaves
<1>9. ASSUME NEW p \in Path, AbsorbEntry(p) PROVE Visible(delta', white')
  <2>1. Kept(p)  BY <1>9 DEF AbsorbEntry, AbsorbInv
  <2> QED  BY <1>9, <2>1, AbsorbEntryLeaves DEF Leaves
<1>10. CASE Start \/ AbsorbWalked \/ Absorbed \/ Abandon
  BY <1>4, <1>10 DEF Start, AbsorbWalked, Absorbed, Abandon
<1>11. CASE WholeCall  BY <1>6, <1>7, <1>8, <1>11 DEF WholeCall, Call
<1>12. CASE Run  BY <1>8, <1>9, <1>10, <1>12 DEF Run, AbsorbGone
<1> QED  BY <1>5, <1>11, <1>12

LEMMA BurialNext == ASSUME LayerInv, AbsorbInv, BurialInv, [Next]_vars PROVE BurialInv'
<1>1. ASSUME UNCHANGED <<delta, white>> PROVE Hidden' = Hidden
  BY <1>1 DEF Hidden, InDelta, WhitedOut
<1>2. CASE UNCHANGED vars  BY <1>1, <1>2 DEF vars, BurialInv
<1>3. CASE (RangeCall \/ WholeCall \/ Run) /\ buried' = buried \cap Hidden'
  <2>1. Hidden' \subseteq Hidden  BY <1>3, StepVisible
  <2> QED  BY <1>3, <2>1 DEF BurialInv
<1>4. ASSUME NEW rollback \in Rollback, Finish(rollback), buried' = IF rollback THEN Hidden' ELSE buried
      PROVE  BurialInv'
  <2>1. CASE rollback  BY <1>4, <2>1 DEF BurialInv
  <2>2. CASE ~rollback
    <3>1. UNCHANGED <<delta, white>>  BY <1>4, <2>2 DEF Finish
    <3> QED  BY <1>1, <1>4, <2>2, <3>1 DEF BurialInv
  <2> QED  BY <2>1, <2>2
<1> QED  BY <1>2, <1>3, <1>4 DEF Next

-----------------------------------------------------------------------------
(* The overlay. *)

LEMMA LayerStart == ASSUME Init PROVE LayerInv
BY Empty DEF Init, LayerInv

\* The layers are sound in every behaviour, rollbacks and repeated pieces included.
THEOREM OverlaySafe == Spec => []LayerInv
<1>1. Init => LayerInv  BY LayerStart
<1>2. LayerInv /\ [Next]_vars => LayerInv'  BY LayerNext
<1> QED  BY <1>1, <1>2, PTL DEF Spec

\* Whatever write_range, truncate_range, whole writes, removals, absorbs and rollbacks are
\* applied, every Delta file can be put together from its own chunks and the Base's, and its
\* hash is that of the content it shows.
THEOREM LayersAlwaysWhole == Spec => []LayersWhole
<1>1. LayerInv => LayersWhole  BY DEF LayerInv, Sound, SoundAt, LayersWhole
<1> QED  BY <1>1, OverlaySafe, PTL

\* The Delta's blobs are counted exactly although write_range and truncate_range write chunk
\* rows without put_chunk's guard: a row rewritten with the content it has loses its blob, and
\* the write fails, unless a later chunk of the same range holds that content again.
THEOREM DeltaRefsCounted == Spec => []DeltaRefsExact
<1>1. Init => CountInv  BY EmptyImageWhole DEF Init, CountInv
<1>2. LayerInv /\ CountInv /\ [Next]_vars => CountInv'  BY CountNext
<1>3. CountInv => DeltaRefsExact  BY ExactWhole DEF CountInv, Whole, DeltaRefsExact
<1> QED  BY <1>1, <1>2, <1>3, OverlaySafe, PTL DEF Spec

\* What the absorb and the whiteouts rest on.
LEMMA AbsorbSafe == Spec => [](LayerInv /\ BurialInv /\ AbsorbInv)
<1>1. Init => LayerInv /\ BurialInv /\ AbsorbInv
  BY LayerStart, Empty DEF Init, BurialInv, Hidden, AbsorbInv, InDelta
<1>2. LayerInv /\ BurialInv /\ AbsorbInv /\ [Next]_vars => (LayerInv /\ BurialInv /\ AbsorbInv)'
  BY LayerNext, BurialNext, AbsorbNext
<1> QED  BY <1>1, <1>2, PTL DEF Spec

\* A Delta row is hidden by a whiteout only if a rollback put it back there (whiteouts are in
\* no snapshot): otherwise lookup_file and list, which do not look for one, are right not to.
THEOREM DeltaNeverHidden == Spec => []DeltaVisible
<1>1. BurialInv => DeltaVisible  BY DEF BurialInv, DeltaVisible
<1> QED  BY <1>1, AbsorbSafe, PTL

\* A run that has absorbed its tree leaves a view that shows exactly that tree, whatever the
\* Base, the Delta and the whiteouts were when it began, rows buried by a rollback included.
THEOREM AbsorbsExact == Spec => []AbsorbExact
<1>1. AbsorbInv => AbsorbExact  BY DEF AbsorbInv, AbsorbExact
<1> QED  BY <1>1, AbsorbSafe, PTL

\* list, which merges the names of two layers with its own tests on whiteouts, agrees with
\* what a lookup of each name shows, but for rows a rollback buried, which it lists.
THEOREM ListsExact == Spec => []ListExact
<1>1. ASSUME LayerInv, BurialInv PROVE ListExact
  <2> SUFFICES ASSUME NEW p \in Path, View(p).kind = "dir", NEW q \in Children(p)
               PROVE  q \in List(p) <=> View(q).kind # "none" \/ q \in buried
    BY DEF ListExact, List
  <2>1. q \in Path /\ Anc[q] = Anc[p] \cup {p}  BY DEF Children, Below
  <2>2. base \in Tables /\ SoundAt(delta, q)  BY <1>1, <2>1 DEF LayerInv, Sound
  <2>3. ~WhitedOut(white, p)
    <3>1. View(p) = Shown(delta, white, p)  BY <2>2, ViewShown
    <3> QED  BY <3>1 DEF Shown, NoNode, NodeOf
  <2>4. WhitedOut(white, q) <=> q \in white  BY <2>1, <2>3 DEF WhitedOut
  <2>5. q \in List(p) <=> InDelta(q) \/ (InBase(q) /\ q \notin white)  BY <2>3 DEF List
  <2>6. q \in buried <=> InDelta(q) /\ WhitedOut(white, q)  BY <1>1, <2>1 DEF BurialInv, Hidden
  <2>7. View(q) = Shown(delta, white, q)  BY <2>1, <2>2, ViewShown
  <2>8. Shown(delta, white, q).kind # "none" <=> ~WhitedOut(white, q) /\ (InDelta(q) \/ InBase(q))
    BY DEF Shown, InDelta, InBase, NoNode, NodeOf
  <2> QED  BY <2>4, <2>5, <2>6, <2>7, <2>8
<1>2. LayerInv /\ BurialInv => ListExact  BY <1>1
<1> QED  BY <1>2, AbsorbSafe, PTL

\* remove takes a path and all below it out of the view, in both layers, and nothing else;
\* also after a rollback.
THEOREM RemovesExact == Spec => RemoveExact
<1> DEFINE A == pc = "idle" /\ pc' = "idle" => \A p \in Path : Remove(p) =>
                  \A q \in Path : View(q)' = IF q \in {p} \cup Below(p) THEN NoNode ELSE View(q)
<1>1. ASSUME LayerInv, [Next]_vars PROVE A
  <2> SUFFICES ASSUME NEW p \in Path, Remove(p), NEW q \in Path
               PROVE  View(q)' = IF q \in {p} \cup Below(p) THEN NoNode ELSE View(q)
    OBVIOUS
  <2>1. base' = base /\ base \in Tables  BY <1>1, BaseStays DEF LayerInv
  <2>2. View(q)' = Shown(delta', white', q) /\ View(q) = Shown(delta, white, q)
    BY <2>1, ViewShown, ViewShownNext
  <2>3. Shown(delta', white', q) = IF q = p \/ q \in Below(p) THEN NoNode ELSE Shown(delta, white, q)
    BY <1>1, RemoveLeaves
  <2> QED  BY <2>2, <2>3
<1>2. LayerInv /\ [Next]_vars => [A]_<<delta, white>>  BY <1>1
<1> HIDE DEF A
<1>3. Spec => [][A]_<<delta, white>>  BY <1>2, OverlaySafe, PTL DEF Spec
<1> QED  BY <1>3 DEF RemoveExact, A

\* write, mkdir and write_range change the view exactly as asked for: clearing the whiteouts
\* that hid the path revives nothing that was removed beside it, nor below it when the path was
\* removed itself, and the chunks a range leaves come from the layer that had them.
THEOREM WritesExact == Spec => WriteExact
<1> DEFINE A == pc = "idle" /\ pc' = "idle" => \A p \in Path :
                  /\ \A f \in Bodies[p] : Write(p, f) => ChangedOnly(p, NodeOf("file", f))
                  /\ Mkdir(p) => ChangedOnly(p, NodeOf("dir", EmptyFile))
                  /\ p \in Wide /\ View(p).kind = "file" => \A g \in Ranges :
                       WriteRange(p, g) => ChangedOnly(p, NodeOf("file", Overwritten(View(p).data, g)))
<1>1. ASSUME LayerInv, BurialInv, [Next]_vars PROVE A
  <2> SUFFICES ASSUME NEW p \in Path
               PROVE  /\ \A f \in Bodies[p] : Write(p, f) => ChangedOnly(p, NodeOf("file", f))
                      /\ Mkdir(p) => ChangedOnly(p, NodeOf("dir", EmptyFile))
                      /\ p \in Wide /\ View(p).kind = "file" => \A g \in Ranges :
                           WriteRange(p, g) => ChangedOnly(p, NodeOf("file", Overwritten(View(p).data, g)))
    OBVIOUS
  <2>1. base' = base /\ base \in Tables  BY <1>1, BaseStays DEF LayerInv
  <2>2. \A q \in Path : View(q)' = Shown(delta', white', q) /\ View(q) = Shown(delta, white, q)
    BY <2>1, ViewShown, ViewShownNext
  <2>3. ASSUME NEW n, Shown(delta', white', p) = n, Beside(delta', white', p) PROVE ChangedOnly(p, n)
    <3>1. View(p)' = n  BY <2>2, <2>3
    <3>2. ASSUME NEW q \in Path \ ({p} \cup Revived(p) \cup buried)
          PROVE  View(q)' = View(q) \/ (q \in Anc[p] /\ View(q)'.kind = "dir")
      BY <1>1, <2>2, <2>3 DEF Beside, BurialInv
    <3> QED  BY <3>1, <3>2 DEF ChangedOnly
  <2>4. ASSUME NEW f \in Bodies[p], Write(p, f) PROVE ChangedOnly(p, NodeOf("file", f))
    <3>1. f \in Pieces  BY OverlayAssumption
    <3>2. Leaves(p, NodeOf("file", f))  BY <1>1, <2>4, <3>1, WriteLeaves
    <3> QED  BY <2>3, <3>2 DEF Leaves
  <2>5. ASSUME Mkdir(p) PROVE ChangedOnly(p, NodeOf("dir", EmptyFile))
    <3>1. Leaves(p, DirNode)  BY <1>1, <2>5, MkdirLeaves
    <3> QED  BY <2>3, <3>1 DEF Leaves, DirNode
  <2>6. ASSUME View(p).kind = "file", NEW g \in Ranges, WriteRange(p, g)
        PROVE  ChangedOnly(p, NodeOf("file", Overwritten(View(p).data, g)))
    <3>1. PICK a, e : RangeOf(g, a, e)  BY RangesOf
    <3>2. Shown(delta, white, p).kind = "file" =>
              /\ Shown(delta', white', p) = NodeOf("file", Overwritten(Shown(delta, white, p).data, g))
              /\ Beside(delta', white', p)
      BY <1>1, <2>6, <3>1, WriteRangeLeaves
    <3>3. View(p) = Shown(delta, white, p)  BY <2>2
    <3> QED  BY <2>3, <2>6, <3>2, <3>3
  <2> QED  BY <2>4, <2>5, <2>6
<1>2. LayerInv /\ BurialInv /\ [Next]_vars => [A]_<<delta, white>>  BY <1>1
<1> HIDE DEF A
<1>3. Spec => [][A]_<<delta, white>>  BY <1>2, AbsorbSafe, PTL DEF Spec
<1> QED  BY <1>3 DEF WriteExact, A

\* The tables keep their types, as long as the counts are exact.
THEOREM OverlayTypeCorrect == Spec => [](~respun => TypeOK)
<1> DEFINE At == pc \in {"idle", "absorb", "gone", "done"} /\ respun \in BOOLEAN
<1>1. Init => CountInv /\ At  BY EmptyImageWhole DEF Init, CountInv
<1>2. At /\ [Next]_vars => At'
  BY DEF Next, vars, RangeCall, WholeCall, Run, Call, Start, AbsorbEntry, AbsorbGone, AbsorbWalked, Absorbed,
         Finish, Abandon, RunOver
<1>3. LayerInv /\ CountInv /\ [Next]_vars => CountInv'  BY CountNext
<1>4. LayerInv /\ BurialInv /\ CountInv /\ At => (~respun => TypeOK)
  BY DEF LayerInv, BurialInv, Hidden, CountInv, Whole, TypeOK
<1> HIDE DEF At
<1> QED  BY <1>1, <1>2, <1>3, <1>4, AbsorbSafe, PTL DEF Spec
=============================================================================
