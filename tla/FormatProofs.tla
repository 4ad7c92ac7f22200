---------------------------- MODULE FormatProofs ----------------------------
(***************************************************************************)
(* Proofs about the form of a database on disk.                            *)
(*                                                                         *)
(* Codec, for any databases, contents and dictionaries: what was stored    *)
(* reads back whatever is trained, packed, recompressed and injected       *)
(* afterwards and whatever the dictionary cache holds.                     *)
(*                                                                         *)
(* Migrate, for any files, contents and processes, several of which may    *)
(* migrate at once: a migration loses nothing that could be read, whatever *)
(* it is interrupted by, and ends in a database that passes vm_verify      *)
(* --deep and has the schema of a new one, until an overtaken process runs *)
(* one of the steps that rewrite tables.                                   *)
(***************************************************************************)
EXTENDS Codec, Migrate, SequenceTheorems, FiniteSetTheorems, TLAPS

-----------------------------------------------------------------------------
(* Codec: the invariant. *)

\* A row of key k can be read with the dictionaries D: it says how its body was made, and the
\* dictionary it was made with has the id it names.
Fits(D, k, row) ==
  /\ row \in Row /\ row.body.of = k /\ row.body.form = row.flag
  /\ row.flag # "dict" => row.dict = 0
  /\ row.flag = "dict" => row.dict \in DOMAIN D /\ row.body.with = D[row.dict]

DictsOK == dicts \in [Db -> Seq(Dict)]

\* What the cache holds for a database and an id is what vm_dicts holds.
CacheOK ==
  \A e \in DOMAIN cache : e \in Db \X Nat /\ e[2] \in DOMAIN dicts[e[1]] /\ cache[e] = dicts[e[1]][e[2]]

BlobsOK ==
  /\ blobs = [d \in Db |-> blobs[d]]
  /\ \A d \in Db : DOMAIN blobs[d] \subseteq Content /\ \A k \in DOMAIN blobs[d] : Fits(dicts[d], k, blobs[d][k])

\* The dictionary a pack has read is still the one with its id, and what it has encoded and
\* not written yet can be read once it is.
PackOK ==
  /\ pack \in [db : Db \cup {"none"}, id : Nat, with : Dict \cup {NoDict}, rows : {pack.rows}]
  /\ pack.db = "none" => pack = NoPack
  /\ pack.db # "none" =>
       /\ pack.id \in 0 .. Len(dicts[pack.db])
       /\ pack.id > 0 => pack.with = dicts[pack.db][pack.id]
       /\ DOMAIN pack.rows \subseteq Content
       /\ \A k \in DOMAIN pack.rows : Fits(dicts[pack.db], k, pack.rows[k])

CodecInv == DictsOK /\ CacheOK /\ BlobsOK /\ PackOK

-----------------------------------------------------------------------------
(* Dictionaries. *)

\* Ids are kept: a dictionary is added and none is changed or removed.
Grown == \A d \in Db : \A i \in DOMAIN dicts[d] : i \in DOMAIN dicts'[d] /\ dicts'[d][i] = dicts[d][i]

\* The ids of a database are the positions in its list.
LEMMA Ids ==
  ASSUME DictsOK, NEW d \in Db
  PROVE  /\ dicts[d] \in Seq(Dict) /\ Len(dicts[d]) \in Nat /\ DOMAIN dicts[d] = 1 .. Len(dicts[d])
         /\ \A i \in DOMAIN dicts[d] : dicts[d][i] \in Dict
BY DEF DictsOK

\* The dictionary an id stands for does not depend on the cache.
LEMMA DictIsRow ==
  ASSUME CacheOK, NEW d \in Db, NEW id \in DOMAIN dicts[d]
  PROVE  DictById(d, id) = dicts[d][id]
<1>1. CASE <<d, id>> \in DOMAIN cache
  <2>1. cache[<<d, id>>] = dicts[d][id]  BY <1>1 DEF CacheOK
  <2> QED  BY <1>1, <2>1 DEF DictById
<1>2. CASE <<d, id>> \notin DOMAIN cache  BY <1>2 DEF DictById
<1> QED  BY <1>1, <1>2

\* A lookup caches what it found.
LEMMA FilledOK ==
  ASSUME DictsOK, CacheOK, NEW d \in Db, NEW ids, cache' = Filled(d, ids), Grown
  PROVE  CacheOK'
<1> DEFINE new == {d} \X (ids \cap DOMAIN dicts[d])
<1>1. cache' = [e \in DOMAIN cache \cup new |-> IF e \in DOMAIN cache THEN cache[e] ELSE dicts[d][e[2]]]
  BY DEF Filled
<1>2. ASSUME NEW e \in DOMAIN cache'
      PROVE  e \in Db \X Nat /\ e[2] \in DOMAIN dicts'[e[1]] /\ cache'[e] = dicts'[e[1]][e[2]]
  <2>1. CASE e \in DOMAIN cache
    <3>1. e \in Db \X Nat /\ e[2] \in DOMAIN dicts[e[1]] /\ cache'[e] = dicts[e[1]][e[2]]
      BY <1>1, <2>1 DEF CacheOK
    <3> QED  BY <3>1 DEF Grown
  <2>2. CASE e \notin DOMAIN cache
    <3>1. e \in new  BY <1>1, <1>2, <2>2
    <3>2. e[1] = d /\ e[2] \in DOMAIN dicts[d] /\ e \in Db \X Nat  BY <3>1, Ids
    <3>3. cache'[e] = dicts[d][e[2]]  BY <1>1, <1>2, <2>2
    <3> QED  BY <3>2, <3>3 DEF Grown
  <2> QED  BY <2>1, <2>2
<1> QED  BY <1>2 DEF CacheOK

\* An unchanged cache stays right.
LEMMA CacheStays ==
  ASSUME CacheOK, Grown, UNCHANGED cache
  PROVE  CacheOK'
BY DEF CacheOK, Grown

\* A row that can be read can be read afterwards.
LEMMA FitsStays ==
  ASSUME NEW d \in Db, NEW k, NEW row, Fits(dicts[d], k, row), Grown
  PROVE  Fits(dicts'[d], k, row)
BY DEF Fits, Grown

-----------------------------------------------------------------------------
(* Encoding and decoding. *)

\* Whatever form the writer chooses can be read.
LEMMA EncodingFits ==
  ASSUME DictsOK, NEW d \in Db, NEW c \in Content, NEW i \in 0 .. Len(dicts[d]), NEW x,
         i > 0 => x = dicts[d][i], NEW row \in Encodings(c, i, x)
  PROVE  Fits(dicts[d], c, row)
<1>1. CASE row \in {Raw(c), Zstd(c)}  BY <1>1 DEF Raw, Zstd, Fits, Row, Body, Form
<1>2. CASE i > 0 /\ row = Coded(c, i, x)
  <2>1. i \in DOMAIN dicts[d] /\ x = dicts[d][i] /\ x \in Dict /\ i \in Nat  BY <1>2, Ids
  <2> QED  BY <1>2, <2>1 DEF Coded, Fits, Row, Body, Form
<1> QED  BY <1>1, <1>2 DEF Encodings

\* So can what is encoded with the latest dictionary.
LEMMA LatestFits ==
  ASSUME DictsOK, CacheOK, NEW d \in Db, NEW c \in Content, NEW row \in LatestEncodings(d, c)
  PROVE  Fits(dicts[d], c, row)
<1> DEFINE i == Len(dicts[d])
<1> DEFINE x == IF i > 0 THEN DictById(d, i) ELSE NoDict
<1>1. i \in Nat /\ i \in 0 .. Len(dicts[d])  BY Ids
<1>2. i > 0 => x = dicts[d][i]  BY <1>1, Ids, DictIsRow
<1>3. row \in Encodings(c, i, x)  BY DEF LatestEncodings, LatestId
<1> HIDE DEF x
<1> QED  BY <1>1, <1>2, <1>3, EncodingFits

\* A row that can be read is read as its key says, unless it is an archive stored raw.
LEMMA FitsReads ==
  ASSUME CacheOK, NEW d \in Db, NEW k, k \in DOMAIN blobs[d], Fits(dicts[d], k, blobs[d][k])
  PROVE  ChunkByKey(d, k) = k \/ (k \in DOMAIN Inside /\ blobs[d][k].flag = "raw")
<1> DEFINE row == blobs[d][k]
<1>1. row.flag \in Form /\ row.body.of = k /\ row.body.form = row.flag  BY DEF Fits, Row
<1>2. row.flag = "dict" => DictById(d, row.dict) = row.body.with  BY DictIsRow DEF Fits
<1> HIDE DEF row
<1>3. DecodeBlock(d, row) = k \/ (k \in DOMAIN Inside /\ row.flag = "raw")
  <2>1. CASE row.flag = "raw"  BY <1>1, <2>1 DEF DecodeBlock, Detect
  <2>2. CASE row.flag \in {"gzip", "zstd"}  BY <1>1, <2>2 DEF DecodeBlock
  <2>3. CASE row.flag = "dict"  BY <1>1, <1>2, <2>3 DEF DecodeBlock
  <2> QED  BY <1>1, <2>1, <2>2, <2>3 DEF Form
<1> QED  BY <1>3 DEF ChunkByKey, row
-----------------------------------------------------------------------------
(* Steps that leave the dictionaries alone, or add to them. *)

\* What the blobs of d are after rows have been added to them.
LEMMA InsertedEffect ==
  ASSUME blobs = [x \in Db |-> blobs[x]], NEW d \in Db, NEW rows, blobs' = Inserted(d, rows)
  PROVE  /\ blobs' = [x \in Db |-> blobs'[x]]
         /\ \A x \in Db \ {d} : blobs'[x] = blobs[x]
         /\ DOMAIN blobs'[d] = DOMAIN blobs[d] \cup DOMAIN rows
         /\ \A k \in DOMAIN blobs'[d] : blobs'[d][k] = IF k \in DOMAIN blobs[d] THEN blobs[d][k] ELSE rows[k]
<1>1. blobs' = [blobs EXCEPT ![d] = [k \in DOMAIN blobs[d] \cup DOMAIN rows |->
                                       IF k \in DOMAIN blobs[d] THEN blobs[d][k] ELSE rows[k]]]
  BY DEF Inserted
<1> QED  BY <1>1

\* Rows that fit are added to rows that fit.
LEMMA InsertKeeps ==
  ASSUME BlobsOK, Grown, NEW d \in Db, NEW rows, blobs' = Inserted(d, rows), DOMAIN rows \subseteq Content,
         \A k \in DOMAIN rows : Fits(dicts'[d], k, rows[k])
  PROVE  BlobsOK'
<1>1. /\ blobs' = [x \in Db |-> blobs'[x]]
      /\ \A x \in Db \ {d} : blobs'[x] = blobs[x]
      /\ DOMAIN blobs'[d] = DOMAIN blobs[d] \cup DOMAIN rows
      /\ \A k \in DOMAIN blobs'[d] : blobs'[d][k] = IF k \in DOMAIN blobs[d] THEN blobs[d][k] ELSE rows[k]
  BY InsertedEffect DEF BlobsOK
<1>2. ASSUME NEW x \in Db, NEW k \in DOMAIN blobs'[x]
      PROVE  k \in Content /\ Fits(dicts'[x], k, blobs'[x][k])
  <2>1. CASE x = d /\ k \notin DOMAIN blobs[d]
    <3>1. k \in DOMAIN rows /\ blobs'[x][k] = rows[k]  BY <1>1, <1>2, <2>1
    <3> QED  BY <2>1, <3>1 DEF Fits
  <2>2. CASE ~(x = d /\ k \notin DOMAIN blobs[d])
    <3>1. k \in DOMAIN blobs[x] /\ blobs'[x][k] = blobs[x][k]  BY <1>1, <1>2, <2>2
    <3>2. k \in Content /\ Fits(dicts[x], k, blobs[x][k])  BY <3>1 DEF BlobsOK
    <3> QED  BY <3>1, <3>2, FitsStays DEF Fits
  <2> QED  BY <2>1, <2>2
<1> QED  BY <1>1, <1>2 DEF BlobsOK

\* Blobs that nobody writes.
LEMMA BlobsStay ==
  ASSUME BlobsOK, Grown, UNCHANGED blobs
  PROVE  BlobsOK'
<1>1. ASSUME NEW x \in Db, NEW k \in DOMAIN blobs'[x]
      PROVE  k \in Content /\ Fits(dicts'[x], k, blobs'[x][k])
  <2>1. k \in Content /\ Fits(dicts[x], k, blobs[x][k])  BY <1>1 DEF BlobsOK
  <2> QED  BY <2>1, FitsStays DEF Fits
<1> QED  BY <1>1 DEF BlobsOK

\* A pack under way when dictionaries are added.
LEMMA PackStays ==
  ASSUME DictsOK, DictsOK', PackOK, Grown, UNCHANGED pack
  PROVE  PackOK'
<1>1. CASE pack.db = "none"  BY <1>1 DEF PackOK
<1>2. CASE pack.db # "none"
  <2>1. pack.db \in Db /\ pack.id \in Nat  BY <1>2 DEF PackOK
  <2>2. \A k \in DOMAIN pack.rows : Fits(dicts'[pack.db], k, pack'.rows[k])
    <3> TAKE k \in DOMAIN pack.rows
    <3>1. Fits(dicts[pack.db], k, pack.rows[k])  BY <1>2 DEF PackOK
    <3> QED  BY <2>1, <3>1, FitsStays DEF Fits
  <2>3. pack.id > 0 => pack.id \in DOMAIN dicts[pack.db]  BY <1>2, <2>1, Ids DEF PackOK
  <2>4. pack.id > 0 => pack.id \in DOMAIN dicts'[pack.db] /\ dicts'[pack.db][pack.id] = dicts[pack.db][pack.id]
    BY <2>1, <2>3 DEF Grown
  <2>5. Len(dicts'[pack.db]) \in Nat /\ DOMAIN dicts'[pack.db] = 1 .. Len(dicts'[pack.db])
    BY <2>1 DEF DictsOK
  <2>6. pack.id \in 0 .. Len(dicts'[pack.db])  BY <2>1, <2>4, <2>5
  <2> QED  BY <1>2, <2>2, <2>4, <2>6 DEF PackOK
<1> QED  BY <1>1, <1>2

\* Nothing is added.
LEMMA NothingGrown ==
  ASSUME UNCHANGED dicts
  PROVE  Grown /\ (DictsOK => DictsOK')
BY DEF Grown, DictsOK

-----------------------------------------------------------------------------
(* Operations. *)

\* Training appends a dictionary, so what was written with the ones before still reads.
LEMMA TrainKeeps ==
  ASSUME CodecInv, NEW d \in Db, Train(d)
  PROVE  CodecInv'
<1> USE DEF CodecInv
<1>1. PICK x \in Dict, S \in SUBSET DOMAIN blobs[d] :
        /\ cache' = Filled(d, {blobs[d][k].dict : k \in S})
        /\ dicts' = [dicts EXCEPT ![d] = Append(dicts[d], x)]
  BY DEF Train
<1>2. DictsOK'  BY <1>1 DEF DictsOK
<1>3. Grown
  <2>1. ASSUME NEW e \in Db, NEW i \in DOMAIN dicts[e]
        PROVE  i \in DOMAIN dicts'[e] /\ dicts'[e][i] = dicts[e][i]
    <3>1. CASE e = d
      <4>1. dicts[d] \in Seq(Dict) /\ dicts'[d] = Append(dicts[d], x)  BY <1>1 DEF DictsOK
      <4> QED  BY <2>1, <3>1, <4>1
    <3>2. CASE e # d  BY <1>1, <3>2 DEF DictsOK
    <3> QED  BY <3>1, <3>2
  <2> QED  BY <2>1 DEF Grown
<1>4. CacheOK'  BY <1>1, <1>3, FilledOK
<1>5. BlobsOK' /\ PackOK'  BY <1>2, <1>3, BlobsStay, PackStays DEF Train
<1> QED  BY <1>2, <1>4, <1>5

\* A blob is written with the latest dictionary.
LEMMA EnsureKeeps ==
  ASSUME CodecInv, NEW d \in Db, NEW c \in Content, Ensure(d, c)
  PROVE  CodecInv'
<1> USE DEF CodecInv
<1>1. Grown /\ DictsOK'  BY NothingGrown DEF Ensure
<1>2. CacheOK' /\ PackOK'  BY <1>1, FilledOK, PackStays DEF Ensure
<1>3. PICK row \in LatestEncodings(d, c) : blobs' = Inserted(d, [k \in {c} |-> row])  BY DEF Ensure
<1>4. Fits(dicts[d], c, row)  BY LatestFits
<1>5. Fits(dicts'[d], c, row)  BY <1>1, <1>4, FitsStays DEF Fits
<1> DEFINE rows == [k \in {c} |-> row]
<1>6. /\ blobs' = Inserted(d, rows) /\ DOMAIN rows \subseteq Content
      /\ \A k \in DOMAIN rows : Fits(dicts'[d], k, rows[k])
  BY <1>3, <1>5 DEF Fits
<1> HIDE DEF rows
<1>7. BlobsOK'  BY <1>1, <1>6, InsertKeeps
<1> QED  BY <1>1, <1>2, <1>7

\* A blob goes.
LEMMA ReleaseKeeps ==
  ASSUME CodecInv, NEW d \in Db, NEW c \in Content, Release(d, c)
  PROVE  CodecInv'
<1> USE DEF CodecInv
<1>1. Grown /\ DictsOK'  BY NothingGrown DEF Release
<1>2. CacheOK' /\ PackOK'  BY <1>1, CacheStays, PackStays DEF Release
<1>3. blobs' = [blobs EXCEPT ![d] = [k \in DOMAIN blobs[d] \ {c} |-> blobs[d][k]]]  BY DEF Release
<1>4. ASSUME NEW x \in Db, NEW k \in DOMAIN blobs'[x]
      PROVE  k \in Content /\ Fits(dicts'[x], k, blobs'[x][k])
  <2>1. k \in DOMAIN blobs[x] /\ blobs'[x][k] = blobs[x][k]  BY <1>3, <1>4 DEF BlobsOK
  <2>2. k \in Content /\ Fits(dicts[x], k, blobs[x][k])  BY <2>1 DEF BlobsOK
  <2> QED  BY <1>1, <2>1, <2>2, FitsStays DEF Fits
<1>5. BlobsOK'  BY <1>3, <1>4 DEF BlobsOK
<1> QED  BY <1>1, <1>2, <1>5

\* A pack reads the latest dictionary once.
LEMMA PackStartKeeps ==
  ASSUME CodecInv, NEW d \in Db, PackStart(d)
  PROVE  CodecInv'
<1> USE DEF CodecInv
<1>1. Grown /\ DictsOK'  BY NothingGrown DEF PackStart
<1>2. CacheOK' /\ BlobsOK'  BY <1>1, FilledOK, BlobsStay DEF PackStart
<1> DEFINE i == Len(dicts[d])
<1> DEFINE x == IF i > 0 THEN DictById(d, i) ELSE NoDict
<1>3. i \in Nat /\ i \in 0 .. Len(dicts[d])  BY Ids
<1>4. /\ i > 0 => x = dicts[d][i]
      /\ x \in Dict \cup {NoDict}
  BY <1>3, Ids, DictIsRow
<1>5. pack' = [NoPack EXCEPT !.db = d, !.id = i, !.with = x] /\ UNCHANGED dicts
  BY DEF PackStart, LatestId
<1> HIDE DEF x
<1>6. pack' = [db |-> d, id |-> i, with |-> x, rows |-> NoRows]  BY <1>5 DEF NoPack
<1>7. DOMAIN NoRows = {} /\ d # "none"  BY CodecAssumption DEF NoRows
<1>8. /\ pack'.db = d /\ pack'.id = i /\ pack'.with = x /\ pack'.rows = NoRows
      /\ pack' \in [db : Db \cup {"none"}, id : Nat, with : Dict \cup {NoDict}, rows : {pack'.rows}]
  BY <1>3, <1>4, <1>6
<1>9. PackOK'  BY <1>3, <1>4, <1>5, <1>7, <1>8 DEF PackOK
<1> QED  BY <1>1, <1>2, <1>9

\* What it encodes with that dictionary can be read.
LEMMA PackEncodeKeeps ==
  ASSUME CodecInv, NEW c \in Content, PackEncode(c)
  PROVE  CodecInv'
<1> USE DEF CodecInv
<1>1. Grown /\ DictsOK'  BY NothingGrown DEF PackEncode
<1>2. CacheOK' /\ BlobsOK'  BY <1>1, CacheStays, BlobsStay DEF PackEncode
<1>3. PICK row \in Encodings(c, pack.id, pack.with) : pack' = [pack EXCEPT !.rows = [k \in {c} |-> row]]
  BY DEF PackEncode
<1>4. pack.db \in Db /\ pack.db # "none"  BY DEF PackEncode, PackOK
<1>5. Fits(dicts[pack.db], c, row)  BY <1>3, <1>4, EncodingFits DEF PackOK
<1> DEFINE rows == [k \in {c} |-> row]
<1>6. DOMAIN rows = {c} /\ rows[c] = row /\ pack' = [pack EXCEPT !.rows = rows]  BY <1>3
<1> HIDE DEF rows
<1>7. /\ pack'.db = pack.db /\ pack'.id = pack.id /\ pack'.with = pack.with /\ pack'.rows = rows
      /\ pack' \in [db : Db \cup {"none"}, id : Nat, with : Dict \cup {NoDict}, rows : {pack'.rows}]
  BY <1>6 DEF PackOK
<1>8. \A k \in DOMAIN rows : Fits(dicts'[pack.db], k, rows[k])
  BY <1>1, <1>4, <1>5, <1>6, <1>7, FitsStays DEF Fits
<1>9. PackOK'  BY <1>4, <1>6, <1>7, <1>8 DEF PackOK, PackEncode
<1> QED  BY <1>1, <1>2, <1>9

\* It is written where its dictionary is.
LEMMA PackWriteKeeps ==
  ASSUME CodecInv, PackWrite
  PROVE  CodecInv'
<1> USE DEF CodecInv
<1>1. Grown /\ DictsOK'  BY NothingGrown DEF PackWrite
<1>2. CacheOK'  BY <1>1, CacheStays DEF PackWrite
<1>3. pack.db # "none" /\ pack.db \in Db  BY DEF PackWrite, PackOK, NoPack
<1> DEFINE d == pack.db
<1> DEFINE rows == pack.rows
<1>4. \A k \in DOMAIN rows : Fits(dicts[d], k, rows[k])  BY <1>3 DEF PackOK
<1>5. /\ d \in Db /\ blobs' = Inserted(d, rows) /\ DOMAIN rows \subseteq Content
      /\ \A k \in DOMAIN rows : Fits(dicts'[d], k, rows[k])
  BY <1>1, <1>3, <1>4, FitsStays DEF PackWrite, PackOK
<1>6. BlobsOK'
  <2> HIDE DEF d, rows
  <2> QED  BY <1>1, <1>5, InsertKeeps
<1>7. /\ pack'.db = pack.db /\ pack'.id = pack.id /\ pack'.with = pack.with /\ pack'.rows = NoRows
      /\ pack' \in [db : Db \cup {"none"}, id : Nat, with : Dict \cup {NoDict}, rows : {pack'.rows}]
  BY DEF PackOK, PackWrite
<1>8. DOMAIN NoRows = {}  BY DEF NoRows
<1>9. PackOK'  BY <1>3, <1>7, <1>8 DEF PackOK, PackWrite
<1> QED  BY <1>1, <1>2, <1>6, <1>9

\* The pack ends.
LEMMA PackEndKeeps ==
  ASSUME CodecInv, PackEnd
  PROVE  CodecInv'
<1> USE DEF CodecInv
<1>1. Grown /\ DictsOK'  BY NothingGrown DEF PackEnd
<1>2. CacheOK' /\ BlobsOK'  BY <1>1, CacheStays, BlobsStay DEF PackEnd
<1>3. PackOK'  BY DEF PackEnd, PackOK, NoPack
<1> QED  BY <1>1, <1>2, <1>3

\* A blob is encoded anew, from the content its key names.
LEMMA RecompressKeeps ==
  ASSUME CodecInv, NEW d \in Db, Recompress(d)
  PROVE  CodecInv'
<1> USE DEF CodecInv
<1>1. Grown /\ DictsOK'  BY NothingGrown DEF Recompress
<1>2. CacheOK' /\ PackOK'  BY <1>1, FilledOK, PackStays DEF Recompress
<1>3. PICK S \in SUBSET {k \in DOMAIN blobs[d] : blobs[d][k].flag \in {"raw", "gzip"}} :
        \E f \in [S -> UNION {Smaller(d, k) : k \in S}] :
          /\ \A k \in S : f[k] \in Smaller(d, k)
          /\ blobs' = [blobs EXCEPT ![d] = [k \in DOMAIN blobs[d] |-> IF k \in S THEN f[k] ELSE blobs[d][k]]]
  BY DEF Recompress
<1>4. PICK f : /\ \A k \in S : f[k] \in Smaller(d, k)
               /\ blobs' = [blobs EXCEPT ![d] = [k \in DOMAIN blobs[d] |-> IF k \in S THEN f[k] ELSE blobs[d][k]]]
  BY <1>3
<1>5. ASSUME NEW x \in Db, NEW k \in DOMAIN blobs'[x]
      PROVE  k \in Content /\ Fits(dicts'[x], k, blobs'[x][k])
  <2>1. k \in DOMAIN blobs[x]  BY <1>4, <1>5 DEF BlobsOK
  <2>2. k \in Content /\ Fits(dicts[x], k, blobs[x][k])  BY <2>1 DEF BlobsOK
  <2>3. CASE x = d /\ k \in S
    <3>1. blobs'[x][k] = f[k]  BY <1>4, <2>1, <2>3 DEF BlobsOK
    <3>2. f[k] \in LatestEncodings(d, k)  BY <1>4, <2>2, <2>3 DEF Smaller, Fits
    <3>3. Fits(dicts[d], k, f[k])  BY <2>2, <3>2, LatestFits
    <3> QED  BY <1>1, <2>2, <2>3, <3>1, <3>3, FitsStays DEF Fits
  <2>4. CASE ~(x = d /\ k \in S)
    <3>1. blobs'[x][k] = blobs[x][k]  BY <1>4, <2>1, <2>4 DEF BlobsOK
    <3> QED  BY <1>1, <2>2, <3>1, FitsStays DEF Fits
  <2> QED  BY <2>3, <2>4
<1>6. blobs' = [x \in Db |-> blobs'[x]]  BY <1>4 DEF BlobsOK
<1>7. BlobsOK'  BY <1>5, <1>6 DEF BlobsOK
<1> QED  BY <1>1, <1>2, <1>7

\* A read fills the cache.
LEMMA LookupKeeps ==
  ASSUME CodecInv, NEW d \in Db, NEW c, Lookup(d, c)
  PROVE  CodecInv'
<1> USE DEF CodecInv
<1>1. Grown /\ DictsOK'  BY NothingGrown DEF Lookup
<1>2. CacheOK' /\ BlobsOK' /\ PackOK'  BY <1>1, FilledOK, BlobsStay, PackStays DEF Lookup
<1> QED  BY <1>1, <1>2

\* And the LRU empties it.
LEMMA EvictKeeps ==
  ASSUME CodecInv, NEW e, Evict(e)
  PROVE  CodecInv'
<1> USE DEF CodecInv
<1>1. Grown /\ DictsOK'  BY NothingGrown DEF Evict
<1>2. BlobsOK' /\ PackOK'  BY <1>1, BlobsStay, PackStays DEF Evict
<1>3. CacheOK'  BY DEF Evict, CacheOK
<1> QED  BY <1>1, <1>2, <1>3
-----------------------------------------------------------------------------
(* Injection. *)

\* Counting the members up to each one numbers a finite set of naturals from one without holes.
LEMMA Ranking ==
  ASSUME NEW m \in Nat, NEW N \in SUBSET (1 .. m), NEW R,
         R = [i \in N |-> Cardinality({j \in N : j <= i})]
  PROVE  /\ Cardinality(N) \in Nat
         /\ R \in [N -> 1 .. Cardinality(N)]
         /\ \A i, j \in N : R[i] = R[j] => i = j
         /\ \A k \in 1 .. Cardinality(N) : \E i \in N : R[i] = k
<1> DEFINE B == [i \in N |-> {j \in N : j <= i}]
<1> DEFINE n == Cardinality(N)
<1>1. IsFiniteSet(N)
  <2>1. IsFiniteSet(1 .. m)  BY FS_Interval
  <2> QED  BY <2>1, FS_Subset
<1>2. n \in Nat  BY <1>1, FS_CardinalityType
<1>3. \A i \in N : B[i] \in SUBSET N /\ i \in B[i]  OBVIOUS
<1>4. \A i, j \in N : i < j => B[i] \in SUBSET B[j] /\ j \notin B[i]
  <2> SUFFICES ASSUME NEW i \in N, NEW j \in N, i < j
               PROVE  B[i] \in SUBSET B[j] /\ j \notin B[i]
    OBVIOUS
  <2>1. B[i] = {a \in N : a <= i} /\ B[j] = {a \in N : a <= j}  OBVIOUS
  <2>2. \A a \in N : a \in Nat  OBVIOUS
  <2>3. \A a \in N : a <= i => a <= j  BY <2>2
  <2>4. ~(j <= i)  BY <2>2
  <2> HIDE DEF B
  <2>5. B[i] \subseteq B[j]  BY ONLY <2>1, <2>3
  <2>6. j \notin B[i]  BY ONLY <2>1, <2>4
  <2> QED  BY <2>5, <2>6
<1>5. \A i \in N : R[i] = Cardinality(B[i])  OBVIOUS
<1>6. DOMAIN R = N /\ R = [i \in N |-> R[i]]  OBVIOUS
<1>7. \A i, j \in N : i # j => i < j \/ j < i  OBVIOUS
<1> HIDE DEF B, n
<1>8. \A i \in N : IsFiniteSet(B[i]) /\ R[i] \in Nat /\ R[i] <= n /\ R[i] # 0
  <2> TAKE i \in N
  <2>1. B[i] \in SUBSET N /\ i \in B[i] /\ R[i] = Cardinality(B[i])  BY <1>3, <1>5
  <2>2. IsFiniteSet(B[i]) /\ R[i] <= n  BY <1>1, <2>1, FS_Subset DEF n
  <2>3. R[i] \in Nat  BY <2>1, <2>2, FS_CardinalityType
  <2>4. R[i] # 0  BY <2>1, <2>2, FS_EmptySet
  <2> QED  BY <2>2, <2>3, <2>4
<1>9. \A i, j \in N : i < j => R[i] < R[j]
  <2> SUFFICES ASSUME NEW i \in N, NEW j \in N, i < j
               PROVE  R[i] < R[j]
    OBVIOUS
  <2>1. B[i] \in SUBSET B[j] /\ B[i] # B[j]  BY <1>3, <1>4
  <2>2. R[i] <= R[j] /\ R[j] # R[i]  BY <1>5, <1>8, <2>1, FS_Subset
  <2> QED  BY <1>8, <2>2
<1>10. \A i \in N : R[i] \in 1 .. n  BY <1>2, <1>8
<1>11. R \in [N -> 1 .. n]  BY <1>6, <1>10
<1>12. \A i, j \in N : R[i] = R[j] => i = j  BY <1>7, <1>8, <1>9
<1>13. R \in Injection(N, 1 .. n)  BY <1>11, <1>12 DEF Injection, IsInjective
<1>14. IsFiniteSet(1 .. n) /\ Cardinality(1 .. n) = n  BY <1>2, FS_Interval
<1>15. R \in Surjection(N, 1 .. n)  BY <1>13, <1>14, FS_Injection DEF n
<1>16. \A k \in 1 .. n : \E i \in N : R[i] = k  BY <1>15 DEF Surjection
<1> QED  BY <1>2, <1>11, <1>12, <1>16 DEF n

\* So the ids a package needs are numbered, and NthNeeded undoes Rank.
LEMMA Numbering ==
  ASSUME NEW p, NEW m \in Nat, Needed(p) \subseteq 1 .. m
  PROVE  /\ Cardinality(Needed(p)) \in Nat
         /\ \A n \in 1 .. Cardinality(Needed(p)) : NthNeeded(p)[n] \in Needed(p)
         /\ \A i \in Needed(p) : /\ Rank(p, i) \in 1 .. Cardinality(Needed(p))
                                 /\ NthNeeded(p)[Rank(p, i)] = i
<1> DEFINE N == Needed(p)
<1> DEFINE n == Cardinality(N)
<1> DEFINE R == [i \in N |-> Cardinality({j \in N : j <= i})]
<1>1. \A i \in N : R[i] = Rank(p, i)  BY DEF Rank
<1>2. NthNeeded(p) = [k \in 1 .. n |-> CHOOSE i \in N : Rank(p, i) = k]  BY DEF NthNeeded
<1>3. /\ n \in Nat /\ R \in [N -> 1 .. n]
      /\ \A i, j \in N : R[i] = R[j] => i = j
      /\ \A k \in 1 .. n : \E i \in N : R[i] = k
  <2>1. N \in SUBSET (1 .. m) /\ R = [i \in N |-> Cardinality({j \in N : j <= i})]  OBVIOUS
  <2> HIDE DEF R, N
  <2> QED  BY <2>1, Ranking
<1> HIDE DEF R, N, n
<1>4. \A k \in 1 .. n : NthNeeded(p)[k] \in N /\ Rank(p, NthNeeded(p)[k]) = k
  <2> TAKE k \in 1 .. n
  <2>1. \E i \in N : Rank(p, i) = k  BY <1>1, <1>3
  <2>2. NthNeeded(p)[k] = CHOOSE i \in N : Rank(p, i) = k  BY <1>2
  <2> QED  BY <2>1, <2>2
<1>5. \A i \in N : Rank(p, i) \in 1 .. n /\ NthNeeded(p)[Rank(p, i)] = i  BY <1>1, <1>3, <1>4
<1> QED  BY <1>3, <1>4, <1>5 DEF N, n

\* A package's dictionaries come in behind those of the database, and its rows name them by
\* their new ids.
LEMMA InjectKeeps ==
  ASSUME CodecInv, NEW d \in Db, NEW p \in Db, Inject(d, p)
  PROVE  CodecInv'
<1> USE DEF CodecInv
<1> DEFINE L == Len(dicts[d])
<1> DEFINE n == Cardinality(Needed(p))
<1> DEFINE s == [m \in DOMAIN NthNeeded(p) |-> dicts[p][NthNeeded(p)[m]]]
<1>1. /\ Needed(p) \subseteq DOMAIN dicts[p] /\ d # p
      /\ dicts' = [dicts EXCEPT ![d] = dicts[d] \o s]
      /\ UNCHANGED <<cache, pack>>
  BY DEF Inject
<1>2. L \in Nat /\ dicts[d] \in Seq(Dict) /\ DOMAIN dicts[d] = 1 .. L  BY Ids
<1>3. /\ n \in Nat
      /\ \A m \in 1 .. n : NthNeeded(p)[m] \in Needed(p)
      /\ \A i \in Needed(p) : Rank(p, i) \in 1 .. n /\ NthNeeded(p)[Rank(p, i)] = i
  BY <1>1, Ids, Numbering
<1>4. DOMAIN NthNeeded(p) = 1 .. n  BY DEF NthNeeded
<1>5. s \in Seq(Dict) /\ Len(s) = n /\ \A m \in 1 .. n : s[m] = dicts[p][NthNeeded(p)[m]]
  <2>1. \A m \in 1 .. n : dicts[p][NthNeeded(p)[m]] \in Dict  BY <1>1, <1>3, Ids
  <2>2. s \in [1 .. n -> Dict]  BY <1>4, <2>1
  <2> QED  BY <1>3, <1>4, <2>2
<1> HIDE DEF s
<1>6. /\ dicts'[d] = dicts[d] \o s /\ \A e \in Db \ {d} : dicts'[e] = dicts[e]
      /\ dicts' \in [Db -> Seq(Dict)]
  BY <1>1, <1>2, <1>5 DEF DictsOK
<1>7. /\ DOMAIN dicts'[d] = 1 .. L + n
      /\ \A i \in 1 .. L : dicts'[d][i] = dicts[d][i]
      /\ \A m \in 1 .. n : dicts'[d][L + m] = s[m]
  BY <1>2, <1>3, <1>5, <1>6
<1>8. Grown
  <2>1. ASSUME NEW e \in Db, NEW i \in DOMAIN dicts[e]
        PROVE  i \in DOMAIN dicts'[e] /\ dicts'[e][i] = dicts[e][i]
    <3>1. CASE e = d
      <4>1. i \in 1 .. L /\ i \in 1 .. L + n  BY <1>2, <1>3, <2>1, <3>1
      <4> QED  BY <1>7, <3>1, <4>1
    <3>2. CASE e # d  BY <1>6, <2>1, <3>2
    <3> QED  BY <3>1, <3>2
  <2> QED  BY <2>1 DEF Grown
<1>9. DictsOK' /\ CacheOK' /\ PackOK'  BY <1>1, <1>6, <1>8, CacheStays, PackStays DEF DictsOK
<1>10. PICK K \in SUBSET DOMAIN blobs[p] : blobs' = Inserted(d, Remapped(d, p, K))  BY DEF Inject
<1> DEFINE rows == Remapped(d, p, K)
<1>11. DOMAIN rows = K /\ K \subseteq Content  BY <1>10 DEF Remapped, BlobsOK
<1>12. ASSUME NEW k \in K
       PROVE  Fits(dicts'[d], k, rows[k])
  <2> DEFINE row == blobs[p][k]
  <2> DEFINE id == IF row.dict = 0 THEN 0 ELSE L + Rank(p, row.dict)
  <2>1. k \in DOMAIN blobs[p]  BY <1>10, <1>12
  <2>2. Fits(dicts[p], k, row)  BY <2>1 DEF BlobsOK
  <2>3. rows[k] = [row EXCEPT !.dict = id]  BY <1>12 DEF Remapped, LatestId
  <2>4. row.dict # 0 => row.dict \in Needed(p)  BY <2>1 DEF Needed
  <2>5. row.dict # 0 => id \in 1 .. L + n /\ dicts'[d][id] = dicts[p][row.dict] /\ id \in Nat
    <3> HAVE row.dict # 0
    <3>1. Rank(p, row.dict) \in 1 .. n /\ NthNeeded(p)[Rank(p, row.dict)] = row.dict  BY <1>3, <2>4
    <3>2. id = L + Rank(p, row.dict)  OBVIOUS
    <3>3. dicts'[d][id] = s[Rank(p, row.dict)]  BY <1>7, <3>1, <3>2
    <3>4. s[Rank(p, row.dict)] = dicts[p][row.dict]  BY <1>5, <3>1
    <3> QED  BY <1>2, <1>3, <3>1, <3>2, <3>3, <3>4
  <2>6. row.dict = 0 => id = 0  OBVIOUS
  <2> HIDE DEF row, id
  <2>7. row \in Row /\ id \in Nat  BY <2>2, <2>5, <2>6 DEF Fits
  <2>8. /\ rows[k] \in Row /\ rows[k].body = row.body /\ rows[k].flag = row.flag /\ rows[k].dict = id
    BY <2>3, <2>7 DEF Row
  <2>9. row.flag = "dict" => row.dict # 0
    <3> HAVE row.flag = "dict"
    <3>1. row.dict \in DOMAIN dicts[p]  BY <2>2 DEF Fits
    <3> QED  BY <3>1, Ids
  <2>a. row.flag # "dict" => id = 0  BY <2>2, <2>6 DEF Fits
  <2>b. row.flag = "dict" => id \in DOMAIN dicts'[d] /\ row.body.with = dicts'[d][id]
    BY <1>7, <2>2, <2>5, <2>9 DEF Fits
  <2>c. row.body.of = k /\ row.body.form = row.flag  BY <2>2 DEF Fits
  <2> HIDE DEF rows
  <2> QED  BY <2>8, <2>a, <2>b, <2>c DEF Fits
<1>13. blobs' = Inserted(d, rows)  BY <1>10
<1> HIDE DEF rows
<1>14. BlobsOK'  BY <1>8, <1>11, <1>12, <1>13, InsertKeeps
<1> QED  BY <1>9, <1>14

-----------------------------------------------------------------------------
(* The theorems. *)

\* No dictionary yet; what is stored was written by an old version, with gzip.
LEMMA CodecInitially ==
  ASSUME Init
  PROVE  CodecInv
<1>1. DictsOK  BY DEF Init, DictsOK
<1>2. CacheOK  BY DEF Init, CacheOK
<1>3. PackOK  BY DEF Init, PackOK, NoPack
<1>4. blobs \in [Db -> {NoRows} \cup {[k \in {c} |-> Gzip(c)] : c \in Content}]  BY DEF Init
<1>5. ASSUME NEW d \in Db
      PROVE  DOMAIN blobs[d] \subseteq Content /\ \A k \in DOMAIN blobs[d] : Fits(dicts[d], k, blobs[d][k])
  <2>1. CASE blobs[d] = NoRows  BY <2>1 DEF NoRows
  <2>2. CASE \E c \in Content : blobs[d] = [k \in {c} |-> Gzip(c)]
    <3>1. PICK c \in Content : blobs[d] = [k \in {c} |-> Gzip(c)]  BY <2>2
    <3>2. Fits(dicts[d], c, Gzip(c))  BY DEF Fits, Gzip, Row, Body, Form
    <3> QED  BY <3>1, <3>2
  <2> QED  BY <1>4, <2>1, <2>2
<1>6. BlobsOK  BY <1>4, <1>5 DEF BlobsOK
<1> QED  BY <1>1, <1>2, <1>3, <1>6 DEF CodecInv

\* Every step.
LEMMA CodecNext ==
  ASSUME CodecInv, [Next]_vars
  PROVE  CodecInv'
<1>1. CASE UNCHANGED vars
  <2>1. Grown /\ DictsOK'  BY <1>1, NothingGrown DEF vars, CodecInv
  <2> QED  BY <1>1, <2>1, CacheStays, BlobsStay, PackStays DEF vars, CodecInv
<1>2. CASE Next
  BY <1>2, TrainKeeps, PackStartKeeps, RecompressKeeps, InjectKeeps, EnsureKeeps, ReleaseKeeps, LookupKeeps,
     PackWriteKeeps, PackEndKeeps, PackEncodeKeeps, EvictKeeps DEF Next
<1> QED  BY <1>1, <1>2

\* Rows name the dictionary they were made with, the cache agrees with the tables, and so
\* does a pack that is under way (codec.rs, maintenance.rs, inject.rs).
THEOREM CodecSafe == Spec => []CodecInv
BY CodecInitially, CodecNext, PTL DEF Spec

\* A row names a dictionary exactly when its flag says one was used (codec.rs compress).
THEOREM CodecTypeCorrect == Spec => []TypeOK
<1>1. CodecInv => TypeOK
  <2> SUFFICES ASSUME CodecInv PROVE TypeOK  OBVIOUS
  <2> USE DEF CodecInv
  <2>1. \A e \in DOMAIN cache : e \in Db \X Nat /\ cache[e] \in Dict
    <3> TAKE e \in DOMAIN cache
    <3>1. e \in Db \X Nat /\ e[2] \in DOMAIN dicts[e[1]] /\ cache[e] = dicts[e[1]][e[2]]  BY DEF CacheOK
    <3>2. e[1] \in Db  BY <3>1
    <3> QED  BY <3>1, <3>2, Ids
  <2>2. ASSUME NEW d \in Db, NEW k \in DOMAIN blobs[d]
        PROVE  blobs[d][k] \in Row /\ (blobs[d][k].dict # 0) = (blobs[d][k].flag = "dict")
    <3>1. Fits(dicts[d], k, blobs[d][k])  BY <2>2 DEF BlobsOK
    <3>2. 0 \notin DOMAIN dicts[d]  BY Ids
    <3> QED  BY <3>1, <3>2 DEF Fits
  <2>3. pack.db \in Db \cup {"none"}  BY DEF PackOK
  <2> QED  BY <2>1, <2>2, <2>3 DEF TypeOK, DictsOK, BlobsOK
<1> QED  BY <1>1, CodecSafe, PTL

\* Every stored blob reads back, whatever was trained, packed, recompressed or injected since
\* it was written and whatever the cache holds, unless it is an archive that was stored raw
\* (codec.rs, read.rs).
THEOREM StoredReadsBack == Spec => []Readable
<1>1. CodecInv => Readable  BY FitsReads DEF CodecInv, BlobsOK, Readable
<1> QED  BY <1>1, CodecSafe, PTL

-----------------------------------------------------------------------------
(* Migrate: the invariant. *)

\* Chunk lists a file can have, those of files that were one blob included.
Lists == {<<>>} \cup {<<x>> : x \in Bytes} \cup {<<x, y>> : x, y \in Bytes}

\* Trigger sets by schema.
TriggersOf(e) ==
  CASE e = 1 -> {}
    [] e = 2 -> {"hashes"}
    [] e = 3 -> {"hashes", "counters"}
    [] e = 4 -> {"counters"}
    [] OTHER -> {"chunks", "counters"}

\* Contents of vm_blobs.
Table == UNION {[K -> BlobRow] : K \in SUBSET Bytes}

\* The type of a database.
Database ==
  [uv : 0 .. Current, hash : [File -> Bytes \cup {NoHash}], chunks : [File -> Lists], blobs : Table,
   count : Int, triggers : SUBSET {"hashes", "counters", "chunks"}, sha : BOOLEAN, chunked : BOOLEAN, olddict : BOOLEAN,
   dicts : SUBSET {0, 1}, dictcol : BOOLEAN, has : SUBSET Objects]

\* What steps 6 -> 7 and on have added.
Added(e) == {Addition[i] : i \in 1 .. (e - 6)}

\* What user_version says of tables, triggers and the form of keys.
Stage(d, e) ==
  /\ d.triggers = TriggersOf(e)
  /\ (d.sha <=> e >= 4) /\ (d.chunked <=> e >= 5) /\ (d.dictcol <=> e >= 6)
  /\ IF e < 6 THEN d.has = {} ELSE Added(e) \subseteq d.has
  /\ e < 5 => \A f \in File : d.chunks[f] = <<>>
  /\ e = 4 => \A k \in Stored(d) : d.blobs[k].flag = 0
  /\ e <= 5 => d.dicts = {}
  /\ e = 4 => \A f \in File : d.hash[f] = NoHash \/ d.hash[f] \in Stored(d)

\* The database has the tables, triggers and keys its user_version says.
Schema(d) == Stage(d, From(d.uv))

\* Two databases have the same tables and dictionaries.
SameForm(r, d) ==
  /\ r.sha = d.sha /\ r.chunked = d.chunked /\ r.olddict = d.olddict
  /\ r.dicts = d.dicts /\ r.dictcol = d.dictcol /\ r.has = d.has

\* From schema 5 on every blob has the dictionary it was written with.
Decodable(d) == From(d.uv) >= 5 => \A k \in Stored(d) : Decodes(d, k)

\* The counters agree from schema 3 on, the reference counts from schema 5 on.
Counted(d) ==
  /\ From(d.uv) >= 3 => d.count = Cardinality(Stored(d))
  /\ From(d.uv) >= 5 =>
       /\ \A k \in Stored(d) : d.blobs[k].refs = ChunkRefs(d, k)
       /\ \A f \in File : \A i \in DOMAIN d.chunks[f] : d.chunks[f][i] \in Stored(d)

\* A database a step can leave behind.
DbOK(d) == d \in Database /\ Schema(d) /\ Decodable(d) /\ Counted(d)

\* A step from d to r loses nothing.
Carried(d, r) == DbOK(r) /\ \A f \in File : Read(d, f) # NoHash => Read(r, f) = Read(d, f)

\* A process that migrates is at most as far as the database was when it last looked: up to
\* schema 5 user_version only rises, from 6 on it may fall but nothing that was added is lost.
Turns ==
  /\ ver \in [Opener -> Nat]
  /\ \A o \in Opener : pc[o] = "migrating" =>
       IF ver[o] < 6 THEN ver[o] <= From(db.uv)
       ELSE ver[o] < Current /\ From(db.uv) >= 6 /\ Added(ver[o]) \subseteq db.has
  /\ \A o \in Opener : pc[o] = "open" => From(db.uv) >= 6 /\ db.has = Objects

\* Types of the processes and of the history.
ProcessesOK ==
  /\ pc \in [Opener -> {"closed", "migrating", "open"}]
  /\ stale \in BOOLEAN
  /\ want = [f \in File |-> want[f]] /\ size = [f \in File |-> size[f]]
  /\ \A f \in File : want[f] # NoHash => size[f] = Len(want[f])

\* The inductive invariant: all is as it should be until an overtaken process rewrites tables.
MigrateInv ==
  /\ ProcessesOK
  /\ ~stale => DbOK(db) /\ Turns
  /\ ContentKept

-----------------------------------------------------------------------------
(* Tables and counts. *)

\* There are finitely many keys of blobs.
LEMMA Finite ==
  ASSUME NEW K \in SUBSET Bytes
  PROVE  IsFiniteSet(K) /\ Cardinality(K) \in Nat
<1> DEFINE One == {<<x>> : x \in Piece}
           Two == {<<x, y>> : x, y \in Piece}
           f == [x \in Piece |-> <<x>>]
           g == [p \in Piece \X Piece |-> <<p[1], p[2]>>]
<1>1. IsFiniteSet(One)
  <2>1. f \in Surjection(Piece, One)  BY DEF Surjection
  <2> QED  BY <2>1, FS_Surjection, MigrateAssumption
<1>2. IsFiniteSet(Two)
  <2>1. g \in Surjection(Piece \X Piece, Two)
    <3>1. g \in [Piece \X Piece -> Two]  OBVIOUS
    <3>2. ASSUME NEW t \in Two PROVE \E p \in Piece \X Piece : g[p] = t
      <4>1. PICK x \in Piece, y \in Piece : t = <<x, y>>  OBVIOUS
      <4> QED  BY <4>1
    <3> HIDE DEF g, Two
    <3> QED  BY <3>1, <3>2 DEF Surjection
  <2>2. IsFiniteSet(Piece \X Piece)  BY FS_Product, MigrateAssumption
  <2> QED  BY <2>1, <2>2, FS_Surjection
<1>3. IsFiniteSet({<<>>})  BY FS_Singleton
<1>4. IsFiniteSet({<<>>} \cup One)  BY <1>1, <1>3, FS_Union
<1>5. Bytes = ({<<>>} \cup One) \cup Two  BY DEF Bytes
<1> HIDE DEF One, Two
<1>6. IsFiniteSet(Bytes)  BY <1>2, <1>4, <1>5, FS_Union
<1> QED  BY <1>6, FS_Subset, FS_CardinalityType

\* A table of blobs, by its rows.
LEMMA Tables ==
  ASSUME NEW b
  PROVE  b \in Table <=> /\ b = [k \in DOMAIN b |-> b[k]] /\ DOMAIN b \subseteq Bytes
                         /\ \A k \in DOMAIN b : b[k] \in BlobRow
<1>1. ASSUME b \in Table PROVE  b = [k \in DOMAIN b |-> b[k]] /\ DOMAIN b \subseteq Bytes
                         /\ \A k \in DOMAIN b : b[k] \in BlobRow
  <2>1. PICK K \in SUBSET Bytes : b \in [K -> BlobRow]  BY <1>1 DEF Table
  <2> QED  BY <2>1
<1>2. ASSUME b = [k \in DOMAIN b |-> b[k]], DOMAIN b \subseteq Bytes, \A k \in DOMAIN b : b[k] \in BlobRow
      PROVE  b \in Table
  <2>1. b \in [DOMAIN b -> BlobRow]  BY <1>2
  <2> QED  BY <1>2, <2>1 DEF Table
<1> QED  BY <1>1, <1>2

\* A new count leaves the rest of a row.
LEMMA Rows ==
  ASSUME NEW r \in BlobRow, NEW n \in Nat
  PROVE  LET u == [r EXCEPT !.refs = n]
         IN  u \in BlobRow /\ u.refs = n /\ u.flag = r.flag /\ u.dict = r.dict
BY DEF BlobRow

\* What Recount returns: the blobs with references, and nothing else changed.
LEMMA KeptFields ==
  ASSUME NEW d \in Database, NEW N \in [Stored(d) -> Nat]
  PROVE  LET r == Recount(d, N)
             L == {k \in Stored(d) : N[k] > 0}
         IN  /\ r \in Database
             /\ r.uv = d.uv /\ r.hash = d.hash /\ r.chunks = d.chunks /\ r.triggers = d.triggers
             /\ SameForm(r, d)
             /\ Stored(r) = L
             /\ \A k \in L : r.blobs[k].refs = N[k] /\ r.blobs[k].flag = d.blobs[k].flag
                                                   /\ r.blobs[k].dict = d.blobs[k].dict
             /\ r.count = IF "counters" \in d.triggers THEN d.count + Cardinality(L) - Cardinality(Stored(d))
                          ELSE d.count
<1> USE DEF Stored
<1> DEFINE B == [k \in Stored(d) |-> [d.blobs[k] EXCEPT !.refs = N[k]]]
           c == [d EXCEPT !.blobs = B]
           L == {k \in Stored(d) : N[k] > 0}
           r == KeepBlobs(c, L)
<1>1. d.blobs \in Table /\ d.count \in Int  BY DEF Database
<1>2. \A k \in Stored(d) : /\ d.blobs[k] \in BlobRow /\ k \in Bytes
                           /\ B[k] \in BlobRow /\ B[k].refs = N[k] /\ B[k].flag = d.blobs[k].flag
                           /\ B[k].dict = d.blobs[k].dict
  <2> TAKE k \in Stored(d)
  <2>1. d.blobs[k] \in BlobRow /\ k \in Bytes  BY <1>1, Tables
  <2>2. B[k] = [d.blobs[k] EXCEPT !.refs = N[k]] /\ N[k] \in Nat  OBVIOUS
  <2> HIDE DEF B
  <2> QED  BY <2>1, <2>2, Rows
<1>3. B \in Table  BY <1>2, Tables
<1>4. /\ c \in Database
      /\ c.uv = d.uv /\ c.hash = d.hash /\ c.chunks = d.chunks /\ c.triggers = d.triggers
      /\ c.sha = d.sha /\ c.chunked = d.chunked /\ c.olddict = d.olddict /\ c.dicts = d.dicts
      /\ c.dictcol = d.dictcol /\ c.has = d.has /\ c.blobs = B /\ c.count = d.count
  <2> HIDE DEF B
  <2> QED  BY <1>3 DEF Database
<1>5. DOMAIN B = Stored(d)  OBVIOUS
<1>6. [k \in L |-> B[k]] \in Table  BY <1>2, Tables
<1> HIDE DEF c, B
<1>7. L \subseteq Stored(d) /\ Cardinality(L) \in Int /\ Cardinality(Stored(d)) \in Int
  <2>1. Stored(d) \subseteq Bytes /\ L \subseteq Bytes  BY <1>2
  <2> QED  BY <2>1, Finite
<1>8. /\ r \in Database
      /\ r.uv = d.uv /\ r.hash = d.hash /\ r.chunks = d.chunks /\ r.triggers = d.triggers
      /\ r.sha = d.sha /\ r.chunked = d.chunked /\ r.olddict = d.olddict /\ r.dicts = d.dicts
      /\ r.dictcol = d.dictcol /\ r.has = d.has /\ r.blobs = [k \in L |-> B[k]]
      /\ r.count = IF "counters" \in d.triggers THEN d.count + Cardinality(L) - Cardinality(Stored(d))
                          ELSE d.count
  <2> HIDE DEF L
  <2> DEFINE n == IF "counters" \in d.triggers THEN d.count + Cardinality(L) - Cardinality(Stored(d)) ELSE d.count
             C == [k \in L |-> B[k]]
  <2>1. n \in Int /\ C \in Table  BY <1>1, <1>6, <1>7
  <2>2. r = [c EXCEPT !.blobs = C, !.count = n]  BY <1>4, <1>5 DEF KeepBlobs
  <2> HIDE DEF n, C, r
  <2>3. /\ r \in Database /\ r.blobs = C /\ r.count = n
             /\ r.uv = c.uv /\ r.hash = c.hash /\ r.chunks = c.chunks /\ r.triggers = c.triggers
             /\ r.sha = c.sha /\ r.chunked = c.chunked /\ r.olddict = c.olddict /\ r.dicts = c.dicts
             /\ r.dictcol = c.dictcol /\ r.has = c.has
    <3>1. c \in Database  BY <1>4
    <3> QED  BY <2>1, <2>2, <3>1 DEF Database
  <2> QED  BY <2>3, <1>4 DEF n, C
<1>9. Recount(d, N) = r  BY DEF Recount, c, B
<1> HIDE DEF r
<1> QED  BY <1>2, <1>8, <1>9 DEF SameForm

-----------------------------------------------------------------------------
(* The steps. *)

\* A blob has a count above zero when some file has its hash.
LEMMA HashRefsNat ==
  ASSUME NEW d, NEW k
  PROVE  HashRefs(d, k) \in Nat /\ (HashRefs(d, k) > 0 <=> \E f \in File : d.hash[f] = k)
<1> DEFINE S == {f \in File : d.hash[f] = k}
<1>1. IsFiniteSet(S)  BY FS_Subset, MigrateAssumption
<1>2. Cardinality(S) \in Nat /\ (Cardinality(S) = 0 <=> S = {})  BY <1>1, FS_CardinalityType, FS_EmptySet
<1>3. S = {} <=> ~ \E f \in File : d.hash[f] = k  OBVIOUS
<1> HIDE DEF S
<1>4. HashRefs(d, k) = Cardinality(S)  BY DEF HashRefs, S
<1> QED  BY <1>2, <1>3, <1>4

\* The chunk rows that hold k.
Places(d, k) == {p \in File \X {1, 2} : p[2] \in DOMAIN d.chunks[p[1]] /\ d.chunks[p[1]][p[2]] = k}

\* There are finitely many chunk rows.
LEMMA PlacesFinite ==
  ASSUME NEW d, NEW k, NEW S \in SUBSET Places(d, k)
  PROVE  IsFiniteSet(S) /\ Cardinality(S) \in Nat /\ (Cardinality(S) = 0 <=> S = {})
<1>1. IsFiniteSet({1, 2})
  <2>1. IsFiniteSet({1}) /\ IsFiniteSet({2})  BY FS_Singleton
  <2>2. {1, 2} = {1} \cup {2}  OBVIOUS
  <2> QED  BY <2>1, <2>2, FS_Union
<1>2. IsFiniteSet(File \X {1, 2})  BY <1>1, FS_Product, MigrateAssumption
<1>3. S \subseteq File \X {1, 2}  BY DEF Places
<1> QED  BY <1>2, <1>3, FS_Subset, FS_CardinalityType, FS_EmptySet

\* A blob has a count above zero when some chunk row holds it.
LEMMA ChunkRefsNat ==
  ASSUME NEW d, NEW k
  PROVE  ChunkRefs(d, k) \in Nat /\ (ChunkRefs(d, k) > 0 <=> Places(d, k) # {})
<1>1. ChunkRefs(d, k) = Cardinality(Places(d, k))  BY DEF ChunkRefs, Places
<1>2. Places(d, k) \in SUBSET Places(d, k)  OBVIOUS
<1>3. Cardinality(Places(d, k)) \in Nat /\ (Cardinality(Places(d, k)) = 0 <=> Places(d, k) = {})
  BY <1>2, PlacesFinite
<1> QED  BY <1>1, <1>3

\* At schema 6 nothing was added.
LEMMA AddedNone == Added(6) = {}
BY DEF Added

\* A later step adds its own object to those before it.
LEMMA AddedNext == ASSUME NEW e \in 6 .. 12 PROVE Added(e + 1) = Added(e) \cup {Addition[e - 5]}
<1>1. 1 .. (e + 1 - 6) = (1 .. (e - 6)) \cup {e - 5}  OBVIOUS
<1> QED  BY <1>1 DEF Added

\* Schema 13 has what a new database has.
LEMMA AddedAll == Added(13) = Objects
<1>1. DOMAIN Addition = 1 .. 7  BY DEF Addition
<1>2. 13 - 6 = 7  OBVIOUS
<1> QED  BY <1>1, <1>2 DEF Added, Objects

\* 1 -> 2.
LEMMA Step1 ==
  ASSUME NEW d, DbOK(d), From(d.uv) = 1
  PROVE  Carried(d, Transaction(d, 1))
<1> DEFINE N == [k \in Stored(d) |-> HashRefs(d, k)]
           L == {k \in Stored(d) : N[k] > 0}
           q == Recount(d, N)
           r == Transaction(d, 1)
           T == d.triggers \cup {"hashes"}
<1>1. d \in Database /\ Stage(d, 1)  BY DEF DbOK, Schema
<1>2. N \in [Stored(d) -> Nat]  BY HashRefsNat
<1>3. /\ q \in Database
      /\ q.uv = d.uv /\ q.hash = d.hash /\ q.chunks = d.chunks /\ q.triggers = d.triggers
      /\ SameForm(q, d)
      /\ Stored(q) = L
      /\ \A k \in L : q.blobs[k].flag = d.blobs[k].flag
  <2> HIDE DEF N
  <2> QED  BY <1>1, <1>2, KeptFields
<1>4. T \in SUBSET {"hashes", "counters", "chunks"} /\ 2 \in 0 .. Current  BY <1>1 DEF Database, Current
<1>5. r = [[q EXCEPT !.triggers = T] EXCEPT !.uv = 2]
  <2> HIDE DEF N, q, T
  <2>1. Migrate_1_to_2(d) = [q EXCEPT !.triggers = T]  BY <1>3 DEF Migrate_1_to_2, q, N, T
  <2> QED  BY <2>1 DEF Transaction, StepBody
<1> HIDE DEF q, r, T
<1>6. /\ r \in Database /\ SameForm(r, q)
      /\ r.uv = 2 /\ r.hash = q.hash /\ r.chunks = q.chunks /\ r.triggers = T /\ r.blobs = q.blobs
  <2>1. q \in Database  BY <1>3
  <2> QED  BY <2>1, <1>4, <1>5 DEF Database, SameForm
<1>7. Stored(r) = L /\ L \subseteq Stored(d)  BY <1>3, <1>6 DEF Stored
<1> HIDE DEF L
<1>8. Stage(r, 2)
  <2>1. r.triggers = TriggersOf(2)  BY <1>1, <1>6 DEF T, Stage, TriggersOf
  <2>3. \A f \in File : r.chunks[f] = <<>>  BY <1>1, <1>3, <1>6 DEF Stage
  <2>4. ~r.sha /\ ~r.chunked /\ ~r.dictcol  BY <1>1, <1>3, <1>6 DEF Stage, SameForm
  <2>5. r.has = {} /\ r.dicts = {}  BY <1>1, <1>3, <1>6 DEF Stage, SameForm
  <2> QED  BY <2>1, <2>3, <2>4, <2>5 DEF Stage
<1>9. Schema(r) /\ Decodable(r) /\ Counted(r)  BY <1>6, <1>8 DEF Schema, Decodable, Counted, From
<1>10. ASSUME NEW f \in File, Read(d, f) # NoHash PROVE Read(r, f) = Read(d, f)
  <2>1. ~d.chunked /\ ~r.chunked  BY <1>1, <1>8 DEF Stage
  <2>2. d.hash[f] # NoHash /\ Decodes(d, d.hash[f]) /\ d.hash[f] \in Stored(d) /\ Read(d, f) = d.hash[f]
    BY <1>10, <2>1 DEF Read, Decodes
  <2>3. d.hash[f] \in L  BY <2>2, HashRefsNat DEF L
  <2>4. r.blobs[d.hash[f]].flag = d.blobs[d.hash[f]].flag  BY <1>3, <1>6, <2>3
  <2>5. ~d.dictcol /\ ~r.dictcol /\ r.olddict = d.olddict  BY <1>1, <1>3, <1>6, <1>8 DEF Stage, SameForm
  <2>6. Decodes(r, d.hash[f])  BY <1>7, <2>2, <2>3, <2>4, <2>5 DEF Decodes
  <2> QED  BY <1>3, <1>6, <2>1, <2>2, <2>6 DEF Read
<1> QED  BY <1>6, <1>9, <1>10 DEF Carried, DbOK, r

\* 2 -> 3.
LEMMA Step2 ==
  ASSUME NEW d, DbOK(d), From(d.uv) = 2
  PROVE  Carried(d, Transaction(d, 2))
<1> DEFINE n == Cardinality(Stored(d))
           r == Transaction(d, 2)
           T == d.triggers \cup {"counters"}
<1>1. d \in Database /\ Stage(d, 2)  BY DEF DbOK, Schema
<1>2. T \in SUBSET {"hashes", "counters", "chunks"} /\ 3 \in 0 .. Current  BY <1>1 DEF Database, Current
<1>3. n \in Int
  <2>1. d.blobs \in Table  BY <1>1 DEF Database
  <2>2. Stored(d) \subseteq Bytes  BY <2>1, Tables DEF Stored
  <2> QED  BY <2>2, Finite
<1>4. r = [[d EXCEPT !.count = n, !.triggers = T] EXCEPT !.uv = 3]
  BY DEF Migrate_2_to_3, Transaction, StepBody
<1> HIDE DEF n, r, T
<1>5. /\ r \in Database /\ SameForm(r, d) /\ r.count = n
      /\ r.uv = 3 /\ r.hash = d.hash /\ r.chunks = d.chunks /\ r.triggers = T /\ r.blobs = d.blobs
  BY <1>1, <1>2, <1>3, <1>4 DEF Database, SameForm
<1>6. Stored(r) = Stored(d)  BY <1>5 DEF Stored
<1>7. Stage(r, 3)
  <2>1. r.triggers = TriggersOf(3)  BY <1>1, <1>5 DEF T, Stage, TriggersOf
  <2>3. \A f \in File : r.chunks[f] = <<>>  BY <1>1, <1>5 DEF Stage
  <2>4. ~r.sha /\ ~r.chunked /\ ~r.dictcol  BY <1>1, <1>5 DEF Stage, SameForm
  <2>5. r.has = {} /\ r.dicts = {}  BY <1>1, <1>5 DEF Stage, SameForm
  <2> QED  BY <2>1, <2>3, <2>4, <2>5 DEF Stage
<1>8. Schema(r) /\ Decodable(r) /\ Counted(r)
  BY <1>5, <1>6, <1>7 DEF Schema, Decodable, Counted, From, n
<1>9. ASSUME NEW f \in File PROVE Read(r, f) = Read(d, f)
  <2>1. ~d.chunked /\ ~r.chunked  BY <1>1, <1>7 DEF Stage
  <2>2. \A k : Decodes(r, k) <=> Decodes(d, k)  BY <1>5, <1>6 DEF Decodes, SameForm
  <2> QED  BY <1>5, <2>1, <2>2 DEF Read
<1> QED  BY <1>5, <1>8, <1>9 DEF Carried, DbOK, r

\* 3 -> 4.
LEMMA Step3 ==
  ASSUME NEW d, DbOK(d), From(d.uv) = 3, ~Fails(d, 3)
  PROVE  Carried(d, Transaction(d, 3))
<1> DEFINE M == [f \in File |-> IF d.hash[f] \in Stored(d) THEN d.hash[f] ELSE NoHash]
           m == [d EXCEPT !.hash = M, !.sha = TRUE, !.triggers = @ \ {"hashes", "counters"}]
           N == [k \in Stored(d) |-> HashRefs(m, k)]
           L == {k \in Stored(d) : N[k] > 0}
           q == Recount(m, N)
           n == Cardinality(Stored(q))
           r == Transaction(d, 3)
<1>1. d \in Database /\ Stage(d, 3)  BY DEF DbOK, Schema
<1>2. /\ m \in Database /\ m.hash = M /\ m.sha = TRUE /\ m.triggers = {} /\ m.blobs = d.blobs
      /\ m.uv = d.uv /\ m.chunks = d.chunks /\ m.chunked = d.chunked /\ m.olddict = d.olddict
      /\ m.dicts = d.dicts /\ m.dictcol = d.dictcol /\ m.has = d.has
  <2>1. M \in [File -> Bytes \cup {NoHash}]  BY <1>1 DEF Database
  <2>2. d.triggers \ {"hashes", "counters"} = {}  BY <1>1 DEF Stage, TriggersOf
  <2> HIDE DEF M
  <2> QED  BY <1>1, <2>1, <2>2 DEF Database
<1> HIDE DEF m
<1>3. Stored(m) = Stored(d)  BY <1>2 DEF Stored
<1>4. N \in [Stored(m) -> Nat]  BY <1>3, HashRefsNat
<1>5. /\ q \in Database
      /\ q.uv = m.uv /\ q.hash = m.hash /\ q.chunks = m.chunks /\ q.triggers = m.triggers
      /\ SameForm(q, m)
      /\ Stored(q) = L
      /\ \A k \in L : q.blobs[k].flag = d.blobs[k].flag
  <2>1. L = {k \in Stored(m) : N[k] > 0}  BY <1>3
  <2> HIDE DEF N, L
  <2>2. /\ q \in Database
        /\ q.uv = m.uv /\ q.hash = m.hash /\ q.chunks = m.chunks /\ q.triggers = m.triggers
        /\ SameForm(q, m)
        /\ Stored(q) = L
        /\ \A k \in L : q.blobs[k].flag = m.blobs[k].flag
    <3>1. m \in Database  BY <1>2
    <3> QED  BY <1>4, <2>1, <3>1, KeptFields
  <2> QED  BY <1>2, <2>2
<1>6. n \in Int
  <2>1. q.blobs \in Table  BY <1>5 DEF Database
  <2>2. Stored(q) \subseteq Bytes  BY <2>1, Tables DEF Stored
  <2> HIDE DEF q
  <2> QED  BY <2>2, Finite
<1>7. r = [[q EXCEPT !.count = n, !.triggers = {"counters"}] EXCEPT !.uv = 4]
  <2> HIDE DEF N, q, n
  <2>1. q.triggers \cup {"counters"} = {"counters"}  BY <1>2, <1>5
  <2>2. Migrate_3_to_4(d) = [q EXCEPT !.count = n, !.triggers = {"counters"}]
    BY <2>1 DEF Migrate_3_to_4, q, N, m, n
  <2> QED  BY <2>2 DEF Transaction, StepBody
<1> HIDE DEF q, r, n
<1>8. /\ r \in Database /\ SameForm(r, q) /\ r.count = n
      /\ r.uv = 4 /\ r.hash = q.hash /\ r.chunks = q.chunks /\ r.triggers = {"counters"} /\ r.blobs = q.blobs
  <2>1. q \in Database /\ 4 \in 0 .. Current  BY <1>5 DEF Current
  <2> QED  BY <2>1, <1>6, <1>7 DEF Database, SameForm
<1>9. Stored(r) = L /\ L \subseteq Stored(d) /\ r.count = Cardinality(Stored(r))  BY <1>5, <1>8 DEF Stored, n
<1>10. ASSUME NEW f \in File, d.hash[f] \in Stored(d)
       PROVE  d.hash[f] \in Stored(r)
  <2>1. m.hash[f] = d.hash[f]  BY <1>2, <1>10
  <2> QED  BY <1>9, <1>10, <2>1, HashRefsNat
<1> HIDE DEF L
<1>11. Stage(r, 4)
  <2>1. r.triggers = TriggersOf(4)  BY <1>8 DEF TriggersOf
  <2>2. \A k \in Stored(r) : r.blobs[k].flag = 0
    <3>1. \A k \in Stored(d) : d.blobs[k] \in BlobRow
      <4>1. d.blobs \in Table  BY <1>1 DEF Database
      <4> QED  BY <4>1, Tables DEF Stored
    <3>2. \A k \in Stored(d) : d.blobs[k].flag = 0  BY <3>1 DEF Fails, Undecodable, BlobRow
    <3> QED  BY <1>5, <1>8, <1>9, <3>2
  <2>3. \A f \in File : r.chunks[f] = <<>>  BY <1>1, <1>2, <1>5, <1>8 DEF Stage
  <2>4. r.sha /\ ~r.chunked /\ ~r.dictcol  BY <1>1, <1>2, <1>5, <1>8 DEF Stage, SameForm
  <2>5. r.has = {} /\ r.dicts = {}  BY <1>1, <1>2, <1>5, <1>8 DEF Stage, SameForm
  <2>6. \A f \in File : r.hash[f] = NoHash \/ r.hash[f] \in Stored(r)  BY <1>2, <1>5, <1>8, <1>10
  <2> QED  BY <2>1, <2>2, <2>3, <2>4, <2>5, <2>6 DEF Stage
<1>12. Schema(r) /\ Decodable(r) /\ Counted(r)  BY <1>8, <1>9, <1>11 DEF Schema, Decodable, Counted, From
<1>13. ASSUME NEW f \in File, Read(d, f) # NoHash PROVE Read(r, f) = Read(d, f)
  <2>1. ~d.chunked /\ ~r.chunked  BY <1>1, <1>11 DEF Stage
  <2>2. d.hash[f] # NoHash /\ d.hash[f] \in Stored(d) /\ Read(d, f) = d.hash[f]
    BY <1>13, <2>1 DEF Read, Decodes
  <2>3. d.hash[f] \in Stored(r) /\ r.hash[f] = d.hash[f]  BY <1>2, <1>5, <1>8, <1>10, <2>2
  <2>4. r.blobs[d.hash[f]].flag = 0  BY <1>11, <2>3 DEF Stage
  <2> QED  BY <2>1, <2>2, <2>3, <2>4 DEF Read, Decodes
<1> QED  BY <1>8, <1>12, <1>13 DEF Carried, DbOK, r

\* 4 -> 5.
LEMMA Step4 ==
  ASSUME NEW d, DbOK(d), From(d.uv) = 4
  PROVE  Carried(d, Transaction(d, 4))
<1> DEFINE C == [f \in File |-> IF d.hash[f] # NoHash THEN <<d.hash[f]>> ELSE d.chunks[f]]
           m == [d EXCEPT !.chunked = TRUE, !.chunks = C, !.triggers = @ \ {"hashes"}]
           N == [k \in Stored(d) |-> ChunkRefs(m, k)]
           L == {k \in Stored(d) : N[k] > 0}
           q == Recount(m, N)
           r == Transaction(d, 4)
<1>1. d \in Database /\ Stage(d, 4) /\ d.count = Cardinality(Stored(d))  BY DEF DbOK, Schema, Counted
<1>2. \A f \in File : /\ C[f] = IF d.hash[f] # NoHash THEN <<d.hash[f]>> ELSE <<>>
                      /\ C[f] \in Lists
                      /\ \A i \in DOMAIN C[f] : i = 1 /\ C[f][i] = d.hash[f] /\ d.hash[f] \in Stored(d)
  <2> TAKE f \in File
  <2>1. d.hash[f] \in Bytes \cup {NoHash}  BY <1>1 DEF Database
  <2>2. d.chunks[f] = <<>> /\ (d.hash[f] = NoHash \/ d.hash[f] \in Stored(d))  BY <1>1 DEF Stage
  <2>3. C[f] = IF d.hash[f] # NoHash THEN <<d.hash[f]>> ELSE <<>>  BY <2>2
  <2>4. C[f] \in Lists  BY <2>1, <2>3 DEF Lists
  <2> QED  BY <2>2, <2>3, <2>4
<1>3. /\ m \in Database /\ m.chunks = C /\ m.chunked = TRUE /\ m.triggers = {"counters"} /\ m.blobs = d.blobs
      /\ m.uv = d.uv /\ m.hash = d.hash /\ m.sha = d.sha /\ m.olddict = d.olddict /\ m.count = d.count
      /\ m.dicts = d.dicts /\ m.dictcol = d.dictcol /\ m.has = d.has
  <2>1. C \in [File -> Lists]  BY <1>2
  <2>2. d.triggers \ {"hashes"} = {"counters"}  BY <1>1 DEF Stage, TriggersOf
  <2> HIDE DEF C
  <2> QED  BY <1>1, <2>1, <2>2 DEF Database
<1> HIDE DEF m
<1>4. Stored(m) = Stored(d)  BY <1>3 DEF Stored
<1>5. N \in [Stored(m) -> Nat]  BY <1>4, ChunkRefsNat
<1>6. /\ q \in Database
      /\ q.uv = m.uv /\ q.hash = m.hash /\ q.chunks = m.chunks /\ q.triggers = m.triggers
      /\ SameForm(q, m)
      /\ Stored(q) = L
      /\ \A k \in L : q.blobs[k].refs = N[k] /\ q.blobs[k].flag = d.blobs[k].flag
      /\ q.count = Cardinality(L)
  <2>1. L = {k \in Stored(m) : N[k] > 0}  BY <1>4
  <2>2. Cardinality(L) \in Nat /\ Cardinality(Stored(d)) \in Nat
    <3>1. d.blobs \in Table  BY <1>1 DEF Database
    <3>2. Stored(d) \subseteq Bytes  BY <3>1, Tables DEF Stored
    <3>3. L \subseteq Bytes  BY <3>2
    <3> QED  BY <3>2, <3>3, Finite
  <2> HIDE DEF N, L
  <2>3. /\ q \in Database
        /\ q.uv = m.uv /\ q.hash = m.hash /\ q.chunks = m.chunks /\ q.triggers = m.triggers
        /\ SameForm(q, m)
        /\ Stored(q) = L
        /\ \A k \in L : q.blobs[k].refs = N[k] /\ q.blobs[k].flag = m.blobs[k].flag
        /\ q.count = IF "counters" \in m.triggers THEN m.count + Cardinality(L) - Cardinality(Stored(m))
                     ELSE m.count
    BY <1>3, <1>5, <2>1, KeptFields
  <2>4. q.count = Cardinality(L)  BY <1>1, <1>3, <1>4, <2>2, <2>3
  <2> HIDE DEF q
  <2> QED  BY <1>3, <2>3, <2>4
<1>7. r = [[q EXCEPT !.triggers = {"chunks", "counters"}] EXCEPT !.uv = 5]
  <2> HIDE DEF N, q
  <2>1. q.triggers \cup {"chunks"} = {"chunks", "counters"}  BY <1>3, <1>6
  <2>2. Migrate_4_to_5(d) = [q EXCEPT !.triggers = {"chunks", "counters"}]
    BY <2>1 DEF Migrate_4_to_5, q, N, m
  <2> QED  BY <2>2 DEF Transaction, StepBody
<1> HIDE DEF q, r
<1>8. /\ r \in Database /\ SameForm(r, q) /\ r.count = q.count
      /\ r.uv = 5 /\ r.hash = q.hash /\ r.chunks = q.chunks /\ r.triggers = {"chunks", "counters"}
      /\ r.blobs = q.blobs
  <2>1. q \in Database /\ 5 \in 0 .. Current  BY <1>6 DEF Current
  <2> QED  BY <2>1, <1>7 DEF Database, SameForm
<1>9. Stored(r) = L /\ L \subseteq Stored(d) /\ r.count = Cardinality(Stored(r)) /\ r.chunks = C
  BY <1>3, <1>6, <1>8 DEF Stored
<1>10. ASSUME NEW f \in File, NEW i \in DOMAIN r.chunks[f] PROVE r.chunks[f][i] \in Stored(r)
  <2>1. i = 1 /\ C[f][i] = d.hash[f] /\ d.hash[f] \in Stored(d)  BY <1>2, <1>9, <1>10
  <2>2. <<f, 1>> \in Places(m, d.hash[f])  BY <1>3, <1>9, <1>10, <2>1 DEF Places
  <2>3. ChunkRefs(m, d.hash[f]) > 0  BY <2>2, ChunkRefsNat
  <2> HIDE DEF C
  <2> QED  BY <1>9, <2>1, <2>3
<1>11. \A k \in Stored(r) : r.blobs[k].refs = ChunkRefs(r, k) /\ r.blobs[k].flag = 0
  <2> TAKE k \in Stored(r)
  <2>1. k \in L /\ k \in Stored(d)  BY <1>9
  <2>2. N[k] = ChunkRefs(m, k)  BY <2>1
  <2>3. ChunkRefs(m, k) = ChunkRefs(r, k)
    <3>1. m.chunks = r.chunks  BY <1>3, <1>9
    <3> HIDE DEF m, C
    <3> QED  BY <3>1 DEF ChunkRefs
  <2>4. d.blobs[k].flag = 0  BY <1>1, <2>1 DEF Stage
  <2> HIDE DEF N, L
  <2> QED  BY <1>6, <1>8, <2>1, <2>2, <2>3, <2>4
<1> HIDE DEF L, N
<1>12. Stage(r, 5)
  <2>1. r.triggers = TriggersOf(5)  BY <1>8 DEF TriggersOf
  <2>2. /\ d.sha /\ ~d.dictcol /\ d.has = {} /\ d.dicts = {}  BY <1>1 DEF Stage
  <2>3. r.sha /\ r.chunked /\ ~r.dictcol /\ r.has = {} /\ r.dicts = {}
    BY <1>3, <1>6, <1>8, <2>2 DEF SameForm
  <2> QED  BY <2>1, <2>3 DEF Stage
<1>13. Schema(r) /\ Counted(r)  BY <1>8, <1>9, <1>10, <1>11, <1>12 DEF Schema, Counted, From
<1>14. Decodable(r)  BY <1>11 DEF Decodable, Decodes
<1>15. ASSUME NEW f \in File, Read(d, f) # NoHash PROVE Read(r, f) = Read(d, f)
  <2>1. ~d.chunked /\ r.chunked /\ r.hash = d.hash  BY <1>1, <1>3, <1>6, <1>8, <1>12 DEF Stage
  <2>2. d.hash[f] # NoHash /\ Read(d, f) = d.hash[f]  BY <1>15, <2>1 DEF Read
  <2>3. r.chunks[f] = <<d.hash[f]>>  BY <1>2, <1>9, <2>2
  <2>4. Flat(<<d.hash[f]>>) = d.hash[f]  BY DEF Flat
  <2>5. \A i \in DOMAIN r.chunks[f] : Decodes(r, r.chunks[f][i])  BY <1>10, <1>11 DEF Decodes
  <2> QED  BY <2>1, <2>2, <2>3, <2>4, <2>5 DEF Read
<1> QED  BY <1>8, <1>13, <1>14, <1>15 DEF Carried, DbOK, r

\* 5 -> 6.
LEMMA Step5 ==
  ASSUME NEW d, DbOK(d), From(d.uv) = 5
  PROVE  Carried(d, Transaction(d, 5))
<1> DEFINE D == IF d.olddict THEN d.dicts \cup {1} ELSE d.dicts
           B == [k \in Stored(d) |-> IF d.blobs[k].flag = 3 /\ d.blobs[k].dict = 0
                                     THEN [d.blobs[k] EXCEPT !.dict = 1] ELSE d.blobs[k]]
           r == Transaction(d, 5)
<1>1. d \in Database /\ Stage(d, 5) /\ Counted(d) /\ Decodable(d)  BY DEF DbOK, Schema
<1>2. d.blobs \in Table /\ D \in SUBSET {0, 1}  BY <1>1 DEF Database
<1>3. ASSUME NEW k \in Stored(d)
      PROVE  /\ B[k] \in BlobRow /\ k \in Bytes
             /\ B[k].refs = d.blobs[k].refs /\ B[k].flag = d.blobs[k].flag
             /\ B[k].flag = 3 => B[k].dict = 1
  <2>1. d.blobs[k] \in BlobRow /\ k \in Bytes  BY <1>2, <1>3, Tables DEF Stored
  <2>2. B[k] = IF d.blobs[k].flag = 3 /\ d.blobs[k].dict = 0 THEN [d.blobs[k] EXCEPT !.dict = 1] ELSE d.blobs[k]
    BY <1>3
  <2> HIDE DEF B
  <2> QED  BY <2>1, <2>2 DEF BlobRow
<1>4. DOMAIN B = Stored(d) /\ B \in Table  BY <1>3, Tables
<1>5. r = [[d EXCEPT !.dicts = D, !.dictcol = TRUE, !.blobs = B] EXCEPT !.uv = 6]
  BY DEF Migrate_5_to_6, Transaction, StepBody
<1> HIDE DEF B, D, r
<1>6. /\ r \in Database /\ r.dicts = D /\ r.dictcol = TRUE /\ r.blobs = B /\ r.uv = 6
      /\ r.hash = d.hash /\ r.chunks = d.chunks /\ r.count = d.count /\ r.triggers = d.triggers
      /\ r.sha = d.sha /\ r.chunked = d.chunked /\ r.olddict = d.olddict /\ r.has = d.has
  <2>1. 6 \in 0 .. Current  BY DEF Current
  <2> QED  BY <1>1, <1>2, <1>4, <1>5, <2>1 DEF Database
<1>7. Stored(r) = Stored(d)  BY <1>4, <1>6 DEF Stored
<1>8. Stage(r, 6)
  <2>1. /\ d.sha /\ d.chunked /\ d.triggers = TriggersOf(5)  BY <1>1 DEF Stage
  <2>2. r.triggers = TriggersOf(6)  BY <1>6, <2>1 DEF TriggersOf
  <2>3. Added(6) \subseteq r.has  BY AddedNone
  <2> QED  BY <1>6, <2>1, <2>2, <2>3 DEF Stage
<1>9. Counted(r)
  <2>1. \A k : ChunkRefs(r, k) = ChunkRefs(d, k)  BY <1>6 DEF ChunkRefs
  <2>2. /\ d.count = Cardinality(Stored(d))
        /\ \A k \in Stored(d) : d.blobs[k].refs = ChunkRefs(d, k)
        /\ \A f \in File : \A i \in DOMAIN d.chunks[f] : d.chunks[f][i] \in Stored(d)
    BY <1>1 DEF Counted
  <2> QED  BY <1>3, <1>6, <1>7, <2>1, <2>2 DEF Counted
<1>10. ASSUME NEW k \in Stored(d) PROVE Decodes(r, k) /\ Decodes(d, k)
  <2>1. Decodes(d, k)  BY <1>1, <1>10 DEF Decodable
  <2>2. B[k].flag = 3 => d.olddict
    <3>1. ~d.dictcol  BY <1>1 DEF Stage
    <3> QED  BY <1>3, <1>10, <2>1, <3>1 DEF Decodes
  <2>3. B[k].flag = 3 => B[k].dict \in D  BY <1>3, <1>10, <2>2 DEF D
  <2> QED  BY <1>6, <1>7, <1>10, <2>1, <2>3 DEF Decodes
<1>11. Schema(r) /\ Decodable(r)  BY <1>6, <1>7, <1>8, <1>10 DEF Schema, Decodable, From
<1>12. ASSUME NEW f \in File PROVE Read(r, f) = Read(d, f)
  <2>1. d.chunked /\ r.chunked  BY <1>1, <1>8 DEF Stage
  <2>2. \A i \in DOMAIN d.chunks[f] : d.chunks[f][i] \in Stored(d)  BY <1>1, <1>12 DEF Counted
  <2> QED  BY <1>6, <1>10, <2>1, <2>2 DEF Read
<1> QED  BY <1>6, <1>9, <1>11, <1>12 DEF Carried, DbOK, r

\* 6 -> 7 to 12 -> 13, on a database that may be further.
LEMMA StepAdd ==
  ASSUME NEW d, DbOK(d), NEW v \in 6 .. 12, From(d.uv) >= 6, Added(v) \subseteq d.has
  PROVE  Carried(d, Transaction(d, v)) /\ d.has \subseteq Transaction(d, v).has
<1> DEFINE H == d.has \cup {Addition[v - 5]}
           r == Transaction(d, v)
<1>1. d \in Database /\ Stage(d, From(d.uv)) /\ Counted(d) /\ Decodable(d) /\ From(d.uv) \in 6 .. 13
  BY DEF DbOK, Schema, Database, From, Current
<1>2. H \in SUBSET Objects
  <2>1. v - 5 \in DOMAIN Addition  BY DEF Addition
  <2>2. Addition[v - 5] \in Objects  BY <2>1 DEF Objects
  <2>3. d.has \subseteq Objects  BY <1>1 DEF Database
  <2> QED  BY <2>2, <2>3
<1>3. r = [[d EXCEPT !.has = H] EXCEPT !.uv = v + 1]
  <2>1. v # 1 /\ v # 2 /\ v # 3 /\ v # 4 /\ v # 5  OBVIOUS
  <2>2. StepBody(d, v) = Migrate_add(d, v)  BY <2>1, Zenon DEF StepBody
  <2>3. r = [Migrate_add(d, v) EXCEPT !.uv = v + 1]  BY <2>2 DEF Transaction
  <2> QED  BY <2>3 DEF Migrate_add
<1> HIDE DEF H, r
<1>4. /\ r \in Database /\ r.has = H /\ r.uv = v + 1
      /\ r.hash = d.hash /\ r.chunks = d.chunks /\ r.count = d.count /\ r.triggers = d.triggers
      /\ r.sha = d.sha /\ r.chunked = d.chunked /\ r.olddict = d.olddict /\ r.blobs = d.blobs
      /\ r.dicts = d.dicts /\ r.dictcol = d.dictcol
  <2>1. v + 1 \in 0 .. Current  BY DEF Current
  <2> QED  BY <1>1, <1>2, <1>3, <2>1 DEF Database
<1>5. Stored(r) = Stored(d)  BY <1>4 DEF Stored
<1>6. Stage(r, v + 1)
  <2>1. /\ d.sha /\ d.chunked /\ d.dictcol /\ d.triggers = TriggersOf(From(d.uv))
    BY <1>1 DEF Stage
  <2>2. r.triggers = TriggersOf(v + 1)  BY <1>1, <1>4, <2>1 DEF TriggersOf
  <2>3. Added(v + 1) \subseteq r.has  BY <1>4, AddedNext DEF H
  <2> QED  BY <1>4, <2>1, <2>2, <2>3 DEF Stage
<1>7. From(r.uv) = v + 1  BY <1>4 DEF From
<1>8. Counted(r)
  <2>1. \A k : ChunkRefs(r, k) = ChunkRefs(d, k)  BY <1>4 DEF ChunkRefs
  <2>2. /\ d.count = Cardinality(Stored(d))
        /\ \A k \in Stored(d) : d.blobs[k].refs = ChunkRefs(d, k)
        /\ \A f \in File : \A i \in DOMAIN d.chunks[f] : d.chunks[f][i] \in Stored(d)
    BY <1>1 DEF Counted
  <2> QED  BY <1>4, <1>5, <2>1, <2>2 DEF Counted
<1>9. \A k : Decodes(r, k) <=> Decodes(d, k)  BY <1>4, <1>5 DEF Decodes
<1>10. Decodable(r)  BY <1>1, <1>5, <1>9 DEF Decodable
<1>11. Schema(r)  BY <1>6, <1>7 DEF Schema
<1>12. ASSUME NEW f \in File PROVE Read(r, f) = Read(d, f)  BY <1>4, <1>9 DEF Read
<1>13. d.has \subseteq r.has  BY <1>4 DEF H
<1> QED  BY <1>4, <1>8, <1>10, <1>11, <1>12, <1>13 DEF Carried, DbOK, r

\* Every step that does not fail and is not run by an overtaken process.
LEMMA StepCarries ==
  ASSUME NEW d, DbOK(d), NEW v \in 1 .. 12, ~Fails(d, v),
         IF v < 6 THEN v = From(d.uv) ELSE From(d.uv) >= 6 /\ Added(v) \subseteq d.has
  PROVE  LET r == Transaction(d, v)
         IN  Carried(d, r) /\ r.uv = v + 1 /\ (v >= 6 => d.has \subseteq r.has)
<1>1. Carried(d, Transaction(d, v)) /\ (v >= 6 => d.has \subseteq Transaction(d, v).has)
  <2>1. CASE v = 1  BY <2>1, Step1
  <2>2. CASE v = 2  BY <2>2, Step2
  <2>3. CASE v = 3  BY <2>3, Step3
  <2>4. CASE v = 4  BY <2>4, Step4
  <2>5. CASE v = 5  BY <2>5, Step5
  <2>6. CASE v \in 6 .. 12  BY <2>6, StepAdd
  <2> QED  BY <2>1, <2>2, <2>3, <2>4, <2>5, <2>6
<1>2. Transaction(d, v) \in Database  BY <1>1 DEF Carried, DbOK
<1>3. Transaction(d, v) = [StepBody(d, v) EXCEPT !.uv = v + 1]  BY DEF Transaction
<1>4. "uv" \in DOMAIN Transaction(d, v)  BY <1>2 DEF Database
<1> HIDE DEF Transaction
<1> QED  BY <1>1, <1>3, <1>4

-----------------------------------------------------------------------------
(* Writes of today's program. *)

\* Only the blobs and their counter differ.
SameRows(r, d) ==
  r.uv = d.uv /\ r.hash = d.hash /\ r.chunks = d.chunks /\ r.triggers = d.triggers /\ SameForm(r, d)

\* A database's blobs are finitely many rows.
LEMMA StoredFinite ==
  ASSUME NEW d \in Database
  PROVE  /\ d.blobs \in Table /\ d.count \in Int
         /\ Stored(d) \subseteq Bytes /\ Cardinality(Stored(d)) \in Nat /\ IsFiniteSet(Stored(d))
         /\ \A k \in Stored(d) : d.blobs[k] \in BlobRow
<1>1. d.blobs \in Table /\ d.count \in Int  BY DEF Database
<1>2. Stored(d) \subseteq Bytes /\ \A k \in Stored(d) : d.blobs[k] \in BlobRow  BY <1>1, Tables DEF Stored
<1> QED  BY <1>1, <1>2, Finite

\* What Lower returns: the blobs some reference is left to.
LEMMA LowerFields ==
  ASSUME NEW d \in Database, "counters" \in d.triggers, NEW N \in [Bytes -> Nat],
         \A k \in Stored(d) : d.blobs[k].refs >= N[k]
  PROVE  LET r == Lower(d, N)
             L == {k \in Stored(d) : N[k] = 0 \/ d.blobs[k].refs > N[k]}
         IN  /\ r \in Database /\ SameRows(r, d)
             /\ Stored(r) = L
             /\ \A k \in L : r.blobs[k].refs = d.blobs[k].refs - N[k] /\ r.blobs[k].flag = d.blobs[k].flag
                                                   /\ r.blobs[k].dict = d.blobs[k].dict
             /\ r.count = d.count + Cardinality(L) - Cardinality(Stored(d))
<1> DEFINE L == {k \in Stored(d) : N[k] = 0 \/ d.blobs[k].refs > N[k]}
           B == [k \in L |-> [d.blobs[k] EXCEPT !.refs = @ - N[k]]]
           n == d.count + Cardinality(L) - Cardinality(Stored(d))
           q == KeepBlobs(d, L)
           r == Lower(d, N)
<1>1. L \subseteq Stored(d) /\ Stored(d) \subseteq Bytes  BY StoredFinite
<1>2. n \in Int
  <2>1. L \subseteq Bytes  BY <1>1
  <2>2. Cardinality(L) \in Nat  BY <2>1, Finite
  <2> HIDE DEF L
  <2> QED  BY <2>2, StoredFinite
<1>3. \A k \in L : /\ B[k] \in BlobRow /\ k \in Bytes
                   /\ B[k].refs = d.blobs[k].refs - N[k] /\ B[k].flag = d.blobs[k].flag
                   /\ B[k].dict = d.blobs[k].dict
  <2> TAKE k \in L
  <2>1. d.blobs[k] \in BlobRow /\ N[k] \in Nat /\ d.blobs[k].refs >= N[k] /\ k \in Bytes
    BY <1>1, StoredFinite
  <2>2. d.blobs[k].refs - N[k] \in Nat  BY <2>1 DEF BlobRow
  <2>3. B[k] = [d.blobs[k] EXCEPT !.refs = d.blobs[k].refs - N[k]]  OBVIOUS
  <2> HIDE DEF B, L
  <2> QED  BY <2>1, <2>2, <2>3 DEF BlobRow
<1>4. B \in Table /\ DOMAIN B = L  BY <1>3, Tables
<1>5. r = [d EXCEPT !.blobs = B, !.count = n]
  <2> HIDE DEF B, n, L
  <2>1. q = [d EXCEPT !.blobs = [k \in L |-> d.blobs[k]], !.count = n]  BY DEF KeepBlobs, n
  <2>2. r = [q EXCEPT !.blobs = B]  BY DEF Lower, L, B
  <2> QED  BY <2>1, <2>2 DEF Database
<1>6. r \in Database /\ r.blobs = B /\ r.count = n /\ SameRows(r, d)
  <2> HIDE DEF B, n, r
  <2> QED  BY <1>2, <1>4, <1>5 DEF Database, SameRows, SameForm
<1> HIDE DEF r, B
<1> QED  BY <1>3, <1>4, <1>6 DEF Stored, r

\* What BlobEnsure returns: the blobs there were and new ones without references.
LEMMA EnsureFields ==
  ASSUME NEW d \in Database, "counters" \in d.triggers, NEW K \in SUBSET Bytes
  PROVE  LET r == BlobEnsure(d, K)
         IN  /\ r \in Database /\ SameRows(r, d)
             /\ Stored(r) = K \cup Stored(d)
             /\ \A k \in Stored(d) : r.blobs[k] = d.blobs[k]
             /\ \A k \in K \ Stored(d) : r.blobs[k].refs = 0 /\ r.blobs[k].flag = 0
             /\ r.count = d.count + Cardinality(K \ Stored(d))
<1> DEFINE E == K \ Stored(d)
           B == [k \in K \cup Stored(d) |-> IF k \in E THEN [refs |-> 0, flag |-> 0, dict |-> 0] ELSE d.blobs[k]]
           n == d.count + Cardinality(E)
           r == BlobEnsure(d, K)
<1>1. n \in Int
  <2>1. E \subseteq Bytes  OBVIOUS
  <2>2. Cardinality(E) \in Nat  BY <2>1, Finite
  <2> HIDE DEF E
  <2> QED  BY <2>2, StoredFinite
<1>2. \A k \in K \cup Stored(d) : B[k] \in BlobRow /\ k \in Bytes  BY StoredFinite DEF BlobRow
<1>3. B \in Table /\ DOMAIN B = K \cup Stored(d)  BY <1>2, Tables
<1>4. r = [d EXCEPT !.blobs = B, !.count = n]  BY DEF BlobEnsure
<1>5. r \in Database /\ r.blobs = B /\ r.count = n /\ SameRows(r, d)
  <2> HIDE DEF B, n, r
  <2> QED  BY <1>1, <1>3, <1>4 DEF Database, SameRows, SameForm
<1>6. /\ \A k \in Stored(d) : B[k] = d.blobs[k]
      /\ \A k \in E : B[k].refs = 0 /\ B[k].flag = 0
  OBVIOUS
<1> HIDE DEF r, B
<1> QED  BY <1>3, <1>5, <1>6 DEF Stored, r

\* What Raise returns: the same blobs, with higher counts.
LEMMA RaiseFields ==
  ASSUME NEW d \in Database, NEW N \in [Bytes -> Nat]
  PROVE  LET r == Raise(d, N)
         IN  /\ r \in Database /\ SameRows(r, d)
             /\ Stored(r) = Stored(d) /\ r.count = d.count
             /\ \A k \in Stored(d) : /\ r.blobs[k].refs = d.blobs[k].refs + N[k]
                                     /\ r.blobs[k].flag = d.blobs[k].flag
                                     /\ r.blobs[k].dict = d.blobs[k].dict
<1> DEFINE B == [k \in Stored(d) |-> [d.blobs[k] EXCEPT !.refs = @ + N[k]]]
           r == Raise(d, N)
<1>1. \A k \in Stored(d) : /\ B[k] \in BlobRow /\ k \in Bytes
                           /\ B[k].refs = d.blobs[k].refs + N[k] /\ B[k].flag = d.blobs[k].flag
                           /\ B[k].dict = d.blobs[k].dict
  <2> TAKE k \in Stored(d)
  <2>1. d.blobs[k] \in BlobRow /\ k \in Bytes  BY StoredFinite
  <2>2. d.blobs[k].refs + N[k] \in Nat  BY <2>1 DEF BlobRow
  <2>3. B[k] = [d.blobs[k] EXCEPT !.refs = d.blobs[k].refs + N[k]]  OBVIOUS
  <2> HIDE DEF B
  <2> QED  BY <2>1, <2>2, <2>3 DEF BlobRow
<1>2. B \in Table /\ DOMAIN B = Stored(d)  BY <1>1, Tables
<1>3. r = [d EXCEPT !.blobs = B]  BY DEF Raise
<1>4. r \in Database /\ r.blobs = B /\ r.count = d.count /\ SameRows(r, d)
  <2> HIDE DEF B, r
  <2> QED  BY <1>2, <1>3 DEF Database, SameRows, SameForm
<1> HIDE DEF r, B
<1> QED  BY <1>1, <1>2, <1>4 DEF Stored, r

\* The chunk rows of one file are counted apart from the others.
LEMMA PlacesSplit ==
  ASSUME NEW d \in Database, NEW f \in File, NEW k \in Bytes
  PROVE  LET rest == {p \in Places(d, k) : p[1] # f}
         IN  /\ Cardinality(rest) \in Nat /\ Occurs(d.chunks[f])[k] \in Nat
             /\ ChunkRefs(d, k) = Cardinality(rest) + Occurs(d.chunks[f])[k]
             /\ Cardinality(rest) = 0 <=> rest = {}
             /\ Occurs(d.chunks[f])[k] = 0 <=> \A i \in DOMAIN d.chunks[f] : d.chunks[f][i] # k
<1> DEFINE P    == Places(d, k)
           rest == {p \in P : p[1] # f}
           mine == {p \in P : p[1] = f}
           I    == {i \in DOMAIN d.chunks[f] : d.chunks[f][i] = k}
           g    == [p \in mine |-> p[2]]
<1>1. /\ IsFiniteSet(rest) /\ IsFiniteSet(mine)
      /\ Cardinality(rest) \in Nat /\ Cardinality(mine) \in Nat
      /\ (Cardinality(rest) = 0 <=> rest = {}) /\ (Cardinality(mine) = 0 <=> mine = {})
  <2>1. rest \in SUBSET P /\ mine \in SUBSET P  OBVIOUS
  <2> HIDE DEF rest, mine
  <2> QED  BY <2>1, PlacesFinite
<1>2. d.chunks[f] \in Lists  BY DEF Database
<1>3. DOMAIN d.chunks[f] \subseteq {1, 2}  BY <1>2 DEF Lists
<1>4. g \in Bijection(mine, I)
  <2>1. g \in [mine -> I]  BY DEF Places
  <2>2. \A p, q \in mine : g[p] = g[q] => p = q
    <3> TAKE p \in mine, q \in mine
    <3>1. p = <<p[1], p[2]>> /\ q = <<q[1], q[2]>> /\ p[1] = f /\ q[1] = f  BY DEF Places
    <3> QED  BY <3>1
  <2>3. \A i \in I : \E p \in mine : g[p] = i
    <3> TAKE i \in I
    <3>1. <<f, i>> \in mine  BY <1>3 DEF Places
    <3>2. g[<<f, i>>] = i  BY <3>1
    <3> QED  BY <3>1, <3>2
  <2> HIDE DEF g, mine, I
  <2> QED  BY <2>1, <2>2, <2>3 DEF Bijection, Injection, Surjection, IsInjective
<1>5. Cardinality(I) = Cardinality(mine)
  <2> HIDE DEF g, mine, I
  <2>1. ExistsBijection(mine, I)  BY <1>4 DEF ExistsBijection
  <2> QED  BY <1>1, <2>1, FS_Bijection
<1>6. Cardinality(P) = Cardinality(rest) + Cardinality(mine)
  <2>1. P = rest \cup mine /\ rest \cap mine = {}  OBVIOUS
  <2> HIDE DEF P, rest, mine
  <2>2. Cardinality(P) = Cardinality(rest) + Cardinality(mine) - Cardinality({})  BY <1>1, <2>1, FS_Union
  <2> QED  BY <1>1, <2>2, FS_EmptySet
<1>7. Occurs(d.chunks[f])[k] = Cardinality(I)  BY DEF Occurs
<1>8. ChunkRefs(d, k) = Cardinality(P)  BY DEF ChunkRefs, Places
<1>9. mine = {} <=> I = {}
  <2>1. g \in [mine -> I] /\ \A i \in I : \E p \in mine : g[p] = i  BY <1>4 DEF Bijection, Injection, Surjection
  <2> HIDE DEF g, mine, I
  <2> QED  BY <2>1
<1>10. I = {} <=> \A i \in DOMAIN d.chunks[f] : d.chunks[f][i] # k  OBVIOUS
<1> HIDE DEF P, rest, mine, I
<1> QED  BY <1>1, <1>5, <1>6, <1>7, <1>8, <1>9, <1>10 DEF rest, P

\* A file of today's schema is read from its chunks.
LEMMA ReadChunks ==
  ASSUME NEW d, DbOK(d), From(d.uv) >= 6, NEW f \in File
  PROVE  Read(d, f) = IF d.hash[f] = NoHash THEN NoHash ELSE Flat(d.chunks[f])
<1>1. From(d.uv) \in 6 .. 13  BY DEF From, Current, DbOK, Database
<1>2. d.chunked  BY <1>1 DEF DbOK, Schema, Stage
<1>3. \A i \in DOMAIN d.chunks[f] : Decodes(d, d.chunks[f][i])  BY <1>1 DEF DbOK, Counted, Decodable
<1> QED  BY <1>2, <1>3 DEF Read

\* chunks_replace with the row's upsert or deletion.
LEMMA StoreKeeps ==
  ASSUME NEW d, DbOK(d), From(d.uv) >= 6, NEW f \in File, NEW cs \in Lists, NEW h \in Bytes \cup {NoHash}
  PROVE  LET r == Store(d, f, cs, h)
         IN  /\ DbOK(r) /\ r.uv = d.uv /\ r.has = d.has
             /\ r.hash = [d.hash EXCEPT ![f] = h] /\ r.chunks = [d.chunks EXCEPT ![f] = cs]
<1> DEFINE O    == Occurs(d.chunks[f])
           N    == Occurs(cs)
           K    == {cs[i] : i \in DOMAIN cs}
           gone == Lower(d, O)
           here == BlobEnsure(gone, K)
           full == Raise(here, N)
           mid  == [full EXCEPT !.chunks[f] = cs]
           r    == Store(d, f, cs, h)
           Rest(k) == Cardinality({p \in Places(d, k) : p[1] # f})
           L == {k \in Stored(d) : O[k] = 0 \/ d.blobs[k].refs > O[k]}
<1>1. From(d.uv) \in 6 .. 13  BY DEF From, Current, DbOK, Database
<1>2. d \in Database /\ Stage(d, From(d.uv)) /\ Decodable(d) /\ Counted(d)  BY DEF DbOK, Schema
<1>3. d.triggers = {"chunks", "counters"}  BY <1>1, <1>2 DEF Stage, TriggersOf
<1>4. d.chunks[f] \in Lists /\ d.chunks \in [File -> Lists] /\ d.hash \in [File -> Bytes \cup {NoHash}]
  BY <1>2 DEF Database
<1>5. ASSUME NEW k \in Bytes
      PROVE  /\ Rest(k) \in Nat /\ O[k] \in Nat
             /\ ChunkRefs(d, k) = Rest(k) + O[k]
             /\ Rest(k) = 0 <=> {p \in Places(d, k) : p[1] # f} = {}
             /\ O[k] = 0 <=> \A i \in DOMAIN d.chunks[f] : d.chunks[f][i] # k
  <2>1. d \in Database  BY <1>2
  <2> HIDE DEF Rest, O
  <2>2. LET rest == {p \in Places(d, k) : p[1] # f}
        IN  /\ Cardinality(rest) \in Nat /\ Occurs(d.chunks[f])[k] \in Nat
            /\ ChunkRefs(d, k) = Cardinality(rest) + Occurs(d.chunks[f])[k]
            /\ Cardinality(rest) = 0 <=> rest = {}
            /\ Occurs(d.chunks[f])[k] = 0 <=> \A i \in DOMAIN d.chunks[f] : d.chunks[f][i] # k
    BY <1>5, <2>1, PlacesSplit
  <2> QED  BY <2>2 DEF Rest, O
<1>6. O \in [Bytes -> Nat]
  <2>1. O = [k \in Bytes |-> O[k]]  BY DEF Occurs
  <2> HIDE DEF O
  <2> QED  BY <1>5, <2>1
<1>7. \A k \in Stored(d) : d.blobs[k].refs = Rest(k) + O[k] /\ k \in Bytes
  BY <1>1, <1>2, <1>5, StoredFinite DEF Counted
<1>8. K \subseteq Bytes /\ DOMAIN cs \subseteq {1, 2}  BY DEF Lists
<1> HIDE DEF Rest
<1>9. /\ gone \in Database /\ SameRows(gone, d)
      /\ Stored(gone) = L
      /\ \A k \in L : gone.blobs[k].refs = d.blobs[k].refs - O[k] /\ gone.blobs[k].flag = d.blobs[k].flag
                                            /\ gone.blobs[k].dict = d.blobs[k].dict
      /\ gone.count = d.count + Cardinality(L) - Cardinality(Stored(d))
  <2>1. "counters" \in d.triggers  BY <1>3
  <2>2. \A k \in Stored(d) : d.blobs[k].refs >= O[k]
    <3> HIDE DEF O
    <3> QED  BY <1>5, <1>7
  <2> HIDE DEF O
  <2> QED  BY <1>2, <1>6, <2>1, <2>2, LowerFields
<1>10. L \subseteq Stored(d) /\ \A k \in L : gone.blobs[k].refs = Rest(k)
  <2> HIDE DEF O, gone
  <2> QED  BY <1>5, <1>7, <1>9
<1>11. \A k \in Bytes \ L : Rest(k) = 0
  <2> TAKE k \in Bytes \ L
  <2>1. CASE k \in Stored(d)
    <3> HIDE DEF O
    <3> QED  BY <1>5, <1>7, <2>1
  <2>2. CASE k \notin Stored(d)
    <3>1. \A g \in File : \A i \in DOMAIN d.chunks[g] : d.chunks[g][i] \in Stored(d)
      BY <1>1, <1>2 DEF Counted
    <3>2. {p \in Places(d, k) : p[1] # f} = {}  BY <2>2, <3>1 DEF Places
    <3> QED  BY <1>5, <3>2
  <2> QED  BY <2>1, <2>2
<1> HIDE DEF gone, O
<1>12. gone.triggers = d.triggers /\ "counters" \in gone.triggers  BY <1>3, <1>9 DEF SameRows
<1>13. /\ here \in Database /\ SameRows(here, gone)
       /\ Stored(here) = K \cup L
       /\ \A k \in L : here.blobs[k] = gone.blobs[k]
       /\ \A k \in K \ L : here.blobs[k].refs = 0 /\ here.blobs[k].flag = 0
       /\ here.count = gone.count + Cardinality(K \ L)
  <2> HIDE DEF L, K
  <2>1. gone \in Database /\ K \in SUBSET Bytes /\ Stored(gone) = L  BY <1>8, <1>9
  <2>2. /\ here \in Database /\ SameRows(here, gone)
        /\ Stored(here) = K \cup Stored(gone)
        /\ \A k \in Stored(gone) : here.blobs[k] = gone.blobs[k]
        /\ \A k \in K \ Stored(gone) : here.blobs[k].refs = 0 /\ here.blobs[k].flag = 0
        /\ here.count = gone.count + Cardinality(K \ Stored(gone))
    BY <1>12, <2>1, EnsureFields
  <2> HIDE DEF here
  <2> QED  BY <2>1, <2>2
<1> HIDE DEF here, L, K
<1>14. \A k \in K \cup L : here.blobs[k].refs = Rest(k) /\ k \in Bytes
  <2>1. L \subseteq Bytes  BY <1>2, <1>10, StoredFinite
  <2> QED  BY <1>8, <1>10, <1>11, <1>13, <2>1
<1>15. \A k \in K \cup L : Decodes(here, k)
  <2>1. \A k \in L : Decodes(d, k)  BY <1>1, <1>2, <1>10 DEF Decodable
  <2>2. \A k \in L : here.blobs[k].flag = d.blobs[k].flag /\ here.blobs[k].dict = d.blobs[k].dict
    BY <1>9, <1>13
  <2>3. d.dictcol /\ here.dictcol /\ here.dicts = d.dicts  BY <1>1, <1>2, <1>9, <1>13 DEF Stage, SameRows, SameForm
  <2>4. ASSUME NEW k \in L PROVE Decodes(here, k)  BY <1>13, <2>1, <2>2, <2>3, <2>4 DEF Decodes
  <2>5. ASSUME NEW k \in K \ L PROVE Decodes(here, k)  BY <1>13, <2>5 DEF Decodes
  <2> QED  BY <2>4, <2>5
<1>16. here.count = Cardinality(K \cup L)
  <2>1. d.count = Cardinality(Stored(d)) /\ Cardinality(Stored(d)) \in Nat  BY <1>1, <1>2, StoredFinite DEF Counted
  <2>2. L \subseteq Bytes /\ K \ L \subseteq Bytes  BY <1>8, <1>2, <1>10, StoredFinite
  <2>3. IsFiniteSet(L) /\ IsFiniteSet(K \ L) /\ Cardinality(L) \in Nat /\ Cardinality(K \ L) \in Nat
    BY <2>2, Finite
  <2>4. K \cup L = L \cup (K \ L) /\ L \cap (K \ L) = {}  OBVIOUS
  <2>5. Cardinality(L \cup (K \ L)) = Cardinality(L) + Cardinality(K \ L) - Cardinality({})
    BY <2>3, <2>4, FS_Union
  <2>6. Cardinality(K \cup L) = Cardinality(L) + Cardinality(K \ L)
    <3>1. Cardinality({}) = 0  BY FS_EmptySet
    <3>2. Cardinality(K \cup L) = Cardinality(L \cup (K \ L))  BY <2>4
    <3> QED  BY <2>3, <2>5, <3>1, <3>2
  <2> QED  BY <1>9, <1>13, <2>1, <2>3, <2>6
<1>17. N \in [Bytes -> Nat]
  <2> SUFFICES ASSUME NEW k \in Bytes PROVE Cardinality({i \in DOMAIN cs : cs[i] = k}) \in Nat
    BY DEF Occurs
  <2> DEFINE I == {i \in DOMAIN cs : cs[i] = k}
  <2>1. I \subseteq {1, 2}  BY <1>8
  <2>2. IsFiniteSet({1, 2})
    <3>1. IsFiniteSet({1}) /\ IsFiniteSet({2})  BY FS_Singleton
    <3>2. {1, 2} = {1} \cup {2}  OBVIOUS
    <3> QED  BY <3>1, <3>2, FS_Union
  <2> QED  BY <2>1, <2>2, FS_Subset, FS_CardinalityType
<1>18. /\ full \in Database /\ SameRows(full, here)
       /\ Stored(full) = K \cup L /\ full.count = here.count
       /\ \A k \in K \cup L : /\ full.blobs[k].refs = here.blobs[k].refs + N[k]
                              /\ full.blobs[k].flag = here.blobs[k].flag
                              /\ full.blobs[k].dict = here.blobs[k].dict
  <2> HIDE DEF N
  <2> QED  BY <1>13, <1>17, RaiseFields
<1> HIDE DEF full
<1>19. r = [mid EXCEPT !.hash = [d.hash EXCEPT ![f] = h]]
  <2>1. "chunks" \in d.triggers  BY <1>3
  <2>2. r = SetHash(mid, f, h)  BY <2>1 DEF Store, full, here, gone, K, O
  <2>3. mid.triggers = full.triggers /\ mid.hash = full.hash  BY <1>18 DEF Database
  <2>4. mid.triggers = d.triggers /\ mid.hash = d.hash  BY <1>9, <1>13, <1>18, <2>3 DEF SameRows
  <2>5. "hashes" \notin mid.triggers  BY <1>3, <2>4
  <2> HIDE DEF mid, r
  <2>6. SetHash(mid, f, h) = [mid EXCEPT !.hash[f] = h]  BY <2>5 DEF SetHash
  <2> QED  BY <2>2, <2>4, <2>6
<1>20. /\ r \in Database /\ r.uv = d.uv /\ r.hash = [d.hash EXCEPT ![f] = h] /\ r.chunks = [d.chunks EXCEPT ![f] = cs]
       /\ r.triggers = d.triggers /\ r.blobs = full.blobs /\ r.count = full.count /\ SameForm(r, d)
  <2> DEFINE C == [d.chunks EXCEPT ![f] = cs]
             H == [d.hash EXCEPT ![f] = h]
  <2>1. C \in [File -> Lists] /\ H \in [File -> Bytes \cup {NoHash}]  BY <1>4
  <2>2. SameRows(full, d)  BY <1>9, <1>13, <1>18 DEF SameRows, SameForm
  <2>3. mid = [full EXCEPT !.chunks = C]  BY <2>2 DEF SameRows
  <2> HIDE DEF C, H, mid, r
  <2>4. r = [mid EXCEPT !.hash = H]  BY <1>19 DEF H
  <2>5. /\ r \in Database /\ r.uv = full.uv /\ r.hash = H /\ r.chunks = C
        /\ r.triggers = full.triggers /\ r.blobs = full.blobs /\ r.count = full.count /\ SameForm(r, full)
    <3>1. full \in Database  BY <1>18
    <3> QED  BY <2>1, <2>3, <2>4, <3>1 DEF Database, SameForm
  <2> QED  BY <2>2, <2>5 DEF SameRows, SameForm, C, H
<1> HIDE DEF r, mid
<1>21. Stored(r) = K \cup L  BY <1>18, <1>20 DEF Stored
<1>22. Stage(r, From(d.uv))
  <2> DEFINE e == From(d.uv)
  <2>1. d.sha /\ d.chunked /\ d.dictcol /\ Added(e) \subseteq d.has /\ d.triggers = TriggersOf(e)
    BY <1>1, <1>2 DEF Stage
  <2>2. r.sha /\ r.chunked /\ r.dictcol /\ Added(e) \subseteq r.has /\ r.triggers = TriggersOf(e)
    BY <1>20, <2>1 DEF SameForm
  <2> HIDE DEF e
  <2>3. e \in 6 .. 13  BY <1>1 DEF e
  <2> QED  BY <2>2, <2>3 DEF Stage, e
<1>23. \A k \in Stored(r) : r.blobs[k].refs = ChunkRefs(r, k)
  <2> TAKE k \in Stored(r)
  <2>1. k \in Bytes /\ r.blobs[k].refs = Rest(k) + N[k]  BY <1>14, <1>18, <1>20, <1>21
  <2>2. r.chunks[f] = cs  BY <1>4, <1>20
  <2>3. {p \in Places(r, k) : p[1] # f} = {p \in Places(d, k) : p[1] # f}
    <3>1. \A g \in File \ {f} : r.chunks[g] = d.chunks[g]  BY <1>4, <1>20
    <3> QED  BY <3>1 DEF Places
  <2>4. ChunkRefs(r, k) = Cardinality({p \in Places(r, k) : p[1] # f}) + Occurs(r.chunks[f])[k]
    <3>1. r \in Database /\ k \in Bytes  BY <1>20, <2>1
    <3> QED  BY <3>1, PlacesSplit
  <2> QED  BY <2>1, <2>2, <2>3, <2>4 DEF Rest
<1>24. \A g \in File : \A i \in DOMAIN r.chunks[g] : r.chunks[g][i] \in Stored(r)
  <2> TAKE g \in File
  <2> TAKE i \in DOMAIN r.chunks[g]
  <2>1. CASE g = f
    <3>1. r.chunks[g] = cs  BY <1>4, <1>20, <2>1
    <3> QED  BY <1>21, <3>1 DEF K
  <2>2. CASE g # f
    <3> DEFINE k == d.chunks[g][i]
    <3>1. r.chunks[g] = d.chunks[g]  BY <1>4, <1>20, <2>2
    <3>2. k \in Stored(d)  BY <1>1, <1>2, <3>1 DEF Counted
    <3>3. k \in Bytes  BY <1>7, <3>2
    <3>4. i \in {1, 2}
      <4>1. d.chunks[g] \in Lists  BY <1>4
      <4> QED  BY <3>1, <4>1 DEF Lists
    <3>5. <<g, i>> \in {p \in Places(d, k) : p[1] # f}  BY <2>2, <3>1, <3>4 DEF Places
    <3>6. Rest(k) # 0  BY <1>5, <3>3, <3>5
    <3>7. k \in L  BY <1>11, <3>3, <3>6
    <3> QED  BY <1>21, <3>1, <3>7
  <2> QED  BY <2>1, <2>2
<1>25. Decodable(r)
  <2>1. ASSUME NEW k \in Stored(r) PROVE Decodes(r, k)
    <3>1. Decodes(here, k)  BY <1>15, <1>21, <2>1
    <3>2. r.blobs[k].flag = here.blobs[k].flag /\ r.blobs[k].dict = here.blobs[k].dict
      BY <1>18, <1>20, <1>21, <2>1
    <3>3. r.dictcol = here.dictcol /\ r.dicts = here.dicts /\ r.olddict = here.olddict
      BY <1>9, <1>13, <1>20 DEF SameRows, SameForm
    <3> QED  BY <2>1, <3>1, <3>2, <3>3 DEF Decodes
  <2> QED  BY <2>1 DEF Decodable
<1>26. Schema(r) /\ Counted(r)
  BY <1>1, <1>16, <1>18, <1>20, <1>21, <1>22, <1>23, <1>24 DEF Schema, Counted
<1>27. r.has = d.has  BY <1>20 DEF SameForm
<1> QED  BY <1>20, <1>25, <1>26, <1>27 DEF DbOK, r

-----------------------------------------------------------------------------
(* The theorems. *)

\* Two chunks of one piece make a content of two.
LEMMA TwoPieces ==
  ASSUME NEW x \in Piece, NEW y \in Piece
  PROVE  <<x>> \o <<y>> = <<x, y>>
<1> DEFINE s == <<x>> \o <<y>>
<1>1. s \in Seq(Piece) /\ Len(s) = 2 /\ s[1] = x /\ s[2] = y  OBVIOUS
<1>2. <<x, y>> \in Seq(Piece) /\ Len(<<x, y>>) = 2 /\ <<x, y>>[1] = x /\ <<x, y>>[2] = y  OBVIOUS
<1> HIDE DEF s
<1>3. s = <<x, y>>  BY <1>1, <1>2, SeqEqual
<1> QED  BY <1>3 DEF s

\* What a writer stores is in the types of the invariant.
LEMMA ChunkLists ==
  ASSUME NEW cs \in ChunkList
  PROVE  cs \in Lists /\ Flat(cs) \in Bytes
<1>1. CASE cs = <<>>  BY <1>1 DEF Lists, Flat, Bytes
<1>2. CASE \E x \in Piece : cs = <<<<x>>>>
  <2>1. PICK x \in Piece : cs = <<<<x>>>>  BY <1>2
  <2>2. <<x>> \in Bytes  BY DEF Bytes
  <2>3. Flat(<<<<x>>>>) = <<x>>  BY DEF Flat
  <2> QED  BY <2>1, <2>2, <2>3 DEF Lists
<1>3. CASE \E x, y \in Piece : cs = <<<<x>>, <<y>>>>
  <2>1. PICK x \in Piece, y \in Piece : cs = <<<<x>>, <<y>>>>  BY <1>3
  <2>2. <<x>> \in Bytes /\ <<y>> \in Bytes /\ <<x, y>> \in Bytes  BY DEF Bytes
  <2>3. <<x>> \o <<y>> = <<x, y>>  BY TwoPieces
  <2>4. Flat(<<<<x>>, <<y>>>>) = <<x, y>>  BY <2>3 DEF Flat
  <2> QED  BY <2>1, <2>2, <2>4 DEF Lists
<1> QED  BY <1>1, <1>2, <1>3 DEF ChunkList

\* A new database is one that a step can leave behind.
LEMMA FreshOK == DbOK(Fresh)
<1> DEFINE d == Fresh
           H == [f \in File |-> NoHash]
           C == [f \in File |-> <<>>]
<1>1. d = [uv |-> 13, hash |-> H, chunks |-> C,
           blobs |-> <<>>, count |-> 0, triggers |-> {"chunks", "counters"}, sha |-> TRUE, chunked |-> TRUE,
           olddict |-> FALSE, dicts |-> {}, dictcol |-> TRUE, has |-> Objects]
  <2>1. EmptyDb = [uv |-> 0, hash |-> H, chunks |-> C, blobs |-> <<>>, count |-> 0, triggers |-> {},
                   sha |-> FALSE, chunked |-> FALSE, olddict |-> FALSE, dicts |-> {}, dictcol |-> FALSE, has |-> {}]
    BY DEF EmptyDb
  <2>2. d = [EmptyDb EXCEPT !.uv = 13, !.triggers = {"chunks", "counters"}, !.sha = TRUE,
                            !.chunked = TRUE, !.dictcol = TRUE, !.has = Objects]
    BY DEF Fresh, Current
  <2> HIDE DEF H, C, d
  <2> QED  BY <2>1, <2>2
<1> HIDE DEF d
<1>2. <<>> \in Table /\ DOMAIN <<>> = {}
  <2>1. DOMAIN <<>> = {} /\ <<>> = [k \in {} |-> k]  OBVIOUS
  <2>2. <<>> = [k \in DOMAIN <<>> |-> <<>>[k]]  BY <2>1
  <2> QED  BY <2>1, <2>2, Tables
<1>3. Stored(d) = {}  BY <1>1, <1>2 DEF Stored
<1>4. d \in Database
  <2>1. [f \in File |-> NoHash] \in [File -> Bytes \cup {NoHash}]  OBVIOUS
  <2>2. [f \in File |-> <<>>] \in [File -> Lists]  BY DEF Lists
  <2> QED  BY <1>1, <1>2, <2>1, <2>2 DEF Database, Current
<1>5. From(d.uv) = 13  BY <1>1 DEF From
<1>6. Stage(d, 13)
  <2>1. d.triggers = TriggersOf(13)  BY <1>1 DEF TriggersOf
  <2>2. Added(13) \subseteq d.has  BY <1>1, AddedAll
  <2> QED  BY <1>1, <2>1, <2>2 DEF Stage
<1>7. Counted(d)
  <2>1. d.count = Cardinality(Stored(d))  BY <1>1, <1>3, FS_EmptySet
  <2>2. \A f \in File : d.chunks[f] = <<>>  BY <1>1
  <2> QED  BY <1>2, <1>3, <2>1, <2>2 DEF Counted
<1>8. Decodable(d)  BY <1>3 DEF Decodable
<1> QED  BY <1>4, <1>5, <1>6, <1>7, <1>8 DEF DbOK, Schema, d

\* So is one of schema 1, however wrong its counts are.
LEMMA LegacyOneOK ==
  ASSUME NEW h \in [File -> Bytes \cup {NoHash}], NEW K \in SUBSET Bytes, NEW Z \in SUBSET K,
         NEW n \in {0, 1}, NEW v \in {0, 1}
  PROVE  DbOK([Legacy1(h, K, Z, n) EXCEPT !.uv = v])
<1> DEFINE d == [Legacy1(h, K, Z, n) EXCEPT !.uv = v]
           B == [k \in K |-> [refs |-> n, flag |-> IF k \in Z THEN 3 ELSE 0, dict |-> 0]]
           old == (Z # {})
           H == [f \in File |-> NoHash]
           C == [f \in File |-> <<>>]
<1>1. d = [uv |-> v, hash |-> h, chunks |-> C,
           blobs |-> B, count |-> 0, triggers |-> {}, sha |-> FALSE, chunked |-> FALSE,
           olddict |-> old, dicts |-> {}, dictcol |-> FALSE, has |-> {}]
  <2>1. EmptyDb = [uv |-> 0, hash |-> H, chunks |-> C, blobs |-> <<>>, count |-> 0, triggers |-> {},
                   sha |-> FALSE, chunked |-> FALSE, olddict |-> FALSE, dicts |-> {}, dictcol |-> FALSE, has |-> {}]
    BY DEF EmptyDb
  <2>2. d = [[EmptyDb EXCEPT !.uv = 1, !.hash = h, !.olddict = old, !.blobs = B] EXCEPT !.uv = v]
    BY DEF Legacy1
  <2> HIDE DEF H, C, B, d, old
  <2> QED  BY <2>1, <2>2
<1>2. \A k \in K : B[k] \in BlobRow /\ k \in Bytes  BY DEF BlobRow
<1>3. DOMAIN B = K /\ B \in Table  BY <1>2, Tables
<1> HIDE DEF d, B
<1> old \in BOOLEAN  OBVIOUS
<1> HIDE DEF old
<1>4. d \in Database
  <2>1. [f \in File |-> <<>>] \in [File -> Lists]  BY DEF Lists
  <2> QED  BY <1>1, <1>3, <2>1 DEF Database, Current
<1>5. From(d.uv) = 1  BY <1>1 DEF From
<1>6. Stage(d, 1)
  <2>1. d.triggers = TriggersOf(1)  BY <1>1 DEF TriggersOf
  <2>4. \A f \in File : d.chunks[f] = <<>>  BY <1>1
  <2>5. ~d.sha /\ ~d.chunked /\ ~d.dictcol /\ d.dicts = {} /\ d.has = {}  BY <1>1
  <2> QED  BY <2>1, <2>4, <2>5 DEF Stage
<1> QED  BY <1>4, <1>5, <1>6 DEF DbOK, Schema, Counted, Decodable, d

\* So is one of schema 5.
LEMMA LegacyFiveOK ==
  ASSUME NEW cs \in [File -> ChunkList], NEW K \in SUBSET Small
  PROVE  DbOK(Legacy5(cs, K))
<1> DEFINE d == Legacy5(cs, K)
           Held == UNION {{cs[f][i] : i \in DOMAIN cs[f]} : f \in File}
           H == [f \in File |-> Flat(cs[f])]
           e == [EmptyDb EXCEPT !.chunks = cs]
           B == [k \in Held |-> [refs |-> ChunkRefs(e, k), flag |-> IF k \in K THEN 3 ELSE 0, dict |-> 0]]
           n == Cardinality(Held)
           old == (K # {})
<1>1. d = [uv |-> 5, hash |-> H, chunks |-> cs,
           blobs |-> B, count |-> n, triggers |-> {"chunks", "counters"}, sha |-> TRUE, chunked |-> TRUE,
           olddict |-> old, dicts |-> {}, dictcol |-> FALSE, has |-> {}]
  <2> HIDE DEF n, e
  <2>1. d = [EmptyDb EXCEPT !.uv = 5, !.sha = TRUE, !.chunked = TRUE, !.chunks = cs, !.hash = H, !.blobs = B,
                            !.count = n, !.triggers = {"chunks", "counters"}, !.olddict = old]
    BY DEF Legacy5, e, n
  <2> HIDE DEF d, H, B, old
  <2> QED  BY <2>1 DEF EmptyDb
<1>2. ASSUME NEW f \in File
      PROVE  cs[f] \in Lists /\ Flat(cs[f]) \in Bytes /\ \A i \in DOMAIN cs[f] : cs[f][i] \in Held /\ cs[f][i] \in Bytes
  <2>1. cs[f] \in Lists /\ Flat(cs[f]) \in Bytes  BY <1>2, ChunkLists
  <2>2. \A i \in DOMAIN cs[f] : cs[f][i] \in Bytes  BY <2>1 DEF Lists
  <2>3. \A i \in DOMAIN cs[f] : cs[f][i] \in Held  BY <1>2
  <2> QED  BY <2>1, <2>2, <2>3
<1>3. Held \subseteq Bytes  BY <1>2
<1>4. n \in Nat
  <2> HIDE DEF Held
  <2> QED  BY <1>3, Finite
<1>5. \A k \in Held : /\ B[k] \in BlobRow /\ k \in Bytes /\ B[k].refs = ChunkRefs(e, k)
                      /\ B[k].flag = IF k \in K THEN 3 ELSE 0
  <2> TAKE k \in Held
  <2>1. ChunkRefs(e, k) \in Nat  BY ChunkRefsNat
  <2>2. B[k] = [refs |-> ChunkRefs(e, k), flag |-> IF k \in K THEN 3 ELSE 0, dict |-> 0]  OBVIOUS
  <2> HIDE DEF B, e, Held
  <2> QED  BY <1>3, <2>1, <2>2 DEF BlobRow
<1>6. DOMAIN B = Held /\ B \in Table
  <2>1. DOMAIN B = Held /\ B = [k \in Held |-> B[k]]  OBVIOUS
  <2> HIDE DEF B, Held
  <2> QED  BY <1>5, <2>1, Tables
<1>7. H \in [File -> Bytes \cup {NoHash}] /\ cs \in [File -> Lists] /\ old \in BOOLEAN  BY <1>2
<1>8. e.chunks = cs  BY DEF EmptyDb
<1> HIDE DEF d, B, H, n, e, old, Held
<1>9. d \in Database  BY <1>1, <1>4, <1>6, <1>7 DEF Database, Current
<1>10. From(d.uv) = 5 /\ Stored(d) = Held  BY <1>1, <1>6 DEF From, Stored
<1>11. Stage(d, 5)
  <2>1. d.triggers = TriggersOf(5)  BY <1>1 DEF TriggersOf
  <2>2. d.has = {}  BY <1>1
  <2>3. d.sha /\ d.chunked /\ ~d.dictcol /\ d.dicts = {}  BY <1>1
  <2> QED  BY <2>1, <2>2, <2>3 DEF Stage
<1>12. Decodable(d)
  <2>1. ASSUME NEW k \in Held, d.blobs[k].flag = 3 PROVE d.olddict
    <3>1. d.blobs = B /\ d.olddict = old  BY <1>1
    <3>2. B[k].flag = IF k \in K THEN 3 ELSE 0  BY <1>5
    <3>3. k \in K  BY <2>1, <3>1, <3>2
    <3>4. old  BY <3>3 DEF old
    <3> QED  BY <3>1, <3>4
  <2>2. ~d.dictcol  BY <1>1
  <2> QED  BY <1>10, <2>1, <2>2 DEF Decodable, Decodes
<1>13. Counted(d)
  <2>1. \A k : ChunkRefs(d, k) = ChunkRefs(e, k)  BY <1>1, <1>8 DEF ChunkRefs
  <2>2. d.count = Cardinality(Held)  BY <1>1 DEF n
  <2> QED  BY <1>1, <1>2, <1>5, <1>10, <2>1, <2>2 DEF Counted
<1> QED  BY <1>9, <1>10, <1>11, <1>12, <1>13 DEF DbOK, Schema, d

\* vm_fs.size of a database found on disk is the length of what can be read.
LEMMA SizesRight ==
  ASSUME MigrateInit, NEW f \in File, want[f] # NoHash
  PROVE  size[f] = Len(want[f])
<1>1. want[f] = Read(db, f) /\ size[f] = IF db.hash[f] = NoHash THEN 0 ELSE Len(db.hash[f])
  BY DEF MigrateInit
<1>2. db.hash[f] # NoHash  BY <1>1 DEF Read
<1>3. CASE db = Fresh  BY <1>2, <1>3 DEF Fresh, EmptyDb
<1>4. CASE \E h \in [File -> Bytes \cup {NoHash}], K \in SUBSET Bytes, n \in {0, 1}, v \in {0, 1} :
             \E Z \in SUBSET (K \cap Small) : db = [Legacy1(h, K, Z, n) EXCEPT !.uv = v]
  <2>1. ~db.chunked  BY <1>4 DEF Legacy1, EmptyDb
  <2> QED  BY <1>1, <1>2, <2>1 DEF Read
<1>5. CASE \E cs \in [File -> ChunkList], Z \in SUBSET Small : db = Legacy5(cs, Z)
  <2>1. PICK cs \in [File -> ChunkList], Z \in SUBSET Small : db = Legacy5(cs, Z)  BY <1>5
  <2>2. db.chunked /\ db.chunks = cs /\ db.hash = [g \in File |-> Flat(cs[g])]
    BY <2>1 DEF Legacy5, EmptyDb
  <2>3. db.hash[f] = Flat(db.chunks[f])  BY <2>2
  <2> QED  BY <1>1, <1>2, <2>2, <2>3 DEF Read
<1> QED  BY <1>3, <1>4, <1>5 DEF MigrateInit

\* Every database found on disk satisfies the invariant.
LEMMA MigrateInitially ==
  ASSUME MigrateInit
  PROVE  MigrateInv
<1>1. DbOK(db)
  <2>1. CASE db = Fresh  BY <2>1, FreshOK
  <2>2. CASE \E h \in [File -> Bytes \cup {NoHash}], K \in SUBSET Bytes, n \in {0, 1}, v \in {0, 1} :
               \E Z \in SUBSET (K \cap Small) : db = [Legacy1(h, K, Z, n) EXCEPT !.uv = v]
    <3>1. PICK h \in [File -> Bytes \cup {NoHash}], K \in SUBSET Bytes, n \in {0, 1}, v \in {0, 1} :
                 \E Z \in SUBSET (K \cap Small) : db = [Legacy1(h, K, Z, n) EXCEPT !.uv = v]
      BY <2>2
    <3>2. PICK Z \in SUBSET (K \cap Small) : db = [Legacy1(h, K, Z, n) EXCEPT !.uv = v]  BY <3>1
    <3>3. DbOK([Legacy1(h, K, Z, n) EXCEPT !.uv = v])  BY LegacyOneOK
    <3> QED  BY <3>2, <3>3
  <2>3. CASE \E cs \in [File -> ChunkList], Z \in SUBSET Small : db = Legacy5(cs, Z)
    BY <2>3, LegacyFiveOK
  <2> QED  BY <2>1, <2>2, <2>3 DEF MigrateInit
<1>2. Turns  BY DEF MigrateInit, Turns
<1>3. ContentKept  BY DEF MigrateInit, ContentKept
<1>4. ProcessesOK  BY SizesRight DEF MigrateInit, ProcessesOK
<1> QED  BY <1>1, <1>2, <1>3, <1>4 DEF MigrateInv

\* A step fails on a database its version describes only for a blob it cannot decode.
LEMMA FailsOnlyUndecodable ==
  ASSUME NEW d, DbOK(d), NEW v, v = From(d.uv)
  PROVE  Fails(d, v) => Undecodable(d, v)
<1>1. Stage(d, v)  BY DEF DbOK, Schema
<1>2. CASE v = 3  BY <1>1, <1>2 DEF Stage, Fails
<1>3. CASE v = 4  BY <1>1, <1>3 DEF Stage, Fails
<1>4. CASE v = 5  BY <1>1, <1>4 DEF Stage, Fails
<1> QED  BY <1>2, <1>3, <1>4 DEF Fails

\* Every operation keeps the invariant.
LEMMA MigrateStep ==
  ASSUME MigrateInv, [MigrateNext]_migrateVars
  PROVE  MigrateInv'
<1> USE DEF MigrateInv
<1>1. CASE UNCHANGED migrateVars
  <2>1. db' = db /\ size' = size /\ pc' = pc /\ ver' = ver /\ want' = want /\ stale' = stale
    BY <1>1 DEF migrateVars
  <2>2. Turns' <=> Turns  BY <2>1 DEF Turns
  <2>3. ContentKept'  BY <2>1 DEF ContentKept
  <2>4. ProcessesOK'  BY <2>1 DEF ProcessesOK
  <2> QED  BY <2>1, <2>2, <2>3, <2>4
<1>2. pc \in [Opener -> {"closed", "migrating", "open"}] /\ stale \in BOOLEAN /\ Current = 13
  BY DEF ProcessesOK, Current
<1>3. ASSUME ~stale PROVE db.uv \in 0 .. 13 /\ From(db.uv) \in 1 .. 13  BY <1>3 DEF DbOK, Database, Current, From
<1>4. ASSUME NEW o \in Opener, Open(o) PROVE MigrateInv'
  <2>1. db' = db /\ want' = want /\ size' = size /\ stale' = stale  BY <1>4 DEF Open
  <2>2. ContentKept'  BY <2>1 DEF ContentKept
  <2>3. ver' = [ver EXCEPT ![o] = From(db.uv)]  BY <1>4 DEF Open
  <2>4. pc' = [pc EXCEPT ![o] = IF From(db.uv) >= 13 THEN "open" ELSE "migrating"]
    BY <1>2, <1>4 DEF Open, Go, Finished
  <2>6. ProcessesOK'  BY <1>2, <2>1, <2>4 DEF ProcessesOK
  <2>7. ASSUME ~stale PROVE Turns'
    <3> DEFINE e == From(db.uv)
    <3>1. e \in 1 .. 13 /\ Stage(db, e) /\ db.has \subseteq Objects  BY <1>3, <2>7 DEF DbOK, Schema, Database
    <3>2. e >= 6 => Added(e) \subseteq db.has  BY <3>1 DEF Stage
    <3>3. e = 13 => db.has = Objects
      <4>1. ASSUME e = 13 PROVE Added(13) \subseteq db.has
        <5> HIDE DEF e
        <5> QED  BY <3>2, <4>1
      <4> QED  BY <3>1, <4>1, AddedAll
    <3>4. Turns  BY <2>7
    <3> HIDE DEF e
    <3>5. From(db.uv) = e  BY DEF e
    <3> QED  BY <1>2, <2>1, <2>3, <2>4, <3>1, <3>2, <3>3, <3>4, <3>5 DEF Turns
  <2> QED  BY <2>1, <2>2, <2>6, <2>7
<1>5. ASSUME NEW o \in Opener, Step(o) PROVE MigrateInv'
  <2> DEFINE v == ver[o]
  <2>1. pc[o] = "migrating" /\ ~Fails(db, v)  BY <1>5 DEF Step
  <2>2. /\ db' = Transaction(db, v) /\ want' = want /\ size' = size
        /\ stale' = (stale \/ Overtaken(o))
        /\ ver' = [ver EXCEPT ![o] = v + 1]
        /\ pc' = [pc EXCEPT ![o] = IF v + 1 >= 13 THEN "open" ELSE "migrating"]
    BY <1>2, <1>5 DEF Step, Go, Finished
  <2>3. ProcessesOK'
    <3>1. stale' \in BOOLEAN  BY <2>2
    <3>2. pc' \in [Opener -> {"closed", "migrating", "open"}]  BY <1>2, <2>2
    <3> QED  BY <2>2, <3>1, <3>2 DEF ProcessesOK
  <2>4. CASE stale'  BY <2>3, <2>4 DEF ContentKept
  <2>5. CASE ~stale'
    <3>1. ~stale /\ ~Overtaken(o)  BY <2>2, <2>5
    <3>2. DbOK(db) /\ Turns /\ From(db.uv) \in 1 .. 13 /\ ver \in [Opener -> Nat]  BY <1>3, <3>1 DEF Turns
    <3>3. IF v < 6 THEN v = From(db.uv) ELSE From(db.uv) >= 6 /\ Added(v) \subseteq db.has
      BY <2>1, <3>1, <3>2 DEF Turns, Overtaken
    <3>4. v \in 1 .. 12  BY <1>2, <2>1, <3>2, <3>3 DEF Turns
    <3> HIDE DEF v
    <3>5. Carried(db, db') /\ db'.uv = v + 1 /\ (v >= 6 => db.has \subseteq db'.has)
      BY <2>1, <2>2, <3>2, <3>3, <3>4, StepCarries
    <3>6. ContentKept'  BY <2>2, <3>1, <3>5 DEF ContentKept, Carried
    <3>7. From(db'.uv) = v + 1  BY <3>4, <3>5 DEF From
    <3>8. DbOK(db') /\ db'.has \subseteq Objects  BY <3>5 DEF Carried, DbOK, Database
    <3>9. v + 1 >= 6 => Added(v + 1) \subseteq db'.has
      BY <3>4, <3>7, <3>8 DEF DbOK, Schema, Stage
    <3>10. v + 1 = 13 => db'.has = Objects  BY <3>8, <3>9, AddedAll
    <3>11. ASSUME NEW q \in Opener, pc'[q] = "migrating"
           PROVE  IF ver'[q] < 6 THEN ver'[q] <= From(db'.uv)
                  ELSE ver'[q] < Current /\ From(db'.uv) >= 6 /\ Added(ver'[q]) \subseteq db'.has
      <4>1. CASE q = o
        <5>1. ver'[q] = v + 1 /\ v + 1 < 13  BY <1>2, <2>2, <3>2, <3>4, <3>11, <4>1
        <5> QED  BY <1>2, <3>4, <3>7, <3>9, <5>1
      <4>2. CASE q # o
        <5>1. pc[q] = "migrating" /\ ver'[q] = ver[q] /\ ver[q] \in Nat  BY <1>2, <2>2, <3>2, <3>11, <4>2
        <5>2. CASE ver[q] < 6
          <6>1. ver[q] <= From(db.uv)  BY <3>2, <5>1, <5>2 DEF Turns
          <6> QED  BY <3>2, <3>3, <3>4, <3>7, <5>1, <5>2, <6>1
        <5>3. CASE ~(ver[q] < 6)
          <6>1. ver[q] < Current /\ From(db.uv) >= 6 /\ Added(ver[q]) \subseteq db.has
            BY <3>2, <5>1, <5>3 DEF Turns
          <6>2. v >= 6  BY <3>3, <3>4, <6>1
          <6> QED  BY <3>4, <3>5, <3>7, <5>1, <5>3, <6>1, <6>2
        <5> QED  BY <5>2, <5>3
      <4> QED  BY <4>1, <4>2
    <3>12. ASSUME NEW q \in Opener, pc'[q] = "open" PROVE From(db'.uv) >= 6 /\ db'.has = Objects
      <4>1. CASE q = o
        <5>1. v + 1 = 13  BY <1>2, <2>2, <3>4, <3>12, <4>1
        <5> QED  BY <3>7, <3>10, <5>1
      <4>2. CASE q # o
        <5>1. pc[q] = "open"  BY <1>2, <2>2, <3>12, <4>2
        <5>2. From(db.uv) >= 6 /\ db.has = Objects  BY <3>2, <5>1 DEF Turns
        <5>3. v >= 6  BY <3>3, <3>4, <5>2
        <5> QED  BY <3>4, <3>5, <3>7, <3>8, <5>2, <5>3
      <4> QED  BY <4>1, <4>2
    <3>13. Turns'
      <4>1. ver' \in [Opener -> Nat]  BY <2>2, <3>2, <3>4
      <4> QED  BY <3>11, <3>12, <4>1 DEF Turns
    <3> QED  BY <2>3, <3>6, <3>8, <3>13
  <2> QED  BY <2>4, <2>5
<1>6. ASSUME NEW o \in Opener, StepFails(o) \/ Exit(o) PROVE MigrateInv'
  <2>1. /\ db' = db /\ size' = size /\ want' = want /\ ver' = ver /\ stale' = stale
        /\ pc' = [pc EXCEPT ![o] = "closed"]
    BY <1>6 DEF StepFails, Exit, Go
  <2>2. ContentKept'  BY <2>1 DEF ContentKept
  <2>3. Turns => Turns'  BY <1>2, <2>1 DEF Turns
  <2>4. ProcessesOK'  BY <1>2, <2>1 DEF ProcessesOK
  <2> QED  BY <2>1, <2>2, <2>3, <2>4
<1>7. ASSUME NEW o \in Opener, NEW f \in File, NEW cs \in ChunkList, NEW h, NEW n,
             pc[o] = "open", db' = Store(db, f, cs, h), want' = [want EXCEPT ![f] = h],
             size' = [size EXCEPT ![f] = n], h # NoHash => n = Len(h),
             h = NoHash \/ h = Flat(cs), UNCHANGED <<pc, ver, stale>>
      PROVE  MigrateInv'
  <2>1. ProcessesOK'
    <3>1. want' = [g \in File |-> want'[g]] /\ size' = [g \in File |-> size'[g]]  BY <1>7 DEF ProcessesOK
    <3>2. ASSUME NEW g \in File, want'[g] # NoHash PROVE size'[g] = Len(want'[g])
      <4>1. want = [x \in File |-> want[x]] /\ size = [x \in File |-> size[x]]  BY DEF ProcessesOK
      <4>2. CASE g = f
        <5>1. want'[g] = h /\ size'[g] = n  BY <1>7, <4>1, <4>2
        <5> QED  BY <1>7, <3>2, <5>1
      <4>3. CASE g # f
        <5>1. want'[g] = want[g] /\ size'[g] = size[g]  BY <1>7, <4>1, <4>3
        <5> QED  BY <3>2, <5>1 DEF ProcessesOK
      <4> QED  BY <4>2, <4>3
    <3> QED  BY <1>2, <1>7, <3>1, <3>2 DEF ProcessesOK
  <2>2. CASE stale  BY <1>7, <2>1, <2>2 DEF ContentKept
  <2>3. CASE ~stale
    <3>1. DbOK(db) /\ Turns /\ From(db.uv) >= 6  BY <1>7, <2>3 DEF Turns
    <3>2. cs \in Lists /\ h \in Bytes \cup {NoHash}  BY <1>7, ChunkLists
    <3>3. /\ DbOK(db') /\ db'.uv = db.uv /\ db'.has = db.has
          /\ db'.hash = [db.hash EXCEPT ![f] = h] /\ db'.chunks = [db.chunks EXCEPT ![f] = cs]
      BY <1>7, <3>1, <3>2, StoreKeeps
    <3>4. Turns'  BY <1>7, <3>1, <3>3 DEF Turns
    <3>5. ASSUME NEW g \in File, want'[g] # NoHash PROVE Read(db', g) = want'[g]
      <4>1. db.hash \in [File -> Bytes \cup {NoHash}] /\ db.chunks \in [File -> Lists]
        BY <3>1 DEF DbOK, Database
      <4>2. Read(db', g) = IF db'.hash[g] = NoHash THEN NoHash ELSE Flat(db'.chunks[g])
        <5>1. From(db'.uv) >= 6  BY <3>1, <3>3
        <5> QED  BY <3>3, <5>1, ReadChunks
      <4>3. Read(db, g) = IF db.hash[g] = NoHash THEN NoHash ELSE Flat(db.chunks[g])  BY <3>1, ReadChunks
      <4>4. want = [x \in File |-> want[x]]  BY DEF ProcessesOK
      <4>5. CASE g = f
        <5>1. want'[g] = h /\ db'.hash[g] = h /\ db'.chunks[g] = cs  BY <1>7, <3>3, <4>1, <4>4, <4>5
        <5> QED  BY <1>7, <3>5, <4>2, <5>1
      <4>6. CASE g # f
        <5>1. want'[g] = want[g] /\ db'.hash[g] = db.hash[g] /\ db'.chunks[g] = db.chunks[g]
          BY <1>7, <3>3, <4>1, <4>4, <4>6
        <5>2. Read(db, g) = want[g]  BY <2>3, <3>5, <5>1 DEF ContentKept
        <5> QED  BY <4>2, <4>3, <5>1, <5>2
      <4> QED  BY <4>5, <4>6
    <3>6. ContentKept'  BY <3>5 DEF ContentKept
    <3> QED  BY <2>1, <3>3, <3>4, <3>6
  <2> QED  BY <1>2, <2>2, <2>3
<1>8. ASSUME NEW o \in Opener, NEW f \in File, NEW cs \in ChunkList, Write(o, f, cs) PROVE MigrateInv'
  BY <1>7, <1>8 DEF Write
<1>9. ASSUME NEW o \in Opener, NEW f \in File, Remove(o, f) PROVE MigrateInv'
  <2>1. <<>> \in ChunkList  BY DEF ChunkList
  <2> QED  BY <1>7, <1>9, <2>1 DEF Remove
<1> QED  BY <1>1, <1>4, <1>5, <1>6, <1>8, <1>9 DEF MigrateNext

\* Until an overtaken process runs one of steps 1 to 5 (schema.rs:53, the version is read once),
\* the tables, triggers and form of keys are those user_version says or later ones that were
\* added (vm_migrate), and nothing readable was lost, however many processes migrate.
THEOREM MigrateSafe == MigrateSpec => []MigrateInv
<1>1. MigrateInit => MigrateInv  BY MigrateInitially
<1>2. MigrateInv /\ [MigrateNext]_migrateVars => MigrateInv'  BY MigrateStep
<1> QED  BY <1>1, <1>2, PTL DEF MigrateSpec

\* A file that could be read when the database was found keeps its bytes through every step, every
\* death between two steps and every later write to other files (vm_migrate, schema.rs), with any
\* number of processes migrating, until an overtaken one runs one of steps 1 to 5.
THEOREM MigrationKeepsContent == MigrateSpec => []ContentKept
<1>1. MigrateInv => ContentKept  BY DEF MigrateInv
<1> QED  BY <1>1, MigrateSafe, PTL

\* A database at the current schema, migrated or new, after any writes, passes vm_verify --deep but
\* for the files it was already found without the content of (maint.rs:204-238).
THEOREM MigratedVerifies == MigrateSpec => []VerifyDeep
<1>1. MigrateInv => VerifyDeep
  <2> SUFFICES ASSUME MigrateInv, db.uv = Current, ~stale PROVE VerifyDeep  BY DEF VerifyDeep
  <2>1. DbOK(db) /\ Counted(db) /\ From(db.uv) = 13  BY DEF MigrateInv, DbOK, From, Current
  <2>2. ASSUME NEW f \in File, size[f] > 0, db.chunks[f] = <<>> PROVE want[f] = NoHash
    <3> SUFFICES ASSUME want[f] # NoHash PROVE FALSE  OBVIOUS
    <3>1. Read(db, f) = want[f]  BY DEF MigrateInv, ContentKept
    <3>2. want[f] = Flat(db.chunks[f])  BY <2>1, <3>1, ReadChunks
    <3>3. want[f] = <<>>  BY <2>2, <3>2 DEF Flat
    <3>4. size[f] = Len(<<>>)  BY <3>3 DEF MigrateInv, ProcessesOK
    <3> QED  BY <2>2, <3>4
  <2> QED  BY <2>1, <2>2 DEF Counted, VerifyDeep
<1> QED  BY <1>1, MigrateSafe, PTL

\* No step of a migration, started or taken up again, meets a database on which it fails, but for
\* one another process has done already and for dictionary blobs at 3 -> 4 (schema.rs:122).
THEOREM MigrationResumes == MigrateSpec => []StepsApply
<1>1. MigrateInv => StepsApply
  <2> SUFFICES ASSUME MigrateInv, NEW o \in Opener, pc[o] = "migrating", ~stale, Fails(db, ver[o])
               PROVE  Overtaken(o) \/ Undecodable(db, ver[o])
    BY DEF StepsApply
  <2>1. DbOK(db) /\ Turns /\ ver[o] \in Nat  BY DEF MigrateInv, Turns
  <2>2. ver[o] < 6  BY <2>1 DEF Fails, Undecodable
  <2>3. ver[o] <= From(db.uv) /\ From(db.uv) \in Nat  BY <2>1, <2>2 DEF Turns, DbOK, Database, From
  <2>4. CASE ver[o] = From(db.uv)  BY <2>1, <2>4, FailsOnlyUndecodable
  <2>5. CASE ver[o] < From(db.uv)  BY <2>1, <2>2, <2>5 DEF Overtaken
  <2> QED  BY <2>1, <2>3, <2>4, <2>5
<1> QED  BY <1>1, MigrateSafe, PTL

\* A process that has the database open works on the tables, triggers and keys of today (vm_open).
THEOREM OpenIsCurrent == MigrateSpec => []OpenedCurrent
<1>1. MigrateInv => OpenedCurrent
  <2> SUFFICES ASSUME MigrateInv, NEW o \in Opener, pc[o] = "open", ~stale PROVE OpenedCurrent
    BY DEF OpenedCurrent
  <2>1. From(db.uv) >= 6 /\ db.has = Objects  BY DEF MigrateInv, Turns
  <2>2. Stage(db, From(db.uv)) /\ From(db.uv) \in 6 .. 13
    BY <2>1 DEF MigrateInv, DbOK, Schema, Database, From, Current
  <2>3. db.triggers = {"chunks", "counters"}  BY <2>2 DEF Stage, TriggersOf
  <2>4. db.sha /\ db.chunked /\ db.dictcol  BY <2>2 DEF Stage
  <2>5. Fresh.triggers = {"chunks", "counters"}  BY DEF Fresh, EmptyDb
  <2> QED  BY <2>1, <2>3, <2>4, <2>5 DEF OpenedCurrent
<1> QED  BY <1>1, MigrateSafe, PTL
=============================================================================
