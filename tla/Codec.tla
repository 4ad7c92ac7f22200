------------------------------- MODULE Codec -------------------------------
(***************************************************************************)
(* How blobs are encoded and read back: trained dictionaries, the writers  *)
(* that choose an encoding (blob_ensure, the parallel pack, recompress),   *)
(* packages merged in from another database (inject), and the decoder with *)
(* its process-wide dictionary cache.                                      *)
(*                                                                         *)
(* Abstractions: a blob is keyed by its content (sha256 is injective); a   *)
(* body is a term that says how it was made, and decodes only the same     *)
(* way; whether an encoding is smaller than the content is a free choice.  *)
(***************************************************************************)
EXTENDS Naturals, FiniteSets, Sequences

CONSTANTS
  Db,        \* database files
  Content,   \* byte strings
  Inside,    \* contents that are a gzip or zstd stream, and what each unpacks to
  Dict,      \* dictionaries training can produce
  Room,      \* bound: dictionaries per database
  NoDict,    \* no dictionary
  Error      \* a read that failed

ASSUME CodecAssumption ==
  /\ DOMAIN Inside \subseteq Content
  /\ \A c \in DOMAIN Inside : Inside[c] \in Content \ {c}
  /\ NoDict \notin Dict /\ Error \notin Content /\ "none" \notin Db
  /\ Room \in [Db -> Nat]

Form == {"raw", "gzip", "zstd", "dict"}   \* the values 0, 1, 2, 3 of vm_blobs.compressed
Body == [form : Form, of : Content, with : Dict \cup {NoDict}]
Row  == [body : Body, flag : Form, dict : Nat]

VARIABLES
  dicts,   \* vm_dicts of each database; the row id is the position
  blobs,   \* vm_blobs of each database: a function on the stored keys
  cache,   \* dict_cache of the process: (database, id) to dictionary
  pack     \* locals of a parallel pack: its database, its dictionary, the encoded chunks

vars == <<dicts, blobs, cache, pack>>

\* A row names a dictionary exactly when its flag says one was used (codec.rs:141-142).
TypeOK ==
  /\ dicts \in [Db -> Seq(Dict)]
  /\ \A d \in Db : /\ DOMAIN blobs[d] \subseteq Content
                   /\ \A k \in DOMAIN blobs[d] : /\ blobs[d][k] \in Row
                                               /\ (blobs[d][k].dict # 0) = (blobs[d][k].flag = "dict")
  /\ \A e \in DOMAIN cache : e \in Db \X Nat /\ cache[e] \in Dict
  /\ pack.db \in Db \cup {"none"}

-----------------------------------------------------------------------------
(* Decoding. *)

\* dict_by_id_in: the cached dictionary of that database file, or its row.
DictById(d, id) ==
  IF <<d, id>> \in DOMAIN cache THEN cache[<<d, id>>]
  ELSE IF id \in DOMAIN dicts[d] THEN dicts[d][id] ELSE NoDict

\* decompress_bytes_raw on flag 0 looks for a zstd or gzip magic and unpacks what it finds.
Detect(c) == IF c \in DOMAIN Inside THEN Inside[c] ELSE c

\* decode_block and decode_block_in.
DecodeBlock(d, row) ==
  CASE row.flag = "raw"            -> IF row.body.form = "raw" THEN Detect(row.body.of) ELSE row.body.of
    [] row.flag \in {"gzip", "zstd"} -> IF row.body.form = row.flag THEN row.body.of ELSE Error
    [] row.flag = "dict"           -> IF row.body.form = "dict" /\ DictById(d, row.dict) = row.body.with
                                      THEN row.body.of ELSE Error

\* chunk_by_key and file_bytes: a mismatch is an error.
ChunkByKey(d, k) ==
  LET piece == DecodeBlock(d, blobs[d][k]) IN IF piece = k THEN piece ELSE Error

\* dict_cache once ids of d have been looked up.
Filled(d, ids) ==
  LET new == {d} \X (ids \cap DOMAIN dicts[d])
  IN  [e \in DOMAIN cache \cup new |-> IF e \in DOMAIN cache THEN cache[e] ELSE dicts[d][e[2]]]

-----------------------------------------------------------------------------
(* Encoding. *)

LatestId(d) == Len(dicts[d])

Raw(c)      == [body |-> [form |-> "raw", of |-> c, with |-> NoDict], flag |-> "raw", dict |-> 0]
Zstd(c)     == [body |-> [form |-> "zstd", of |-> c, with |-> NoDict], flag |-> "zstd", dict |-> 0]
Gzip(c)     == [body |-> [form |-> "gzip", of |-> c, with |-> NoDict], flag |-> "gzip", dict |-> 0]
Coded(c, i, x) == [body |-> [form |-> "dict", of |-> c, with |-> x], flag |-> "dict", dict |-> i]

\* compress_with_effort: raw, plain, or with the dictionary it is given.
Encodings(c, i, x) == {Raw(c), Zstd(c)} \cup (IF i > 0 THEN {Coded(c, i, x)} ELSE {})

LatestEncodings(d, c) ==
  Encodings(c, LatestId(d), IF LatestId(d) > 0 THEN DictById(d, LatestId(d)) ELSE NoDict)

\* Adds rows to d; a row that exists is left alone.
Inserted(d, rows) ==
  [blobs EXCEPT ![d] = [k \in DOMAIN @ \cup DOMAIN rows |-> IF k \in DOMAIN @ THEN @[k] ELSE rows[k]]]

NoRows == [k \in {} |-> {}]
NoPack == [db |-> "none", id |-> 0, with |-> NoDict, rows |-> NoRows]

Init ==
  /\ dicts = [d \in Db |-> <<>>]
  /\ blobs \in [Db -> {NoRows} \cup {[k \in {c} |-> Gzip(c)] : c \in Content}]
  /\ cache = [e \in {} |-> NoDict]
  /\ pack = NoPack

-----------------------------------------------------------------------------
(* Operations. *)

\* vm_train_dict: decodes samples, then appends a dictionary.
Train(d) ==
  /\ LatestId(d) < Room[d]
  /\ \E x \in Dict, S \in SUBSET DOMAIN blobs[d] :
       /\ cache' = Filled(d, {blobs[d][k].dict : k \in S})
       /\ dicts' = [dicts EXCEPT ![d] = Append(@, x)]
  /\ UNCHANGED <<blobs, pack>>

\* blob_ensure_with.
Ensure(d, c) ==
  /\ c \notin DOMAIN blobs[d]
  /\ cache' = Filled(d, {LatestId(d)})
  /\ \E r \in LatestEncodings(d, c) : blobs' = Inserted(d, [k \in {c} |-> r])
  /\ UNCHANGED <<dicts, pack>>

\* The triggers drop a blob that nothing refers to.
Release(d, k) ==
  /\ k \in DOMAIN blobs[d]
  /\ blobs' = [blobs EXCEPT ![d] = [c \in DOMAIN @ \ {k} |-> @[c]]]
  /\ UNCHANGED <<dicts, cache, pack>>

\* vm_pack_host_dir_parallel: the dictionary is read once, a batch is encoded on worker
\* threads, and written after that, in a transaction of its own.
PackStart(d) ==
  /\ pack = NoPack
  /\ cache' = Filled(d, {LatestId(d)})
  /\ pack' = [NoPack EXCEPT !.db = d, !.id = LatestId(d),
                            !.with = IF LatestId(d) > 0 THEN DictById(d, LatestId(d)) ELSE NoDict]
  /\ UNCHANGED <<dicts, blobs>>

PackEncode(c) ==
  /\ pack.db # "none" /\ pack.rows = NoRows
  /\ \E r \in Encodings(c, pack.id, pack.with) : pack' = [pack EXCEPT !.rows = [k \in {c} |-> r]]
  /\ UNCHANGED <<dicts, blobs, cache>>

PackWrite ==
  /\ pack.rows # NoRows
  /\ blobs' = Inserted(pack.db, pack.rows)
  /\ pack' = [pack EXCEPT !.rows = NoRows]
  /\ UNCHANGED <<dicts, cache>>

PackEnd ==
  /\ pack.db # "none"
  /\ pack' = NoPack
  /\ UNCHANGED <<dicts, blobs, cache>>

Smaller(d, k) == LatestEncodings(d, blobs[d][k].body.of) \ {Raw(blobs[d][k].body.of)}

\* vm_recompress, one transaction: gzip blobs and raw blobs are encoded anew where that
\* is smaller; a zstd blob stays a zstd blob.  A raw body is taken as it is, not decoded.
\* Inline content of old rows goes through blob_ensure before that, which is Ensure(d, c).
Recompress(d) ==
  /\ cache' = Filled(d, {LatestId(d)})
  /\ \E S \in SUBSET {k \in DOMAIN blobs[d] : blobs[d][k].flag \in {"raw", "gzip"}} :
       /\ S # {}
       /\ \E f \in [S -> UNION {Smaller(d, k) : k \in S}] :
            /\ \A k \in S : f[k] \in Smaller(d, k)
            /\ blobs' = [blobs EXCEPT ![d] = [k \in DOMAIN @ |-> IF k \in S THEN f[k] ELSE @[k]]]
  /\ UNCHANGED <<dicts, pack>>

\* Mutant: a package's dictionary ids are copied as they are.
RemappedById(d, p, K) == [k \in K |-> blobs[p][k]]

\* The package's dictionaries in id order get the next ids of d.
Needed(p)    == {blobs[p][k].dict : k \in DOMAIN blobs[p]} \ {0}
Rank(p, i)   == Cardinality({j \in Needed(p) : j <= i})
NthNeeded(p) == [n \in 1 .. Cardinality(Needed(p)) |-> CHOOSE i \in Needed(p) : Rank(p, i) = n]

Remapped(d, p, K) ==
  [k \in K |-> [blobs[p][k] EXCEPT !.dict = IF @ = 0 THEN 0 ELSE LatestId(d) + Rank(p, @)]]

\* inject of package p into d: every dictionary the package's blobs use, then the blobs
\* of its files.  One transaction.  When the result does not verify all of it is undone, the
\* new ids included, none of which was looked up: no step of this module.
Inject(d, p) ==
  /\ d # p
  /\ LatestId(d) + Cardinality(Needed(p)) <= Room[d]
  /\ Needed(p) \subseteq DOMAIN dicts[p]
  /\ dicts' = [dicts EXCEPT ![d] = @ \o [n \in DOMAIN NthNeeded(p) |-> dicts[p][NthNeeded(p)[n]]]]
  /\ \E K \in SUBSET DOMAIN blobs[p] : K # {} /\ blobs' = Inserted(d, Remapped(d, p, K))
  /\ UNCHANGED <<cache, pack>>

\* A read through any path fills the cache; the LRU drops an entry.
Lookup(d, k) ==
  /\ k \in DOMAIN blobs[d] /\ blobs[d][k].flag = "dict"
  /\ cache' = Filled(d, {blobs[d][k].dict})
  /\ UNCHANGED <<dicts, blobs, pack>>

Evict(e) ==
  /\ cache' = [x \in DOMAIN cache \ {e} |-> cache[x]]
  /\ UNCHANGED <<dicts, blobs, pack>>

Next ==
  \/ \E d \in Db : Train(d) \/ PackStart(d) \/ Recompress(d) \/ \E p \in Db : Inject(d, p)
  \/ \E d \in Db, c \in Content : Ensure(d, c) \/ Release(d, c) \/ Lookup(d, c)
  \/ PackWrite \/ PackEnd \/ \E c \in Content : PackEncode(c)
  \/ \E e \in DOMAIN cache : Evict(e)

Spec == Init /\ [][Next]_vars

-----------------------------------------------------------------------------
(* Properties. *)

\* Every stored blob reads back whatever was trained, packed, recompressed or injected
\* since it was written, and whatever the dictionary cache holds (docs/vm.md:7, old
\* blocks stay readable after retraining).  The one exception is content that itself is a
\* compressed stream and was stored raw.
Readable ==
  \A d \in Db : \A k \in DOMAIN blobs[d] :
    ChunkByKey(d, k) = k \/ (k \in DOMAIN Inside /\ blobs[d][k].flag = "raw")

\* Content comes back as it was stored, whatever it is: flag 0 means raw (docs/vm.md:6).
RawReadable == \A d \in Db : \A k \in DOMAIN blobs[d] : ChunkByKey(d, k) = k
=============================================================================
