------------------------------ MODULE Migrate ------------------------------
(***************************************************************************)
(* Opening a VM database of an older schema (vm_open, vm_migrate): a       *)
(* process reads user_version once and runs the remaining steps, one       *)
(* transaction each, that end by setting user_version.  Processes die      *)
(* between steps, and write files once they have the database open.        *)
(* Nothing keeps two of them from migrating at once: one that is overtaken *)
(* runs its own next step on the database the other has left.              *)
(*                                                                         *)
(* Abstractions: a blob is named by its bytes, so that a key keeps its     *)
(* name when 3 -> 4 rekeys it and only `sha` tells the two forms apart;    *)
(* vm_meta's blob_bytes counts blobs; rows without content, and with them  *)
(* the counters of rows and of logical bytes, are left out.                *)
(***************************************************************************)
EXTENDS Naturals, FiniteSets, Sequences

CONSTANTS
  File,     \* paths
  Piece,    \* contents of one chunk
  Opener,   \* processes that open the database
  NoHash    \* no row, or vm_fs.hash NULL

Current == 13   \* VM_USER_VERSION

\* Files a writer of today stores: chunk lists, each chunk a byte string.
ChunkList == {<<>>} \cup {<<<<x>>>> : x \in Piece} \cup {<<<<x>>, <<y>>>> : x, y \in Piece}

\* A file of schema 1 to 4 is one blob, whatever its length.
Bytes == {<<>>} \cup {<<x>> : x \in Piece} \cup {<<x, y>> : x, y \in Piece}

ASSUME MigrateAssumption ==
  /\ IsFiniteSet(File) /\ IsFiniteSet(Piece)
  /\ NoHash \notin Bytes

\* Objects steps 6 -> 7 to 12 -> 13 add, in their order.
Addition == <<"mtime_ns", "snapshots", "agent_steps", "truncated", "policies", "dirty", "undo">>

BlobRow == [refs : Nat, flag : {0, 3}, dict : {0, 1}]

VARIABLES
  db,    \* the committed database
  size,  \* vm_fs.size by file, 0 without a row; no step changes it
  pc,    \* per process: closed, migrating or open
  ver,   \* per process: the local `ver` of vm_migrate
  want,  \* history: the bytes each file has to have, NoHash when it had none
  stale  \* history: an overtaken process has run a step that rewrites tables

migrateVars == <<db, size, pc, ver, want, stale>>

-----------------------------------------------------------------------------
(* The database and its triggers. *)

Flat(cs) == IF cs = <<>> THEN <<>> ELSE IF Len(cs) = 1 THEN cs[1] ELSE cs[1] \o cs[2]

Stored(d) == DOMAIN d.blobs

\* The bytes a reader of the database's own schema gets, or NoHash.
Decodes(d, k) ==
  /\ k \in Stored(d)
  /\ d.blobs[k].flag = 3 => IF d.dictcol THEN d.blobs[k].dict \in d.dicts ELSE d.olddict

Read(d, f) ==
  IF d.hash[f] = NoHash THEN NoHash
  ELSE IF d.chunked
       THEN IF \A i \in DOMAIN d.chunks[f] : Decodes(d, d.chunks[f][i]) THEN Flat(d.chunks[f]) ELSE NoHash
       ELSE IF Decodes(d, d.hash[f]) THEN d.hash[f] ELSE NoHash

HashRefs(d, k)  == Cardinality({f \in File : d.hash[f] = k})
ChunkRefs(d, k) ==
  Cardinality({p \in File \X {1, 2} : p[2] \in DOMAIN d.chunks[p[1]] /\ d.chunks[p[1]][p[2]] = k})

\* Keeps the blobs K; the counter trigger follows each deletion.
KeepBlobs(d, K) ==
  [d EXCEPT !.blobs = [k \in K |-> d.blobs[k]],
            !.count = IF "counters" \in d.triggers THEN @ + Cardinality(K) - Cardinality(Stored(d)) ELSE @]

\* UPDATE vm_blobs SET refcnt = (SELECT count(*) ...); DELETE ... WHERE refcnt = 0.
Recount(d, N) ==
  LET counted == [d EXCEPT !.blobs = [k \in Stored(d) |-> [d.blobs[k] EXCEPT !.refs = N[k]]]]
  IN  KeepBlobs(counted, {k \in Stored(d) : N[k] > 0})

\* refcnt + n on the blob rows of a bag of keys.
Raise(d, N) == [d EXCEPT !.blobs = [k \in Stored(d) |-> [d.blobs[k] EXCEPT !.refs = @ + N[k]]]]

\* refcnt - n, and the row dropped at zero.
Lower(d, N) ==
  LET left == {k \in Stored(d) : N[k] = 0 \/ d.blobs[k].refs > N[k]}
      kept == KeepBlobs(d, left)
  IN  [kept EXCEPT !.blobs = [k \in left |-> [d.blobs[k] EXCEPT !.refs = @ - N[k]]]]

Occurs(cs) == [k \in Bytes |-> Cardinality({i \in DOMAIN cs : cs[i] = k})]

\* blob_ensure: a new row starts without references.
BlobEnsure(d, K) ==
  LET new == K \ Stored(d)
  IN  [d EXCEPT !.blobs = [k \in K \cup Stored(d) |->
                             IF k \in new THEN [refs |-> 0, flag |-> 0, dict |-> 0] ELSE d.blobs[k]],
                !.count = IF "counters" \in d.triggers THEN @ + Cardinality(new) ELSE @]

\* UPDATE OF hash on vm_fs, with the schema-2 triggers where they exist.
SetHash(d, f, h) ==
  LET moved == "hashes" \in d.triggers /\ d.hash[f] # h
      less  == IF moved /\ d.hash[f] # NoHash THEN Lower(d, Occurs(<<d.hash[f]>>)) ELSE d
      more  == IF moved /\ h # NoHash THEN Raise(less, Occurs(<<h>>)) ELSE less
  IN  [more EXCEPT !.hash[f] = h]

\* chunks_replace and the row's upsert, or, for NoHash, DELETE FROM vm_fs.
Store(d, f, cs, h) ==
  LET counted == "chunks" \in d.triggers
      gone == IF counted THEN Lower(d, Occurs(d.chunks[f])) ELSE d
      here == BlobEnsure(gone, {cs[i] : i \in DOMAIN cs})
      full == IF counted THEN Raise(here, Occurs(cs)) ELSE here
  IN  SetHash([full EXCEPT !.chunks[f] = cs], f, h)

-----------------------------------------------------------------------------
(* The steps. *)

Migrate_1_to_2(d) ==
  LET refs == [k \in Stored(d) |-> HashRefs(d, k)]
  IN  [Recount(d, refs) EXCEPT !.triggers = @ \cup {"hashes"}]

Migrate_2_to_3(d) ==
  [d EXCEPT !.count = Cardinality(Stored(d)), !.triggers = @ \cup {"counters"}]

\* Rekeys every blob; a hash without a blob becomes NULL.
Migrate_3_to_4(d) ==
  LET mapped == [f \in File |-> IF d.hash[f] \in Stored(d) THEN d.hash[f] ELSE NoHash]
      moved  == [d EXCEPT !.hash = mapped, !.sha = TRUE, !.triggers = @ \ {"hashes", "counters"}]
      refs   == [k \in Stored(d) |-> HashRefs(moved, k)]
      done   == Recount(moved, refs)
  IN  [done EXCEPT !.count = Cardinality(Stored(done)), !.triggers = @ \cup {"counters"}]

\* Mutant: the chunk table gets no triggers.
Migrate_4_to_5_uncounted(d) ==
  [d EXCEPT !.chunked  = TRUE,
            !.chunks   = [f \in File |-> IF d.hash[f] # NoHash THEN <<d.hash[f]>> ELSE d.chunks[f]],
            !.triggers = @ \ {"hashes"}]

\* Every file becomes a list of one chunk.
Migrate_4_to_5(d) ==
  LET split == [d EXCEPT !.chunked  = TRUE,
                         !.chunks   = [f \in File |-> IF d.hash[f] # NoHash THEN <<d.hash[f]>> ELSE d.chunks[f]],
                         !.triggers = @ \ {"hashes"}]
      refs  == [k \in Stored(d) |-> ChunkRefs(split, k)]
  IN  [Recount(split, refs) EXCEPT !.triggers = @ \cup {"chunks"}]

\* Mutant: the column is added, the blobs that need it are not updated.
Migrate_5_to_6_untagged(d) ==
  [d EXCEPT !.dicts = IF d.olddict THEN @ \cup {1} ELSE @, !.dictcol = TRUE]

\* The one dictionary becomes vm_dicts row 1; every flag-3 blob was written with it.
Migrate_5_to_6(d) ==
  [d EXCEPT !.dicts   = IF d.olddict THEN @ \cup {1} ELSE @,
            !.dictcol = TRUE,
            !.blobs   = [k \in Stored(d) |-> IF d.blobs[k].flag = 3 /\ d.blobs[k].dict = 0
                                             THEN [d.blobs[k] EXCEPT !.dict = 1] ELSE d.blobs[k]]]

\* 6 -> 7 to 12 -> 13: what exists is left alone.
Migrate_add(d, v) == [d EXCEPT !.has = @ \cup {Addition[v - 5]}]

\* 3 -> 4 decodes every blob without the database, and a flag-3 blob cannot be.
Undecodable(d, v) == v = 3 /\ \E k \in Stored(d) : d.blobs[k].flag = 3

\* Step v fails: 3 -> 4 also reads each key as text, 4 -> 5 and 5 -> 6 insert rows that may
\* be there.
Fails(d, v) ==
  \/ Undecodable(d, v)
  \/ v = 3 /\ d.sha /\ Stored(d) # {}
  \/ v = 4 /\ \E f \in File : d.hash[f] # NoHash /\ d.chunks[f] # <<>>
  \/ v = 5 /\ d.olddict /\ 1 \in d.dicts

StepBody(d, v) ==
  CASE v = 1 -> Migrate_1_to_2(d)
    [] v = 2 -> Migrate_2_to_3(d)
    [] v = 3 -> Migrate_3_to_4(d)
    [] v = 4 -> Migrate_4_to_5(d)
    [] v = 5 -> Migrate_5_to_6(d)
    [] OTHER -> Migrate_add(d, v)

\* Mutant: user_version is written once, after the last step.
TransactionLate(d, v) == [StepBody(d, v) EXCEPT !.uv = IF v + 1 = Current THEN Current ELSE @]

\* One transaction of vm_migrate.
Transaction(d, v) == [StepBody(d, v) EXCEPT !.uv = v + 1]

-----------------------------------------------------------------------------
(* Databases found on disk. *)

Objects == {Addition[i] : i \in DOMAIN Addition}

EmptyDb ==
  [uv |-> 0, hash |-> [f \in File |-> NoHash], chunks |-> [f \in File |-> <<>>],
   blobs |-> <<>>, count |-> 0, triggers |-> {}, sha |-> FALSE, chunked |-> FALSE,
   olddict |-> FALSE, dicts |-> {}, dictcol |-> FALSE, has |-> {}]

\* vm_schema_sql: what a new database has.
Fresh ==
  [EmptyDb EXCEPT !.uv = Current, !.triggers = {"chunks", "counters"}, !.sha = TRUE,
                  !.chunked = TRUE, !.dictcol = TRUE, !.has = Objects]

\* Schema 1: counts kept by hand, which may be wrong; blobs and hashes without
\* their counterpart; the blobs Z written with the dictionary.
Legacy1(h, K, Z, n) ==
  [EmptyDb EXCEPT !.uv = 1, !.hash = h, !.olddict = (Z # {}),
                  !.blobs = [k \in K |-> [refs |-> n, flag |-> IF k \in Z THEN 3 ELSE 0, dict |-> 0]]]

\* Schema 5: chunk lists with exact counts, some blobs written with the dictionary.
Legacy5(cs, Z) ==
  LET held    == UNION {{cs[f][i] : i \in DOMAIN cs[f]} : f \in File}
      Refs(k) == ChunkRefs([EmptyDb EXCEPT !.chunks = cs], k)
  IN  [EmptyDb EXCEPT !.uv = 5, !.sha = TRUE, !.chunked = TRUE, !.chunks = cs,
                      !.hash = [f \in File |-> Flat(cs[f])],
                      !.blobs = [k \in held |-> [refs |-> Refs(k), flag |-> IF k \in Z THEN 3 ELSE 0, dict |-> 0]],
                      !.count = Cardinality(held), !.triggers = {"chunks", "counters"},
                      !.olddict = (Z # {})]

\* Blobs that a dictionary was used for.
Small == {<<x>> : x \in Piece}

MigrateInit ==
  /\ \/ db = Fresh
     \/ \E h \in [File -> Bytes \cup {NoHash}], K \in SUBSET Bytes, n \in {0, 1}, v \in {0, 1} :
          \E Z \in SUBSET (K \cap Small) : db = [Legacy1(h, K, Z, n) EXCEPT !.uv = v]
     \/ \E cs \in [File -> ChunkList], Z \in SUBSET Small : db = Legacy5(cs, Z)
  /\ size = [f \in File |-> IF db.hash[f] = NoHash THEN 0 ELSE Len(db.hash[f])]
  /\ pc = [o \in Opener |-> "closed"]
  /\ ver = [o \in Opener |-> 0]
  /\ want = [f \in File |-> Read(db, f)]
  /\ stale = FALSE

-----------------------------------------------------------------------------
(* Processes. *)

\* vm_migrate takes version 0 for 1.
From(u) == IF u = 0 THEN 1 ELSE u

\* Since o read user_version another process has gone further, and o's next step is one
\* of the five that rewrite tables; the later ones only add what is missing.
Overtaken(o) == ver[o] <= 5 /\ ver[o] < From(db.uv)

\* Mutant: the loop stops one version early.
FinishedEarly(v) == v + 1 >= Current

Finished(v) == v >= Current

Go(o, to) == pc' = [pc EXCEPT ![o] = to]

\* vm_open up to vm_migrate's loop: the only read of user_version.
Open(o) ==
  LET v == From(db.uv)
  IN  /\ pc[o] = "closed"
      /\ Go(o, IF Finished(v) THEN "open" ELSE "migrating")
      /\ ver' = [ver EXCEPT ![o] = v]
      /\ UNCHANGED <<db, size, want, stale>>

Step(o) ==
  /\ pc[o] = "migrating"
  /\ ~Fails(db, ver[o])
  /\ db' = Transaction(db, ver[o])
  /\ ver' = [ver EXCEPT ![o] = @ + 1]
  /\ Go(o, IF Finished(ver[o] + 1) THEN "open" ELSE "migrating")
  /\ stale' = (stale \/ Overtaken(o))
  /\ UNCHANGED <<size, want>>

\* A step that fails is rolled back and ends the open: its SQL fails, the disk is full, or
\* another connection keeps the write lock past busy_timeout.
StepFails(o) ==
  /\ pc[o] = "migrating"
  /\ Go(o, "closed")
  /\ UNCHANGED <<db, size, ver, want, stale>>

\* The process ends: between two steps, or with the database open.
Exit(o) ==
  /\ pc[o] \in {"migrating", "open"}
  /\ Go(o, "closed")
  /\ UNCHANGED <<db, size, ver, want, stale>>

\* A write of today's program to the database it has open.
Write(o, f, cs) ==
  /\ pc[o] = "open"
  /\ db' = Store(db, f, cs, Flat(cs))
  /\ size' = [size EXCEPT ![f] = Len(Flat(cs))]
  /\ want' = [want EXCEPT ![f] = Flat(cs)]
  /\ UNCHANGED <<pc, ver, stale>>

Remove(o, f) ==
  /\ pc[o] = "open"
  /\ db' = Store(db, f, <<>>, NoHash)
  /\ size' = [size EXCEPT ![f] = 0]
  /\ want' = [want EXCEPT ![f] = NoHash]
  /\ UNCHANGED <<pc, ver, stale>>

MigrateNext ==
  \E o \in Opener :
    \/ Open(o) \/ Step(o) \/ StepFails(o) \/ Exit(o)
    \/ \E f \in File : Remove(o, f) \/ \E cs \in ChunkList : Write(o, f, cs)

MigrateSpec == MigrateInit /\ [][MigrateNext]_migrateVars

-----------------------------------------------------------------------------
(* Properties. *)

\* A file that could be read when the database was found can be read, with the same
\* bytes, after every step, in every state a process dies in, and after later writes
\* to other files (schema.rs:51, "a crash leaves the DB at the last good version"), also
\* when several processes migrate, until one of steps 1 to 5 is run by an overtaken one.
ContentKept == ~stale => \A f \in File : want[f] # NoHash => Read(db, f) = want[f]

\* vm_verify --deep of a database at the current schema (chunk lists are sequences here, so
\* its search for gaps, maint.rs:235, finds none): every count is the number of
\* chunk rows, every chunk row has its blob, the counters agree (maint.rs:204-220), and a
\* file of some size without chunks (maint.rs:237), which the command reports as drift, is
\* one that could not be read when the database was found.
VerifyDeep ==
  db.uv = Current /\ ~stale =>
    /\ \A k \in Stored(db) : db.blobs[k].refs = ChunkRefs(db, k)
    /\ \A f \in File : \A i \in DOMAIN db.chunks[f] : db.chunks[f][i] \in Stored(db)
    /\ db.count = Cardinality(Stored(db))
    /\ \A f \in File : size[f] > 0 /\ db.chunks[f] = <<>> => want[f] = NoHash

\* No process meets a database on which its next step fails, however often the migration
\* was interrupted and taken up again, but for a step another process has done already and
\* for 3 -> 4 on a database found with dictionary blobs.
StepsApply ==
  \A o \in Opener : pc[o] = "migrating" /\ ~stale /\ Fails(db, ver[o]) =>
    Overtaken(o) \/ Undecodable(db, ver[o])

\* A process never works on a database that differs from a new one in its tables,
\* triggers or the form of its keys, though another may still be migrating it.
OpenedCurrent ==
  (\E o \in Opener : pc[o] = "open") /\ ~stale =>
    /\ db.triggers = Fresh.triggers
    /\ db.has = Objects
    /\ db.sha /\ db.chunked /\ db.dictcol
=============================================================================
