------------------------------ MODULE Overlay ------------------------------
(***************************************************************************)
(* A writable Delta over a read-only Base (overlay.rs): Delta rows shadow  *)
(* Base rows, whiteouts hide Base subtrees, and a Delta file keeps only    *)
(* the chunks written through the overlay, the others being read from the  *)
(* Base file.  An agent run (agent.rs, run_agent_on_overlay) materializes  *)
(* the merged view, lets a command change the tree, and absorbs it.        *)
(*                                                                         *)
(* The Delta is an image of VmImage; the snapshot of a run is the value    *)
(* the Delta had, and is deleted when the run ends, as is the one taken    *)
(* after it.  Abstractions: modes, times and symlinks are left out, no     *)
(* path name holds a LIKE wildcard, the root is never removed, sizes are   *)
(* counted in chunks, the Base does not change, and the step lock admits   *)
(* one run.                                                                *)
(***************************************************************************)
EXTENDS VmImage

LOCAL INSTANCE FiniteSetsExt

CONSTANTS
  Anc,       \* per path, its proper ancestors below the root
  Bodies,    \* bound: per path, the contents written there as a whole
  Wide,      \* bound: the paths written and truncated by ranges
  Rollback,  \* the values rollback_on_fail and a failed command give a run
  ReadOnly,  \* paths a readonly_prefix rule of the Base covers
  MaxFile,   \* the Base's max_file_size
  Quota      \* the Base's disk_quota

NodeOf(k, f) == [kind |-> k, data |-> f]

NoNode == NodeOf("none", EmptyFile)
Nodes(p) == {NoNode, NodeOf("dir", EmptyFile)} \cup {NodeOf("file", f) : f \in Bodies[p]}

\* vm_fs ties no row to that of its parent.
Tables == {t \in [Path -> UNION {Nodes(p) : p \in Path}] : \A p \in Path : t[p] \in Nodes(p)}

\* On the host, only a directory has entries.
Trees == {t \in Tables : \A p \in Path : t[p].kind # "none" => \A a \in Anc[p] : t[a].kind = "dir"}

ASSUME OverlayAssumption ==
  /\ Anc \in [Path -> SUBSET Path]
  /\ \A p \in Path : p \notin Anc[p] /\ \A a \in Anc[p] : Anc[a] \subseteq Anc[p]
  /\ Bodies \in [Path -> SUBSET Pieces] /\ Wide \subseteq Path
  /\ Rollback \subseteq BOOLEAN /\ ReadOnly \subseteq Path
  /\ MaxFile \in Nat /\ Quota \in Nat

VARIABLES
  base,    \* the Base's rows and contents
  delta,   \* the Delta's database
  white,   \* vm_whiteouts
  pc,      \* where the agent run is
  tree,    \* its tree on the host
  todo,    \* the paths absorb_tree has left
  before,  \* the Delta when the run began
  buried,  \* history: Delta rows a rollback put back under a whiteout
  respun   \* history: a range held a piece again that it had rewritten in place

vars == <<base, delta, white, pc, tree, todo, before, buried, respun>>

-----------------------------------------------------------------------------
(* Lookups. *)

Below(p) == {q \in Path : p \in Anc[q]}

InBase(p)  == base[p].kind # "none"
InDelta(p) == LiveKind(delta, p) # "none"

\* A whiteout on p or on an ancestor hides p.
WhitedOut(w, p) == p \in w \/ Anc[p] \cap w # {}

Locate(p) == IF WhitedOut(white, p) THEN "missing"
             ELSE IF InDelta(p) THEN "delta" ELSE IF InBase(p) THEN "base" ELSE "missing"

\* The schema a regular file is read from; a Delta row is taken for visible.
LookupFile(w, p) ==
  IF InDelta(p) THEN IF LiveKind(delta, p) = "file" THEN "main" ELSE "none"
  ELSE IF base[p].kind = "file" /\ ~WhitedOut(w, p) THEN "base" ELSE "none"

Length(f) == Cardinality(DOMAIN f)

FileSize(w, p) ==
  LET l == LookupFile(w, p)
  IN  IF l = "main" THEN LiveSize(delta, p) ELSE IF l = "base" THEN Length(base[p].data) ELSE 0

\* One chunk of a Delta file, from Base where the Delta has none.
LayeredChunk(d, p, i) ==
  IF d.chunk[<<Live, p, i>>] # NoPiece THEN d.chunk[<<Live, p, i>>]
  ELSE IF i \in DOMAIN base[p].data THEN base[p].data[i] ELSE NoPiece

Stored(d, p, i) == d.chunk[<<Live, p, i>>] \in d.blobs \cup {NoPiece}

LayeredFile(d, p) == [i \in 0 .. (LiveSize(d, p) - 1) |-> LayeredChunk(d, p, i)]

\* What stat, list and read_range show at p; read itself refuses some of the files
\* a range has changed (ReadOk).
View(p) ==
  LET l == Locate(p)
  IN  IF l = "base" THEN base[p]
      ELSE IF l = "missing" THEN NoNode
      ELSE IF LiveKind(delta, p) = "file" THEN NodeOf("file", LayeredFile(delta, p))
      ELSE NodeOf(LiveKind(delta, p), EmptyFile)

Children(p) == {q \in Below(p) : Anc[q] = Anc[p] \cup {p}}

\* Mutant: only the directory's own whiteouts hide Base names.
ListShallow(p) ==
  {q \in Children(p) : InDelta(q) \/ (InBase(q) /\ ~WhitedOut(white, p))}

\* The entries of a directory: every Delta name, and the Base names unless the
\* directory, an ancestor or the name itself has a whiteout.
List(p) ==
  {q \in Children(p) : InDelta(q) \/ (InBase(q) /\ ~WhitedOut(white, p) /\ q \notin white)}

Held(p) == {i \in Idx : delta.chunk[<<Live, p, i>>] # NoPiece}

\* A chunk list without gaps is taken for the whole file.
Dense(p) == \E n \in 0 .. MaxChunks : Held(p) = 0 .. (n - 1)

\* read of a file the view shows.
ReadOk(p) ==
  CASE LookupFile(white, p) = "base" -> TRUE
    [] LookupFile(white, p) = "none" -> FALSE
    [] Dense(p) -> Held(p) = 0 .. (LiveSize(delta, p) - 1) /\ \A i \in Held(p) : Stored(delta, p, i)
    [] OTHER -> \A i \in 0 .. (LiveSize(delta, p) - 1) :
                  LayeredChunk(delta, p, i) # NoPiece /\ Stored(delta, p, i)

-----------------------------------------------------------------------------
(* The Base's policies. *)

\* Every Base file, also a hidden one, and the Delta files at paths Base does not have.
ViewFileBytes ==
  MapThenSumSet(LAMBDA p : IF InBase(p) THEN Length(base[p].data)
                           ELSE IF LiveKind(delta, p) = "file" THEN LiveSize(delta, p) ELSE 0, Path)

CheckBasePolicy(p) == p \notin ReadOnly /\ ViewFileBytes <= Quota

\* `after` bytes at p, of which `held` are counted.
CheckBaseQuota(after, held) == ViewFileBytes + after <= Quota + held

-----------------------------------------------------------------------------
(* Writes, each one transaction. *)

\* Mutant: the Base paths an ancestor's whiteout hid are not whited out themselves.
ClearWhiteoutsRevive(p) == white \ ({p} \cup Anc[p])

\* Mutant: the whiteouts of p's ancestors stay.
ClearWhiteoutsSelf(p) == white \ {p}

\* Make p visible: the Base paths that only a whiteout of p or of an ancestor hid
\* get one of their own, except p, its ancestors and, under an ancestor's
\* whiteout, the paths below p.
ClearWhiteoutsFor(p) ==
  LET hiders == Anc[p] \cap white
      beside == {q \in Path : InBase(q) /\ Anc[q] \cap hiders # {}} \ ({p} \cup Anc[p] \cup Below(p))
      below  == IF p \in white THEN {q \in Below(p) : InBase(q)} ELSE {}
  IN  (white \cup beside \cup below) \ ({p} \cup Anc[p])

\* Delta gets a directory row for every ancestor it has no row for.
EnsureParentDirs(d, p) ==
  [d EXCEPT !.row = [k \in Owner \X Path |->
     IF k[1] = Live /\ k[2] \in Anc[p] /\ LiveKind(d, k[2]) = "none"
     THEN [kind |-> "dir", size |-> 0, hash |-> NoHash] ELSE @[k]]]

Write(p, f) ==
  /\ CheckBasePolicy(p)
  /\ Length(f) <= MaxFile
  /\ CheckBaseQuota(Length(f), LiveSize(delta, p))
  /\ white' = ClearWhiteoutsFor(p)
  /\ delta' = FsPutFile(EnsureParentDirs(delta, p), p, f)

Mkdir(p) ==
  /\ CheckBasePolicy(p)
  /\ white' = ClearWhiteoutsFor(p)
  /\ delta' = FsPutNode(EnsureParentDirs(delta, p), p, "dir")

\* Mutant: only a path that Base has itself gets a whiteout.
RemoveShallow(p) ==
  /\ CheckBasePolicy(p)
  /\ delta' = DeleteRows(delta, {p} \cup Below(p))
  /\ white' = IF InBase(p) THEN white \cup {p} ELSE white

\* The Delta subtree goes, and a whiteout hides what Base has at or below p.
Remove(p) ==
  /\ CheckBasePolicy(p)
  /\ delta' = DeleteRows(delta, {p} \cup Below(p))
  /\ white' = IF \E q \in {p} \cup Below(p) : InBase(q) THEN white \cup {p} ELSE white

\* Mutant: the row is deleted and inserted, and its chunks go with it.
EnsureDeltaFileRowAgain(d, p, n) ==
  SetRow(DeleteRows(d, {p}), p, [kind |-> "file", size |-> n, hash |-> NoHash])

EnsureDeltaFileRow(d, p, n) ==
  IF LiveKind(d, p) # "none" THEN [d EXCEPT !.row[<<Live, p>>].size = n]
  ELSE SetRow(d, p, [kind |-> "file", size |-> n, hash |-> NoHash])

\* Chunk i is pointed at b: its row is deleted and inserted, also when it is unchanged.
PutOne(d, p, i, b) ==
  InsertChunks(DeleteChunks(BlobEnsure(d, {b}), {<<Live, p, i>>}), [k \in {<<Live, p, i>>} |-> b])

First(g) == CHOOSE i \in DOMAIN g : \A j \in DOMAIN g : i <= j

\* The chunks of g, in turn.
PutChunks(d, p, g) ==
  LET put[n \in 0 .. Length(g)] ==
        IF n = 0 THEN d ELSE PutOne(put[n - 1], p, First(g) + n - 1, g[First(g) + n - 1])
  IN  put[Length(g)]

\* Mutant: the hash is taken without reading the chunks back.
RefreshableAlways(d, p) == TRUE

\* refresh_delta_file reads every chunk: one without its blob fails the write.
Refreshable(d, p) == \A i \in 0 .. (LiveSize(d, p) - 1) : Stored(d, p, i)

RefreshDeltaFile(d, p) == [d EXCEPT !.row[<<Live, p>>].hash = Sha(LayeredFile(d, p))]

\* The chunks of g are rewritten in a file of `old` chunks, which gets n of them;
\* the chunk rows `cut` go.
Rewrite(p, old, n, g, cut) ==
  LET d == DeleteChunks(PutChunks(EnsureDeltaFileRow(delta, p, n), p, g), cut)
  IN  /\ \A i \in DOMAIN g : i < old => Stored(delta, p, i)
      /\ Refreshable(d, p)
      /\ delta' = RefreshDeltaFile(d, p)

\* The file is looked up again once its whiteouts are gone.
WriteRange(p, g) ==
  LET shown == FileSize(white, p)
      old   == FileSize(ClearWhiteoutsFor(p), p)
      end   == 1 + CHOOSE i \in DOMAIN g : \A j \in DOMAIN g : i >= j
      Grown(n) == IF n < end THEN end ELSE n
  IN  /\ DOMAIN g # {} /\ \E i \in DOMAIN g : i <= old
      /\ CheckBasePolicy(p)
      /\ Grown(shown) <= MaxFile
      /\ CheckBaseQuota(Grown(shown), LiveSize(delta, p))
      /\ white' = ClearWhiteoutsFor(p)
      /\ Rewrite(p, old, Grown(old), g, {})

\* At most the old or the new last chunk changes when the file shrinks, and the
\* chunks from the old end on when it grows; an unchanged size only clears whiteouts.
TruncateRange(p, n, g) ==
  LET old == FileSize(ClearWhiteoutsFor(p), p)
      Low(m) == IF m < old THEN m ELSE old
  IN  /\ CheckBasePolicy(p)
      /\ LookupFile(ClearWhiteoutsFor(p), p) # "none"
      /\ \E from \in {Low(n), Low(n) - 1} : DOMAIN g = from .. (n - 1)
      /\ white' = ClearWhiteoutsFor(p)
      /\ IF n = old /\ DOMAIN g = {} THEN delta' = delta ELSE Rewrite(p, old, n, g, Beyond(p, n))

Ranges == UNION {[i .. (j - 1) -> Piece] : i, j \in 0 .. MaxChunks}

-----------------------------------------------------------------------------
(* An agent run. *)

NoTree == [p \in Path |-> NoNode]

BaseShown(p) == InBase(p) /\ ~WhitedOut(white, p)

\* What materialize puts at p: Base rows that no whiteout hides, then Delta rows.
EntryKind(p) == IF InDelta(p) THEN LiveKind(delta, p) ELSE IF BaseShown(p) THEN base[p].kind ELSE "none"

\* It reads every file, Base rows at paths the Delta has too included, and cannot
\* put a file where a directory is or an entry below a file.
MaterializeOk ==
  \A p \in Path :
    /\ BaseShown(p) /\ base[p].kind = "file" => ReadOk(p)
    /\ LiveKind(delta, p) = "file" => ReadOk(p) /\ ~(BaseShown(p) /\ base[p].kind = "dir")
    /\ EntryKind(p) # "none" => \A a \in Anc[p] : EntryKind(a) # "file"

\* The run snapshots the Delta, materializes the view, and its command leaves some tree.
Start ==
  /\ pc = "idle"
  /\ MaterializeOk
  /\ tree' \in Trees
  /\ todo' = {p \in Path : tree'[p].kind # "none"}
  /\ before' = delta
  /\ pc' = "absorb"
  /\ UNCHANGED <<base, delta, white>>

\* A change of one chunk of several is written as a range.
WriteSmallest(p, disk, now) ==
  LET changed == {i \in DOMAIN disk : disk[i] # now[i]}
  IN  IF Length(disk) = Length(now) /\ Length(disk) > 1 /\ Cardinality(changed) = 1
      THEN WriteRange(p, [i \in changed |-> disk[i]])
      ELSE Write(p, disk)

\* One entry of the walk, parents first; what the view shows already is skipped.
AbsorbEntry(p) ==
  /\ pc = "absorb" /\ p \in todo /\ Anc[p] \cap todo = {}
  /\ LET now == View(p)
         new == tree[p]
     IN  /\ now.kind = "file" /\ new.kind = "file" => ReadOk(p)
         /\ IF now = new THEN UNCHANGED <<delta, white>>
            ELSE IF new.kind = "dir" THEN Mkdir(p)
            ELSE IF now.kind = "file" THEN WriteSmallest(p, new.data, now.data)
            ELSE Write(p, new.data)
  /\ todo' = todo \ {p}
  /\ UNCHANGED <<base, pc, tree, before>>

\* Mutant: Delta rows the tree no longer has are kept.
GoneBaseOnly == {p \in Path : BaseShown(p) /\ tree[p].kind = "none"}

\* Rows of the view that the tree no longer has.
GonePaths == {p \in Path : (InDelta(p) \/ BaseShown(p)) /\ tree[p].kind = "none"}

AbsorbWalked ==
  /\ pc = "absorb" /\ todo = {}
  /\ todo' = GonePaths
  /\ pc' = "gone"
  /\ UNCHANGED <<base, delta, white, tree, before>>

AbsorbGone(p) ==
  /\ pc = "gone" /\ p \in todo
  /\ Remove(p)
  /\ todo' = todo \ {p}
  /\ UNCHANGED <<base, pc, tree, before>>

Absorbed ==
  /\ pc = "gone" /\ todo = {}
  /\ pc' = "done"
  /\ UNCHANGED <<base, delta, white, tree, todo, before>>

RunOver ==
  /\ pc' = "idle" /\ tree' = NoTree /\ todo' = {} /\ before' = EmptyImage

\* finish_run restores the snapshot of a failed run that asked for it; vm_whiteouts
\* is in no snapshot.
Finish(rollback) ==
  /\ pc = "done"
  /\ delta' = IF rollback THEN before ELSE delta
  /\ RunOver
  /\ UNCHANGED <<base, white>>

\* A write of the absorb fails (policy, quota, an unreadable file) or the process
\* dies: the writes before it stay.
Abandon ==
  /\ pc # "idle"
  /\ RunOver
  /\ UNCHANGED <<base, delta, white>>

-----------------------------------------------------------------------------

Init ==
  /\ base \in Tables
  /\ delta = EmptyImage
  /\ white = {}
  /\ pc = "idle"
  /\ tree = NoTree
  /\ todo = {}
  /\ before = EmptyImage
  /\ buried = {}
  /\ respun = FALSE

\* A caller of the library between runs.
Call(A) == pc = "idle" /\ A /\ UNCHANGED <<base, pc, tree, todo, before>>

\* Chunk i of p is rewritten with the piece it has, and chunk j gets that piece too.
Respins(p, g) ==
  \E i, j \in DOMAIN g : i < j /\ g[i] = g[j] /\ delta.chunk[<<Live, p, i>>] = g[i]

RangeCall ==
  \E p \in Wide, g \in Ranges :
    /\ \/ Call(WriteRange(p, g))
       \/ \E n \in 0 .. MaxChunks : Call(TruncateRange(p, n, g))
    /\ respun' = (respun \/ Respins(p, g))

WholeCall ==
  \/ \E p \in Path : \E f \in Bodies[p] : Call(Write(p, f))
  \/ \E p \in Path : Call(Mkdir(p)) \/ Call(Remove(p))

Run ==
  \/ Start
  \/ \E p \in Path : AbsorbEntry(p) \/ AbsorbGone(p)
  \/ AbsorbWalked \/ Absorbed \/ Abandon

Hidden == {p \in Path : InDelta(p) /\ WhitedOut(white, p)}

Next ==
  \/ RangeCall /\ buried' = buried \cap Hidden'
  \/ (WholeCall \/ Run) /\ buried' = buried \cap Hidden' /\ UNCHANGED respun
  \/ \E rollback \in Rollback :
       /\ Finish(rollback)
       /\ buried' = IF rollback THEN Hidden' ELSE buried
       /\ UNCHANGED respun

Spec == Init /\ [][Next]_vars

-----------------------------------------------------------------------------
(* Properties. *)

\* The Delta has the tables of a VM database, and the run's locals are what
\* agent.rs and absorb_tree can put there.
TypeOK ==
  /\ base \in Tables /\ tree \in Trees
  /\ delta \in Image /\ before \in Image
  /\ white \subseteq Path /\ todo \subseteq Path
  /\ pc \in {"idle", "absorb", "gone", "done"}
  /\ buried \subseteq Path /\ respun \in BOOLEAN

\* write_range and truncate_range rewrite a chunk without put_chunk's guard, and still
\* the Delta's blobs are counted exactly: the write that loses a blob fails, unless a
\* later chunk of the same range brings the blob back with too low a count.
DeltaRefsExact == ~respun => RefsExact(delta)

\* Every Delta file can be put together from its own chunks and the Base's, and its
\* hash is that of the content it shows.
LayersWhole ==
  \A p \in Path : LiveKind(delta, p) = "file" =>
    /\ \A i \in 0 .. (LiveSize(delta, p) - 1) : LayeredChunk(delta, p, i) # NoPiece
    /\ delta.row[<<Live, p>>].hash = Sha(LayeredFile(delta, p))

\* A run that absorbed its tree leaves a view that shows that tree, whatever the
\* Delta, the Base and the whiteouts were.
AbsorbExact == pc = "done" => \A p \in Path : View(p) = tree[p]

\* The Base paths below p that clear_whiteouts_for lets reappear (keep_prefix) when a
\* whiteout of an ancestor of p hid them.
Revived(p) == {q \in Below(p) : InBase(q) /\ p \notin white /\ Anc[p] \cap white # {}}

\* After a step the view shows n at p and is as before elsewhere, except that an
\* ancestor may have become a directory, that Revived paths may show, and rows that a
\* rollback buried.
ChangedOnly(p, n) ==
  /\ View(p)' = n
  /\ \A q \in Path \ ({p} \cup Revived(p) \cup buried) :
       View(q)' = View(q) \/ (q \in Anc[p] /\ View(q)'.kind = "dir")

Overwritten(f, g) == [i \in DOMAIN f \cup DOMAIN g |-> IF i \in DOMAIN g THEN g[i] ELSE f[i]]

\* write, mkdir and, on a file the view shows, write_range change the view exactly as
\* asked for: clearing the whiteouts that hid p revives no removed path beside it, nor
\* below it when p was removed itself, and the chunks a range does not touch come
\* from the layer that had them.
WriteExact ==
  [][pc = "idle" /\ pc' = "idle" => \A p \in Path :
       /\ \A f \in Bodies[p] : Write(p, f) => ChangedOnly(p, NodeOf("file", f))
       /\ Mkdir(p) => ChangedOnly(p, NodeOf("dir", EmptyFile))
       /\ p \in Wide /\ View(p).kind = "file" => \A g \in Ranges :
            WriteRange(p, g) => ChangedOnly(p, NodeOf("file", Overwritten(View(p).data, g)))]_<<delta, white>>

\* remove takes p and all below it out of the view, in both layers, and nothing else.
RemoveExact ==
  [][pc = "idle" /\ pc' = "idle" => \A p \in Path : Remove(p) =>
       \A q \in Path : View(q)' = IF q \in {p} \cup Below(p) THEN NoNode ELSE View(q)]_<<delta, white>>

\* lookup_file and list assume that no whiteout hides a Delta row.  Only a rollback
\* leaves one hidden, since vm_whiteouts is in no snapshot.
DeltaVisible == Hidden \subseteq buried

\* A directory lists exactly the names the view shows below it, and the rows a
\* rollback buried.
ListExact ==
  \A p \in Path : View(p).kind = "dir" =>
    List(p) = {q \in Children(p) : View(q).kind # "none" \/ q \in buried}

\* A file the view shows can be read: a Delta file whose chunks are a prefix of the
\* file is not mistaken for one that has all its chunks.
ReadWhole == \A p \in Path : View(p).kind = "file" => ReadOk(p)

=============================================================================
