--------------------------- MODULE VmStoreProofs ---------------------------
(***************************************************************************)
(* Proofs about VmStore for every set of paths, pieces, snapshots, undo    *)
(* records and connections: TypeOK and RefcountExact are invariants, a     *)
(* snapshot never changes and a sync does not move what its undo record    *)
(* leads back to; chunk lists are exact and hashes fresh or marked, except *)
(* where the histories say two connections met on one file.                *)
(***************************************************************************)
EXTENDS VmStore, VmImageProofs

GoalOK ==
  \A c \in Conn : /\ goal[c] = "snapshot" => target[c] \in Snap
                  /\ goal[c] = "sync" => target[c] \in Undo \cup {NoUndo}
                  /\ goal[c] \in {"write", "truncate"} => wr[c].path \in Path

\* The inductive invariant.
StoreInv == Whole(disk) /\ Whole(work) /\ ControlOK /\ HistoryOK /\ GoalOK

-----------------------------------------------------------------------------
(* The specification. *)

\* The initial state: the empty database, and nobody connected.
LEMMA InitStoreInv == Init => StoreInv
<1> SUFFICES ASSUME Init PROVE StoreInv  OBVIOUS
<1>1. Whole(disk) /\ Whole(work)  BY EmptyImageWhole DEF Init
<1>2. ControlOK /\ HistoryOK /\ GoalOK
  BY ImageAssumption, StoreAssumption DEF Init, ControlOK, HistoryOK, GoalOK, NoWrite, NoView, Kind
<1> QED  BY <1>1, <1>2 DEF StoreInv

\* Apply leaves disk alone or commits the same image.
LEMMA ApplyWhole ==
  ASSUME NEW c, NEW img, Whole(disk), Whole(img), Apply(c, img)
  PROVE  Whole(work') /\ Whole(disk')
BY DEF Apply

\* A rollback returns to the committed database.
LEMMA RollbackWhole ==
  ASSUME NEW c, Whole(disk), Whole(work), Rollback(c)
  PROVE  Whole(work') /\ Whole(disk')
BY DEF Rollback

\* Opening, finalizing, closing, crashing and failing keep the store whole.
LEMMA ConnectWhole ==
  ASSUME StoreInv, NEW c \in Conn, Connect(c)
  PROVE  Whole(work') /\ Whole(disk')
<1> USE DEF StoreInv
<1>1. CASE \E m \in {"mount", "tool"} : Open(c, m)  BY <1>1 DEF Open, Start
<1>2. CASE Opened(c)  BY <1>2 DEF Opened
<1>3. CASE \E p \in Path : FinalizeNext(c, p)
  <2>1. PICK p \in Path : Apply(c, FinalizeFile(work, p))  BY <1>3 DEF FinalizeNext
  <2>2. Whole(FinalizeFile(work, p))  BY FinalizeFileWhole
  <2> QED  BY <2>1, <2>2, ApplyWhole
<1>4. CASE Unmount(c)  BY <1>4 DEF Unmount, Start
<1>5. CASE Close(c)  BY <1>5 DEF Close
<1>6. CASE Crash(c)  BY <1>6, RollbackWhole DEF Crash
<1>7. CASE Fail(c)  BY <1>7, RollbackWhole DEF Fail
<1> QED  BY <1>1, <1>2, <1>3, <1>4, <1>5, <1>6, <1>7 DEF Connect

\* Every request of a mount keeps the store whole.
LEMMA MountWhole ==
  ASSUME StoreInv, NEW c \in Conn, Mount(c)
  PROVE  Whole(work') /\ Whole(disk')
<1>0. Whole(disk) /\ Whole(work) /\ ControlOK /\ GoalOK  BY DEF StoreInv
<1>1. CASE \E p \in Path, k \in {"file"} \cup NodeKind : MountCreate(c, p, k)
  <2>1. PICK p \in Path, k \in {"file"} \cup NodeKind :
          Apply(c, IF k = "file" THEN FsPutFile(work, p, EmptyFile) ELSE FsPutNode(work, p, k))
    BY <1>1 DEF MountCreate, Op
  <2>2. EmptyFile \in Pieces
    <3>1. EmptyFile \in [0 .. (0 - 1) -> Piece] /\ 0 \in 0 .. MaxChunks
      BY ImageAssumption, StoreAssumption DEF EmptyFile
    <3> QED  BY <3>1 DEF Pieces
  <2>3. Whole(FsPutFile(work, p, EmptyFile))  BY <1>0, <2>2, FsPutFileWhole
  <2>4. k # "file" => Whole(FsPutNode(work, p, k))  BY <1>0, StoreAssumption, FsPutNodeWhole
  <2> QED  BY <1>0, <2>1, <2>3, <2>4, ApplyWhole
<1>2. CASE \E p \in Path : MountUnlink(c, p)
  <2>1. PICK p \in Path : Apply(c, DeleteRows(work, {p}))  BY <1>2 DEF MountUnlink, Op
  <2>2. {p} \in SUBSET Path  OBVIOUS
  <2>3. Whole(DeleteRows(work, {p}))  BY <1>0, <2>2, DeleteRowsWhole
  <2> QED  BY <1>0, <2>1, <2>3, ApplyWhole
<1>3. CASE \E p, q \in Path : MountRename(c, p, q)
  <2>1. PICK p \in Path, q \in Path :
          /\ p # q
          /\ Apply(c, IF LiveKind(work, p) = "none" /\ view[c][q] = "none"
                      THEN work ELSE RenameFile(work, p, q))
    BY <1>3 DEF MountRename, Op
  <2>2. Whole(RenameFile(work, p, q))  BY <1>0, <2>1, RenameFileWhole
  <2> QED  BY <1>0, <2>1, <2>2, ApplyWhole
<1>4. CASE \E g \in {"write", "truncate"}, p \in Path, i, j \in 0 .. MaxChunks : WriteStat(c, g, p, i, j)
  BY <1>0, <1>4 DEF WriteStat
<1>5. CASE WriteBegin(c)
  <2>1. wr[c].path \in Path  BY <1>0, <1>5 DEF WriteBegin, Writing, GoalOK
  <2>2. Beyond(wr[c].path, wr[c].end) \in SUBSET Key
        /\ \A k \in Beyond(wr[c].path, wr[c].end) : k[1] = Live
    BY <2>1 DEF Beyond, Key, Owner
  <2>3. Whole(DeleteChunks(work, Beyond(wr[c].path, wr[c].end)))
    BY <1>0, <2>2, DeleteLiveWhole
  <2> QED  BY <1>0, <1>5, <2>3 DEF WriteBegin
<1>6. CASE \E b \in Piece : WriteChunk(c, b)
  <2>1. PICK b \in Piece : WriteChunk(c, b)  BY <1>6
  <2>2. wr[c].path \in Path /\ wr[c].next \in Idx
    BY <1>0, <2>1, ImageAssumption, StoreAssumption DEF WriteChunk, Writing, GoalOK, ControlOK, Idx
  <2>3. Whole(PutChunk(work, wr[c].path, wr[c].next, b))  BY <1>0, <2>2, PutChunkWhole
  <2> QED  BY <1>0, <2>1, <2>3, ApplyWhole DEF WriteChunk
<1>7. CASE WriteCommit(c)
  <2> DEFINE new == IF goal[c] = "truncate" \/ wr[c].old < wr[c].end THEN wr[c].end ELSE wr[c].old
  <2>1. wr[c].path \in Path  BY <1>0, <1>7 DEF WriteCommit, Writing, GoalOK
  <2>2. new \in 0 .. MaxChunks  BY <1>0 DEF ControlOK
  <2>3. Whole(MarkDirty(work, wr[c].path, new))  BY <1>0, <2>1, <2>2, MarkDirtyWhole
  <2> QED  BY <1>7, <2>3 DEF WriteCommit
<1> QED  BY <1>1, <1>2, <1>3, <1>4, <1>5, <1>6, <1>7 DEF Mount

\* Every step of a tool keeps the store whole.
LEMMA ToolWhole ==
  ASSUME StoreInv, NEW c \in Conn, Tool(c)
  PROVE  Whole(work') /\ Whole(disk')
<1>0. Whole(disk) /\ Whole(work) /\ ControlOK /\ GoalOK  BY DEF StoreInv
<1> USE DEF ToolOp, SyncOp, Op
<1>1. CASE \E p \in Path, f \in Pieces : AddBytes(c, p, f)
  <2>1. PICK p \in Path, f \in Pieces : Apply(c, FsPutFile(work, p, f))  BY <1>1 DEF AddBytes
  <2> QED  BY <1>0, <2>1, FsPutFileWhole, ApplyWhole
<1>2. CASE \E p \in Path, k \in NodeKind : AddNode(c, p, k)
  <2>1. PICK p \in Path, k \in NodeKind : Apply(c, FsPutNode(work, p, k))  BY <1>2 DEF AddNode
  <2> QED  BY <1>0, <2>1, StoreAssumption, FsPutNodeWhole, ApplyWhole
<1>3. CASE \E s \in Snap : SnapshotStart(c, s) \/ SnapshotRestore(c, s) \/ SnapshotDelete(c, s)
  <2>1. PICK s \in Snap : SnapshotStart(c, s) \/ SnapshotRestore(c, s) \/ SnapshotDelete(c, s)
    BY <1>3
  <2>2. CASE SnapshotStart(c, s)  BY <1>0, <2>2 DEF SnapshotStart, Start
  <2>3. CASE SnapshotRestore(c, s)
    <3>1. s \in work.saved /\ Apply(c, SnapshotPut(work, s))  BY <2>3 DEF SnapshotRestore
    <3> QED  BY <1>0, <3>1, SnapshotPutWhole, ApplyWhole
  <2>4. CASE SnapshotDelete(c, s)
    <3>1. s \in Saved /\ Apply(c, DropSaved(work, s))  BY <2>4 DEF SnapshotDelete, Saved
    <3> QED  BY <1>0, <3>1, DropSavedWhole, ApplyWhole
  <2> QED  BY <2>1, <2>2, <2>3, <2>4
<1>4. CASE SnapshotCreate(c)
  <2>1. target[c] \in Snap  BY <1>0, <1>4 DEF SnapshotCreate, GoalOK
  <2>2. target[c] \notin work.saved /\ Apply(c, SnapshotTake(work, target[c]))
    BY <1>4 DEF SnapshotCreate
  <2> QED  BY <1>0, <2>1, <2>2, SnapshotTakeWhole, ApplyWhole
<1>5. CASE \E u \in Undo : UndoBegin(c, u) \/ UndoApply(c, u) \/ UndoDelete(c, u)
  <2>1. PICK u \in Undo : UndoBegin(c, u) \/ UndoApply(c, u) \/ UndoDelete(c, u)  BY <1>5
  <2>2. CASE UndoBegin(c, u)
    <3>1. Apply(c, [work EXCEPT !.saved = @ \cup {u}])  BY <2>2 DEF UndoBegin
    <3>2. Whole([work EXCEPT !.saved = @ \cup {u}])  BY <1>0, UndoBeginWhole
    <3> QED  BY <1>0, <3>1, <3>2, ApplyWhole
  <2>3. CASE UndoApply(c, u)
    <3>1. Apply(c, UndoPut(work, u))  BY <2>3 DEF UndoApply
    <3> QED  BY <1>0, <3>1, UndoPutWhole, ApplyWhole
  <2>4. CASE UndoDelete(c, u)
    <3>1. u \in Saved /\ Apply(c, DropSaved(work, u))  BY <2>4 DEF UndoDelete, Saved
    <3> QED  BY <1>0, <3>1, DropSavedWhole, ApplyWhole
  <2> QED  BY <2>1, <2>2, <2>3, <2>4
<1>6. CASE \E u \in Undo \cup {NoUndo} : SyncStart(c, u)  BY <1>0, <1>6 DEF SyncStart, Start
<1>7. CASE SyncBegin(c)  BY <1>0, <1>7 DEF SyncBegin
<1>8. CASE \E p \in Path, f \in Pieces : SyncFile(c, p, f)
  <2>1. PICK p \in Path, f \in Pieces :
          goal[c] = "sync" /\ Apply(c, FsPutFile(UndoCapture(work, target[c], p), p, f))
    BY <1>8 DEF SyncFile
  <2>2. target[c] \in Undo \cup {NoUndo}  BY <1>0, <2>1 DEF GoalOK
  <2>3. Whole(UndoCapture(work, target[c], p))  BY <1>0, <2>2, UndoCaptureWhole
  <2> QED  BY <1>0, <2>1, <2>3, FsPutFileWhole, ApplyWhole
<1>9. CASE \E p \in Path, k \in NodeKind : SyncNode(c, p, k)
  <2>1. PICK p \in Path, k \in NodeKind :
          goal[c] = "sync" /\ Apply(c, FsPutNode(UndoCapture(work, target[c], p), p, k))
    BY <1>9 DEF SyncNode
  <2>2. target[c] \in Undo \cup {NoUndo}  BY <1>0, <2>1 DEF GoalOK
  <2>3. Whole(UndoCapture(work, target[c], p))  BY <1>0, <2>2, UndoCaptureWhole
  <2> QED  BY <1>0, <2>1, <2>3, StoreAssumption, FsPutNodeWhole, ApplyWhole
<1>10. CASE \E p \in Path : SyncDelete(c, p)
  <2>1. PICK p \in Path :
          goal[c] = "sync" /\ Apply(c, DeleteRows(UndoCapture(work, target[c], p), {p}))
    BY <1>10 DEF SyncDelete
  <2>2. target[c] \in Undo \cup {NoUndo} /\ {p} \in SUBSET Path  BY <1>0, <2>1 DEF GoalOK
  <2>3. Whole(UndoCapture(work, target[c], p))  BY <1>0, <2>2, UndoCaptureWhole
  <2>4. Whole(DeleteRows(UndoCapture(work, target[c], p), {p}))
    BY <2>2, <2>3, DeleteRowsWhole
  <2> QED  BY <1>0, <2>1, <2>4, ApplyWhole
<1>11. CASE SyncCommit(c)  BY <1>0, <1>11 DEF SyncCommit
<1> QED
  BY <1>1, <1>2, <1>3, <1>4, <1>5, <1>6, <1>7, <1>8, <1>9, <1>10, <1>11 DEF Tool

\* The locals of a call stay what GoalOK and ControlOK say: one step per action.
LEMMA ControlStep ==
  ASSUME StoreInv, NEW c \in Conn, Connect(c) \/ Mount(c) \/ Tool(c)
  PROVE  ControlOK' /\ GoalOK'
<1>0. ControlOK /\ GoalOK  BY DEF StoreInv
<1>k. NoWrite \in [path : Path \cup {NoPath}, next : 0 .. MaxChunks,
                   end : 0 .. MaxChunks, old : 0 .. MaxChunks]
      /\ NoView \in [Path -> Kind] /\ {"none", "file"} \cup NodeKind \subseteq Kind
  BY ImageAssumption, StoreAssumption DEF NoWrite, NoView, Kind
<1>d. disk.dirty \in SUBSET Path /\ \A p \in Path : LiveKind(disk, p) \in Kind /\ LiveSize(disk, p) \in 0 .. MaxChunks
  <2>1. disk \in Image  BY DEF StoreInv, Whole
  <2> QED  BY <2>1 DEF Image, LiveKind, LiveSize, Owner, Row
<1> USE DEF ControlOK, GoalOK
<1>1. CASE \E m \in {"mount", "tool"} : Open(c, m)
  BY <1>0, <1>d, <1>1 DEF Open, Start
<1>2. CASE Opened(c)  BY <1>0, <1>k, <1>d, <1>2 DEF Opened, GoalDone
<1>3. CASE \E p \in Path : FinalizeNext(c, p)  BY <1>0, <1>3 DEF FinalizeNext
<1>4. CASE Unmount(c)  BY <1>0, <1>d, <1>4 DEF Unmount, Start
<1>5. CASE Close(c)  BY <1>0, <1>k, <1>5 DEF Close, Leave, GoalDone
<1>6. CASE Crash(c)  BY <1>0, <1>k, <1>6 DEF Crash, Leave, GoalDone, Rollback
<1>7. CASE Fail(c)
  <2>1. CASE goal[c] \in {"open", "close"}  BY <1>0, <1>7, <2>1 DEF Fail, Rollback
  <2>2. CASE goal[c] \notin {"open", "close"}
    <3>1. /\ GoalDone(c) /\ mode' = mode /\ view' = view
          /\ left' = [left EXCEPT ![c] = {}]
          /\ tx' = IF tx = c THEN NoConn ELSE tx
      BY <1>7, <2>2 DEF Fail, Rollback
    <3> QED  BY <1>0, <1>k, <3>1 DEF GoalDone
  <2> QED  BY <2>1, <2>2
<1>8. CASE \E p \in Path, k \in {"file"} \cup NodeKind : MountCreate(c, p, k)
  BY <1>0, <1>k, <1>8 DEF MountCreate, Op
<1>9. CASE \E p \in Path : MountUnlink(c, p)  BY <1>0, <1>k, <1>9 DEF MountUnlink, Op
<1>10. CASE \E p, q \in Path : MountRename(c, p, q)
  <2>1. PICK p \in Path, q \in Path :
          /\ UNCHANGED <<tx, mode, goal, target, left, wr>>
          /\ view' = [view EXCEPT ![c][p] = "none", ![c][q] = view[c][p]]
    BY <1>10 DEF MountRename, Op
  <2>2. view' \in [Conn -> [Path -> Kind]]  BY <1>0, <1>k, <2>1
  <2> QED  BY <1>0, <2>1, <2>2
<1>11. CASE \E g \in {"write", "truncate"}, p \in Path, i, j \in 0 .. MaxChunks : WriteStat(c, g, p, i, j)
  BY <1>0, <1>d, <1>11 DEF WriteStat
<1>12. CASE WriteBegin(c)  BY <1>0, <1>12 DEF WriteBegin
<1>13. CASE \E b \in Piece : WriteChunk(c, b)
  BY <1>0, <1>13, ImageAssumption, StoreAssumption DEF WriteChunk
<1>14. CASE WriteCommit(c)  BY <1>0, <1>k, <1>14 DEF WriteCommit, GoalDone
<1>15. CASE \E p \in Path, f \in Pieces : AddBytes(c, p, f)
  BY <1>0, <1>15 DEF AddBytes, ToolOp, Op
<1>16. CASE \E p \in Path, k \in NodeKind : AddNode(c, p, k)
  BY <1>0, <1>16 DEF AddNode, ToolOp, Op
<1>17. CASE \E s \in Snap : SnapshotStart(c, s)
  BY <1>0, <1>d, <1>17 DEF SnapshotStart, Start, Saved
<1>18. CASE \E s \in Snap : SnapshotRestore(c, s) \/ SnapshotDelete(c, s)
  BY <1>0, <1>18 DEF SnapshotRestore, SnapshotDelete, ToolOp, Op
<1>19. CASE SnapshotCreate(c)  BY <1>0, <1>k, <1>19 DEF SnapshotCreate, GoalDone
<1>20. CASE \E u \in Undo : UndoBegin(c, u) \/ UndoApply(c, u) \/ UndoDelete(c, u)
  BY <1>0, <1>20 DEF UndoBegin, UndoApply, UndoDelete, ToolOp, Op
<1>21. CASE \E u \in Undo \cup {NoUndo} : SyncStart(c, u)
  BY <1>0, <1>d, <1>21 DEF SyncStart, Start, Saved
<1>22. CASE SyncBegin(c)  BY <1>0, <1>22 DEF SyncBegin
<1>23. CASE \E p \in Path, f \in Pieces : SyncFile(c, p, f)
  BY <1>0, <1>23 DEF SyncFile, SyncOp, Op
<1>24. CASE \E p \in Path, k \in NodeKind : SyncNode(c, p, k)
  BY <1>0, <1>24 DEF SyncNode, SyncOp, Op
<1>25. CASE \E p \in Path : SyncDelete(c, p)  BY <1>0, <1>25 DEF SyncDelete, SyncOp, Op
<1>26. CASE SyncCommit(c)  BY <1>0, <1>k, <1>26 DEF SyncCommit, GoalDone
<1> QED
  BY <1>1, <1>2, <1>3, <1>4, <1>5, <1>6, <1>7, <1>8, <1>9, <1>10, <1>11, <1>12, <1>13,
     <1>14, <1>15, <1>16, <1>17, <1>18, <1>19, <1>20, <1>21, <1>22, <1>23, <1>24, <1>25,
     <1>26 DEF Connect, Mount, Tool

\* The histories are sets of paths.
LEMMA HistoryStep ==
  ASSUME StoreInv, NEW c \in Conn, Whole(disk'),
         (Connect(c) /\ UNCHANGED <<raced, copied>>) \/ Mount(c) \/ Tool(c), Remember(c)
  PROVE  HistoryOK'
<1>0. HistoryOK /\ GoalOK  BY DEF StoreInv
<1>1. late' \in [Conn -> SUBSET Path]
  <2>1. disk'.dirty \in SUBSET Path  BY DEF Whole, Image
  <2> QED  BY <1>0, <2>1 DEF HistoryOK, Remember
<1>2. raced' \in SUBSET Path /\ copied' \in SUBSET Path
  <2>1. CASE UNCHANGED <<raced, copied>>  BY <1>0, <2>1 DEF HistoryOK
  <2>2. CASE \E P : Copies(c, P)  BY <1>0, <2>2 DEF HistoryOK, Copies
  <2>3. CASE WriteCommit(c) /\ raced' \in {raced, raced \cup {wr[c].path}} /\ UNCHANGED copied
    <3>1. wr[c].path \in Path  BY <1>0, <2>3 DEF WriteCommit, Writing, GoalOK
    <3> QED  BY <1>0, <2>3, <3>1 DEF HistoryOK
  <2>4. CASE \E p, q \in Path : raced' = Carried(raced, p, q) /\ copied' = Carried(copied, p, q)
    BY <1>0, <2>4 DEF HistoryOK, Carried
  <2> QED  BY <2>1, <2>2, <2>3, <2>4 DEF Mount, Tool
<1> QED  BY <1>1, <1>2 DEF HistoryOK

\* StoreInv is inductive.
LEMMA NextStoreInv == StoreInv /\ [Next]_vars => StoreInv'
<1> SUFFICES ASSUME StoreInv, [Next]_vars PROVE StoreInv'  OBVIOUS
<1>1. CASE UNCHANGED vars
  <2>1. disk' = disk /\ work' = work  BY <1>1 DEF vars
  <2>2. ControlOK' /\ HistoryOK' /\ GoalOK'
    BY <1>1 DEF StoreInv, ControlOK, HistoryOK, GoalOK, vars
  <2> QED  BY <2>1, <2>2 DEF StoreInv
<1>2. CASE Next
  <2>1. PICK c \in Conn : /\ (Connect(c) /\ UNCHANGED <<raced, copied>>) \/ Mount(c) \/ Tool(c)
                          /\ Remember(c)
    BY <1>2 DEF Next
  <2>2. Whole(work') /\ Whole(disk')  BY <2>1, ConnectWhole, MountWhole, ToolWhole
  <2>3. ControlOK' /\ GoalOK'  BY <2>1, ControlStep
  <2>4. HistoryOK'  BY <2>1, <2>2, HistoryStep
  <2>5. StoreInv' <=> Whole(work') /\ Whole(disk') /\ ControlOK' /\ HistoryOK' /\ GoalOK'
    BY DEF StoreInv
  <2> QED  BY <2>2, <2>3, <2>4, <2>5
<1> QED  BY <1>1, <1>2

\* In every run, of any number of mounts and tools over any set of paths, the
\* tables and the locals of the calls are what the code declares.
THEOREM TypeCorrect == Spec => []TypeOK
<1>1. StoreInv => TypeOK  BY DEF StoreInv, Whole, TypeOK
<1> QED  BY <1>1, InitStoreInv, NextStoreInv, PTL DEF Spec

\* In every run, of any number of mounts and tools over any set of paths, pieces,
\* snapshots and undo records, with crashes and rollbacks anywhere: refcnt of a
\* blob is the number of chunk rows that refer to it, and the blob row exists
\* exactly while there is one.
THEOREM RefcountsExact == Spec => []RefcountExact
<1>1. StoreInv => RefcountExact  BY ExactWhole DEF StoreInv, Whole, RefcountExact
<1> QED  BY <1>1, InitStoreInv, NextStoreInv, PTL DEF Spec

-----------------------------------------------------------------------------
(* Transactions: snapshots never change, and a sync never moves what its    *)
(* undo record leads back to. *)

\* The two images have the same snapshots with the same entries.
Alike(a, b) ==
  \A s \in Snap : /\ s \in a.saved <=> s \in b.saved
                  /\ \A p \in Path : Entry(a, s, p) = Entry(b, s, p)

\* Snapshots in both have the same entries.
KeepsSnaps(a, b) ==
  \A s \in Snap, p \in Path : s \in a.saved /\ s \in b.saved => Entry(a, s, p) = Entry(b, s, p)

\* Without a transaction there is one image.  Inside one, the snapshots are those
\* of the committed image, and a sync leaves what its record leads back to.
TxInv ==
  /\ tx = NoConn => work = disk
  /\ Alike(work, disk)
  /\ \A c \in Conn :
       /\ mode[c] = "closed" => goal[c] = "none"
       /\ tx = c => goal[c] \in {"sync", "write", "truncate"}
       /\ tx = c /\ goal[c] = "sync" /\ target[c] \in Undo
            => UndoImage(work, target[c]) = UndoImage(disk, target[c])


\* What undo_apply leads back to at one path.
UndoEntry(img, u, p) == Entry(img, IF img.row[<<u, p>>].kind = "unknown" THEN Live ELSE u, p)

\* The undo image, path by path.
LEMMA UndoImageSame ==
  ASSUME NEW a, NEW b, NEW u, \A p \in Path : UndoEntry(a, u, p) = UndoEntry(b, u, p)
  PROVE  UndoImage(a, u) = UndoImage(b, u)
<1>1. UndoImage(a, u) = [p \in Path |-> UndoEntry(a, u, p)]  BY DEF UndoImage, UndoEntry, Entry
<1>2. UndoImage(b, u) = [p \in Path |-> UndoEntry(b, u, p)]  BY DEF UndoImage, UndoEntry, Entry
<1> QED  BY <1>1, <1>2

\* Capturing p and then changing the live entry of p leaves the undo image.
LEMMA CaptureKeeps ==
  ASSUME NEW img, Whole(img), NEW u \in Undo, NEW p \in Path, NEW new,
         \A o \in Owner, q \in Path : o # Live \/ q # p
           => Entry(new, o, q) = Entry(UndoCapture(img, u, p), o, q)
  PROVE  UndoImage(new, u) = UndoImage(img, u)
<1> DEFINE C == UndoCapture(img, u, p)
<1>0. u \in Owner /\ u # Live /\ Live \in Owner  BY ImageAssumption DEF Owner, Saved
<1>1. /\ Entry(C, u, p) = IF img.row[<<u, p>>].kind = "unknown" THEN Entry(img, Live, p) ELSE Entry(img, u, p)
      /\ \A o \in Owner, q \in Path : o # u \/ q # p => Entry(C, o, q) = Entry(img, o, q)
  <2>1. u \in Undo \cup {NoUndo}  OBVIOUS
  <2> QED  BY <2>1, UndoCaptureDoes
<1>2. \A o \in Owner, q \in Path : o # Live \/ q # p => Entry(new, o, q) = Entry(C, o, q)  OBVIOUS
<1> HIDE DEF C
<1>3. ASSUME NEW q \in Path PROVE UndoEntry(new, u, q) = UndoEntry(img, u, q)
  <2>1. CASE q = p
    <3>1. Entry(new, u, p) = IF img.row[<<u, p>>].kind = "unknown" THEN Entry(img, Live, p) ELSE Entry(img, u, p)
      BY <1>0, <1>1, <1>2
    <3>2. CASE img.row[<<u, p>>].kind = "unknown"
      <4>1. Entry(new, u, p) = Entry(img, Live, p)  BY <3>1, <3>2
      <4>2. new.row[<<u, p>>] = img.row[<<Live, p>>]  BY <4>1, EntryGives
      <4>3. img.row[<<Live, p>>].kind # "unknown"  BY DEF Whole, Shape
      <4> QED  BY <2>1, <3>2, <4>1, <4>2, <4>3 DEF UndoEntry
    <3>3. CASE img.row[<<u, p>>].kind # "unknown"
      <4>1. Entry(new, u, p) = Entry(img, u, p)  BY <3>1, <3>3
      <4>2. new.row[<<u, p>>] = img.row[<<u, p>>]  BY <4>1, EntryGives
      <4> QED  BY <2>1, <3>3, <4>1, <4>2 DEF UndoEntry
    <3> QED  BY <3>2, <3>3
  <2>2. CASE q # p
    <3>1. Entry(new, u, q) = Entry(img, u, q) /\ Entry(new, Live, q) = Entry(img, Live, q)
      BY <1>0, <1>1, <1>2, <2>2
    <3>2. new.row[<<u, q>>] = img.row[<<u, q>>]  BY <3>1, EntryGives
    <3> QED  BY <3>1, <3>2 DEF UndoEntry
  <2> QED  BY <2>1, <2>2
<1> QED  BY <1>3, UndoImageSame

\* Live operations keep the snapshots, and so does a capture.
LEMMA LiveAlike ==
  ASSUME NEW a, NEW b, OnlyLive(a, b)
  PROVE  Alike(b, a)
BY DEF OnlyLive, Alike, Saved

\* A capture keeps the snapshots.
LEMMA CaptureAlike ==
  ASSUME NEW img, Whole(img), NEW u \in Undo \cup {NoUndo}, NEW p \in Path
  PROVE  Alike(UndoCapture(img, u, p), img) /\ Tabled(UndoCapture(img, u, p))
<1> DEFINE C == UndoCapture(img, u, p)
<1>1. \A s \in Snap : s \in Owner /\ (u \in Undo => s # u)  BY ImageAssumption DEF Owner, Saved
<1>2. /\ Tabled(C) /\ C.dirty = img.dirty /\ C.saved = img.saved
      /\ u \in Undo => Entry(C, u, p) = IF img.row[<<u, p>>].kind = "unknown"
                                        THEN Entry(img, Live, p) ELSE Entry(img, u, p)
      /\ \A o \in Owner, q \in Path : o # u \/ q # p => Entry(C, o, q) = Entry(img, o, q)
  BY UndoCaptureDoes
<1> HIDE DEF C
<1>3. CASE u \in Undo
  <2>1. \A s \in Snap, q \in Path : Entry(C, s, q) = Entry(img, s, q)  BY <1>1, <1>2, <1>3
  <2> QED  BY <1>2, <2>1 DEF Alike, C
<1>4. CASE u = NoUndo
  <2>1. C = img  BY <1>4 DEF C, UndoCapture
  <2> QED  BY <1>2, <2>1 DEF Alike, C
<1> QED  BY <1>3, <1>4

\* Alike is transitive.
LEMMA AlikeTrans ==
  ASSUME NEW a, NEW b, NEW d, Alike(a, b), Alike(b, d)
  PROVE  Alike(a, d)
BY DEF Alike

\* A sync operation at p, with its capture: the snapshots and the undo image stay.
LEMMA SyncKeeps ==
  ASSUME NEW img, Whole(img), NEW u \in Undo \cup {NoUndo}, NEW p \in Path
  PROVE  LET C == UndoCapture(img, u, p)
             Keeps(new) == Alike(new, img) /\ (u \in Undo => UndoImage(new, u) = UndoImage(img, u))
         IN  /\ \A f \in Pieces : Keeps(FsPutFile(C, p, f))
             /\ \A k : Keeps(FsPutNode(C, p, k))
             /\ Keeps(DeleteRows(C, {p}))
<1> DEFINE C == UndoCapture(img, u, p)
           Keeps(new) == Alike(new, img) /\ (u \in Undo => UndoImage(new, u) = UndoImage(img, u))
<1>1. Alike(C, img) /\ Tabled(C)  BY CaptureAlike
<1>2. ASSUME NEW new, OnlyLive(C, new),
             \A o \in Owner, q \in Path : o # Live \/ q # p => Entry(new, o, q) = Entry(C, o, q)
      PROVE  Keeps(new)
  <2>1. Alike(new, C)  BY <1>2, LiveAlike
  <2>2. Alike(new, img)  BY <1>1, <2>1, AlikeTrans
  <2>3. ASSUME u \in Undo PROVE UndoImage(new, u) = UndoImage(img, u)
    BY <1>2, <2>3, CaptureKeeps
  <2> QED  BY <2>2, <2>3
<1> HIDE DEF C, Keeps
<1>3. ASSUME NEW f \in Pieces PROVE Keeps(FsPutFile(C, p, f))
  <2>1. OnlyLive(C, FsPutFile(C, p, f))  BY <1>1, FsOpsOnlyLive
  <2>2. Puts(C, FsPutFile(C, p, f), p, FileEntry(f))  BY <1>1, FsPutFileDoes
  <2> QED  BY <1>2, <2>1, <2>2 DEF Puts
<1>4. ASSUME NEW k PROVE Keeps(FsPutNode(C, p, k))
  <2>1. OnlyLive(C, FsPutNode(C, p, k))  BY <1>1, FsOpsOnlyLive
  <2>2. Puts(C, FsPutNode(C, p, k), p, NodeEntry(k))  BY <1>1, FsPutNodeDoes
  <2> QED  BY <1>2, <2>1, <2>2 DEF Puts
<1>5. Keeps(DeleteRows(C, {p}))
  <2>0. {p} \in SUBSET Path  OBVIOUS
  <2>1. OnlyLive(C, DeleteRows(C, {p}))  BY <1>1, <2>0, FsOpsOnlyLive
  <2>2. \A o \in Owner, q \in Path :
          o # Live \/ q \notin {p} => Entry(DeleteRows(C, {p}), o, q) = Entry(C, o, q)
    BY <1>1, <2>0, DeleteRowsDoes
  <2>3. \A o \in Owner, q \in Path :
          o # Live \/ q # p => Entry(DeleteRows(C, {p}), o, q) = Entry(C, o, q)
    BY <2>2
  <2> QED  BY <1>2, <2>1, <2>3
<1> QED  BY <1>3, <1>4, <1>5 DEF C, Keeps

(* The six things a step can do to the committed image and to the transaction. *)

Quiet(c) ==
  /\ tx # c /\ UNCHANGED <<disk, work, tx>>
  /\ \A d \in Conn \ {c} : goal'[d] = goal[d] /\ target'[d] = target[d]

RolledBack(c) == tx = c /\ tx' = NoConn /\ disk' = disk /\ work' = disk

Applied == tx = NoConn /\ tx' = NoConn /\ disk' = work' /\ KeepsSnaps(work, work')

Inside(c) ==
  /\ tx = c /\ UNCHANGED <<disk, tx, goal, target>>
  /\ Alike(work', work)
  /\ goal[c] = "sync" /\ target[c] \in Undo
       => UndoImage(work', target[c]) = UndoImage(work, target[c])

Begins(c) ==
  /\ tx = NoConn /\ tx' = c /\ UNCHANGED <<disk, goal, target>>
  /\ goal[c] \in {"sync", "write", "truncate"}
  /\ Alike(work', work)
  /\ goal[c] = "sync" => work' = work

Commits(c) ==
  /\ tx = c /\ tx' = NoConn /\ disk' = work'
  /\ Alike(work', work)
  /\ goal[c] = "sync" => work' = work

TxStep(c) ==
  Quiet(c) \/ RolledBack(c) \/ Applied \/ Inside(c) \/ Begins(c) \/ Commits(c)

\* Live operations applied without a transaction.
LEMMA AppliedLive ==
  ASSUME NEW c, NEW img, OnlyLive(work, img), tx = NoConn, c # NoConn, tx' = tx, Apply(c, img)
  PROVE  Applied
<1>1. Alike(img, work)  BY LiveAlike
<1>2. work' = img /\ disk' = img /\ tx' = NoConn  BY DEF Apply
<1>3. KeepsSnaps(work, img)  BY <1>1 DEF Alike, KeepsSnaps
<1> QED  BY <1>2, <1>3 DEF Applied

\* Connections come and go by quiet steps, finalizes and rollbacks.
LEMMA ConnectTx ==
  ASSUME StoreInv, TxInv, NEW c \in Conn, Connect(c)
  PROVE  TxStep(c)
<1>0. Whole(work) /\ work \in Image /\ ControlOK /\ c # NoConn
  BY StoreAssumption DEF StoreInv, Whole
<1>t. /\ mode[c] = "closed" => goal[c] = "none"
      /\ goal[c] \notin {"sync", "write", "truncate"} => tx # c
  BY DEF TxInv
<1>g. goal \in [Conn -> {"none", "open", "close", "snapshot", "sync", "write", "truncate"}]
      /\ target \in [Conn -> Saved \cup {NoUndo}]
  BY <1>0 DEF ControlOK
<1>r. ASSUME Rollback(c), \A d \in Conn \ {c} : goal'[d] = goal[d] /\ target'[d] = target[d]
      PROVE  TxStep(c)
  <2>1. CASE tx = c  BY <1>r, <2>1 DEF Rollback, RolledBack, TxStep
  <2>2. CASE tx # c  BY <1>r, <2>2 DEF Rollback, Quiet, TxStep
  <2> QED  BY <2>1, <2>2
<1>1. CASE \E m \in {"mount", "tool"} : Open(c, m)
  <2>1. Quiet(c)  BY <1>t, <1>g, <1>1 DEF Open, Start, Quiet
  <2> QED  BY <2>1 DEF TxStep
<1>2. CASE Opened(c)
  <2>1. Quiet(c)  BY <1>t, <1>g, <1>2 DEF Opened, GoalDone, Quiet
  <2> QED  BY <2>1 DEF TxStep
<1>3. CASE \E p \in Path : FinalizeNext(c, p)
  <2>1. PICK p \in Path : Apply(c, FinalizeFile(work, p)) /\ tx = NoConn /\ tx' = tx
    BY <1>3 DEF FinalizeNext
  <2>2. OnlyLive(work, FinalizeFile(work, p))  BY <1>0, WriteOpsOnlyLive
  <2>3. Applied  BY <1>0, <2>1, <2>2, AppliedLive
  <2> QED  BY <2>3 DEF TxStep
<1>4. CASE Unmount(c)
  <2>1. Quiet(c)  BY <1>t, <1>g, <1>4 DEF Unmount, Idle, Start, Quiet
  <2> QED  BY <2>1 DEF TxStep
<1>5. CASE Close(c)
  <2>1. Quiet(c)  BY <1>t, <1>g, <1>5 DEF Close, Idle, Leave, GoalDone, Quiet
  <2> QED  BY <2>1 DEF TxStep
<1>6. CASE Crash(c)
  <2>1. Rollback(c) /\ \A d \in Conn \ {c} : goal'[d] = goal[d] /\ target'[d] = target[d]
    BY <1>g, <1>6 DEF Crash, Leave, GoalDone
  <2> QED  BY <1>r, <2>1
<1>7. CASE Fail(c)
  <2>1. Rollback(c) /\ \A d \in Conn \ {c} : goal'[d] = goal[d] /\ target'[d] = target[d]
    BY <1>g, <1>7 DEF Fail, GoalDone
  <2> QED  BY <1>r, <2>1
<1> QED  BY <1>1, <1>2, <1>3, <1>4, <1>5, <1>6, <1>7 DEF Connect

\* A mount applies live operations, and writes in a transaction.
LEMMA MountTx ==
  ASSUME StoreInv, TxInv, NEW c \in Conn, Mount(c)
  PROVE  TxStep(c)
<1>0. Whole(work) /\ work \in Image /\ Tabled(work) /\ ControlOK /\ GoalOK /\ c # NoConn
  BY StoreAssumption, ImageTabled DEF StoreInv, Whole
<1>t. goal[c] \notin {"sync", "write", "truncate"} => tx # c  BY DEF TxInv
<1>g. goal \in [Conn -> {"none", "open", "close", "snapshot", "sync", "write", "truncate"}]
  BY <1>0 DEF ControlOK
<1>1. CASE \E p \in Path, k \in {"file"} \cup NodeKind : MountCreate(c, p, k)
  <2>1. PICK p \in Path, k \in {"file"} \cup NodeKind :
          /\ Apply(c, IF k = "file" THEN FsPutFile(work, p, EmptyFile) ELSE FsPutNode(work, p, k))
          /\ tx = NoConn /\ tx' = tx
    BY <1>1 DEF MountCreate, Op, Ready
  <2>2. EmptyFile \in Pieces
    <3>1. EmptyFile \in [0 .. (0 - 1) -> Piece] /\ 0 \in 0 .. MaxChunks
      BY ImageAssumption DEF EmptyFile
    <3> QED  BY <3>1 DEF Pieces
  <2>3. OnlyLive(work, FsPutFile(work, p, EmptyFile)) /\ OnlyLive(work, FsPutNode(work, p, k))
    BY <1>0, <2>2, FsOpsOnlyLive
  <2>4. Applied  BY <1>0, <2>1, <2>3, AppliedLive
  <2> QED  BY <2>4 DEF TxStep
<1>2. CASE \E p \in Path : MountUnlink(c, p)
  <2>1. PICK p \in Path : Apply(c, DeleteRows(work, {p})) /\ tx = NoConn /\ tx' = tx
    BY <1>2 DEF MountUnlink, Op, Ready
  <2>2. {p} \in SUBSET Path  OBVIOUS
  <2>3. OnlyLive(work, DeleteRows(work, {p}))  BY <1>0, <2>2, FsOpsOnlyLive
  <2>4. Applied  BY <1>0, <2>1, <2>3, AppliedLive
  <2> QED  BY <2>4 DEF TxStep
<1>3. CASE \E p, q \in Path : MountRename(c, p, q)
  <2>1. PICK p \in Path, q \in Path :
          /\ p # q /\ tx = NoConn /\ tx' = tx
          /\ Apply(c, IF LiveKind(work, p) = "none" /\ view[c][q] = "none"
                      THEN work ELSE RenameFile(work, p, q))
    BY <1>3 DEF MountRename, Op, Ready
  <2>2. OnlyLive(work, RenameFile(work, p, q))  BY <1>0, <2>1, FsOpsOnlyLive
  <2>3. OnlyLive(work, work)  BY DEF OnlyLive
  <2>4. Applied  BY <1>0, <2>1, <2>2, <2>3, AppliedLive
  <2> QED  BY <2>4 DEF TxStep
<1>4. CASE \E g \in {"write", "truncate"}, p \in Path, i, j \in 0 .. MaxChunks : WriteStat(c, g, p, i, j)
  <2>1. Quiet(c)  BY <1>t, <1>g, <1>4 DEF WriteStat, Idle, Quiet
  <2> QED  BY <2>1 DEF TxStep
<1>5. CASE WriteBegin(c)
  <2> DEFINE D == DeleteChunks(work, Beyond(wr[c].path, wr[c].end))
  <2>1. wr[c].path \in Path /\ goal[c] \in {"write", "truncate"}
    BY <1>0, <1>5 DEF WriteBegin, Writing, GoalOK
  <2>2. Alike(D, work)  BY <1>0, <2>1, WriteOpsOnlyLive, LiveAlike
  <2>3. Alike(work, work)  BY DEF Alike
  <2> HIDE DEF D
  <2>4. (work' = D \/ work' = work) /\ tx = NoConn /\ tx' = c /\ UNCHANGED <<disk, goal, target>>
    BY <1>5 DEF WriteBegin, D
  <2>5. Begins(c)  BY <2>1, <2>2, <2>3, <2>4 DEF Begins
  <2> QED  BY <2>5 DEF TxStep
<1>6. CASE \E b \in Piece : WriteChunk(c, b)
  <2>1. PICK b \in Piece : WriteChunk(c, b)  BY <1>6
  <2> DEFINE D == PutChunk(work, wr[c].path, wr[c].next, b)
  <2>2. wr[c].path \in Path /\ wr[c].next \in Idx /\ goal[c] \in {"write", "truncate"}
    BY <1>0, <2>1, ImageAssumption DEF WriteChunk, Writing, GoalOK, ControlOK, Idx
  <2>3. Alike(D, work)  BY <1>0, <2>2, WriteOpsOnlyLive, LiveAlike
  <2> HIDE DEF D
  <2>4. work' = D /\ tx = c /\ UNCHANGED <<disk, tx, goal, target>>
    BY <2>1 DEF WriteChunk, Apply, D
  <2>5. Inside(c)  BY <2>2, <2>3, <2>4 DEF Inside
  <2> QED  BY <2>5 DEF TxStep
<1>7. CASE WriteCommit(c)
  <2> DEFINE new == IF goal[c] = "truncate" \/ wr[c].old < wr[c].end THEN wr[c].end ELSE wr[c].old
             D == MarkDirty(work, wr[c].path, new)
  <2>1. wr[c].path \in Path /\ goal[c] \in {"write", "truncate"}
    BY <1>0, <1>7 DEF WriteCommit, Writing, GoalOK
  <2>2. Alike(D, work)
    <3> HIDE DEF new
    <3> QED  BY <1>0, <2>1, WriteOpsOnlyLive, LiveAlike
  <2>3. work' = D /\ disk' = D /\ tx = c /\ tx' = NoConn  BY <1>7 DEF WriteCommit
  <2> HIDE DEF D
  <2>4. Commits(c)  BY <2>1, <2>2, <2>3 DEF Commits
  <2> QED  BY <2>4 DEF TxStep
<1> QED  BY <1>1, <1>2, <1>3, <1>4, <1>5, <1>6, <1>7 DEF Mount

\* A tool applies operations, which keep the snapshots they do not create or
\* delete, and syncs in a transaction.
LEMMA ToolTx ==
  ASSUME StoreInv, TxInv, NEW c \in Conn, Tool(c)
  PROVE  TxStep(c)
<1>0. Whole(work) /\ work \in Image /\ Tabled(work) /\ ControlOK /\ GoalOK /\ c # NoConn
  BY StoreAssumption, ImageTabled DEF StoreInv, Whole
<1>t. goal[c] \notin {"sync", "write", "truncate"} => tx # c  BY DEF TxInv
<1>g. goal \in [Conn -> {"none", "open", "close", "snapshot", "sync", "write", "truncate"}]
      /\ target \in [Conn -> Saved \cup {NoUndo}]
  BY <1>0 DEF ControlOK
<1>l. ASSUME NEW img, OnlyLive(work, img), ToolOp(c, img) PROVE TxStep(c)
  <2>1. tx = NoConn /\ tx' = tx /\ Apply(c, img)  BY <1>l DEF ToolOp, Ready, Op
  <2>2. Applied  BY <1>0, <1>l, <2>1, AppliedLive
  <2> QED  BY <2>2 DEF TxStep
<1>s. ASSUME NEW img, KeepsSnaps(work, img), tx = NoConn, tx' = tx, Apply(c, img) PROVE TxStep(c)
  <2>1. work' = img /\ disk' = img /\ tx' = NoConn  BY <1>0, <1>s DEF Apply
  <2>2. Applied  BY <1>s, <2>1 DEF Applied
  <2> QED  BY <2>2 DEF TxStep
<1>y. ASSUME NEW img, Alike(img, work), SyncOp(c, img),
             target[c] \in Undo => UndoImage(img, target[c]) = UndoImage(work, target[c])
      PROVE  TxStep(c)
  <2>1. tx = c /\ goal[c] = "sync" /\ UNCHANGED <<tx, goal, target>> /\ Apply(c, img)
    BY <1>y DEF SyncOp, Op
  <2>2. work' = img /\ disk' = disk  BY <2>1 DEF Apply
  <2>3. Inside(c)  BY <1>y, <2>1, <2>2 DEF Inside
  <2> QED  BY <2>3 DEF TxStep
<1>1. CASE \E p \in Path, f \in Pieces : AddBytes(c, p, f)
  <2>1. PICK p \in Path, f \in Pieces : ToolOp(c, FsPutFile(work, p, f))  BY <1>1 DEF AddBytes
  <2>2. OnlyLive(work, FsPutFile(work, p, f))  BY <1>0, FsOpsOnlyLive
  <2> QED  BY <1>l, <2>1, <2>2
<1>2. CASE \E p \in Path, k \in NodeKind : AddNode(c, p, k)
  <2>1. PICK p \in Path, k \in NodeKind : ToolOp(c, FsPutNode(work, p, k))  BY <1>2 DEF AddNode
  <2>2. OnlyLive(work, FsPutNode(work, p, k))  BY <1>0, FsOpsOnlyLive
  <2> QED  BY <1>l, <2>1, <2>2
<1>3. CASE \E s \in Snap : SnapshotStart(c, s)
  <2>1. Quiet(c)  BY <1>t, <1>g, <1>3 DEF SnapshotStart, Idle, Start, Quiet
  <2> QED  BY <2>1 DEF TxStep
<1>4. CASE \E s \in Snap : SnapshotRestore(c, s)
  <2>1. PICK s \in Snap : ToolOp(c, SnapshotPut(work, s))  BY <1>4 DEF SnapshotRestore
  <2>2. OnlyLive(work, SnapshotPut(work, s))  BY <1>0, RestoreOnlyLive
  <2> QED  BY <1>l, <2>1, <2>2
<1>d. ASSUME NEW w \in Saved PROVE KeepsSnaps(work, DropSaved(work, w))
  <2> DEFINE D == DropSaved(work, w)
  <2>1. /\ Tabled(D) /\ D.dirty = work.dirty /\ D.saved = work.saved \ {w}
        /\ \A p \in Path : Entry(D, w, p) = <<Unknown, Blank>>
        /\ \A o \in Owner, q \in Path : o # w => Entry(D, o, q) = Entry(work, o, q)
    BY <1>0, DropSavedDoes
  <2> HIDE DEF D
  <2>2. KeepsSnaps(work, D)  BY <2>1 DEF KeepsSnaps, Owner, Saved
  <2> QED  BY <2>2 DEF D
<1>5. CASE \E s \in Snap : SnapshotDelete(c, s)
  <2>1. PICK s \in Snap : ToolOp(c, DropSaved(work, s))  BY <1>5 DEF SnapshotDelete
  <2>2. s \in Saved /\ tx = NoConn /\ tx' = tx /\ Apply(c, DropSaved(work, s))
    BY <2>1 DEF Saved, ToolOp, Ready, Op
  <2> QED  BY <1>d, <1>s, <2>2
<1>6. CASE SnapshotCreate(c)
  <2> DEFINE s == target[c]
             D == SnapshotTake(work, s)
  <2>1. s \in Snap /\ s \notin work.saved /\ tx = NoConn /\ tx' = tx /\ Apply(c, D)
    BY <1>0, <1>6 DEF SnapshotCreate, GoalOK
  <2> HIDE DEF s
  <2>2. /\ Tabled(D) /\ D.dirty = work.dirty /\ D.saved = work.saved \cup {s}
        /\ \A p \in Path : Entry(D, s, p) = Entry(work, Live, p)
        /\ \A o \in Owner, q \in Path : o # s => Entry(D, o, q) = Entry(work, o, q)
    BY <1>0, <2>1, SnapshotTakeDoes
  <2> HIDE DEF D
  <2>3. KeepsSnaps(work, D)  BY <2>1, <2>2 DEF KeepsSnaps, Owner, Saved
  <2> QED  BY <1>s, <2>1, <2>3
<1>7. CASE \E u \in Undo : UndoBegin(c, u)
  <2>1. PICK u \in Undo : ToolOp(c, [work EXCEPT !.saved = @ \cup {u}])  BY <1>7 DEF UndoBegin
  <2> DEFINE D == [work EXCEPT !.saved = @ \cup {u}]
  <2>2. D.row = work.row /\ D.chunk = work.chunk  BY <1>0 DEF Image
  <2>3. tx = NoConn /\ tx' = tx /\ Apply(c, D)  BY <2>1 DEF ToolOp, Ready, Op
  <2> HIDE DEF D
  <2>4. KeepsSnaps(work, D)  BY <2>2 DEF KeepsSnaps, Entry, Content
  <2> QED  BY <1>s, <2>3, <2>4
<1>8. CASE \E u \in Undo : UndoApply(c, u)
  <2>1. PICK u \in Undo : ToolOp(c, UndoPut(work, u))  BY <1>8 DEF UndoApply
  <2>2. OnlyLive(work, UndoPut(work, u))  BY <1>0, RestoreOnlyLive
  <2> QED  BY <1>l, <2>1, <2>2
<1>9. CASE \E u \in Undo : UndoDelete(c, u)
  <2>1. PICK u \in Undo : ToolOp(c, DropSaved(work, u))  BY <1>9 DEF UndoDelete
  <2>2. u \in Saved /\ tx = NoConn /\ tx' = tx /\ Apply(c, DropSaved(work, u))
    BY <2>1 DEF Saved, ToolOp, Ready, Op
  <2> QED  BY <1>d, <1>s, <2>2
<1>10. CASE \E u \in Undo \cup {NoUndo} : SyncStart(c, u)
  <2>1. Quiet(c)  BY <1>t, <1>g, <1>10 DEF SyncStart, Idle, Start, Quiet
  <2> QED  BY <2>1 DEF TxStep
<1>11. CASE SyncBegin(c)
  <2>1. Alike(work, work)  BY DEF Alike
  <2>2. Begins(c)  BY <1>11, <2>1 DEF SyncBegin, Begins
  <2> QED  BY <2>2 DEF TxStep
<1>k. ASSUME NEW p \in Path, goal[c] = "sync"
      PROVE  LET C == UndoCapture(work, target[c], p)
                 Keeps(new) == /\ Alike(new, work)
                               /\ target[c] \in Undo => UndoImage(new, target[c]) = UndoImage(work, target[c])
             IN  /\ \A f \in Pieces : Keeps(FsPutFile(C, p, f))
                 /\ \A k : Keeps(FsPutNode(C, p, k))
                 /\ Keeps(DeleteRows(C, {p}))
  <2> DEFINE u == target[c]
  <2>1. u \in Undo \cup {NoUndo}  BY <1>0, <1>k DEF GoalOK
  <2> HIDE DEF u
  <2> QED  BY <1>0, <2>1, SyncKeeps DEF u
<1>12. CASE \E p \in Path, f \in Pieces : SyncFile(c, p, f)
  <2>1. PICK p \in Path, f \in Pieces : SyncOp(c, FsPutFile(UndoCapture(work, target[c], p), p, f))
    BY <1>12 DEF SyncFile
  <2>2. goal[c] = "sync"  BY <2>1 DEF SyncOp
  <2> QED  BY <1>k, <1>y, <2>1, <2>2
<1>13. CASE \E p \in Path, k \in NodeKind : SyncNode(c, p, k)
  <2>1. PICK p \in Path, k \in NodeKind : SyncOp(c, FsPutNode(UndoCapture(work, target[c], p), p, k))
    BY <1>13 DEF SyncNode
  <2>2. goal[c] = "sync"  BY <2>1 DEF SyncOp
  <2> QED  BY <1>k, <1>y, <2>1, <2>2
<1>14. CASE \E p \in Path : SyncDelete(c, p)
  <2>1. PICK p \in Path : SyncOp(c, DeleteRows(UndoCapture(work, target[c], p), {p}))
    BY <1>14 DEF SyncDelete
  <2>2. goal[c] = "sync"  BY <2>1 DEF SyncOp
  <2> QED  BY <1>k, <1>y, <2>1, <2>2
<1>15. CASE SyncCommit(c)
  <2>1. Alike(work, work)  BY DEF Alike
  <2>2. Commits(c)  BY <1>15, <2>1 DEF SyncCommit, Commits
  <2> QED  BY <2>2 DEF TxStep
<1> QED
  BY <1>1, <1>2, <1>3, <1>4, <1>5, <1>6, <1>7, <1>8, <1>9, <1>10, <1>11, <1>12, <1>13,
     <1>14, <1>15 DEF Tool

\* A closed connection is in no call.
LEMMA ClosedTx ==
  ASSUME StoreInv, TxInv, NEW c \in Conn, Connect(c) \/ Mount(c) \/ Tool(c)
  PROVE  \A d \in Conn : mode'[d] = "closed" => goal'[d] = "none"
<1>1. /\ mode \in [Conn -> {"closed", "mount", "tool"}]
      /\ goal \in [Conn -> {"none", "open", "close", "snapshot", "sync", "write", "truncate"}]
      /\ \A d \in Conn : mode[d] = "closed" => goal[d] = "none"
  BY DEF StoreInv, ControlOK, TxInv
<1>2. CASE Connect(c)
  <2>1. CASE \E m \in {"mount", "tool"} : Open(c, m)  BY <1>1, <2>1 DEF Open, Start
  <2>2. CASE Opened(c)  BY <1>1, <2>2 DEF Opened, GoalDone
  <2>3. CASE \E p \in Path : FinalizeNext(c, p)  BY <1>1, <2>3 DEF FinalizeNext
  <2>4. CASE Unmount(c)  BY <1>1, <2>4 DEF Unmount, Idle, Start
  <2>5. CASE Close(c)  BY <1>1, <2>5 DEF Close, Leave, GoalDone
  <2>6. CASE Crash(c)  BY <1>1, <2>6 DEF Crash, Leave, GoalDone
  <2>7. CASE Fail(c)  BY <1>1, <2>7 DEF Fail, GoalDone
  <2> QED  BY <1>2, <2>1, <2>2, <2>3, <2>4, <2>5, <2>6, <2>7 DEF Connect
<1>3. CASE Mount(c)
  <2>1. CASE \E g \in {"write", "truncate"}, p \in Path, i, j \in 0 .. MaxChunks : WriteStat(c, g, p, i, j)
    BY <1>1, <2>1 DEF WriteStat, Idle
  <2>2. CASE WriteCommit(c)  BY <1>1, <2>2 DEF WriteCommit, GoalDone
  <2>3. CASE UNCHANGED <<mode, goal>>  BY <1>1, <2>3
  <2> QED  BY <1>3, <2>1, <2>2, <2>3
           DEF Mount, MountCreate, MountUnlink, MountRename, Op, WriteBegin, WriteChunk
<1>4. CASE Tool(c)
  <2>1. CASE \E s \in Snap : SnapshotStart(c, s)  BY <1>1, <2>1 DEF SnapshotStart, Idle, Start
  <2>2. CASE SnapshotCreate(c)  BY <1>1, <2>2 DEF SnapshotCreate, GoalDone
  <2>3. CASE \E u \in Undo \cup {NoUndo} : SyncStart(c, u)  BY <1>1, <2>3 DEF SyncStart, Idle, Start
  <2>4. CASE SyncCommit(c)  BY <1>1, <2>4 DEF SyncCommit, GoalDone
  <2>5. CASE UNCHANGED <<mode, goal>>  BY <1>1, <2>5
  <2> QED  BY <1>4, <2>1, <2>2, <2>3, <2>4, <2>5
           DEF Tool, AddBytes, AddNode, SnapshotRestore, SnapshotDelete, UndoBegin, UndoApply,
               UndoDelete, SyncBegin, SyncFile, SyncNode, SyncDelete, ToolOp, SyncOp, Op
<1> QED  BY <1>2, <1>3, <1>4

\* Every step of a connection is of one of the six kinds.
LEMMA StepTx ==
  ASSUME StoreInv, TxInv, NEW c \in Conn, Connect(c) \/ Mount(c) \/ Tool(c)
  PROVE  TxStep(c)
BY ConnectTx, MountTx, ToolTx

\* TxInv is inductive.
LEMMA NextTxInv == StoreInv /\ TxInv /\ [Next]_vars => TxInv'
<1> SUFFICES ASSUME StoreInv, TxInv, [Next]_vars PROVE TxInv'  OBVIOUS
<1>1. CASE UNCHANGED vars  BY <1>1 DEF vars, TxInv
<1>2. CASE Next
  <2>1. PICK c \in Conn : Connect(c) \/ Mount(c) \/ Tool(c)  BY <1>2 DEF Next
  <2>2. TxStep(c)  BY <2>1, StepTx
  <2>3. \A d \in Conn : mode'[d] = "closed" => goal'[d] = "none"  BY <2>1, ClosedTx
  <2>4. c # NoConn  BY StoreAssumption
  <2>5. /\ tx = NoConn => work = disk
        /\ Alike(work, disk)
        /\ \A d \in Conn :
             /\ tx = d => goal[d] \in {"sync", "write", "truncate"}
             /\ tx = d /\ goal[d] = "sync" /\ target[d] \in Undo
                  => UndoImage(work, target[d]) = UndoImage(disk, target[d])
    BY DEF TxInv
  <2>6. /\ tx' = NoConn => work' = disk'
        /\ Alike(work', disk')
        /\ \A d \in Conn :
             /\ tx' = d => goal'[d] \in {"sync", "write", "truncate"}
             /\ tx' = d /\ goal'[d] = "sync" /\ target'[d] \in Undo
                  => UndoImage(work', target'[d]) = UndoImage(disk', target'[d])
    <3>a. Alike(disk', disk')  BY DEF Alike
    <3>1. CASE Quiet(c)
      <4>1. UNCHANGED <<disk, work, tx>>  BY <3>1 DEF Quiet
      <4>2. \A d \in Conn : tx' = d => goal'[d] = goal[d] /\ target'[d] = target[d]
        BY <3>1 DEF Quiet
      <4> QED  BY <2>5, <4>1, <4>2
    <3>2. CASE RolledBack(c)  BY <3>a, <3>2, StoreAssumption DEF RolledBack
    <3>3. CASE Applied  BY <3>a, <3>3, StoreAssumption DEF Applied
    <3>4. CASE Inside(c)
      <4>1. Alike(work', disk')  BY <2>5, <3>4, AlikeTrans DEF Inside
      <4> QED  BY <2>4, <2>5, <3>4, <4>1 DEF Inside
    <3>5. CASE Begins(c)
      <4>1. Alike(work', disk')  BY <2>5, <3>5, AlikeTrans DEF Begins
      <4> QED  BY <2>4, <2>5, <3>5, <4>1 DEF Begins
    <3>6. CASE Commits(c)  BY <3>a, <3>6, StoreAssumption DEF Commits
    <3> QED  BY <2>2, <3>1, <3>2, <3>3, <3>4, <3>5, <3>6 DEF TxStep
  <2> QED  BY <2>3, <2>6 DEF TxInv
<1> QED  BY <1>1, <1>2

\* The transaction invariant holds in every run.
LEMMA TxSafe == Spec => [](StoreInv /\ TxInv)
<1>1. Init => TxInv
  <2> SUFFICES ASSUME Init PROVE TxInv  OBVIOUS
  <2>1. work = disk /\ tx = NoConn /\ \A c \in Conn : goal[c] = "none"  BY DEF Init
  <2>2. Alike(work, disk)  BY <2>1 DEF Alike
  <2> QED  BY <2>1, <2>2, StoreAssumption DEF TxInv
<1> QED  BY <1>1, InitStoreInv, NextStoreInv, NextTxInv, PTL DEF Spec

\* Snapshots that agree entry by entry are the same tree.
LEMMA KeepsTrees ==
  ASSUME NEW a, NEW b, KeepsSnaps(a, b), NEW s \in Snap, s \in a.saved, s \in b.saved
  PROVE  Tree(b, s) = Tree(a, s)
<1>1. ASSUME NEW p \in Path
      PROVE  b.row[<<s, p>>].kind = a.row[<<s, p>>].kind /\ Content(b, s, p) = Content(a, s, p)
  <2>1. Entry(a, s, p) = Entry(b, s, p)  BY DEF KeepsSnaps
  <2> QED  BY <2>1, EntryGives
<1> QED  BY <1>1 DEF Tree

\* In every run, of any number of mounts and tools, with crashes and rollbacks
\* anywhere: a snapshot keeps its tree from the commit that creates it to the one
\* that deletes it, whatever is written, restored, synced or undone meanwhile.
THEOREM SnapshotsImmutable == Spec => SnapshotImmutable
<1>1. StoreInv /\ TxInv /\ [Next]_vars
        => [\A s \in Snap : s \in disk.saved /\ s \in disk'.saved => Tree(disk', s) = Tree(disk, s)]_vars
  <2> SUFFICES ASSUME StoreInv, TxInv, Next
               PROVE  \A s \in Snap : s \in disk.saved /\ s \in disk'.saved => Tree(disk', s) = Tree(disk, s)
    OBVIOUS
  <2>1. PICK c \in Conn : Connect(c) \/ Mount(c) \/ Tool(c)  BY DEF Next
  <2>2. TxStep(c)  BY <2>1, StepTx
  <2>3. (tx = NoConn => work = disk) /\ Alike(work, disk)  BY DEF TxInv
  <2>4. KeepsSnaps(disk, disk')
    <3>1. CASE disk' = disk  BY <3>1 DEF KeepsSnaps
    <3>2. CASE Applied  BY <2>3, <3>2 DEF Applied
    <3>3. CASE Commits(c)
      <4>1. Alike(work', disk)  BY <2>3, <3>3, AlikeTrans DEF Commits
      <4>2. disk' = work'  BY <3>3 DEF Commits
      <4> QED  BY <4>1, <4>2 DEF Alike, KeepsSnaps
    <3> QED  BY <2>2, <3>1, <3>2, <3>3 DEF TxStep, Quiet, RolledBack, Inside, Begins
  <2> QED  BY <2>4, KeepsTrees
<1> QED  BY <1>1, TxSafe, PTL DEF Spec, SnapshotImmutable

\* In every run, of any number of mounts and tools: from the moment a sync has its
\* transaction to the moment it commits, fails or dies, the tree its undo record
\* leads back to is the one before the sync.
THEOREM UndoOriginKept == Spec => UndoKeepsOrigin
<1>1. StoreInv /\ TxInv /\ [Next]_vars
        => [\A c \in Conn, u \in Undo :
              tx = c /\ goal[c] = "sync" /\ target[c] = u /\ u \in work'.saved
                => UndoImage(work', u) = UndoImage(work, u)]_vars
  <2> SUFFICES ASSUME StoreInv, TxInv, Next, NEW d \in Conn, NEW u \in Undo,
                      tx = d, goal[d] = "sync", target[d] = u
               PROVE  UndoImage(work', u) = UndoImage(work, u)
    OBVIOUS
  <2>1. PICK c \in Conn : Connect(c) \/ Mount(c) \/ Tool(c)  BY DEF Next
  <2>2. TxStep(c)  BY <2>1, StepTx
  <2>3. UndoImage(work, u) = UndoImage(disk, u)  BY DEF TxInv
  <2>4. tx # NoConn  BY StoreAssumption
  <2>5. CASE Quiet(c)  BY <2>5 DEF Quiet
  <2>6. CASE RolledBack(c)  BY <2>3, <2>6 DEF RolledBack
  <2>7. CASE Inside(c)  BY <2>7 DEF Inside
  <2>8. CASE Commits(c)  BY <2>8 DEF Commits
  <2> QED  BY <2>2, <2>4, <2>5, <2>6, <2>7, <2>8 DEF TxStep, Applied, Begins
<1> QED  BY <1>1, TxSafe, PTL DEF Spec, UndoKeepsOrigin
-----------------------------------------------------------------------------
(* Chunk lists and hashes. *)

\* The entry has the chunk rows of its size, and its hash unless vm_dirty has it;
\* X are the paths exempt from both, H those exempt from the second.
Good(img, X, H, o, p) ==
  /\ p \notin X => ChunksExact(img, o, p)
  /\ p \notin X \cup H /\ (o # Live \/ p \notin img.dirty) => HashFresh(img, o, p)

Faithful(img, X, H) == \A o \in Owner, p \in Path : Good(img, X, H, o, p)

\* The chunk rows of a deferred write in progress: those of the old size and
\* those written, or those a truncate keeps.
Half(c, i) ==
  IF goal[c] = "truncate" THEN i < wr[c].end ELSE i < wr[c].old \/ i < wr[c].next

\* Inside its transaction a write touches only chunk rows of its path; where the
\* path was whole and has the size the write read, it has the rows of Half.
HalfWritten(c) ==
  /\ work.dirty = disk.dirty /\ work.row = disk.row
  /\ \A o \in Owner, q \in Path, i \in Idx :
       o # Live \/ q # wr[c].path => work.chunk[<<o, q, i>>] = disk.chunk[<<o, q, i>>]
  /\ wr[c].path \notin raced /\ ~Outdated(c)
       => \A i \in Idx : work.chunk[<<Live, wr[c].path, i>>] # NoPiece <=> Half(c, i)

\* What the size read before the savepoint says of the write that follows.
StatHolds(c) ==
  /\ wr[c].next <= wr[c].end
  /\ goal[c] = "truncate" => wr[c].end <= wr[c].old
  /\ goal[c] = "write" /\ tx # c => wr[c].next <= wr[c].old

\* What a connection knows of the database in the middle of a call: the marks it
\* has still to finalize or that came late, and the size it read.
CallAt(c) ==
  /\ left[c] # {} => goal[c] \in {"open", "close", "snapshot", "sync"} /\ tx # c
  /\ goal[c] = "none" => late[c] = {}
  /\ goal[c] \in {"snapshot", "sync"} /\ tx # c => disk.dirty \subseteq left[c] \cup late[c]
  /\ goal[c] = "sync" /\ tx = c => Faithful(work, raced, copied) /\ work.dirty \subseteq late[c]
  /\ Writing(c) => StatHolds(c)
  /\ Writing(c) /\ tx = c => HalfWritten(c)

CallInv == Faithful(disk, raced, copied) /\ \A c \in Conn : CallAt(c)

\* The same entry is as good: where the exemptions came along, a hash is only
\* asked for where it was.
LEMMA GoodMoved ==
  ASSUME NEW a, NEW X, NEW H, NEW o, NEW p, NEW b, NEW Y, NEW K, NEW w, NEW q,
         Entry(b, w, q) = Entry(a, o, p), Good(a, X, H, o, p),
         p \in X => q \in Y, p \in H => q \in K,
         q \notin Y \cup K /\ (w # Live \/ q \notin b.dirty) => (o # Live \/ p \notin a.dirty)
  PROVE  Good(b, Y, K, w, q)
<1>1. /\ b.row[<<w, q>>] = a.row[<<o, p>>]
      /\ Content(b, w, q) = Content(a, o, p)
      /\ \A i \in Idx : b.chunk[<<w, q, i>>] = a.chunk[<<o, p, i>>]
  BY EntryGives
<1>2. q \notin Y => ChunksExact(b, w, q)  BY <1>1 DEF Good, ChunksExact
<1>3. q \notin Y \cup K /\ (w # Live \/ q \notin b.dirty) => HashFresh(b, w, q)
  BY <1>1 DEF Good, HashFresh
<1> QED  BY <1>2, <1>3 DEF Good

\* The same with the same exemptions.
LEMMA GoodSame ==
  ASSUME NEW a, NEW X, NEW H, NEW o, NEW b, NEW w, NEW q,
         Entry(b, w, q) = Entry(a, o, q), Good(a, X, H, o, q),
         q \notin X \cup H /\ (w # Live \/ q \notin b.dirty) => (o # Live \/ q \notin a.dirty)
  PROVE  Good(b, X, H, w, q)
BY GoodMoved

\* Exempting more.
LEMMA FaithfulMore ==
  ASSUME NEW img, NEW X, NEW H, NEW Y, NEW K, Faithful(img, X, H), X \subseteq Y, H \subseteq K
  PROVE  Faithful(img, Y, K)
BY DEF Faithful, Good

\* A path that holds no file is good without chunk rows.
LEMMA GoodBlank ==
  ASSUME NEW img, NEW X, NEW H, NEW o, NEW p, NEW r, Entry(img, o, p) = <<r, Blank>>, r.kind # "file"
  PROVE  Good(img, X, H, o, p)
<1>1. img.row[<<o, p>>] = r /\ Content(img, o, p) = Blank
  <2>1. Entry(img, o, p)[1] = r /\ Entry(img, o, p)[2] = Blank  OBVIOUS
  <2> QED  BY <2>1 DEF Entry
<1>2. \A i \in Idx : img.chunk[<<o, p, i>>] = NoPiece
  <2>1. \A i \in Idx : Content(img, o, p)[i] = img.chunk[<<o, p, i>>]  BY DEF Content
  <2> QED  BY <1>1, <2>1 DEF Blank
<1> QED  BY <1>1, <1>2 DEF Good, ChunksExact, HashFresh

\* A stored file is good.
LEMMA GoodFile ==
  ASSUME NEW img, NEW X, NEW H, NEW p \in Path, NEW f \in Pieces, Entry(img, Live, p) = FileEntry(f)
  PROVE  Good(img, X, H, Live, p)
<1> DEFINE r == [kind |-> "file", size |-> Cardinality(DOMAIN f), hash |-> Sha(f)]
<1>1. img.row[<<Live, p>>] = r /\ Content(img, Live, p) = Sha(f)
  <2>1. Entry(img, Live, p)[1] = r /\ Entry(img, Live, p)[2] = Sha(f)  BY DEF FileEntry
  <2> QED  BY <2>1 DEF Entry
<1>2. PICK n \in 0 .. MaxChunks : f \in [0 .. (n - 1) -> Piece]  BY DEF Pieces
<1>3. DOMAIN f = 0 .. (n - 1) /\ n \in Nat  BY <1>2, ImageAssumption
<1>4. Cardinality(DOMAIN f) = n
  <2>1. Cardinality(DOMAIN f) = IF 0 > n - 1 THEN 0 ELSE n - 1 - 0 + 1
    BY <1>2, <1>3, FS_Interval, ImageAssumption
  <2> QED  BY <1>3, <2>1
<1>5. ASSUME NEW i \in Idx PROVE img.chunk[<<Live, p, i>>] # NoPiece <=> i < n
  <2>1. img.chunk[<<Live, p, i>>] = IF i \in DOMAIN f THEN f[i] ELSE NoPiece
    <3>1. Content(img, Live, p)[i] = img.chunk[<<Live, p, i>>]  BY DEF Content
    <3>2. Sha(f)[i] = IF i \in DOMAIN f THEN f[i] ELSE NoPiece  BY DEF Sha
    <3> QED  BY <1>1, <3>1, <3>2
  <2>2. i \in Nat /\ (i \in DOMAIN f <=> i < n)  BY <1>3, ImageAssumption DEF Idx
  <2>3. i \in DOMAIN f => f[i] # NoPiece  BY <1>2, <1>3, ImageAssumption
  <2> QED  BY <2>1, <2>2, <2>3
<1>6. ChunksExact(img, Live, p)
  <2>1. r.kind = "file" /\ r.size = n  BY <1>4
  <2> HIDE DEF r
  <2> QED  BY <1>1, <1>5, <2>1 DEF ChunksExact
<1>7. HashFresh(img, Live, p)
  <2>1. r.hash = Sha(f)  OBVIOUS
  <2> HIDE DEF r
  <2> QED  BY <1>1, <2>1 DEF HashFresh
<1> QED  BY <1>6, <1>7 DEF Good

\* Storing a file or a node.
LEMMA PutFaithful ==
  ASSUME NEW img, NEW X, NEW H, Tabled(img), Faithful(img, X, H), NEW p \in Path
  PROVE  /\ \A f \in Pieces : Faithful(FsPutFile(img, p, f), X, H)
         /\ \A k \in NodeKind : Faithful(FsPutNode(img, p, k), X, H)
<1>1. ASSUME NEW e, NEW new, Puts(img, new, p, e), new.dirty = img.dirty, Good(new, X, H, Live, p)
      PROVE  Faithful(new, X, H)
  <2> SUFFICES ASSUME NEW o \in Owner, NEW q \in Path PROVE Good(new, X, H, o, q)  BY DEF Faithful
  <2>1. CASE o = Live /\ q = p  BY <1>1, <2>1
  <2>2. CASE o # Live \/ q # p
    <3>1. Entry(new, o, q) = Entry(img, o, q)  BY <1>1, <2>2 DEF Puts
    <3>2. Good(img, X, H, o, q)  BY DEF Faithful
    <3> QED  BY <1>1, <3>1, <3>2, GoodSame
  <2> QED  BY <2>1, <2>2
<1>2. ASSUME NEW f \in Pieces PROVE Faithful(FsPutFile(img, p, f), X, H)
  <2>1. Puts(img, FsPutFile(img, p, f), p, FileEntry(f)) /\ FsPutFile(img, p, f).dirty = img.dirty
    BY FsPutFileDoes
  <2>2. Good(FsPutFile(img, p, f), X, H, Live, p)  BY <2>1, GoodFile DEF Puts
  <2> QED  BY <1>1, <2>1, <2>2
<1>3. ASSUME NEW k \in NodeKind PROVE Faithful(FsPutNode(img, p, k), X, H)
  <2> DEFINE r == [kind |-> k, size |-> 0, hash |-> NoHash]
  <2>1. Puts(img, FsPutNode(img, p, k), p, NodeEntry(k)) /\ FsPutNode(img, p, k).dirty = img.dirty
    BY FsPutNodeDoes
  <2>2. Entry(FsPutNode(img, p, k), Live, p) = <<r, Blank>>  BY <2>1 DEF Puts, NodeEntry
  <2>3. r.kind # "file"  BY StoreAssumption
  <2> HIDE DEF r
  <2>4. Good(FsPutNode(img, p, k), X, H, Live, p)  BY <2>2, <2>3, GoodBlank
  <2> QED  BY <1>1, <2>1, <2>4
<1> QED  BY <1>2, <1>3

\* Deleting rows.
LEMMA DeleteFaithful ==
  ASSUME NEW img, NEW X, NEW H, Tabled(img), Faithful(img, X, H), NEW P \in SUBSET Path
  PROVE  Faithful(DeleteRows(img, P), X, H)
<1> DEFINE R == DeleteRows(img, P)
<1>1. /\ Tabled(R) /\ R.saved = img.saved /\ R.dirty = img.dirty \ P
      /\ \A p \in P : /\ Entry(R, Live, p) = NoEntry
                      /\ \A i \in Idx : R.chunk[<<Live, p, i>>] = NoPiece
      /\ \A o \in Owner, q \in Path :
           o # Live \/ q \notin P => Entry(R, o, q) = Entry(img, o, q)
  BY DeleteRowsDoes
<1> HIDE DEF R
<1>2. ASSUME NEW o \in Owner, NEW q \in Path PROVE Good(R, X, H, o, q)
  <2>1. CASE o = Live /\ q \in P
    <3>1. Entry(R, o, q) = <<NoRow, Blank>> /\ NoRow.kind # "file"  BY <1>1, <2>1 DEF NoEntry, NoRow
    <3> QED  BY <3>1, GoodBlank
  <2>2. CASE o # Live \/ q \notin P
    <3>1. Entry(R, o, q) = Entry(img, o, q)  BY <1>1, <2>2
    <3>2. Good(img, X, H, o, q)  BY DEF Faithful
    <3>3. (o # Live \/ q \notin R.dirty) => (o # Live \/ q \notin img.dirty)  BY <1>1, <2>2
    <3> QED  BY <3>1, <3>2, <3>3, GoodSame
  <2> QED  BY <2>1, <2>2
<1> QED  BY <1>2 DEF Faithful, R

\* Renaming.
LEMMA RenameFaithful ==
  ASSUME NEW img, NEW X, NEW H, Tabled(img), Faithful(img, X, H), NEW p \in Path, NEW q \in Path, p # q
  PROVE  Faithful(RenameFile(img, p, q), Carried(X, p, q), Carried(H, p, q))
<1> DEFINE R == RenameFile(img, p, q)
           Y == Carried(X, p, q)
           K == Carried(H, p, q)
<1>c. X \subseteq Y /\ H \subseteq K /\ (p \in X => q \in Y) /\ (p \in H => q \in K)
  BY DEF Carried
<1> HIDE DEF Y, K
<1>1. /\ Tabled(R) /\ R.saved = img.saved
      /\ p \in img.dirty => q \in R.dirty
      /\ \A x \in img.dirty : x # p /\ x # q => x \in R.dirty
      /\ Entry(R, Live, p) = NoEntry
      /\ Entry(R, Live, q) = Entry(img, Live, p)
      /\ \A o \in Owner, x \in Path :
           o # Live \/ (x # p /\ x # q) => Entry(R, o, x) = Entry(img, o, x)
  BY RenameFileDoes
<1> HIDE DEF R
<1>2. ASSUME NEW o \in Owner, NEW x \in Path PROVE Good(R, Y, K, o, x)
  <2>1. CASE o = Live /\ x = p
    <3>1. Entry(R, o, x) = <<NoRow, Blank>> /\ NoRow.kind # "file"  BY <1>1, <2>1 DEF NoEntry, NoRow
    <3> QED  BY <3>1, GoodBlank
  <2>2. CASE o = Live /\ x = q
    <3>1. Entry(R, Live, q) = Entry(img, Live, p) /\ Good(img, X, H, Live, p)
      BY <1>1 DEF Faithful, Owner
    <3>2. (Live # Live \/ q \notin R.dirty) => (Live # Live \/ p \notin img.dirty)  BY <1>1
    <3>3. Good(R, Y, K, Live, q)  BY <3>1, <3>2, <1>c, GoodMoved
    <3> QED  BY <2>2, <3>3
  <2>3. CASE o # Live \/ (x # p /\ x # q)
    <3>1. Entry(R, o, x) = Entry(img, o, x) /\ Good(img, X, H, o, x)  BY <1>1, <2>3 DEF Faithful
    <3>2. (o # Live \/ x \notin R.dirty) => (o # Live \/ x \notin img.dirty)  BY <1>1, <2>3
    <3> QED  BY <3>1, <3>2, <1>c, GoodMoved
  <2> QED  BY <2>1, <2>2, <2>3
<1> QED  BY <1>2 DEF Faithful, R, Y, K

\* finalize_file of a file with exact chunks gives it its hash.
LEMMA FinalizeFaithful ==
  ASSUME NEW img \in Image, NEW X, NEW H, Faithful(img, X, H), NEW p \in Path
  PROVE  Faithful(FinalizeFile(img, p), X, H) /\ FinalizeFile(img, p).dirty = img.dirty \ {p}
<1> DEFINE R == FinalizeFile(img, p)
           r == img.row[<<Live, p>>]
           h == WholeFileHash(img, p)
<1>1. /\ Tabled(R) /\ R.saved = img.saved /\ R.dirty = img.dirty \ {p}
      /\ R.chunk = img.chunk
      /\ p \in img.dirty => R.row[<<Live, p>>] = [kind |-> r.kind, size |-> r.size, hash |-> h]
      /\ \A o \in Owner, q \in Path :
           o # Live \/ q # p \/ p \notin img.dirty => R.row[<<o, q>>] = img.row[<<o, q>>]
  BY FinalizeFileDoes
<1> HIDE DEF R
<1>2. ASSUME NEW o \in Owner, NEW q \in Path PROVE Good(R, X, H, o, q)
  <2>1. CASE o = Live /\ q = p /\ p \in img.dirty
    <3>1. p \notin X => ChunksExact(img, Live, p)  BY DEF Faithful, Good, Owner
    <3>2. R.row[<<Live, p>>].kind = r.kind /\ R.row[<<Live, p>>].size = r.size /\ R.row[<<Live, p>>].hash = h
      BY <1>1, <2>1
    <3>3. p \notin X => ChunksExact(R, Live, p)  BY <1>1, <3>1, <3>2 DEF ChunksExact
    <3>4. ASSUME p \notin X, r.kind = "file" PROVE h = Content(R, Live, p)
      <4>1. \A i \in Idx : (img.chunk[<<Live, p, i>>] # NoPiece <=> i < r.size)
        BY <3>1, <3>4 DEF ChunksExact
      <4>2. \A i \in Idx : (IF i < r.size THEN img.chunk[<<Live, p, i>>] ELSE NoPiece) = R.chunk[<<Live, p, i>>]
        BY <1>1, <4>1
      <4> QED  BY <4>2 DEF WholeFileHash, Content
    <3>5. p \notin X => HashFresh(R, Live, p)  BY <3>2, <3>4 DEF HashFresh
    <3> QED  BY <2>1, <3>3, <3>5 DEF Good
  <2>2. CASE o # Live \/ q # p \/ p \notin img.dirty
    <3>1. R.row[<<o, q>>] = img.row[<<o, q>>] /\ \A i \in Idx : R.chunk[<<o, q, i>>] = img.chunk[<<o, q, i>>]
      BY <1>1, <2>2
    <3>2. Entry(R, o, q) = Entry(img, o, q)  BY <3>1, EntrySame
    <3>3. Good(img, X, H, o, q)  BY DEF Faithful
    <3>4. (o # Live \/ q \notin R.dirty) => (o # Live \/ q \notin img.dirty)  BY <1>1, <2>2
    <3> QED  BY <3>2, <3>3, <3>4, GoodSame
  <2> QED  BY <2>1, <2>2
<1> QED  BY <1>1, <1>2 DEF Faithful, R

\* The capture of a path whose hash is not stale.
LEMMA CaptureFaithful ==
  ASSUME NEW img, NEW X, NEW H, Whole(img), Faithful(img, X, H),
         NEW u \in Undo \cup {NoUndo}, NEW p \in Path, p \in img.dirty => p \in H
  PROVE  Faithful(UndoCapture(img, u, p), X, H) /\ UndoCapture(img, u, p).dirty = img.dirty
<1> DEFINE C == UndoCapture(img, u, p)
<1>1. /\ Tabled(C) /\ C.dirty = img.dirty /\ C.saved = img.saved
      /\ u \in Undo => Entry(C, u, p) = IF img.row[<<u, p>>].kind = "unknown"
                                        THEN Entry(img, Live, p) ELSE Entry(img, u, p)
      /\ \A o \in Owner, q \in Path : o # u \/ q # p => Entry(C, o, q) = Entry(img, o, q)
  BY UndoCaptureDoes
<1>n. u = NoUndo => C = img  BY DEF UndoCapture
<1> HIDE DEF C
<1>2. ASSUME NEW o \in Owner, NEW q \in Path PROVE Good(C, X, H, o, q)
  <2>1. PICK w \in Owner : /\ Entry(C, o, q) = Entry(img, w, q)
                           /\ w = o \/ q = p
    <3>1. CASE u = NoUndo  BY <1>n, <3>1
    <3>2. CASE u \in Undo  BY <1>1, <3>2 DEF Owner
    <3> QED  BY <3>1, <3>2
  <2>2. Good(img, X, H, w, q)  BY DEF Faithful
  <2>3. q \notin X \cup H /\ (o # Live \/ q \notin C.dirty) => (w # Live \/ q \notin img.dirty)
    BY <1>1, <2>1
  <2> QED  BY <2>1, <2>2, <2>3, GoodSame
<1> QED  BY <1>1, <1>2 DEF Faithful, C

\* A snapshot of a tree whose stale hashes are exempt.
LEMMA TakeFaithful ==
  ASSUME NEW img, NEW X, NEW H, Whole(img), Faithful(img, X, H), img.dirty \subseteq H,
         NEW s \in Snap, s \notin img.saved
  PROVE  Faithful(SnapshotTake(img, s), X, H)
<1> DEFINE C == SnapshotTake(img, s)
<1>1. /\ Tabled(C) /\ C.dirty = img.dirty /\ C.saved = img.saved \cup {s}
      /\ \A p \in Path : Entry(C, s, p) = Entry(img, Live, p)
      /\ \A o \in Owner, q \in Path : o # s => Entry(C, o, q) = Entry(img, o, q)
  BY SnapshotTakeDoes
<1> HIDE DEF C
<1>2. ASSUME NEW o \in Owner, NEW q \in Path PROVE Good(C, X, H, o, q)
  <2>1. PICK w \in Owner : Entry(C, o, q) = Entry(img, w, q)  BY <1>1 DEF Owner
  <2>2. Good(img, X, H, w, q) /\ (q \in img.dirty => q \in H)  BY DEF Faithful
  <2> QED  BY <2>1, <2>2, GoodSame
<1> QED  BY <1>2 DEF Faithful, C

\* Restoring a snapshot.
LEMMA RestoreFaithful ==
  ASSUME NEW img, NEW X, NEW H, Tabled(img), Faithful(img, X, H), NEW s \in Snap
  PROVE  Faithful(SnapshotPut(img, s), X, H)
<1> DEFINE C == SnapshotPut(img, s)
<1>1. /\ Tabled(C) /\ C.dirty = img.dirty \ Path /\ C.saved = img.saved
      /\ \A p \in Path : Entry(C, Live, p) = Entry(img, s, p)
      /\ \A o \in Owner, q \in Path : o # Live => Entry(C, o, q) = Entry(img, o, q)
  BY SnapshotPutDoes
<1> HIDE DEF C
<1>2. ASSUME NEW o \in Owner, NEW q \in Path PROVE Good(C, X, H, o, q)
  <2>0. s \in Owner /\ s # Live  BY ImageAssumption DEF Owner, Saved
  <2>1. PICK w \in Owner : w # Live /\ Entry(C, o, q) = Entry(img, w, q)  BY <1>1, <2>0
  <2>2. Good(img, X, H, w, q)  BY DEF Faithful
  <2> QED  BY <2>1, <2>2, GoodSame
<1> QED  BY <1>2 DEF Faithful, C

\* Applying an undo record.
LEMMA UndoFaithful ==
  ASSUME NEW img, NEW X, NEW H, Tabled(img), Faithful(img, X, H), NEW u \in Undo
  PROVE  Faithful(UndoPut(img, u), X, H)
<1> DEFINE C == UndoPut(img, u)
           P == {p \in Path : img.row[<<u, p>>].kind # "unknown"}
<1>1. /\ Tabled(C) /\ C.dirty = img.dirty \ P /\ C.saved = img.saved
      /\ \A p \in P : Entry(C, Live, p) = IF img.row[<<u, p>>].kind = "none" THEN NoEntry
                                          ELSE Entry(img, u, p)
      /\ \A o \in Owner, q \in Path : o # Live \/ q \notin P => Entry(C, o, q) = Entry(img, o, q)
  BY UndoPutDoes
<1> HIDE DEF C, P
<1>2. ASSUME NEW o \in Owner, NEW q \in Path PROVE Good(C, X, H, o, q)
  <2>0. u \in Owner /\ u # Live  BY ImageAssumption DEF Owner, Saved
  <2>1. CASE o = Live /\ q \in P
    <3>1. CASE img.row[<<u, q>>].kind = "none"
      <4>1. Entry(C, o, q) = <<NoRow, Blank>> /\ NoRow.kind # "file"  BY <1>1, <2>1, <3>1 DEF NoEntry, NoRow
      <4> QED  BY <4>1, GoodBlank
    <3>2. CASE img.row[<<u, q>>].kind # "none"
      <4>1. Entry(C, o, q) = Entry(img, u, q)  BY <1>1, <2>1, <3>2
      <4>2. Good(img, X, H, u, q)  BY <2>0 DEF Faithful
      <4> QED  BY <2>0, <4>1, <4>2, GoodSame
    <3> QED  BY <3>1, <3>2
  <2>2. CASE o # Live \/ q \notin P
    <3>1. Entry(C, o, q) = Entry(img, o, q)  BY <1>1, <2>2
    <3>2. Good(img, X, H, o, q)  BY DEF Faithful
    <3>3. (o # Live \/ q \notin C.dirty) => (o # Live \/ q \notin img.dirty)  BY <1>1, <2>2
    <3> QED  BY <3>1, <3>2, <3>3, GoodSame
  <2> QED  BY <2>1, <2>2
<1> QED  BY <1>2 DEF Faithful, C

\* Dropping a snapshot or an undo record, and beginning an undo record.
LEMMA DropFaithful ==
  ASSUME NEW img \in Image, NEW X, NEW H, Faithful(img, X, H), NEW w \in Saved
  PROVE  Faithful(DropSaved(img, w), X, H) /\ Faithful([img EXCEPT !.saved = @ \cup {w}], X, H)
<1> DEFINE C == DropSaved(img, w)
           B == [img EXCEPT !.saved = @ \cup {w}]
<1>1. /\ Tabled(C) /\ C.dirty = img.dirty /\ C.saved = img.saved \ {w}
      /\ \A p \in Path : Entry(C, w, p) = <<Unknown, Blank>>
      /\ \A o \in Owner, q \in Path : o # w => Entry(C, o, q) = Entry(img, o, q)
  BY ImageTabled, DropSavedDoes
<1>2. B.row = img.row /\ B.chunk = img.chunk /\ B.dirty = img.dirty  BY DEF Image
<1> HIDE DEF C, B
<1>3. ASSUME NEW o \in Owner, NEW q \in Path PROVE Good(C, X, H, o, q)
  <2>1. CASE o = w
    <3>1. Entry(C, o, q) = <<Unknown, Blank>> /\ Unknown.kind # "file"  BY <1>1, <2>1 DEF Unknown
    <3> QED  BY <3>1, GoodBlank
  <2>2. CASE o # w
    <3>1. Entry(C, o, q) = Entry(img, o, q)  BY <1>1, <2>2
    <3>2. Good(img, X, H, o, q)  BY DEF Faithful
    <3> QED  BY <1>1, <3>1, <3>2, GoodSame
  <2> QED  BY <2>1, <2>2
<1>4. ASSUME NEW o \in Owner, NEW q \in Path PROVE Good(B, X, H, o, q)
  <2>1. Entry(B, o, q) = Entry(img, o, q)  BY <1>2 DEF Entry, Content
  <2>2. Good(img, X, H, o, q)  BY DEF Faithful
  <2> QED  BY <1>2, <2>1, <2>2, GoodSame
<1> QED  BY <1>3, <1>4 DEF Faithful, C, B

\* A sync operation, with its capture.
LEMMA SyncFaithful ==
  ASSUME NEW img, NEW X, NEW H, Whole(img), Faithful(img, X, H),
         NEW u \in Undo \cup {NoUndo}, NEW p \in Path, p \in img.dirty => p \in H
  PROVE  LET C == UndoCapture(img, u, p)
             Kept(new) == Faithful(new, X, H) /\ new.dirty \subseteq img.dirty
         IN  /\ \A f \in Pieces : Kept(FsPutFile(C, p, f))
             /\ \A k \in NodeKind : Kept(FsPutNode(C, p, k))
             /\ Kept(DeleteRows(C, {p}))
<1> DEFINE C == UndoCapture(img, u, p)
<1>1. Faithful(C, X, H) /\ C.dirty = img.dirty  BY CaptureFaithful
<1>2. Tabled(C)  BY CaptureAlike
<1> HIDE DEF C
<1>3. ASSUME NEW f \in Pieces
      PROVE  Faithful(FsPutFile(C, p, f), X, H) /\ FsPutFile(C, p, f).dirty \subseteq img.dirty
  <2>1. FsPutFile(C, p, f).dirty = C.dirty  BY <1>2, FsPutFileDoes
  <2>2. Faithful(FsPutFile(C, p, f), X, H)  BY <1>1, <1>2, PutFaithful
  <2> QED  BY <1>1, <2>1, <2>2
<1>4. ASSUME NEW k \in NodeKind
      PROVE  Faithful(FsPutNode(C, p, k), X, H) /\ FsPutNode(C, p, k).dirty \subseteq img.dirty
  <2>1. FsPutNode(C, p, k).dirty = C.dirty  BY <1>2, FsPutNodeDoes
  <2>2. Faithful(FsPutNode(C, p, k), X, H)  BY <1>1, <1>2, PutFaithful
  <2> QED  BY <1>1, <2>1, <2>2
<1>5. Faithful(DeleteRows(C, {p}), X, H) /\ DeleteRows(C, {p}).dirty \subseteq img.dirty
  <2>0. {p} \in SUBSET Path  OBVIOUS
  <2>1. DeleteRows(C, {p}).dirty = C.dirty \ {p}  BY <1>2, <2>0, DeleteRowsDoes
  <2>2. Faithful(DeleteRows(C, {p}), X, H)  BY <1>1, <1>2, <2>0, DeleteFaithful
  <2> QED  BY <1>1, <2>1, <2>2
<1> QED  BY <1>3, <1>4, <1>5 DEF C

\* A connection between calls, and in the calls that write no chunks.
LEMMA CallBetween ==
  ASSUME NEW c \in Conn, ~Writing(c)', tx' # c,
         left'[c] # {} => goal'[c] \in {"open", "close", "snapshot", "sync"},
         goal'[c] = "none" => late'[c] = {},
         goal'[c] \in {"snapshot", "sync"} => disk'.dirty \subseteq left'[c] \cup late'[c]
  PROVE  CallAt(c)'
BY DEF CallAt

\* Opening, finalizing, closing, crashing and failing.
LEMMA CallConnect ==
  ASSUME StoreInv, TxInv, CallInv, NEW c \in Conn, Connect(c), UNCHANGED <<raced, copied>>, Remember(c)
  PROVE  Faithful(disk', raced', copied') /\ CallAt(c)'
<1>0. /\ Faithful(disk, raced, copied) /\ CallAt(c) /\ c # NoConn /\ work \in Image
      /\ tx = NoConn => work = disk
      /\ late'[c] = IF goal'[c] = "none" THEN {} ELSE late[c]
      /\ goal[c] \notin {"sync", "write", "truncate"} => tx # c
      /\ mode[c] = "closed" => goal[c] = "none"
  BY StoreAssumption DEF CallInv, Remember, StoreInv, Whole, ControlOK, TxInv
<1>g. /\ goal \in [Conn -> {"none", "open", "close", "snapshot", "sync", "write", "truncate"}]
      /\ left \in [Conn -> SUBSET Path]
  BY DEF StoreInv, ControlOK
<1>1. CASE \E m \in {"mount", "tool"} : Open(c, m)
  <2>1. disk' = disk /\ tx' = tx /\ goal'[c] = "open" /\ tx # c  BY <1>0, <1>g, <1>1 DEF Open, Start
  <2> QED  BY <1>0, <2>1, CallBetween DEF Writing
<1>2. CASE Opened(c)
  <2>1. disk' = disk /\ tx' = tx /\ goal'[c] = "none" /\ tx # c /\ left'[c] = {}
    BY <1>0, <1>g, <1>2 DEF Opened, GoalDone
  <2> QED  BY <1>0, <2>1, CallBetween DEF Writing
<1>3. CASE \E p \in Path : FinalizeNext(c, p)
  <2>1. PICK p \in Path : FinalizeNext(c, p)  BY <1>3
  <2>2. /\ p \in left[c] /\ tx = NoConn /\ tx' = NoConn /\ goal' = goal
        /\ disk' = FinalizeFile(work, p) /\ left'[c] = left[c] \ {p}
    BY <1>0, <1>g, <2>1 DEF FinalizeNext, Apply
  <2>3. goal[c] \in {"open", "close", "snapshot", "sync"} /\ work = disk
    BY <1>0, <2>2 DEF CallAt
  <2>4. Faithful(disk', raced', copied') /\ disk'.dirty = disk.dirty \ {p}
    BY <1>0, <2>2, <2>3, FinalizeFaithful
  <2>5. goal[c] \in {"snapshot", "sync"} => disk.dirty \subseteq left[c] \cup late[c]
    BY <1>0, <2>2 DEF CallAt
  <2> QED  BY <1>0, <2>2, <2>3, <2>4, <2>5, CallBetween DEF Writing
<1>4. CASE Unmount(c)
  <2>1. disk' = disk /\ tx' = tx /\ goal'[c] = "close" /\ tx # c
    BY <1>0, <1>g, <1>4 DEF Unmount, Idle, Start
  <2> QED  BY <1>0, <2>1, CallBetween DEF Writing
<1>5. CASE Close(c)
  <2>1. disk' = disk /\ tx' = tx /\ goal'[c] = "none" /\ tx # c /\ left'[c] = {}
    BY <1>0, <1>g, <1>5 DEF Close, Idle, Leave, GoalDone
  <2> QED  BY <1>0, <2>1, CallBetween DEF Writing
<1>6. CASE Crash(c)
  <2>1. disk' = disk /\ tx' # c /\ goal'[c] = "none" /\ left'[c] = {}
    BY <1>0, <1>g, <1>6 DEF Crash, Leave, GoalDone, Rollback
  <2> QED  BY <1>0, <2>1, CallBetween DEF Writing
<1>7. CASE Fail(c)
  <2>1. disk' = disk /\ tx' # c /\ goal'[c] \in {"none", "open", "close"} /\ left'[c] = {}
    BY <1>0, <1>g, <1>7 DEF Fail, GoalDone, Rollback
  <2> QED  BY <1>0, <2>1, CallBetween DEF Writing
<1> QED  BY <1>1, <1>2, <1>3, <1>4, <1>5, <1>6, <1>7 DEF Connect

\* A tool.
LEMMA CallTool ==
  ASSUME StoreInv, TxInv, CallInv, NEW c \in Conn, Tool(c), Remember(c)
  PROVE  Faithful(disk', raced', copied') /\ CallAt(c)'
<1>0. /\ Faithful(disk, raced, copied) /\ CallAt(c) /\ c # NoConn /\ Whole(work) /\ work \in Image /\ Tabled(work)
      /\ tx = NoConn => work = disk
      /\ late'[c] = IF goal'[c] = "none" THEN {} ELSE late[c]
      /\ goal[c] \notin {"sync", "write", "truncate"} => tx # c
      /\ mode[c] = "closed" => goal[c] = "none"
  BY StoreAssumption, ImageTabled DEF CallInv, Remember, StoreInv, Whole, ControlOK, TxInv
<1>g. /\ goal \in [Conn -> {"none", "open", "close", "snapshot", "sync", "write", "truncate"}]
      /\ left \in [Conn -> SUBSET Path] /\ GoalOK
  BY DEF StoreInv, ControlOK
<1>l. ASSUME NEW img, Faithful(img, raced, copied), ToolOp(c, img), UNCHANGED <<raced, copied>>
      PROVE  Faithful(disk', raced', copied') /\ CallAt(c)'
  <2>1. /\ tx = NoConn /\ tx' = NoConn /\ disk' = img /\ goal[c] = "none" /\ goal'[c] = "none"
        /\ left' = left
    BY <1>0, <1>l DEF ToolOp, Ready, Idle, Op, Apply
  <2>2. left[c] = {}  BY <1>0, <2>1 DEF CallAt
  <2> QED  BY <1>0, <1>l, <2>1, <2>2, CallBetween DEF Writing
<1>f. Ready(c, "tool") => Faithful(work, raced, copied)  BY <1>0 DEF Ready
<1>y. ASSUME NEW img, Faithful(img, raced', copied'), img.dirty \subseteq late[c], SyncOp(c, img),
             raced' = raced, copied \subseteq copied'
      PROVE  Faithful(disk', raced', copied') /\ CallAt(c)'
  <2>1. /\ tx = c /\ tx' = c /\ disk' = disk /\ work' = img /\ goal[c] = "sync" /\ goal' = goal
        /\ left' = left
    BY <1>y DEF SyncOp, Op, Apply
  <2>2. left[c] = {}  BY <1>0, <2>1 DEF CallAt
  <2>3. Faithful(disk, raced', copied')  BY <1>0, <1>y, FaithfulMore
  <2> QED  BY <1>0, <1>y, <2>1, <2>2, <2>3 DEF CallAt, Writing
<1>e. ASSUME NEW P, Copies(c, P) PROVE raced' = raced /\ copied \subseteq copied'
  BY <1>e DEF Copies
<1>1. CASE UNCHANGED <<raced, copied>> /\ \E p \in Path, f \in Pieces : AddBytes(c, p, f)
  <2>1. PICK p \in Path, f \in Pieces : ToolOp(c, FsPutFile(work, p, f))  BY <1>1 DEF AddBytes
  <2>2. Faithful(work, raced, copied)  BY <1>f, <2>1 DEF ToolOp
  <2>3. Faithful(FsPutFile(work, p, f), raced, copied)  BY <1>0, <2>2, PutFaithful
  <2> QED  BY <1>l, <1>1, <2>1, <2>3
<1>2. CASE UNCHANGED <<raced, copied>> /\ \E p \in Path, k \in NodeKind : AddNode(c, p, k)
  <2>1. PICK p \in Path, k \in NodeKind : ToolOp(c, FsPutNode(work, p, k))  BY <1>2 DEF AddNode
  <2>2. Faithful(work, raced, copied)  BY <1>f, <2>1 DEF ToolOp
  <2>3. Faithful(FsPutNode(work, p, k), raced, copied)  BY <1>0, <2>2, PutFaithful
  <2> QED  BY <1>l, <1>2, <2>1, <2>3
<1>3. CASE UNCHANGED <<raced, copied>> /\ \E s \in Snap : SnapshotStart(c, s)
  <2>1. disk' = disk /\ tx' = tx /\ goal'[c] = "snapshot" /\ tx # c /\ left'[c] = disk.dirty
    BY <1>0, <1>g, <1>3 DEF SnapshotStart, Idle, Start
  <2> QED  BY <1>0, <1>3, <2>1, CallBetween DEF Writing
<1>4. CASE UNCHANGED <<raced, copied>> /\ \E s \in Snap : SnapshotRestore(c, s)
  <2>1. PICK s \in Snap : ToolOp(c, SnapshotPut(work, s))  BY <1>4 DEF SnapshotRestore
  <2>2. Faithful(work, raced, copied)  BY <1>f, <2>1 DEF ToolOp
  <2>3. Faithful(SnapshotPut(work, s), raced, copied)  BY <1>0, <2>2, RestoreFaithful
  <2> QED  BY <1>l, <1>4, <2>1, <2>3
<1>5. CASE UNCHANGED <<raced, copied>> /\ \E s \in Snap : SnapshotDelete(c, s)
  <2>1. PICK s \in Saved : ToolOp(c, DropSaved(work, s))  BY <1>5 DEF SnapshotDelete, Saved
  <2>2. Faithful(work, raced, copied)  BY <1>f, <2>1 DEF ToolOp
  <2>3. Faithful(DropSaved(work, s), raced, copied)  BY <1>0, <2>2, DropFaithful
  <2> QED  BY <1>l, <1>5, <2>1, <2>3
<1>6. CASE SnapshotCreate(c) /\ Copies(c, Path)
  <2> DEFINE s == target[c]
  <2>1. /\ s \in Snap /\ s \notin work.saved /\ tx = NoConn /\ tx' = NoConn
        /\ goal[c] = "snapshot" /\ left[c] = {} /\ left' = left /\ goal'[c] = "none"
        /\ disk' = SnapshotTake(work, s)
    BY <1>0, <1>g, <1>6 DEF SnapshotCreate, GoalOK, GoalDone, Apply
  <2>2. Faithful(work, raced, copied) /\ work.dirty \subseteq late[c]
    BY <1>0, <2>1 DEF CallAt
  <2>3. work.dirty \subseteq Path  BY <1>0 DEF Image
  <2>4. raced' = raced /\ copied \subseteq copied' /\ work.dirty \subseteq copied'
    BY <1>6, <2>2, <2>3 DEF Copies
  <2>5. Faithful(work, raced', copied')  BY <2>2, <2>4, FaithfulMore
  <2> HIDE DEF s
  <2>6. Faithful(SnapshotTake(work, s), raced', copied')  BY <1>0, <2>1, <2>4, <2>5, TakeFaithful
  <2> QED  BY <1>0, <2>1, <2>6, CallBetween DEF Writing
<1>7. CASE UNCHANGED <<raced, copied>> /\ \E u \in Undo : UndoBegin(c, u)
  <2>1. PICK u \in Saved : ToolOp(c, [work EXCEPT !.saved = @ \cup {u}])
    BY <1>7 DEF UndoBegin, Saved
  <2>2. Faithful(work, raced, copied)  BY <1>f, <2>1 DEF ToolOp
  <2>3. Faithful([work EXCEPT !.saved = @ \cup {u}], raced, copied)  BY <1>0, <2>2, DropFaithful
  <2> QED  BY <1>l, <1>7, <2>1, <2>3
<1>8. CASE UNCHANGED <<raced, copied>> /\ \E u \in Undo : UndoApply(c, u)
  <2>1. PICK u \in Undo : ToolOp(c, UndoPut(work, u))  BY <1>8 DEF UndoApply
  <2>2. Faithful(work, raced, copied)  BY <1>f, <2>1 DEF ToolOp
  <2>3. Faithful(UndoPut(work, u), raced, copied)  BY <1>0, <2>2, UndoFaithful
  <2> QED  BY <1>l, <1>8, <2>1, <2>3
<1>9. CASE UNCHANGED <<raced, copied>> /\ \E u \in Undo : UndoDelete(c, u)
  <2>1. PICK u \in Saved : ToolOp(c, DropSaved(work, u))  BY <1>9 DEF UndoDelete, Saved
  <2>2. Faithful(work, raced, copied)  BY <1>f, <2>1 DEF ToolOp
  <2>3. Faithful(DropSaved(work, u), raced, copied)  BY <1>0, <2>2, DropFaithful
  <2> QED  BY <1>l, <1>9, <2>1, <2>3
<1>10. CASE UNCHANGED <<raced, copied>> /\ \E u \in Undo \cup {NoUndo} : SyncStart(c, u)
  <2>1. disk' = disk /\ tx' = tx /\ goal'[c] = "sync" /\ tx # c /\ left'[c] = disk.dirty
    BY <1>0, <1>g, <1>10 DEF SyncStart, Idle, Start
  <2> QED  BY <1>0, <1>10, <2>1, CallBetween DEF Writing
<1>11. CASE UNCHANGED <<raced, copied>> /\ SyncBegin(c)
  <2>1. /\ goal[c] = "sync" /\ left[c] = {} /\ tx = NoConn /\ tx' = c
        /\ UNCHANGED <<disk, work, goal, left>>
    BY <1>11 DEF SyncBegin
  <2>2. work = disk /\ disk.dirty \subseteq late[c]  BY <1>0, <2>1 DEF CallAt
  <2> QED  BY <1>0, <1>11, <2>1, <2>2 DEF CallAt, Writing
<1>k. ASSUME NEW p \in Path, goal[c] = "sync", tx = c, Copies(c, {p})
      PROVE  LET C == UndoCapture(work, target[c], p)
                 Kept(new) == Faithful(new, raced', copied') /\ new.dirty \subseteq late[c]
             IN  /\ \A f \in Pieces : Kept(FsPutFile(C, p, f))
                 /\ \A k \in NodeKind : Kept(FsPutNode(C, p, k))
                 /\ Kept(DeleteRows(C, {p}))
  <2> DEFINE u == target[c]
  <2>1. u \in Undo \cup {NoUndo}  BY <1>g, <1>k DEF GoalOK
  <2>2. Faithful(work, raced, copied) /\ work.dirty \subseteq late[c]  BY <1>0, <1>k DEF CallAt
  <2>3. raced' = raced /\ copied \subseteq copied' /\ (p \in work.dirty => p \in copied')
    BY <1>k, <2>2 DEF Copies
  <2>4. Faithful(work, raced', copied')  BY <2>2, <2>3, FaithfulMore
  <2> HIDE DEF u
  <2> DEFINE C == UndoCapture(work, u, p)
  <2>5. /\ \A f \in Pieces : /\ Faithful(FsPutFile(C, p, f), raced', copied')
                              /\ FsPutFile(C, p, f).dirty \subseteq work.dirty
        /\ \A k \in NodeKind : /\ Faithful(FsPutNode(C, p, k), raced', copied')
                                /\ FsPutNode(C, p, k).dirty \subseteq work.dirty
        /\ Faithful(DeleteRows(C, {p}), raced', copied') /\ DeleteRows(C, {p}).dirty \subseteq work.dirty
    BY <1>0, <2>1, <2>3, <2>4, SyncFaithful
  <2> HIDE DEF C
  <2> QED  BY <2>2, <2>5 DEF u, C
<1>12. CASE \E p \in Path : Copies(c, {p}) /\ \E f \in Pieces : SyncFile(c, p, f)
  <2>1. PICK p \in Path : Copies(c, {p}) /\ \E f \in Pieces : SyncFile(c, p, f)  BY <1>12
  <2>2. PICK f \in Pieces : SyncOp(c, FsPutFile(UndoCapture(work, target[c], p), p, f))
    BY <2>1 DEF SyncFile
  <2>3. goal[c] = "sync" /\ tx = c  BY <2>2 DEF SyncOp
  <2> QED  BY <1>e, <1>k, <1>y, <2>1, <2>2, <2>3
<1>13. CASE \E p \in Path : Copies(c, {p}) /\ \E k \in NodeKind : SyncNode(c, p, k)
  <2>1. PICK p \in Path : Copies(c, {p}) /\ \E k \in NodeKind : SyncNode(c, p, k)  BY <1>13
  <2>2. PICK k \in NodeKind : SyncOp(c, FsPutNode(UndoCapture(work, target[c], p), p, k))
    BY <2>1 DEF SyncNode
  <2>3. goal[c] = "sync" /\ tx = c  BY <2>2 DEF SyncOp
  <2> QED  BY <1>e, <1>k, <1>y, <2>1, <2>2, <2>3
<1>14. CASE \E p \in Path : Copies(c, {p}) /\ SyncDelete(c, p)
  <2>1. PICK p \in Path :
          Copies(c, {p}) /\ SyncOp(c, DeleteRows(UndoCapture(work, target[c], p), {p}))
    BY <1>14 DEF SyncDelete
  <2>2. goal[c] = "sync" /\ tx = c  BY <2>1 DEF SyncOp
  <2> QED  BY <1>e, <1>k, <1>y, <2>1, <2>2
<1>15. CASE UNCHANGED <<raced, copied>> /\ SyncCommit(c)
  <2>1. tx = c /\ goal[c] = "sync" /\ disk' = work /\ tx' = NoConn /\ goal'[c] = "none" /\ left' = left
    BY <1>g, <1>15 DEF SyncCommit, GoalDone
  <2>2. Faithful(work, raced, copied) /\ left[c] = {}  BY <1>0, <2>1 DEF CallAt
  <2> QED  BY <1>0, <1>15, <2>1, <2>2, CallBetween DEF Writing
<1> QED
  BY <1>1, <1>2, <1>3, <1>4, <1>5, <1>6, <1>7, <1>8, <1>9, <1>10, <1>11, <1>12, <1>13,
     <1>14, <1>15 DEF Tool

\* A mount: the deferred write leaves the rows of the other paths alone, and its
\* commit gives the written path the size of the chunk rows it has.
LEMMA CallMount ==
  ASSUME StoreInv, TxInv, CallInv, NEW c \in Conn, Mount(c), Remember(c)
  PROVE  Faithful(disk', raced', copied') /\ CallAt(c)'
<1>0. /\ Faithful(disk, raced, copied) /\ CallAt(c) /\ c # NoConn /\ work \in Image /\ disk \in Image /\ Tabled(work)
      /\ tx = NoConn => work = disk
      /\ late'[c] = IF goal'[c] = "none" THEN {} ELSE late[c]
      /\ goal[c] \notin {"sync", "write", "truncate"} => tx # c
  BY StoreAssumption, ImageTabled DEF CallInv, Remember, StoreInv, Whole, ControlOK, TxInv
<1>g. /\ goal \in [Conn -> {"none", "open", "close", "snapshot", "sync", "write", "truncate"}]
      /\ left \in [Conn -> SUBSET Path] /\ GoalOK
      /\ wr \in [Conn -> [path : Path \cup {NoPath}, next : 0 .. MaxChunks,
                          end : 0 .. MaxChunks, old : 0 .. MaxChunks]]
  BY DEF StoreInv, ControlOK
<1>l. ASSUME NEW img, Faithful(img, raced', copied'), Ready(c, "mount"), Op(c, img)
      PROVE  Faithful(disk', raced', copied') /\ CallAt(c)'
  <2>1. /\ tx = NoConn /\ tx' = NoConn /\ disk' = img /\ goal[c] = "none" /\ goal'[c] = "none"
        /\ left' = left
    BY <1>0, <1>l DEF Ready, Idle, Op, Apply
  <2>2. left[c] = {}  BY <1>0, <2>1 DEF CallAt
  <2> QED  BY <1>0, <1>l, <2>1, <2>2, CallBetween DEF Writing
<1>f. Ready(c, "mount") => Faithful(work, raced, copied)  BY <1>0 DEF Ready
<1>1. CASE UNCHANGED <<raced, copied>> /\ \E p \in Path, k \in {"file"} \cup NodeKind : MountCreate(c, p, k)
  <2>1. PICK p \in Path, k \in {"file"} \cup NodeKind :
          /\ Op(c, IF k = "file" THEN FsPutFile(work, p, EmptyFile) ELSE FsPutNode(work, p, k))
          /\ Ready(c, "mount")
    BY <1>1 DEF MountCreate
  <2>2. EmptyFile \in Pieces
    <3>1. EmptyFile \in [0 .. (0 - 1) -> Piece] /\ 0 \in 0 .. MaxChunks
      BY ImageAssumption DEF EmptyFile
    <3> QED  BY <3>1 DEF Pieces
  <2>3. Faithful(work, raced, copied)  BY <1>f, <2>1
  <2>4. Faithful(FsPutFile(work, p, EmptyFile), raced, copied)  BY <1>0, <2>2, <2>3, PutFaithful
  <2>5. k \in NodeKind => Faithful(FsPutNode(work, p, k), raced, copied)  BY <1>0, <2>3, PutFaithful
  <2>6. CASE k = "file"  BY <1>l, <1>1, <2>1, <2>4, <2>6
  <2>7. CASE k # "file"  BY <1>l, <1>1, <2>1, <2>5, <2>7
  <2> QED  BY <2>6, <2>7
<1>2. CASE UNCHANGED <<raced, copied>> /\ \E p \in Path : MountUnlink(c, p)
  <2>1. PICK p \in Path : Op(c, DeleteRows(work, {p})) /\ Ready(c, "mount")  BY <1>2 DEF MountUnlink
  <2>2. {p} \in SUBSET Path /\ Faithful(work, raced, copied)  BY <1>f, <2>1
  <2>3. Faithful(DeleteRows(work, {p}), raced, copied)  BY <1>0, <2>2, DeleteFaithful
  <2> QED  BY <1>l, <1>2, <2>1, <2>3
<1>3. CASE \E p, q \in Path : /\ MountRename(c, p, q)
                              /\ raced' = Carried(raced, p, q) /\ copied' = Carried(copied, p, q)
  <2>1. PICK p \in Path, q \in Path :
          /\ p # q /\ Ready(c, "mount")
          /\ Op(c, IF LiveKind(work, p) = "none" /\ view[c][q] = "none"
                   THEN work ELSE RenameFile(work, p, q))
          /\ raced' = Carried(raced, p, q) /\ copied' = Carried(copied, p, q)
    BY <1>3 DEF MountRename
  <2>2. Faithful(work, raced, copied)  BY <1>f, <2>1
  <2>3. Faithful(RenameFile(work, p, q), raced', copied')  BY <1>0, <2>1, <2>2, RenameFaithful
  <2>4. raced \subseteq raced' /\ copied \subseteq copied'  BY <2>1 DEF Carried
  <2>5. Faithful(work, raced', copied')  BY <2>2, <2>4, FaithfulMore
  <2>6. CASE LiveKind(work, p) = "none" /\ view[c][q] = "none"  BY <1>l, <2>1, <2>5, <2>6
  <2>7. CASE ~(LiveKind(work, p) = "none" /\ view[c][q] = "none")  BY <1>l, <2>1, <2>3, <2>7
  <2> QED  BY <2>6, <2>7
<1>4. CASE /\ UNCHANGED <<raced, copied>>
           /\ \E g \in {"write", "truncate"}, p \in Path, i, j \in 0 .. MaxChunks : WriteStat(c, g, p, i, j)
  <2>1. PICK g \in {"write", "truncate"}, p \in Path, i \in 0 .. MaxChunks, j \in 0 .. MaxChunks :
          WriteStat(c, g, p, i, j)
    BY <1>4
  <2> DEFINE old == LiveSize(disk, p)
  <2>2. /\ goal[c] = "none" /\ goal'[c] = g /\ disk' = disk /\ tx' = tx /\ left' = left
        /\ LiveKind(disk, p) = "file"
        /\ wr'[c] = [path |-> p, next |-> i, end |-> j, old |-> old]
        /\ IF g = "write" THEN i < j /\ i <= old
           ELSE IF i = j THEN j < old ELSE i + 1 = j /\ j <= old
    BY <1>g, <2>1 DEF WriteStat, Idle
  <2>3. old \in 0 .. MaxChunks  BY <1>0 DEF LiveSize, Image, Row, Owner
  <2> HIDE DEF old
  <2>4. /\ i <= j
        /\ g = "truncate" => j <= old
        /\ g = "write" => i <= old
    BY <2>2, <2>3, ImageAssumption
  <2>5. wr'[c].path = p /\ wr'[c].next = i /\ wr'[c].end = j /\ wr'[c].old = old  BY <2>2
  <2>6. StatHolds(c)'  BY <2>2, <2>4, <2>5 DEF StatHolds, old
  <2>7. tx # c /\ left[c] = {}  BY <1>0, <2>2 DEF CallAt
  <2> QED  BY <1>0, <2>2, <1>4, <2>6, <2>7 DEF CallAt
<1> DEFINE whole == wr[c].path \notin raced /\ LiveKind(disk, wr[c].path) = "file"
                    /\ LiveSize(disk, wr[c].path) = wr[c].old
           p == wr[c].path
           next == wr[c].next
           end == wr[c].end
           old == wr[c].old
<1>w. ASSUME Writing(c)
      PROVE  /\ p \in Path /\ next \in Nat /\ end \in Nat /\ old \in Nat
             /\ next \in 0 .. MaxChunks /\ end \in 0 .. MaxChunks
             /\ next <= end
             /\ goal[c] = "truncate" => end <= old
             /\ goal[c] = "write" /\ tx # c => next <= old
             /\ left[c] = {} /\ goal[c] \in {"write", "truncate"}
  <2>1. p \in Path /\ goal[c] \in {"write", "truncate"}  BY <1>g, <1>w DEF GoalOK, Writing
  <2>2. StatHolds(c) /\ left[c] = {}  BY <1>0, <1>w, <2>1 DEF CallAt
  <2>3. next \in 0 .. MaxChunks /\ end \in 0 .. MaxChunks /\ old \in 0 .. MaxChunks  BY <1>g
  <2> QED  BY <2>1, <2>2, <2>3, ImageAssumption DEF StatHolds
<1>i. \A i \in Idx : i \in Nat  BY ImageAssumption DEF Idx
<1>5. CASE UNCHANGED <<raced, copied>> /\ WriteBegin(c)
  <2>0. Writing(c) /\ tx = NoConn /\ tx' = c /\ UNCHANGED <<disk, goal, wr, left>>
    BY <1>5 DEF WriteBegin
  <2>1. /\ p \in Path /\ next \in Nat /\ end \in Nat /\ old \in Nat /\ next <= end
        /\ goal[c] = "truncate" => end <= old
        /\ goal[c] = "write" => next <= old
        /\ left[c] = {} /\ goal[c] \in {"write", "truncate"}
    BY <1>0, <1>w, <2>0
  <2>2. work = disk  BY <1>0, <2>0
  <2>3. whole => \A i \in Idx : disk.chunk[<<Live, p, i>>] # NoPiece <=> i < old
    <3>1. whole => ChunksExact(disk, Live, p)  BY <1>0, <2>1 DEF Faithful, Good, Owner
    <3> QED  BY <2>1, <3>1 DEF ChunksExact, LiveKind, LiveSize
  <2>4. /\ work'.dirty = disk.dirty /\ work'.row = disk.row
        /\ \A o \in Owner, q \in Path, i \in Idx :
             o # Live \/ q # p => work'.chunk[<<o, q, i>>] = disk.chunk[<<o, q, i>>]
        /\ whole => \A i \in Idx : work'.chunk[<<Live, p, i>>] # NoPiece
             <=> (IF goal[c] = "truncate" THEN i < end ELSE i < old \/ i < next)
    <3>1. CASE goal[c] = "write"
      <4>1. work' = disk  BY <1>5, <2>2, <3>1 DEF WriteBegin
      <4> QED  BY <1>i, <2>1, <2>3, <3>1, <4>1
    <3>2. CASE goal[c] = "truncate"
      <4> DEFINE K == Beyond(p, end)
                 D == DeleteChunks(work, K)
      <4>1. work' = D  BY <1>5, <3>2 DEF WriteBegin
      <4>2. ASSUME NEW o \in Owner, NEW q \in Path, NEW i \in Idx
            PROVE  <<o, q, i>> \in Key /\ (<<o, q, i>> \in K <=> o = Live /\ q = p /\ ~(i < end))
        BY <1>i, <2>1, KeyParts DEF Beyond
      <4> HIDE DEF K
      <4>3. /\ Tabled(D) /\ D.row = work.row /\ D.dirty = work.dirty /\ D.saved = work.saved
            /\ \A k \in Key : D.chunk[k] = IF k \in K THEN NoPiece ELSE work.chunk[k]
        BY <1>0, DeleteChunksDoes
      <4> HIDE DEF D
      <4>4. \A o \in Owner, q \in Path, i \in Idx :
              o # Live \/ q # p => D.chunk[<<o, q, i>>] = work.chunk[<<o, q, i>>]
        BY <4>2, <4>3
      <4>5. ASSUME NEW i \in Idx PROVE whole => (D.chunk[<<Live, p, i>>] # NoPiece <=> i < end)
        <5>1. Live \in Owner  BY DEF Owner
        <5>2. D.chunk[<<Live, p, i>>] = IF ~(i < end) THEN NoPiece ELSE disk.chunk[<<Live, p, i>>]
          BY <2>1, <2>2, <4>2, <4>3, <5>1
        <5> QED  BY <1>i, <2>1, <2>3, <3>2, <5>2
      <4> QED  BY <2>2, <3>2, <4>1, <4>3, <4>4, <4>5
    <3> QED  BY <2>1, <3>1, <3>2
  <2>5. HalfWritten(c)'
    <3>1. (wr[c].path \notin raced /\ ~Outdated(c))' => whole
      BY <1>5, <2>0, <2>4 DEF Outdated, LiveKind, LiveSize
    <3> HIDE DEF whole
    <3> QED  BY <2>0, <2>4, <3>1 DEF HalfWritten, Half
  <2>6. StatHolds(c)'  BY <2>0, <2>1 DEF StatHolds
  <2> QED  BY <1>0, <1>5, <2>0, <2>1, <2>5, <2>6 DEF CallAt
<1>6. CASE UNCHANGED <<raced, copied>> /\ \E b \in Piece : WriteChunk(c, b)
  <2>1. PICK b \in Piece : WriteChunk(c, b)  BY <1>6
  <2> DEFINE R == PutChunk(work, p, next, b)
  <2>2. /\ Writing(c) /\ tx = c /\ tx' = c /\ next < end /\ work' = R
        /\ UNCHANGED <<disk, goal, left>> /\ wr' = [wr EXCEPT ![c].next = @ + 1]
    BY <2>1 DEF WriteChunk, Apply
  <2>3. /\ p \in Path /\ next \in Nat /\ end \in Nat /\ old \in Nat /\ end \in 0 .. MaxChunks
        /\ goal[c] = "truncate" => end <= old
        /\ left[c] = {} /\ goal[c] \in {"write", "truncate"}
    BY <1>w, <2>2
  <2>4. next \in Idx /\ b # NoPiece  BY <2>2, <2>3, ImageAssumption DEF Idx
  <2>5. /\ Tabled(R) /\ R.row = work.row /\ R.dirty = work.dirty /\ R.saved = work.saved
        /\ \A o \in Owner, q \in Path, i \in Idx :
             R.chunk[<<o, q, i>>] = IF o = Live /\ q = p /\ i = next THEN b ELSE work.chunk[<<o, q, i>>]
    <3> HIDE DEF p, next
    <3> QED  BY <1>0, <2>3, <2>4, PutChunkDoes
  <2> HIDE DEF R
  <2>6. /\ work.dirty = disk.dirty /\ work.row = disk.row
        /\ \A o \in Owner, q \in Path, i \in Idx :
             o # Live \/ q # p => work.chunk[<<o, q, i>>] = disk.chunk[<<o, q, i>>]
        /\ whole => \A i \in Idx : work.chunk[<<Live, p, i>>] # NoPiece
             <=> (IF goal[c] = "truncate" THEN i < end ELSE i < old \/ i < next)
    BY <1>0, <2>2 DEF CallAt, HalfWritten, Half, Outdated, LiveKind, LiveSize
  <2>7. wr'[c].path = p /\ wr'[c].next = next + 1 /\ wr'[c].end = end /\ wr'[c].old = old
    BY <1>g, <2>2
  <2>8. /\ R.dirty = disk.dirty /\ R.row = disk.row
        /\ \A o \in Owner, q \in Path, i \in Idx :
             o # Live \/ q # p => R.chunk[<<o, q, i>>] = disk.chunk[<<o, q, i>>]
        /\ whole => \A i \in Idx : R.chunk[<<Live, p, i>>] # NoPiece
             <=> (IF goal[c] = "truncate" THEN i < end ELSE i < old \/ i < next + 1)
    <3>1. R.dirty = disk.dirty /\ R.row = disk.row
          /\ \A o \in Owner, q \in Path, i \in Idx :
               o # Live \/ q # p => R.chunk[<<o, q, i>>] = disk.chunk[<<o, q, i>>]
      BY <2>5, <2>6
    <3>2. ASSUME whole, NEW i \in Idx
          PROVE  R.chunk[<<Live, p, i>>] # NoPiece
                   <=> (IF goal[c] = "truncate" THEN i < end ELSE i < old \/ i < next + 1)
      <4>1. R.chunk[<<Live, p, i>>] = IF i = next THEN b ELSE work.chunk[<<Live, p, i>>]
        BY <2>3, <2>5 DEF Owner
      <4>2. i < next + 1 <=> i < next \/ i = next  BY <1>i, <2>3
      <4> HIDE DEF whole
      <4> QED  BY <1>i, <2>2, <2>3, <2>4, <2>6, <3>2, <4>1, <4>2
    <3> HIDE DEF whole
    <3> QED  BY <3>1, <3>2
  <2>9. HalfWritten(c)'
    <3>1. goal'[c] = goal[c] /\ disk' = disk /\ work' = R  BY <2>2
    <3>2. (wr[c].path \notin raced /\ ~Outdated(c))' => whole
      BY <1>6, <2>7, <2>8, <3>1 DEF Outdated, LiveKind, LiveSize
    <3> HIDE DEF whole
    <3> QED  BY <2>7, <2>8, <3>1, <3>2 DEF HalfWritten, Half
  <2>10. StatHolds(c)'
    <3>1. goal'[c] = goal[c] /\ disk' = disk /\ tx' = c /\ next + 1 <= end  BY <2>2, <2>3
    <3> QED  BY <2>3, <2>7, <3>1 DEF StatHolds
  <2> QED  BY <1>0, <1>6, <2>2, <2>3, <2>9, <2>10 DEF CallAt
<1>7. CASE /\ WriteCommit(c) /\ UNCHANGED copied
           /\ raced' = IF Outdated(c) THEN raced \cup {wr[c].path} ELSE raced
  <2> DEFINE new == IF goal[c] = "truncate" \/ old < end THEN end ELSE old
             R == MarkDirty(work, p, new)
             r == work.row[<<Live, p>>]
  <2>1. /\ Writing(c) /\ tx = c /\ next = end /\ disk' = R /\ tx' = NoConn
        /\ goal'[c] = "none" /\ left' = left
    BY <1>g, <1>7 DEF WriteCommit, GoalDone
  <2>2. p \in Path /\ next \in Nat /\ end \in Nat /\ old \in Nat /\ left[c] = {}
    BY <1>w, <2>1
  <2>3. /\ work.dirty = disk.dirty /\ work.row = disk.row
        /\ \A o \in Owner, q \in Path, i \in Idx :
             o # Live \/ q # p => work.chunk[<<o, q, i>>] = disk.chunk[<<o, q, i>>]
        /\ whole => \A i \in Idx : work.chunk[<<Live, p, i>>] # NoPiece
             <=> (IF goal[c] = "truncate" THEN i < end ELSE i < old \/ i < next)
    BY <1>0, <2>1 DEF CallAt, HalfWritten, Half, Outdated, LiveKind, LiveSize
  <2>4. whole => \A i \in Idx : work.chunk[<<Live, p, i>>] # NoPiece <=> i < new
    <3> HIDE DEF whole
    <3> QED  BY <1>i, <2>1, <2>2, <2>3
  <2>w. raced \subseteq raced' /\ copied' = copied /\ (p \notin raced' => whole)
    BY <1>7, <2>3 DEF Outdated, LiveKind, LiveSize
  <2>k. whole => LiveKind(disk, p) = "file"  OBVIOUS
  <2>p. p \in Path  BY <2>2
  <2> HIDE DEF new, p, whole
  <2>5. /\ Tabled(R) /\ R.saved = work.saved /\ R.dirty = work.dirty \cup {p}
        /\ R.chunk = work.chunk
        /\ R.row[<<Live, p>>] = [kind |-> r.kind, size |-> new, hash |-> r.hash]
        /\ \A o \in Owner, q \in Path : o # Live \/ q # p => R.row[<<o, q>>] = work.row[<<o, q>>]
    BY <1>0, <2>p, MarkDirtyDoes
  <2> HIDE DEF R
  <2>f. Faithful(disk, raced', copied')  BY <1>0, <2>w, FaithfulMore
  <2>6. ASSUME NEW o \in Owner, NEW q \in Path PROVE Good(R, raced', copied', o, q)
    <3>1. CASE o = Live /\ q = p
      <4>1. whole => R.row[<<Live, p>>].kind = "file" /\ R.row[<<Live, p>>].size = new
        BY <2>k, <2>3, <2>5 DEF LiveKind
      <4>2. whole => ChunksExact(R, Live, p)  BY <2>4, <2>5, <4>1 DEF ChunksExact
      <4> QED  BY <2>w, <2>5, <3>1, <4>2 DEF Good
    <3>2. CASE o # Live \/ q # p
      <4>1. R.row[<<o, q>>] = disk.row[<<o, q>>] /\ \A i \in Idx : R.chunk[<<o, q, i>>] = disk.chunk[<<o, q, i>>]
        BY <2>3, <2>5, <3>2
      <4>2. Entry(R, o, q) = Entry(disk, o, q)  BY <4>1, EntrySame
      <4>3. Good(disk, raced', copied', o, q)  BY <2>f DEF Faithful
      <4>4. (o # Live \/ q \notin R.dirty) => (o # Live \/ q \notin disk.dirty)  BY <2>3, <2>5
      <4> QED  BY <4>2, <4>3, <4>4, GoodSame
    <3> QED  BY <3>1, <3>2
  <2>7. Faithful(disk', raced', copied')  BY <2>1, <2>6 DEF Faithful
  <2>8. CallAt(c)'  BY <1>0, <2>1, <2>2, CallBetween DEF Writing
  <2> QED  BY <2>7, <2>8
<1> QED  BY <1>1, <1>2, <1>3, <1>4, <1>5, <1>6, <1>7 DEF Mount

\* What a step of c leaves to the other connections: their locals, and the open
\* transaction of one that has one.
LEMMA OthersKeep ==
  ASSUME StoreInv, TxInv, NEW c \in Conn, Connect(c) \/ Mount(c) \/ Tool(c), NEW d \in Conn, d # c
  PROVE  /\ goal'[d] = goal[d] /\ left'[d] = left[d] /\ wr'[d] = wr[d]
         /\ tx = d => tx' = d /\ disk' = disk /\ work' = work
         /\ tx # d => tx' # d
<1>0. ControlOK /\ d # NoConn  BY StoreAssumption DEF StoreInv
<1>1. goal'[d] = goal[d] /\ left'[d] = left[d] /\ wr'[d] = wr[d]
  <2> USE <1>0 DEF ControlOK, Start, GoalDone, Leave
  <2>1. CASE Connect(c)
    <3>1. CASE Fail(c)  BY <3>1 DEF Fail
    <3>2. CASE ~Fail(c)
      BY <2>1, <3>2 DEF Connect, Open, Opened, FinalizeNext, Unmount, Close, Crash
    <3> QED  BY <3>1, <3>2
  <2>2. CASE Mount(c)
    BY <2>2 DEF Mount, MountCreate, MountUnlink, MountRename, Op, WriteStat, WriteBegin, WriteChunk, WriteCommit
  <2>3. CASE Tool(c)
    BY <2>3 DEF Tool, AddBytes, AddNode, SnapshotStart, SnapshotCreate, SnapshotRestore, SnapshotDelete,
                UndoBegin, UndoApply, UndoDelete, SyncStart, SyncBegin, SyncFile, SyncNode, SyncDelete,
                SyncCommit, ToolOp, SyncOp, Op
  <2> QED  BY <2>1, <2>2, <2>3
<1>2. TxStep(c)  BY StepTx
<1> QED
  BY <1>0, <1>1, <1>2 DEF TxStep, Quiet, RolledBack, Applied, Inside, Begins, Commits

\* Where a transaction of another connection is open, the step adds no exemption
\* to what it has there.
LEMMA HistoryGrows ==
  ASSUME NEW c \in Conn, (Connect(c) /\ UNCHANGED <<raced, copied>>) \/ Mount(c) \/ Tool(c)
  PROVE  raced \subseteq raced' /\ copied \subseteq copied'
BY DEF Mount, Tool, Copies, Carried

\* The calls of the other connections.
LEMMA CallOthers ==
  ASSUME StoreInv, TxInv, CallInv, NEW c \in Conn, Remember(c), NEW d \in Conn, d # c,
         (Connect(c) /\ UNCHANGED <<raced, copied>>) \/ Mount(c) \/ Tool(c)
  PROVE  CallAt(d)'
<1>0. CallAt(d)  BY DEF CallInv
<1>1. /\ goal'[d] = goal[d] /\ left'[d] = left[d] /\ wr'[d] = wr[d]
      /\ tx = d => tx' = d /\ disk' = disk /\ work' = work
      /\ tx # d => tx' # d
  BY OthersKeep
<1>2. late'[d] = IF goal[d] = "none" THEN {} ELSE late[d] \cup (disk'.dirty \ disk.dirty)
  BY <1>1 DEF Remember
<1>3. raced \subseteq raced' /\ copied \subseteq copied'  BY HistoryGrows
<1>4. /\ left'[d] # {} => goal'[d] \in {"open", "close", "snapshot", "sync"} /\ tx' # d
      /\ goal'[d] = "none" => late'[d] = {}
      /\ goal'[d] \in {"snapshot", "sync"} /\ tx' # d => disk'.dirty \subseteq left'[d] \cup late'[d]
  BY <1>0, <1>1, <1>2 DEF CallAt
<1>5. goal'[d] = "sync" /\ tx' = d => Faithful(work', raced', copied') /\ work'.dirty \subseteq late'[d]
  <2> SUFFICES ASSUME goal'[d] = "sync", tx' = d
               PROVE  Faithful(work', raced', copied') /\ work'.dirty \subseteq late'[d]
    OBVIOUS
  <2>1. tx = d /\ work' = work /\ goal[d] = "sync"  BY <1>1
  <2>2. Faithful(work, raced, copied) /\ work.dirty \subseteq late[d]  BY <1>0, <2>1 DEF CallAt
  <2>3. Faithful(work, raced', copied')  BY <1>3, <2>2, FaithfulMore
  <2> QED  BY <1>2, <2>1, <2>2, <2>3
<1>6. Writing(d)' => Writing(d) /\ StatHolds(d)'
  <2>1. Writing(d)' <=> Writing(d)  BY <1>1 DEF Writing
  <2>2. Writing(d) => StatHolds(d)  BY <1>0 DEF CallAt
  <2> QED  BY <1>1, <2>1, <2>2 DEF StatHolds
<1>7. Writing(d)' /\ tx' = d => HalfWritten(d)'
  <2> SUFFICES ASSUME Writing(d)', tx' = d PROVE HalfWritten(d)'  OBVIOUS
  <2>1. tx = d /\ work' = work /\ disk' = disk /\ Writing(d)  BY <1>1, <1>6
  <2>2. HalfWritten(d)  BY <1>0, <2>1 DEF CallAt
  <2>3. Outdated(d)' <=> Outdated(d)  BY <1>1, <2>1 DEF Outdated
  <2>4. ASSUME wr[d].path \notin raced', ~Outdated(d), NEW i \in Idx
        PROVE  work.chunk[<<Live, wr[d].path, i>>] # NoPiece <=> Half(d, i)
    BY <1>3, <2>2, <2>4 DEF HalfWritten
  <2>5. \A i \in Idx : Half(d, i)' <=> Half(d, i)  BY <1>1 DEF Half
  <2>6. /\ work.dirty = disk.dirty /\ work.row = disk.row
        /\ \A o \in Owner, q \in Path, i \in Idx :
             o # Live \/ q # wr[d].path => work.chunk[<<o, q, i>>] = disk.chunk[<<o, q, i>>]
    BY <2>2 DEF HalfWritten
  <2> HIDE DEF Half
  <2> QED  BY <1>1, <2>1, <2>3, <2>4, <2>5, <2>6 DEF HalfWritten
<1> QED  BY <1>4, <1>5, <1>6, <1>7 DEF CallAt

\* CallInv is inductive.
LEMMA NextCallInv == StoreInv /\ TxInv /\ CallInv /\ [Next]_vars => CallInv'
<1> SUFFICES ASSUME StoreInv, TxInv, CallInv, [Next]_vars PROVE CallInv'  OBVIOUS
<1>1. CASE UNCHANGED vars
  BY <1>1 DEF vars, CallInv, CallAt, Writing, StatHolds, HalfWritten, Half, Outdated
<1>2. CASE Next
  <2>1. PICK c \in Conn : /\ (Connect(c) /\ UNCHANGED <<raced, copied>>) \/ Mount(c) \/ Tool(c)
                          /\ Remember(c)
    BY <1>2 DEF Next
  <2>2. Faithful(disk', raced', copied') /\ CallAt(c)'  BY <2>1, CallConnect, CallMount, CallTool
  <2>3. \A d \in Conn : d # c => CallAt(d)'  BY <2>1, CallOthers
  <2> QED  BY <2>2, <2>3 DEF CallInv
<1> QED  BY <1>1, <1>2

\* The initial state: no connection is in a call.
LEMMA InitCallInv == Init => CallInv
<1> SUFFICES ASSUME Init PROVE CallInv  OBVIOUS
<1>1. disk = EmptyImage /\ tx = NoConn /\ \A c \in Conn : goal[c] = "none" /\ left[c] = {} /\ late[c] = {}
  BY DEF Init
<1>2. ASSUME NEW o \in Owner, NEW p \in Path PROVE Good(EmptyImage, raced, copied, o, p)
  <2>1. EmptyImage.row[<<o, p>>].kind # "file"
    <3>1. EmptyImage.row[<<o, p>>] = IF o = Live THEN NoRow ELSE Unknown  BY DEF EmptyImage
    <3> QED  BY <3>1 DEF NoRow, Unknown
  <2>2. \A i \in Idx : EmptyImage.chunk[<<o, p, i>>] = NoPiece
    <3>1. EmptyImage.chunk = [k \in Key |-> NoPiece]  BY DEF EmptyImage
    <3> QED  BY <3>1 DEF Key
  <2> QED  BY <2>1, <2>2 DEF Good, ChunksExact, HashFresh
<1>3. Faithful(disk, raced, copied)  BY <1>1, <1>2 DEF Faithful
<1>4. \A c \in Conn : CallAt(c)  BY <1>1, StoreAssumption DEF CallAt, Writing
<1> QED  BY <1>3, <1>4 DEF CallInv

\* CallInv holds in every run.
LEMMA CallSafe == Spec => [](StoreInv /\ TxInv /\ CallInv)
BY InitCallInv, NextCallInv, NextStoreInv, TxSafe, PTL DEF Spec

\* In every run of any number of mounts and tools, with a crash or a failure
\* between any two steps of a deferred write, a truncate, a snapshot or a sync:
\* every committed file, live or saved, has exactly the chunk rows of its size,
\* except a path whose size another connection changed between the stat and the
\* savepoint of a deferred write that then committed.
THEOREM ChunkListsExact == Spec => []ChunkListExact
<1>1. CallInv => ChunkListExact  BY DEF CallInv, Faithful, Good, ChunkListExact
<1> QED  BY <1>1, CallSafe, PTL

\* In every run the hash of a live file is that of its content unless vm_dirty
\* names it, also when a mount died before finalizing; the exceptions are those of
\* ChunkListsExact and what came back from a copy made too late.
THEOREM LiveHashesFresh == Spec => []LiveHashFresh
<1>1. CallInv => LiveHashFresh  BY DEF CallInv, Faithful, Good, LiveHashFresh, Owner
<1> QED  BY <1>1, CallSafe, PTL

\* In every run a snapshot or an undo record holds a stale hash only of a path that
\* another connection wrote or renamed between this call's finalize_dirty and its
\* copy: with one connection there is none.
THEOREM SavedHashesFresh == Spec => []SavedHashFresh
<1>1. CallInv => SavedHashFresh
  <2>1. \A o \in Saved : o \in Owner /\ o # Live  BY ImageAssumption DEF Owner, Saved
  <2> QED  BY <2>1 DEF CallInv, Faithful, Good, SavedHashFresh
<1> QED  BY <1>1, CallSafe, PTL
=============================================================================
