--------------------------- MODULE SessionProofs ---------------------------
(***************************************************************************)
(* Proofs about Session for every set of paths, contents and worlds: a     *)
(* rewind returns to the rows before its command, a command that was       *)
(* reported is committed, and tree and database agree between commands.    *)
(***************************************************************************)
EXTENDS Session, FiniteSetTheorems, WellFoundedInduction, TLAPS

\* An image is a record of its five parts; every record in it has its history.
ImageOK(img) ==
  /\ img \in [row : Tree, undo : {img.undo}, steps : SUBSET Id, before : {img.before}, undone : SUBSET Id]
  /\ img.undo = [i \in DOMAIN img.undo |-> img.undo[i]]
  /\ DOMAIN img.undo \subseteq Id
  /\ \A i \in DOMAIN img.undo : img.undo[i] \in Record
  /\ img.before = [i \in DOMAIN img.undo |-> img.before[i]]
  /\ \A i \in DOMAIN img.undo : img.before[i] \in Tree

\* RewindExact of one image.
Exact(img) == \A u \in DOMAIN img.undo \ img.undone : RewindTo(img, u) = img.before[u]

\* u is the youngest record.
Newest(img, u) == u \in DOMAIN img.undo /\ \A i \in DOMAIN img.undo : i <= u

\* new differs from img by captures into the youngest record w, and by rows that w holds.
Logged(img, new, w) ==
  /\ ImageOK(new)
  /\ DOMAIN new.undo = DOMAIN img.undo /\ new.before = img.before /\ new.undone = img.undone
  /\ \A i \in DOMAIN img.undo \ {w} : new.undo[i] = img.undo[i]
  /\ \A p \in Path : \/ new.undo[w][p] = img.undo[w][p]
                     \/ img.undo[w][p] = "unknown" /\ new.undo[w][p] = img.row[p]
  /\ \A p \in Path : new.row[p] = img.row[p] \/ new.undo[w][p] # "unknown"

-----------------------------------------------------------------------------
(* What a rewind yields. *)

\* A set of ids has a least one.
LEMMA LeastId ==
  ASSUME NEW S \in SUBSET Id, S # {}
  PROVE  \E i \in S : \A j \in S : i <= j
<1> DEFINE R == OpToRel(<, Nat)
<1>1. \A i, j \in Nat : <<j, i>> \in R <=> j < i  BY DEF OpToRel
<1>2. S \subseteq Nat  BY SessionAssumption DEF Id
<1>3. IsWellFoundedOn(R, Nat)  BY NatLessThanWellFounded
<1> HIDE DEF R
<1>4. PICK i \in S : \A j \in S : ~(<<j, i>> \in R)  BY <1>2, <1>3, WFMin
<1>5. \A j \in S : ~(j < i)  BY <1>1, <1>2, <1>4
<1> QED  BY <1>2, <1>5

\* The oldest of the records from u on that hold p is i.
First(img, u, p, i) ==
  /\ i \in DOMAIN img.undo /\ i >= u /\ img.undo[i][p] # "unknown"
  /\ \A j \in DOMAIN img.undo : j >= u /\ img.undo[j][p] # "unknown" => i <= j

\* No record from u on holds p.
Unheld(img, u, p) == \A i \in DOMAIN img.undo : i >= u => img.undo[i][p] = "unknown"

\* A path no record holds keeps its row; for another the oldest record has the last word.
LEMMA RewindPoint ==
  ASSUME NEW img, ImageOK(img), NEW u \in Id, NEW p \in Path
  PROVE  /\ Unheld(img, u, p) => RewindTo(img, u)[p] = img.row[p]
         /\ \A i : First(img, u, p, i) => RewindTo(img, u)[p] = img.undo[i][p]
         /\ Unheld(img, u, p) \/ \E i : First(img, u, p, i)
<1> DEFINE H == {i \in DOMAIN img.undo : i >= u /\ p \in Covered(img, i)}
<1> DEFINE f == CHOOSE i \in H : \A j \in H : i <= j
<1>1. RewindTo(img, u)[p] = IF H = {} THEN img.row[p] ELSE img.undo[f][p]  BY Zenon DEF RewindTo
<1>2. \A i : i \in H <=> i \in DOMAIN img.undo /\ i >= u /\ img.undo[i][p] # "unknown"  BY DEF Covered
<1>3. H \subseteq Id /\ Id \subseteq Nat  BY SessionAssumption DEF ImageOK, Id
<1>4. H # {} => f \in H /\ \A j \in H : f <= j
  <2> HAVE H # {}
  <2>1. \E i \in H : \A j \in H : i <= j
    <3> HIDE DEF H
    <3> QED  BY <1>3, LeastId
  <2> QED  BY <2>1
<1> HIDE DEF H, f
<1>5. H = {} <=> Unheld(img, u, p)  BY <1>2 DEF Unheld
<1>6. \A i : First(img, u, p, i) <=> i \in H /\ \A j \in H : i <= j  BY <1>2 DEF First
<1>7. \A i : First(img, u, p, i) => i = f
  <2> TAKE i
  <2> HAVE First(img, u, p, i)
  <2>1. i \in H /\ \A j \in H : i <= j  BY <1>6
  <2>2. f \in H /\ f <= i /\ i <= f  BY <1>4, <2>1
  <2> QED  BY <1>3, <2>1, <2>2
<1>8. H # {} => First(img, u, p, f)  BY <1>4, <1>6
<1>9. \A i : First(img, u, p, i) => H # {}  BY <1>6
<1>10. Unheld(img, u, p) => RewindTo(img, u)[p] = img.row[p]  BY <1>1, <1>5
<1>11. \A i : First(img, u, p, i) => RewindTo(img, u)[p] = img.undo[i][p]  BY <1>1, <1>7, <1>9
<1>12. Unheld(img, u, p) \/ \E i : First(img, u, p, i)  BY <1>5, <1>8
<1> QED  BY <1>10, <1>11, <1>12

\* The rows a rewind yields are rows of a tree.
LEMMA RewindType ==
  ASSUME NEW img, ImageOK(img), NEW u \in Id
  PROVE  RewindTo(img, u) \in Tree
<1>1. \A p \in Path : RewindTo(img, u)[p] \in Node
  <2> TAKE p \in Path
  <2>1. img.row[p] \in Node  BY DEF ImageOK, Tree
  <2>2. \A i : First(img, u, p, i) => img.undo[i][p] \in Node  BY DEF First, ImageOK, Record
  <2> QED  BY <2>1, <2>2, RewindPoint
<1>2. RewindTo(img, u) = [p \in Path |-> RewindTo(img, u)[p]]  BY DEF RewindTo
<1> HIDE DEF RewindTo
<1> QED  BY <1>1, <1>2 DEF Tree

\* Two rewinds that agree on every path are the same.
LEMMA RewindSame ==
  ASSUME NEW img, NEW new, ImageOK(img), ImageOK(new), NEW u \in Id, NEW v \in Id,
         \A p \in Path : RewindTo(new, v)[p] = RewindTo(img, u)[p]
  PROVE  RewindTo(new, v) = RewindTo(img, u)
BY RewindType DEF Tree

-----------------------------------------------------------------------------
(* What the operations on undo records keep. *)

\* Work logged in the youngest record changes no rewind.
LEMMA LoggedExact ==
  ASSUME NEW img, NEW new, NEW w, ImageOK(img), Exact(img), Newest(img, w), Logged(img, new, w)
  PROVE  ImageOK(new) /\ Exact(new) /\ Newest(new, w)
<1>1. ImageOK(new) /\ DOMAIN new.undo = DOMAIN img.undo /\ new.before = img.before /\ new.undone = img.undone
  BY DEF Logged
<1>2. Newest(new, w)  BY <1>1 DEF Newest
<1>3. DOMAIN img.undo \subseteq Id /\ Id \subseteq Nat /\ w \in DOMAIN img.undo
  BY SessionAssumption DEF ImageOK, Id, Newest
<1>4. \A u \in DOMAIN img.undo : RewindTo(new, u) = RewindTo(img, u)
  <2> TAKE u \in DOMAIN img.undo
  <2>1. u \in Id /\ w >= u /\ w \in Id  BY <1>3 DEF Newest
  <2>2. \A p \in Path : RewindTo(new, u)[p] = RewindTo(img, u)[p]
    <3> TAKE p \in Path
    <3>1. \A i \in DOMAIN img.undo : i # w => new.undo[i] = img.undo[i]  BY DEF Logged
    <3>2. \/ new.undo[w][p] = img.undo[w][p]
          \/ img.undo[w][p] = "unknown" /\ new.undo[w][p] = img.row[p]
      BY DEF Logged
    <3>3. new.row[p] = img.row[p] \/ new.undo[w][p] # "unknown"  BY DEF Logged
    <3>4. img.row[p] # "unknown"  BY SessionAssumption DEF ImageOK, Tree, Node
    <3>5. CASE \E i : First(img, u, p, i)
      <4>1. PICK i : First(img, u, p, i)  BY <3>5
      <4>2. i \in DOMAIN img.undo /\ i >= u /\ img.undo[i][p] # "unknown"  BY <4>1 DEF First
      <4>3. new.undo[i][p] = img.undo[i][p]  BY <3>1, <3>2, <4>2
      <4>4. First(new, u, p, i)
        <5>1. ASSUME NEW j \in DOMAIN new.undo, j >= u, new.undo[j][p] # "unknown" PROVE i <= j
          <6>1. CASE j # w
            BY <1>1, <3>1, <4>1, <5>1, <6>1 DEF First
          <6>2. CASE j = w
            BY <4>2, <6>2 DEF Newest
          <6> QED  BY <6>1, <6>2
        <5> QED  BY <1>1, <4>2, <4>3, <5>1 DEF First
      <4> QED  BY <1>1, <2>1, <4>1, <4>3, <4>4, RewindPoint
    <3>6. CASE Unheld(img, u, p)
      <4>1. RewindTo(img, u)[p] = img.row[p]  BY <2>1, <3>6, RewindPoint
      <4>2. img.undo[w][p] = "unknown"  BY <1>3, <2>1, <3>6 DEF Unheld
      <4>3. CASE new.undo[w][p] = "unknown"
        <5>1. Unheld(new, u, p)  BY <1>1, <3>1, <3>6, <4>3 DEF Unheld
        <5> QED  BY <1>1, <2>1, <3>3, <4>1, <4>3, <5>1, RewindPoint
      <4>4. CASE new.undo[w][p] # "unknown"
        <5>1. First(new, u, p, w)
          <6>1. \A j \in DOMAIN new.undo : j >= u /\ new.undo[j][p] # "unknown" => j = w
            BY <1>1, <3>1, <3>6 DEF Unheld
          <6>2. w <= w  BY <1>3
          <6> QED  BY <1>1, <1>3, <2>1, <4>4, <6>1, <6>2 DEF First
        <5>2. new.undo[w][p] = img.row[p]  BY <3>2, <4>2, <4>4
        <5> QED  BY <1>1, <2>1, <4>1, <5>1, <5>2, RewindPoint
      <4> QED  BY <4>3, <4>4
    <3> QED  BY <2>1, <3>5, <3>6, RewindPoint
  <2> QED  BY <1>1, <2>1, <2>2, RewindSame
<1>5. Exact(new)  BY <1>1, <1>4 DEF Exact
<1> QED  BY <1>1, <1>2, <1>5

\* An image put together from parts of the right kind.
LEMMA ImageParts ==
  ASSUME NEW r \in Tree, NEW U, NEW B, NEW D \in SUBSET Id, NEW S \in SUBSET Id, NEW n \in SUBSET Id,
         U = [i \in D |-> U[i]], B = [i \in D |-> B[i]],
         \A i \in D : U[i] \in Record /\ B[i] \in Tree,
         NEW new, new = [row |-> r, undo |-> U, steps |-> S, before |-> B, undone |-> n]
  PROVE  /\ ImageOK(new) /\ DOMAIN new.undo = D
         /\ new.row = r /\ new.undo = U /\ new.steps = S /\ new.before = B /\ new.undone = n
<1>1. new.row = r /\ new.undo = U /\ new.steps = S /\ new.before = B /\ new.undone = n  OBVIOUS
<1>2. DOMAIN U = D /\ DOMAIN B = D  OBVIOUS
<1>3. new \in [row : Tree, undo : {new.undo}, steps : SUBSET Id, before : {new.before}, undone : SUBSET Id]
  BY <1>1
<1> QED  BY <1>1, <1>2, <1>3 DEF ImageOK

\* A capture writes the rows of P into the record, where it does not hold them yet.
LEMMA CaptureParts ==
  ASSUME NEW img, ImageOK(img), NEW u \in DOMAIN img.undo, NEW P \in SUBSET Path
  PROVE  /\ ImageOK(Capture(img, u, P))
         /\ Capture(img, u, P).row = img.row /\ Capture(img, u, P).steps = img.steps
         /\ Capture(img, u, P).before = img.before /\ Capture(img, u, P).undone = img.undone
         /\ DOMAIN Capture(img, u, P).undo = DOMAIN img.undo
         /\ \A i \in DOMAIN img.undo \ {u} : Capture(img, u, P).undo[i] = img.undo[i]
         /\ \A p \in Path : Capture(img, u, P).undo[u][p]
                              = IF p \in P /\ img.undo[u][p] = "unknown" THEN img.row[p] ELSE img.undo[u][p]
<1> DEFINE rec == [p \in Path |-> IF p \in P /\ img.undo[u][p] = "unknown" THEN img.row[p] ELSE img.undo[u][p]]
<1> DEFINE U == [img.undo EXCEPT ![u] = rec]
<1> DEFINE new == [row |-> img.row, undo |-> U, steps |-> img.steps, before |-> img.before, undone |-> img.undone]
<1>1. img = [row |-> img.row, undo |-> img.undo, steps |-> img.steps, before |-> img.before, undone |-> img.undone]
  BY DEF ImageOK
<1>2. Capture(img, u, P) = new  BY <1>1 DEF Capture
<1>3. rec \in Record
  <2>1. \A p \in Path : rec[p] \in Node \cup {"unknown"}  BY DEF ImageOK, Tree, Record
  <2> QED  BY <2>1 DEF Record
<1>4. \A p \in Path : rec[p] = IF p \in P /\ img.undo[u][p] = "unknown" THEN img.row[p] ELSE img.undo[u][p]
  OBVIOUS
<1> HIDE DEF rec
<1>5. DOMAIN U = DOMAIN img.undo /\ U[u] = rec /\ \A i \in DOMAIN img.undo \ {u} : U[i] = img.undo[i]  OBVIOUS
<1>6. U = [i \in DOMAIN img.undo |-> U[i]]  OBVIOUS
<1> HIDE DEF U
<1>7. /\ ImageOK(new) /\ DOMAIN new.undo = DOMAIN img.undo
      /\ new.row = img.row /\ new.undo = U /\ new.steps = img.steps
      /\ new.before = img.before /\ new.undone = img.undone
  <2>1. \A i \in DOMAIN img.undo : U[i] \in Record /\ img.before[i] \in Tree  BY <1>3, <1>5 DEF ImageOK
  <2>2. /\ img.row \in Tree /\ img.steps \in SUBSET Id /\ img.undone \in SUBSET Id
        /\ DOMAIN img.undo \in SUBSET Id /\ img.before = [i \in DOMAIN img.undo |-> img.before[i]]
    BY DEF ImageOK
  <2> QED  BY <1>6, <2>1, <2>2, ImageParts
<1> HIDE DEF new
<1> QED  BY <1>2, <1>4, <1>5, <1>7

\* New rows replace the rows of an image and nothing else.
LEMMA RowParts ==
  ASSUME NEW img, ImageOK(img), NEW r \in Tree, NEW new, new = [img EXCEPT !.row = r]
  PROVE  /\ ImageOK(new) /\ new.row = r /\ new.undo = img.undo /\ new.steps = img.steps
         /\ new.before = img.before /\ new.undone = img.undone
BY DEF ImageOK

\* sync_one logs the row it overwrites.
LEMMA PutLogged ==
  ASSUME NEW img, ImageOK(img), NEW u \in DOMAIN img.undo, NEW p \in Path, NEW v \in Node
  PROVE  Logged(img, Put(img, u, p, v), u)
<1> DEFINE c == Capture(img, u, {p})
<1> DEFINE new == [c EXCEPT !.row[p] = v]
<1> DEFINE r == [c.row EXCEPT ![p] = v]
<1>1. new = [c EXCEPT !.row = r]  OBVIOUS
<1>2. Put(img, u, p, v) = new  BY DEF Put
<1>3. /\ ImageOK(c) /\ c.row = img.row /\ c.steps = img.steps /\ c.before = img.before /\ c.undone = img.undone
      /\ DOMAIN c.undo = DOMAIN img.undo
      /\ \A i \in DOMAIN img.undo \ {u} : c.undo[i] = img.undo[i]
      /\ \A q \in Path : c.undo[u][q]
                           = IF q \in {p} /\ img.undo[u][q] = "unknown" THEN img.row[q] ELSE img.undo[u][q]
  BY CaptureParts
<1>4. r \in Tree /\ r = [img.row EXCEPT ![p] = v] /\ \A q \in Path : q # p => r[q] = img.row[q]
  BY <1>3 DEF ImageOK, Tree
<1>5. img.row[p] # "unknown"  BY SessionAssumption DEF ImageOK, Tree, Node
<1> HIDE DEF c, r, new
<1>6. /\ ImageOK(new) /\ new.row = r /\ new.undo = c.undo /\ new.steps = c.steps
      /\ new.before = c.before /\ new.undone = c.undone
  BY <1>1, <1>3, <1>4, RowParts
<1>7. Logged(img, new, u)  BY <1>3, <1>4, <1>5, <1>6 DEF Logged
<1> QED  BY <1>2, <1>7

\* So does a deletion.
LEMMA DeleteLogged ==
  ASSUME NEW img, ImageOK(img), NEW u \in DOMAIN img.undo, NEW P \in SUBSET Path
  PROVE  Logged(img, Delete(img, u, P), u)
<1> DEFINE c == Capture(img, u, P)
<1> DEFINE r == [p \in Path |-> IF p \in P THEN "none" ELSE img.row[p]]
<1> DEFINE new == [c EXCEPT !.row = r]
<1>1. /\ ImageOK(c) /\ c.row = img.row /\ c.steps = img.steps /\ c.before = img.before /\ c.undone = img.undone
      /\ DOMAIN c.undo = DOMAIN img.undo
      /\ \A i \in DOMAIN img.undo \ {u} : c.undo[i] = img.undo[i]
      /\ \A q \in Path : c.undo[u][q]
                           = IF q \in P /\ img.undo[u][q] = "unknown" THEN img.row[q] ELSE img.undo[u][q]
  BY CaptureParts
<1>2. Delete(img, u, P) = new  BY <1>1 DEF Delete
<1>3. r \in Tree /\ \A q \in Path : q \notin P => r[q] = img.row[q]
  <2>1. \A q \in Path : r[q] \in Node  BY DEF ImageOK, Tree, Node
  <2> QED  BY <2>1 DEF Tree
<1>4. \A p \in Path : img.row[p] # "unknown"  BY SessionAssumption DEF ImageOK, Tree, Node
<1> HIDE DEF c, r
<1>6. /\ ImageOK(new) /\ new.row = r /\ new.undo = c.undo /\ new.steps = c.steps
      /\ new.before = c.before /\ new.undone = c.undone
  BY <1>1, <1>3, RowParts
<1> HIDE DEF new
<1>7. Logged(img, new, u)  BY <1>1, <1>3, <1>4, <1>6 DEF Logged
<1> QED  BY <1>2, <1>7

\* So does a capture without a write.
LEMMA CaptureLogged ==
  ASSUME NEW img, ImageOK(img), NEW u \in DOMAIN img.undo, NEW P \in SUBSET Path
  PROVE  Logged(img, Capture(img, u, P), u)
BY CaptureParts DEF Logged

\* undo_apply writes only what the record holds.
LEMMA UndoPutLogged ==
  ASSUME NEW img, ImageOK(img), NEW u \in DOMAIN img.undo
  PROVE  /\ Logged(img, UndoPut(img, u), u)
         /\ UndoPut(img, u).undo = img.undo /\ UndoPut(img, u).steps = img.steps
         /\ \A p \in Path : UndoPut(img, u).row[p]
                              = IF img.undo[u][p] # "unknown" THEN img.undo[u][p] ELSE img.row[p]
<1> DEFINE r == [p \in Path |-> IF p \in Covered(img, u) THEN img.undo[u][p] ELSE img.row[p]]
<1> DEFINE new == [img EXCEPT !.row = r]
<1>1. UndoPut(img, u) = new  BY DEF UndoPut
<1>2. \A p \in Path : r[p] = IF img.undo[u][p] # "unknown" THEN img.undo[u][p] ELSE img.row[p]  BY DEF Covered
<1>3. r \in Tree
  <2>1. \A p \in Path : r[p] \in Node  BY <1>2 DEF ImageOK, Tree, Record
  <2> QED  BY <2>1 DEF Tree
<1> HIDE DEF r
<1>4. /\ ImageOK(new) /\ new.row = r /\ new.undo = img.undo /\ new.steps = img.steps
      /\ new.before = img.before /\ new.undone = img.undone
  BY <1>3, RowParts
<1> HIDE DEF new
<1>5. Logged(img, new, u)  BY <1>2, <1>4 DEF Logged
<1> QED  BY <1>1, <1>2, <1>4, <1>5

\* The id undo_begin takes is above every id in the table.
LEMMA NextId ==
  ASSUME NEW D \in SUBSET Id, NEW u, u = 1 + Cardinality({i \in Id : \E j \in D : i <= j})
  PROVE  u \in Nat \ {0} /\ \A i \in D : i < u
<1> DEFINE B == {i \in Id : \E j \in D : i <= j}
<1>1. Id \subseteq Nat /\ Id = 1 .. MaxUndo /\ MaxUndo \in Nat  BY SessionAssumption DEF Id
<1>2. IsFiniteSet(Id) /\ IsFiniteSet(B)
  <2>1. IsFiniteSet(Id)  BY <1>1, FS_Interval
  <2> QED  BY <2>1, FS_Subset
<1>3. Cardinality(B) \in Nat  BY <1>2, FS_CardinalityType
<1>4. \A i \in D : 1 .. i \in SUBSET B
  <2> SUFFICES ASSUME NEW i \in D, NEW j \in 1 .. i PROVE j \in B
    OBVIOUS
  <2>1. i \in Nat /\ j \in Nat /\ j >= 1 /\ j <= i /\ i <= MaxUndo  BY <1>1
  <2>2. j \in Id  BY <1>1, <2>1
  <2> QED  BY <2>1, <2>2
<1> HIDE DEF B
<1>5. \A i \in D : i <= Cardinality(B)
  <2> TAKE i \in D
  <2>1. i \in Nat /\ i >= 1  BY <1>1
  <2>2. Cardinality(1 .. i) = i
    <3>1. Cardinality(1 .. i) = IF 1 > i THEN 0 ELSE i - 1 + 1  BY <2>1, FS_Interval
    <3> QED  BY <2>1, <3>1
  <2>3. Cardinality(1 .. i) <= Cardinality(B)  BY <1>2, <1>4, FS_Subset
  <2> QED  BY <2>2, <2>3
<1>6. u = 1 + Cardinality(B)  BY DEF B
<1>7. u \in Nat \ {0}  BY ONLY <1>3, <1>6
<1>8. \A i \in D : i \in Nat  BY <1>1
<1>9. \A i \in D : i < u  BY ONLY <1>3, <1>5, <1>6, <1>8
<1> QED  BY <1>7, <1>9

\* undo_begin opens an empty record: the rewind to it is the rows as they are.
LEMMA OpenExact ==
  ASSUME NEW img, ImageOK(img), Exact(img), NEW w \in Id, \A i \in DOMAIN img.undo : i < w
  PROVE  /\ ImageOK(UndoOpen(img, w)) /\ Exact(UndoOpen(img, w)) /\ Newest(UndoOpen(img, w), w)
         /\ UndoOpen(img, w).row = img.row /\ UndoOpen(img, w).steps = img.steps
<1> DEFINE D == DOMAIN img.undo \cup {w}
<1> DEFINE empty == [p \in Path |-> "unknown"]
<1> DEFINE U == [i \in D |-> IF i = w THEN empty ELSE img.undo[i]]
<1> DEFINE B == [i \in D |-> IF i = w THEN img.row ELSE img.before[i]]
<1> DEFINE new == [row |-> img.row, undo |-> U, steps |-> img.steps, before |-> B, undone |-> img.undone]
<1>1. UndoOpen(img, w) = new
  <2>1. img = [row |-> img.row, undo |-> img.undo, steps |-> img.steps, before |-> img.before,
               undone |-> img.undone]
    BY DEF ImageOK
  <2>2. DOMAIN img.before = DOMAIN img.undo  BY DEF ImageOK
  <2>3. UndoOpen(img, w) = [img EXCEPT !.undo = U, !.before = B]  BY <2>2 DEF UndoOpen
  <2> HIDE DEF U, B
  <2> QED  BY <2>1, <2>3
<1>2. DOMAIN img.undo \subseteq Id /\ Id \subseteq Nat  BY SessionAssumption DEF ImageOK, Id
<1>3. D \in SUBSET Id  BY <1>2
<1>4. empty \in Record /\ \A p \in Path : empty[p] = "unknown"  BY DEF Record
<1>5. U[w] = empty /\ B[w] = img.row /\ w \notin DOMAIN img.undo  BY <1>2
<1>6. \A i \in DOMAIN img.undo : U[i] = img.undo[i] /\ B[i] = img.before[i]  BY <1>2
<1>7. U = [i \in D |-> U[i]] /\ B = [i \in D |-> B[i]]  OBVIOUS
<1>8. \A i \in D : U[i] \in Record /\ B[i] \in Tree
  <2> HIDE DEF U, B, empty
  <2> QED  BY <1>4, <1>5, <1>6 DEF ImageOK
<1>9. img.row \in Tree /\ img.steps \in SUBSET Id /\ img.undone \in SUBSET Id  BY DEF ImageOK
<1>10. \A i : i \in D <=> i \in DOMAIN img.undo \/ i = w  OBVIOUS
<1> HIDE DEF U, B, D, empty
<1>11. /\ ImageOK(new) /\ DOMAIN new.undo = D
       /\ new.row = img.row /\ new.undo = U /\ new.steps = img.steps /\ new.before = B
       /\ new.undone = img.undone
  <2>1. new = [row |-> img.row, undo |-> U, steps |-> img.steps, before |-> B, undone |-> img.undone]  OBVIOUS
  <2> HIDE DEF new
  <2> QED  BY <1>3, <1>7, <1>8, <1>9, <2>1, ImageParts
<1> HIDE DEF new
<1>12. Newest(new, w)
  <2>1. ASSUME NEW i \in D PROVE i <= w
    <3>1. w \in Nat  BY <1>2
    <3>2. CASE i = w  BY <3>1, <3>2
    <3>3. CASE i # w
      <4>1. i \in DOMAIN img.undo /\ i \in Nat  BY <1>2, <1>10, <3>3
      <4> QED  BY <3>1, <4>1
    <3> QED  BY <3>2, <3>3
  <2> QED  BY <1>10, <1>11, <2>1 DEF Newest
<1>13. \A u \in DOMAIN img.undo : RewindTo(new, u) = RewindTo(img, u)
  <2> TAKE u \in DOMAIN img.undo
  <2>1. u \in Id  BY <1>2
  <2>2. \A p \in Path : RewindTo(new, u)[p] = RewindTo(img, u)[p]
    <3> TAKE p \in Path
    <3>1. new.undo[w][p] = "unknown"  BY <1>4, <1>5, <1>11
    <3>2. Unheld(img, u, p) => Unheld(new, u, p)  BY <1>6, <1>10, <1>11, <3>1 DEF Unheld
    <3>3. \A i : First(img, u, p, i) => First(new, u, p, i) /\ new.undo[i] = img.undo[i]
      BY <1>6, <1>10, <1>11, <3>1 DEF First
    <3>4. CASE Unheld(img, u, p)  BY <1>11, <2>1, <3>2, <3>4, RewindPoint
    <3>5. CASE \E i : First(img, u, p, i)
      <4>1. PICK i : First(img, u, p, i)  BY <3>5
      <4>2. First(new, u, p, i) /\ new.undo[i][p] = img.undo[i][p]  BY <3>3, <4>1
      <4> QED  BY <1>11, <2>1, <4>1, <4>2, RewindPoint
    <3> QED  BY <2>1, <3>4, <3>5, RewindPoint
  <2> QED  BY <1>11, <2>1, <2>2, RewindSame
<1>14. RewindTo(new, w) = img.row
  <2>1. \A p \in Path : Unheld(new, w, p)
    <3> TAKE p \in Path
    <3>1. \A i \in DOMAIN new.undo : i >= w => i = w  BY <1>2, <1>10, <1>11
    <3> QED  BY <1>4, <1>5, <1>11, <3>1 DEF Unheld
  <2>2. \A p \in Path : RewindTo(new, w)[p] = img.row[p]  BY <1>11, <2>1, RewindPoint
  <2>3. RewindTo(new, w) \in Tree  BY <1>11, RewindType
  <2> QED  BY <1>9, <2>2, <2>3 DEF Tree
<1>15. Exact(new)
  <2> SUFFICES ASSUME NEW u \in DOMAIN new.undo \ new.undone PROVE RewindTo(new, u) = new.before[u]
    BY DEF Exact
  <2>1. CASE u = w  BY <1>5, <1>11, <1>14, <2>1
  <2>2. CASE u # w
    <3>1. u \in DOMAIN img.undo \ img.undone  BY <1>10, <1>11, <2>2
    <3> QED  BY <1>6, <1>11, <1>13, <3>1 DEF Exact
  <2> QED  BY <2>1, <2>2
<1> QED  BY <1>1, <1>11, <1>12, <1>15

\* Once its record is applied, a refused command leaves no trace.
LEMMA DropExact ==
  ASSUME NEW img, ImageOK(img), Exact(img), NEW w, Newest(img, w),
         \A p \in Path : img.undo[w][p] # "unknown" => img.row[p] = img.undo[w][p]
  PROVE  /\ ImageOK(UndoDrop(img, w)) /\ Exact(UndoDrop(img, w))
         /\ UndoDrop(img, w).row = img.row /\ UndoDrop(img, w).steps = img.steps
<1> DEFINE D == DOMAIN img.undo \ {w}
<1> DEFINE U == [i \in D |-> img.undo[i]]
<1> DEFINE B == [i \in D |-> img.before[i]]
<1> DEFINE new == [row |-> img.row, undo |-> U, steps |-> img.steps, before |-> B, undone |-> img.undone]
<1>1. UndoDrop(img, w) = new
  <2>1. img = [row |-> img.row, undo |-> img.undo, steps |-> img.steps, before |-> img.before,
               undone |-> img.undone]
    BY DEF ImageOK
  <2>2. DOMAIN img.before = DOMAIN img.undo  BY DEF ImageOK
  <2>3. UndoDrop(img, w) = [img EXCEPT !.undo = U, !.before = B]  BY <2>2 DEF UndoDrop
  <2> HIDE DEF U, B
  <2> QED  BY <2>1, <2>3
<1>2. DOMAIN img.undo \subseteq Id /\ Id \subseteq Nat /\ w \in DOMAIN img.undo
  BY SessionAssumption DEF ImageOK, Id, Newest
<1>3. D \in SUBSET Id  BY <1>2
<1>4. \A i \in D : U[i] = img.undo[i] /\ B[i] = img.before[i]  OBVIOUS
<1>5. U = [i \in D |-> U[i]] /\ B = [i \in D |-> B[i]]  OBVIOUS
<1>6. \A i \in D : U[i] \in Record /\ B[i] \in Tree  BY DEF ImageOK
<1>7. img.row \in Tree /\ img.steps \in SUBSET Id /\ img.undone \in SUBSET Id  BY DEF ImageOK
<1>8. \A i : i \in D <=> i \in DOMAIN img.undo /\ i # w  OBVIOUS
<1> HIDE DEF U, B, D
<1>9. /\ ImageOK(new) /\ DOMAIN new.undo = D
      /\ new.row = img.row /\ new.undo = U /\ new.steps = img.steps /\ new.before = B
      /\ new.undone = img.undone
  BY <1>3, <1>5, <1>6, <1>7, ImageParts
<1> HIDE DEF new
<1>10. \A u \in D : RewindTo(new, u) = RewindTo(img, u)
  <2> TAKE u \in D
  <2>1. u \in Id /\ w \in Id /\ w >= u  BY <1>2, <1>8 DEF Newest
  <2>2. \A p \in Path : RewindTo(new, u)[p] = RewindTo(img, u)[p]
    <3> TAKE p \in Path
    <3>1. CASE Unheld(img, u, p)
      <4>1. Unheld(new, u, p)  BY <1>4, <1>8, <1>9, <3>1 DEF Unheld
      <4> QED  BY <1>9, <2>1, <3>1, <4>1, RewindPoint
    <3>2. CASE \E i : First(img, u, p, i)
      <4>1. PICK i : First(img, u, p, i)  BY <3>2
      <4>2. CASE i = w
        <5>1. Unheld(new, u, p)
          <6> SUFFICES ASSUME NEW j \in DOMAIN new.undo, j >= u, new.undo[j][p] # "unknown" PROVE FALSE
            BY DEF Unheld
          <6>1. j \in DOMAIN img.undo /\ j # w /\ img.undo[j][p] # "unknown"  BY <1>4, <1>8, <1>9
          <6>2. w <= j  BY <4>1, <4>2, <6>1 DEF First
          <6>3. j <= w  BY <6>1 DEF Newest
          <6> QED  BY <1>2, <6>1, <6>2, <6>3
        <5>2. img.row[p] = img.undo[w][p]  BY <4>1, <4>2 DEF First
        <5> QED  BY <1>9, <2>1, <4>1, <4>2, <5>1, <5>2, RewindPoint
      <4>3. CASE i # w
        <5>1. First(new, u, p, i) /\ new.undo[i][p] = img.undo[i][p]
          BY <1>4, <1>8, <1>9, <4>1, <4>3 DEF First
        <5> QED  BY <1>9, <2>1, <4>1, <5>1, RewindPoint
      <4> QED  BY <4>2, <4>3
    <3> QED  BY <2>1, <3>1, <3>2, RewindPoint
  <2> QED  BY <1>9, <2>1, <2>2, RewindSame
<1>11. Exact(new)  BY <1>4, <1>8, <1>9, <1>10 DEF Exact
<1> QED  BY <1>1, <1>9, <1>11

\* A rewind to u leaves every rewind to u or to an earlier record as it was.
LEMMA RewindExactly ==
  ASSUME NEW img, ImageOK(img), Exact(img), NEW u \in DOMAIN img.undo, NEW new,
         new = [img EXCEPT !.row = RewindTo(img, u),
                           !.undone = @ \cup ({i \in DOMAIN img.undo : i >= u} \ {u})]
  PROVE  ImageOK(new) /\ Exact(new) /\ new.row = RewindTo(img, u) /\ new.steps = img.steps
<1> DEFINE r == RewindTo(img, u)
<1> DEFINE n == img.undone \cup ({i \in DOMAIN img.undo : i >= u} \ {u})
<1>1. DOMAIN img.undo \subseteq Id /\ Id \subseteq Nat /\ u \in Id
  BY SessionAssumption DEF ImageOK, Id
<1>2. r \in Tree  BY <1>1, RewindType
<1>3. n \in SUBSET Id  BY <1>1 DEF ImageOK
<1>4. new = [img EXCEPT !.row = r, !.undone = n]  OBVIOUS
<1>5. \A i \in DOMAIN img.undo \ n : i <= u /\ i \notin img.undone  BY <1>1
<1> HIDE DEF r, n
<1>6. /\ ImageOK(new) /\ new.row = r /\ new.undo = img.undo /\ new.steps = img.steps
      /\ new.before = img.before /\ new.undone = n
  BY <1>2, <1>3, <1>4 DEF ImageOK
<1>7. \A v \in DOMAIN img.undo \ n : RewindTo(new, v) = RewindTo(img, v)
  <2> TAKE v \in DOMAIN img.undo \ n
  <2>1. v \in Id /\ v <= u  BY <1>1, <1>5
  <2>2. \A p \in Path : RewindTo(new, v)[p] = RewindTo(img, v)[p]
    <3> TAKE p \in Path
    <3>1. CASE Unheld(img, v, p)
      <4>1. Unheld(img, u, p) /\ Unheld(new, v, p)  BY <1>1, <1>6, <2>1, <3>1 DEF Unheld
      <4>2. r[p] = img.row[p]  BY <1>1, <4>1, RewindPoint DEF r
      <4>3. RewindTo(new, v)[p] = new.row[p]  BY ONLY <1>6, <2>1, <4>1, RewindPoint
      <4>4. RewindTo(img, v)[p] = img.row[p]  BY <2>1, <3>1, RewindPoint
      <4> QED  BY <1>6, <4>2, <4>3, <4>4
    <3>2. CASE \E i : First(img, v, p, i)
      <4>1. PICK i : First(img, v, p, i)  BY <3>2
      <4>2. First(new, v, p, i)  BY <1>6, <4>1 DEF First
      <4>3. RewindTo(new, v)[p] = new.undo[i][p]  BY ONLY <1>6, <2>1, <4>2, RewindPoint
      <4>4. RewindTo(img, v)[p] = img.undo[i][p]  BY <2>1, <4>1, RewindPoint
      <4> QED  BY <1>6, <4>3, <4>4
    <3> QED  BY <2>1, <3>1, <3>2, RewindPoint
  <2>3. ImageOK(img)  OBVIOUS
  <2> QED  BY ONLY <1>6, <2>1, <2>2, <2>3, RewindSame
<1>8. Exact(new)  BY <1>5, <1>6, <1>7 DEF Exact
<1> QED  BY <1>6, <1>8 DEF r

-----------------------------------------------------------------------------
(* The invariants. *)

Good(img) == ImageOK(img) /\ Exact(img)

\* Every database the session can fall back on rewinds exactly.
ImagesOK == \A img \in {disk, work} \cup cur.mark : Good(img)

\* Until its outcome is settled, the command's record is the youngest.
Open == pc \in {"begun", "sync", "synced", "drop"} => Newest(work, cur.id)

\* A record is dropped once it is applied.
Applied ==
  pc = "drop" => \A p \in Path : work.undo[cur.id][p] # "unknown" => work.row[p] = work.undo[cur.id][p]

\* A step is recorded under the command's id.
Numbered == pc = "record" \/ (pc \in {"restore", "clean"} /\ cur.back = "record") => cur.id \in Id

RewindInv == TypeOK /\ ImagesOK /\ Open /\ Applied /\ Numbered

\* A transaction is open only inside a full sync or after one that a refused deletion
\* ended, and a savepoint only inside a sync.
Enclosed ==
  /\ tx => halted \/ (pc = "sync" /\ cur.all)
  /\ pc # "sync" => cur.mark = {}

\* Every database the session can fall back on has the steps reported before such an end.
Kept == \A img \in {disk, work} \cup cur.mark : told \ shaky \subseteq img.steps

DurableInv == Enclosed /\ Kept

\* Outside a sync nothing is uncommitted, unless a transaction was left open.
Settled ==
  /\ pc = "down" => disk = work
  /\ pc # "sync" /\ ~halted => disk = work
  /\ pc = "sync" /\ ~halted => cur.mark = {disk}

\* The watcher will report p to the next command, or p is adrift.
Loosely(p) == full \/ p \in pending \/ p \in adrift

\* What is left to agree on is on the session's lists: the watcher's, the sync's
\* and the restore's; a refused write is in the record that will be applied.
Agreed ==
  LET same(p) == tree[p] = work.row[p]
      held(p) == cur.failed /\ work.undo[cur.id][p] # "unknown"
  IN  /\ pc \in {"idle", "run", "record"} => \A p \in Path : Loosely(p) \/ same(p)
      /\ pc = "clean" => \A p \in Path : p \in adrift \/ same(p)
      /\ pc \in {"took", "begun"} => \A p \in Path \ cur.todo : Loosely(p) \/ same(p)
      /\ pc \in {"took", "begun"} => cur.seen = {} /\ (cur.all => cur.todo = Path)
      /\ pc = "sync" => \A p \in Path \ cur.todo :
                          IF cur.all /\ p \notin cur.seen THEN full \/ p \in pending \/ tree[p] = "none"
                          ELSE Loosely(p) \/ same(p) \/ held(p)
      /\ pc = "sync" => cur.seen \cap cur.todo = {}
      /\ pc = "synced" => \A p \in Path : Loosely(p) \/ same(p) \/ held(p)
      /\ pc \in {"drop", "restore"} => \A p \in Path \ cur.restore : Loosely(p) \/ same(p)

SyncInv == Settled /\ Agreed

Locals ==
  [id : {0} \cup Id, roll : BOOLEAN, all : BOOLEAN, todo : SUBSET Path, seen : SUBSET Path,
   failed : BOOLEAN, mark : SUBSET Image, restore : SUBSET Path, back : {"idle", "record"}]

\* The actions of session.rs, without what the properties remember of them.
Step ==
  \/ Start \/ Stop
  \/ \E p \in Path, v \in Node, lost \in BOOLEAN : Touch(p, v, lost)
  \/ Exec \/ RunError
  \/ \E roll \in BOOLEAN : RunEnd(roll)
  \/ UndoBegin \/ SyncBegin \/ SyncNested
  \/ \E p \in Path, alike \in BOOLEAN : SyncPresent(p, alike)
  \/ \E p \in Path : SyncMissing(p) \/ SyncPathsError(p)
  \/ SyncEnd
  \/ \E D \in SUBSET Path : SyncFullError(D)
  \/ UndoApply \/ UndoDelete \/ InsertStep
  \/ \E t \in Tree : Restore(t)
  \/ \E D \in SUBSET Path : RestoreError(D)
  \/ Discard
  \/ \E u \in Id : Rewind(u)

\* The world stays, and the histories keep their types.
Framed == env' = env /\ adrift' \in SUBSET Path /\ halted' \in BOOLEAN /\ shaky' \in SUBSET Id

-----------------------------------------------------------------------------
(* A rewind returns to the rows before its command. *)

\* An image that is in order has the columns of the schema.
LEMMA ImageTyped ==
  ASSUME NEW img, ImageOK(img)
  PROVE  img \in Image
<1>1. img \in [row : Tree, undo : {img.undo}, steps : SUBSET Id, before : {img.before}, undone : SUBSET Id]
  BY DEF ImageOK
<1>2. img.undo \in [DOMAIN img.undo -> Record] /\ img.before \in [DOMAIN img.undo -> Tree]
  BY DEF ImageOK
<1>3. DOMAIN img.undo \in SUBSET Id  BY DEF ImageOK
<1>4. /\ img.undo \in UNION {[I -> Record] : I \in SUBSET Id}
      /\ img.before \in UNION {[I -> Tree] : I \in SUBSET Id}
  BY <1>2, <1>3
<1> QED  BY <1>1, <1>4 DEF Image

\* What a step must establish for RewindInv, when it keeps the types of the rest.
LEMMA Carried ==
  ASSUME RewindInv, Framed, tx' \in BOOLEAN, full' \in BOOLEAN, tree' \in Tree, pending' \in SUBSET Path,
         pc' \in {"down", "idle", "run", "took", "begun", "sync", "synced", "drop", "restore", "clean", "record"},
         told' \in SUBSET Id, Good(disk'), Good(work'), cur' \in Locals,
         \A img \in cur'.mark : Good(img),
         pc' \in {"begun", "sync", "synced", "drop"} => Newest(work', cur'.id),
         pc' = "drop" => \A p \in Path : work'.undo[cur'.id][p] # "unknown"
                                           => work'.row[p] = work'.undo[cur'.id][p],
         pc' = "record" \/ (pc' \in {"restore", "clean"} /\ cur'.back = "record") => cur'.id \in Id
  PROVE  RewindInv'
<1>1. disk' \in Image /\ work' \in Image  BY ImageTyped DEF Good
<1>2. TypeOK'  BY <1>1 DEF TypeOK, Locals, RewindInv, Framed
<1>3. ImagesOK'  BY DEF ImagesOK
<1>4. Open' /\ Applied' /\ Numbered'  BY DEF Open, Applied, Numbered
<1> QED  BY <1>2, <1>3, <1>4 DEF RewindInv

\* What the invariant says of the state, unpacked.
LEMMA Unpacked ==
  ASSUME RewindInv
  PROVE  /\ tx \in BOOLEAN /\ full \in BOOLEAN /\ tree \in Tree /\ pending \in SUBSET Path
         /\ told \in SUBSET Id /\ cur \in Locals
         /\ Good(disk) /\ Good(work) /\ \A img \in cur.mark : Good(img)
         /\ NoCommand \in Locals /\ NoCommand.mark = {} /\ NoCommand.back = "idle"
         /\ EmptyTree \in Tree
BY DEF RewindInv, TypeOK, ImagesOK, Locals, NoCommand, EmptyTree, Tree, Node

\* A commit leaves images that are in order.
LEMMA Committed ==
  ASSUME NEW img, Good(img), Good(disk), Commit(img)
  PROVE  Good(disk') /\ Good(work') /\ work' = img
BY DEF Commit

\* The start, the end, and what the sandbox does between.
LEMMA OutsideKeeps ==
  ASSUME RewindInv, Framed,
         \/ Start \/ Stop \/ Exec \/ RunError \/ SyncNested
         \/ \E roll \in BOOLEAN : RunEnd(roll)
         \/ \E p \in Path, v \in Node, lost \in BOOLEAN : Touch(p, v, lost)
  PROVE  RewindInv'
<1> USE Unpacked
<1>1. CASE Start
  <2>1. disk.row \in Tree  BY DEF Good, ImageOK
  <2> QED  BY <1>1, <2>1, Carried DEF Start, Return
<1>2. CASE Stop  BY <1>2, Carried DEF Stop
<1>3. CASE Exec  BY <1>3, Carried DEF Exec, At
<1>4. CASE RunError  BY <1>4, Carried DEF RunError, Return
<1>5. CASE SyncNested  BY <1>5, Carried DEF SyncNested, Return
<1>6. CASE \E roll \in BOOLEAN : RunEnd(roll)
  <2>1. PICK roll \in BOOLEAN : RunEnd(roll)  BY <1>6
  <2>2. cur' \in Locals /\ cur'.mark = {} /\ pc' = "took"  BY <2>1 DEF RunEnd, NoCommand, Locals
  <2> QED  BY <2>1, <2>2, Carried DEF RunEnd
<1>7. CASE \E p \in Path, v \in Node, lost \in BOOLEAN : Touch(p, v, lost)
  <2>1. PICK p \in Path, v \in Node, lost \in BOOLEAN : Touch(p, v, lost)  BY <1>7
  <2>2. tree' \in Tree /\ pending' \in SUBSET Path /\ full' \in BOOLEAN  BY <2>1 DEF Touch, Tree
  <2>3. UNCHANGED <<disk, work, tx, pc, cur, told>>  BY <2>1 DEF Touch
  <2> QED  BY <2>2, <2>3, Carried DEF RewindInv, TypeOK, Open, Applied, Numbered
<1> QED  BY <1>1, <1>2, <1>3, <1>4, <1>5, <1>6, <1>7

\* undo_begin, and the opening of the sync.
LEMMA BeginKeeps ==
  ASSUME RewindInv, Framed, UndoBegin \/ SyncBegin
  PROVE  RewindInv'
<1> USE Unpacked
<1>1. CASE UndoBegin
  <2> DEFINE u == 1 + Cardinality({i \in Id : \E j \in DOMAIN work.undo : i <= j})
  <2>1. /\ u <= env.undos /\ Commit(UndoOpen(work, u)) /\ cur' = [cur EXCEPT !.id = u] /\ pc' = "begun"
        /\ UNCHANGED <<tx, tree, pending, full, told>>
    BY <1>1 DEF UndoBegin
  <2>2. env.undos \in 0 .. MaxUndo  BY SessionAssumption DEF RewindInv, TypeOK
  <2>3. DOMAIN work.undo \in SUBSET Id  BY DEF Good, ImageOK
  <2>4. u \in Nat \ {0} /\ \A i \in DOMAIN work.undo : i < u  BY <2>3, NextId
  <2> HIDE DEF u
  <2>5. u \in Id  BY SessionAssumption, <2>1, <2>2, <2>4 DEF Id
  <2>6. Good(UndoOpen(work, u)) /\ Newest(UndoOpen(work, u), u)  BY <2>4, <2>5, OpenExact DEF Good
  <2>7. Good(disk') /\ Good(work') /\ work' = UndoOpen(work, u)  BY <2>1, <2>6, Committed
  <2>8. cur' \in Locals /\ cur'.id = u /\ cur'.mark = cur.mark  BY <2>1, <2>5 DEF Locals
  <2> QED  BY <2>1, <2>6, <2>7, <2>8, Carried
<1>2. CASE SyncBegin
  <2>1. work \in Image  BY ImageTyped DEF Good
  <2>2. cur' \in Locals /\ cur'.id = cur.id /\ cur'.mark = {work}  BY <1>2, <2>1 DEF SyncBegin, Locals
  <2>3. tx' \in BOOLEAN /\ pc' = "sync" /\ UNCHANGED <<disk, work, tree, pending, full, told>>
    BY <1>2 DEF SyncBegin, Locals
  <2>4. Newest(work, cur.id)  BY <1>2 DEF SyncBegin, At, RewindInv, Open
  <2> QED  BY <2>2, <2>3, <2>4, Carried
<1> QED  BY <1>1, <1>2

\* Work logged in the youngest record leaves an image in order.
LEMMA LoggedGood ==
  ASSUME NEW img, NEW new, NEW w, Good(img), Newest(img, w), Logged(img, new, w)
  PROVE  Good(new) /\ Newest(new, w)
BY LoggedExact DEF Good

\* A sync that goes on.
LEMMA SyncGoesOn ==
  ASSUME RewindInv, Framed, pc = "sync", Good(work'), Newest(work', cur.id),
         cur' \in Locals, cur'.id = cur.id, cur'.mark = cur.mark,
         UNCHANGED <<disk, tx, tree, pending, full, pc, told>>
  PROVE  RewindInv'
<1> USE Unpacked
<1>1. pc' = "sync"  OBVIOUS
<1> QED  BY <1>1, Carried

\* The paths of a sync.
LEMMA SyncKeeps ==
  ASSUME RewindInv, Framed, NEW p \in Path, NEW alike \in BOOLEAN,
         SyncPresent(p, alike) \/ SyncMissing(p) \/ SyncPathsError(p)
  PROVE  RewindInv'
<1> USE Unpacked
<1>1. pc = "sync" /\ p \in cur.todo  BY DEF SyncPresent, SyncMissing, SyncPathsError, Turn, At
<1>2. Newest(work, cur.id) /\ cur.id \in DOMAIN work.undo /\ ImageOK(work)
  BY <1>1 DEF RewindInv, Open, Newest, Good
<1>3. CASE SyncPresent(p, alike)
  <2>1. PICK bad \in BOOLEAN :
          /\ work' \in {work, Capture(work, cur.id, {p}), Put(work, cur.id, p, tree[p])}
          /\ cur' = [cur EXCEPT !.todo = @ \ {p}, !.seen = @ \cup {p}, !.failed = @ \/ bad]
          /\ UNCHANGED <<disk, tx, tree, pending, full, pc, told>>
    <3> DEFINE b == ~(alike \/ work.row[p] = tree[p]) /\ Refused(p, tree[p])
    <3>1. b \in BOOLEAN  OBVIOUS
    <3>2. /\ work' \in {work, Capture(work, cur.id, {p}), Put(work, cur.id, p, tree[p])}
          /\ cur' = [cur EXCEPT !.todo = @ \ {p}, !.seen = @ \cup {p}, !.failed = @ \/ b]
          /\ UNCHANGED <<disk, tx, tree, pending, full, pc, told>>
      BY <1>3 DEF SyncPresent
    <3> HIDE DEF b
    <3> QED  BY <3>1, <3>2
  <2>2. cur' \in Locals /\ cur'.id = cur.id /\ cur'.mark = cur.mark  BY <2>1 DEF Locals
  <2>3. tree[p] \in Node  BY DEF Tree
  <2>4. work' = work \/ Logged(work, work', cur.id)
    <3>1. Logged(work, Capture(work, cur.id, {p}), cur.id)  BY <1>2, CaptureLogged
    <3>2. Logged(work, Put(work, cur.id, p, tree[p]), cur.id)  BY <1>2, <2>3, PutLogged
    <3> QED  BY <2>1, <3>1, <3>2
  <2>5. Good(work') /\ Newest(work', cur.id)  BY <1>2, <2>4, LoggedGood
  <2> QED  BY <1>1, <2>1, <2>2, <2>5, SyncGoesOn
<1>4. CASE SyncMissing(p)
  <2>1. Missing(work, p) \in SUBSET Path
    <3>1. Like[p] \in SUBSET Path  BY SessionAssumption DEF RewindInv, TypeOK, Like
    <3> QED  BY <3>1 DEF Missing
  <2>2. cur' = [cur EXCEPT !.todo = @ \ {p}] /\ UNCHANGED <<disk, tx, tree, pending, full, pc, told>>
    BY <1>4 DEF SyncMissing
  <2>3. cur' \in Locals /\ cur'.id = cur.id /\ cur'.mark = cur.mark  BY <2>2 DEF Locals
  <2>4. work' = work \/ work' = Delete(work, cur.id, Missing(work, p))  BY <1>4 DEF SyncMissing
  <2>5. work' = work \/ Logged(work, work', cur.id)
    <3>1. Logged(work, Delete(work, cur.id, Missing(work, p)), cur.id)  BY <1>2, <2>1, DeleteLogged
    <3> QED  BY <2>4, <3>1
  <2>6. Good(work') /\ Newest(work', cur.id)  BY <1>2, <2>5, LoggedGood
  <2> QED  BY <1>1, <2>2, <2>3, <2>6, SyncGoesOn
<1>5. CASE SyncPathsError(p)
  <2>1. Good(work')  BY <1>5 DEF SyncPathsError
  <2> QED  BY <1>5, <2>1, Carried DEF SyncPathsError, Return
<1> QED  BY <1>3, <1>4, <1>5

\* The end of a sync.
LEMMA SyncEndKeeps ==
  ASSUME RewindInv, Framed, SyncEnd \/ \E D \in SUBSET Path : SyncFullError(D)
  PROVE  RewindInv'
<1> USE Unpacked
<1>1. pc = "sync"  BY DEF SyncEnd, SyncFullError, At
<1>2. Newest(work, cur.id) /\ cur.id \in DOMAIN work.undo /\ ImageOK(work)
  BY <1>1 DEF RewindInv, Open, Newest, Good
<1>3. \A D \in SUBSET Path : Good(Delete(work, cur.id, D)) /\ Newest(Delete(work, cur.id, D), cur.id)
  BY <1>2, DeleteLogged, LoggedGood
<1>4. CASE SyncEnd
  <2>1. Gone \in SUBSET Path  BY DEF Gone
  <2>2. Good(work') /\ Newest(work', cur.id)  BY <1>2, <1>3, <1>4, <2>1 DEF SyncEnd
  <2>3. Good(disk') /\ tx' \in BOOLEAN  BY <1>4, <2>2 DEF SyncEnd, Locals
  <2>4. cur' \in Locals /\ cur'.id = cur.id /\ cur'.mark = {}  BY <1>4 DEF SyncEnd, Locals
  <2>5. pc' = "synced" /\ UNCHANGED <<tree, pending, full, told>>  BY <1>4 DEF SyncEnd
  <2> QED  BY <2>2, <2>3, <2>4, <2>5, Carried
<1>5. CASE \E D \in SUBSET Path : SyncFullError(D)
  <2>1. PICK D \in SUBSET Path : SyncFullError(D)  BY <1>5
  <2>2. Good(work')  BY <1>3, <2>1 DEF SyncFullError
  <2> QED  BY <2>1, <2>2, Carried DEF SyncFullError, Return
<1> QED  BY <1>4, <1>5

\* A change of the steps alone keeps an image in order.
LEMMA StepsGood ==
  ASSUME NEW img, Good(img), NEW S \in SUBSET Id, NEW new, new = [img EXCEPT !.steps = S]
  PROVE  Good(new) /\ new.row = img.row /\ new.undo = img.undo /\ new.steps = S
<1>1. /\ ImageOK(new) /\ new.row = img.row /\ new.undo = img.undo /\ new.steps = S
      /\ new.before = img.before /\ new.undone = img.undone
  BY DEF Good, ImageOK
<1>2. \A u : RewindTo(new, u) = RewindTo(img, u)  BY <1>1 DEF RewindTo, Covered
<1> QED  BY <1>1, <1>2 DEF Good, Exact

\* The outcome of a command.
LEMMA OutcomeKeeps ==
  ASSUME RewindInv, Framed, UndoApply \/ UndoDelete \/ InsertStep
  PROVE  RewindInv'
<1> USE Unpacked
<1>1. CASE UndoApply
  <2>1. Newest(work, cur.id) /\ cur.id \in DOMAIN work.undo /\ ImageOK(work) /\ cur.id \in Id
    BY <1>1 DEF UndoApply, At, RewindInv, Open, Newest, Good, ImageOK
  <2>2. /\ Logged(work, UndoPut(work, cur.id), cur.id) /\ UndoPut(work, cur.id).undo = work.undo
        /\ \A p \in Path : UndoPut(work, cur.id).row[p]
                             = IF work.undo[cur.id][p] # "unknown" THEN work.undo[cur.id][p] ELSE work.row[p]
    BY <2>1, UndoPutLogged
  <2>3. Good(UndoPut(work, cur.id)) /\ Newest(UndoPut(work, cur.id), cur.id)  BY <2>1, <2>2, LoggedGood
  <2>4. Good(disk') /\ Good(work') /\ work' = UndoPut(work, cur.id)
    BY <1>1, <2>3, Committed DEF UndoApply
  <2>5. Covered(work, cur.id) \in SUBSET Path  BY DEF Covered
  <2>6. cur' \in Locals /\ cur'.id = cur.id /\ cur'.mark = cur.mark
    BY <1>1, <2>5 DEF UndoApply, Locals
  <2>7. pc' \in {"drop", "restore"} /\ UNCHANGED <<tx, tree, pending, full, told>>  BY <1>1 DEF UndoApply
  <2>8. \A p \in Path : work'.undo[cur'.id][p] # "unknown" => work'.row[p] = work'.undo[cur'.id][p]
    BY <2>2, <2>4, <2>6
  <2> QED  BY <2>1, <2>3, <2>4, <2>6, <2>7, <2>8, Carried
<1>2. CASE UndoDelete
  <2>1. Newest(work, cur.id) /\ cur.id \in Id
    BY <1>2 DEF UndoDelete, At, RewindInv, Open, Newest, Good, ImageOK
  <2>2. \A p \in Path : work.undo[cur.id][p] # "unknown" => work.row[p] = work.undo[cur.id][p]
    BY <1>2 DEF UndoDelete, At, RewindInv, Applied
  <2>3. Good(UndoDrop(work, cur.id))  BY <2>1, <2>2, DropExact DEF Good
  <2>4. Good(disk') /\ Good(work')  BY <1>2, <2>3, Committed DEF UndoDelete
  <2>5. pc' = "restore" /\ UNCHANGED <<tx, tree, pending, full, cur, told>>  BY <1>2 DEF UndoDelete
  <2> QED  BY <2>1, <2>4, <2>5, Carried
<1>3. CASE InsertStep
  <2>1. cur.id \in Id
    <3>1. CASE pc = "record"  BY <3>1 DEF RewindInv, Numbered
    <3>2. CASE pc = "synced"  BY <3>2 DEF RewindInv, Open, Newest, Good, ImageOK
    <3> QED  BY <1>3, <3>1, <3>2 DEF InsertStep, At
  <2> DEFINE S == work.steps \cup {cur.id}
  <2>2. S \in SUBSET Id  BY <2>1 DEF Good, ImageOK
  <2>3. Commit([work EXCEPT !.steps = S])  BY <1>3 DEF InsertStep
  <2> HIDE DEF S
  <2>4. Good(disk') /\ Good(work')  BY <2>2, <2>3, Committed, StepsGood
  <2>5. told' \in SUBSET Id /\ pc' = "idle" /\ cur' = NoCommand /\ UNCHANGED <<tx, tree, pending, full>>
    BY <1>3, <2>1 DEF InsertStep, Return
  <2> QED  BY <2>4, <2>5, Carried
<1> QED  BY <1>1, <1>2, <1>3

\* restore_tree and rewind.
LEMMA RestoreKeeps ==
  ASSUME RewindInv, Framed,
         \/ \E t \in Tree : Restore(t)
         \/ \E D \in SUBSET Path : RestoreError(D)
         \/ Discard
         \/ \E u \in Id : Rewind(u)
  PROVE  RewindInv'
<1> USE Unpacked
<1>1. CASE \E t \in Tree : Restore(t)
  <2>1. PICK t \in Tree : Restore(t)  BY <1>1
  <2>2. /\ tree' \in Tree /\ pending' \in SUBSET Path /\ pc = "restore" /\ pc' = "clean"
        /\ UNCHANGED <<disk, work, tx, full, cur, told>>
    BY <2>1 DEF Restore, At
  <2>3. cur'.back = "record" => cur'.id \in Id  BY <2>2 DEF RewindInv, Numbered
  <2> QED  BY <2>2, <2>3, Carried
<1>2. CASE \E D \in SUBSET Path : RestoreError(D)
  <2>1. PICK D \in SUBSET Path : RestoreError(D)  BY <1>2
  <2>2. \A p \in Path : Removed(p) \in Node  BY DEF Removed, Tree, Node
  <2>3. tree' \in Tree  BY <2>1, <2>2 DEF RestoreError, Tree, Node
  <2>4. pending' \in SUBSET Path  BY <2>1 DEF RestoreError
  <2>5. UNCHANGED <<disk, work, tx, full, told>> /\ pc' = "idle" /\ cur' = NoCommand
    BY <2>1 DEF RestoreError, Return
  <2> QED  BY <2>3, <2>4, <2>5, Carried
<1>3. CASE Discard
  <2>1. pending' = {} /\ full' = FALSE /\ UNCHANGED <<disk, work, tx, tree, told>> /\ pc = "clean"
    BY <1>3 DEF Discard, At
  <2>2. CASE cur.back = "idle"  BY <1>3, <2>1, <2>2, Carried DEF Discard, Return
  <2>3. CASE cur.back = "record"
    <3>1. cur.id \in Id  BY <2>1, <2>3 DEF RewindInv, Numbered
    <3>2. pc' = "record" /\ cur' = [cur EXCEPT !.restore = {}]  BY <1>3, <2>3 DEF Discard
    <3>3. cur' \in Locals /\ cur'.id = cur.id /\ cur'.mark = cur.mark  BY <3>2 DEF Locals
    <3> QED  BY <2>1, <3>1, <3>2, <3>3, Carried
  <2> QED  BY <2>2, <2>3 DEF Locals
<1>4. CASE \E u \in Id : Rewind(u)
  <2>1. PICK u \in Id : Rewind(u)  BY <1>4
  <2> DEFINE ids == {i \in DOMAIN work.undo : i >= u}
  <2> DEFINE new == [work EXCEPT !.row = RewindTo(work, u), !.undone = @ \cup (ids \ {u})]
  <2>2. /\ u \in DOMAIN work.undo /\ Commit(new)
        /\ cur' = [NoCommand EXCEPT !.restore = UNION {Covered(work, i) : i \in ids}]
        /\ pc' = "restore" /\ UNCHANGED <<tx, tree, pending, full, told>>
    BY <2>1 DEF Rewind
  <2>3. new = [work EXCEPT !.row = RewindTo(work, u),
                           !.undone = @ \cup ({i \in DOMAIN work.undo : i >= u} \ {u})]
    OBVIOUS
  <2>4. UNION {Covered(work, i) : i \in ids} \in SUBSET Path  BY DEF Covered
  <2> HIDE DEF ids, new
  <2>5. Good(new)  BY <2>2, <2>3, RewindExactly DEF Good
  <2>6. Good(disk') /\ Good(work')  BY <2>2, <2>5, Committed
  <2>7. cur' \in Locals /\ cur'.mark = {} /\ cur'.back = "idle"  BY <2>2, <2>4 DEF Locals, NoCommand
  <2> QED  BY <2>2, <2>6, <2>7, Carried
<1> QED  BY <1>1, <1>2, <1>3, <1>4

\* A step is one of the actions, and its histories have their types.
LEMMA NextStep ==
  ASSUME RewindInv, Next
  PROVE  Step /\ Framed
<1>1. Step  BY DEF Next, Plain, Loose, Step
<1>2. env' = env  BY DEF Next
<1>3. halted' \in BOOLEAN  BY DEF Next, RewindInv, TypeOK
<1>4. \A P \in SUBSET Path : Drift(P) => adrift' \in SUBSET Path  BY DEF Drift, RewindInv, TypeOK
<1>5. adrift' \in SUBSET Path
  <2>1. \A p \in Path : Like[p] \in SUBSET Path  BY SessionAssumption DEF RewindInv, TypeOK, Like
  <2>2. cur.restore \in SUBSET Path /\ pending \in SUBSET Path  BY Unpacked DEF Locals
  <2>3. Unrestored \in SUBSET Path  BY <2>2 DEF Unrestored
  <2>4. {} \in SUBSET Path /\ \A p \in Path : {p} \in SUBSET Path  OBVIOUS
  <2>5. \E P \in SUBSET Path : Drift(P)  BY <2>1, <2>2, <2>3, <2>4 DEF Next, Loose
  <2> QED  BY <1>4, <2>5
<1>6. shaky' \in SUBSET Id
  <2>1. CASE InsertStep
    <3>1. cur.id \in Id
      <4>1. CASE pc = "record"  BY <4>1 DEF RewindInv, Numbered
      <4>2. CASE pc = "synced"  BY <4>2 DEF RewindInv, ImagesOK, Open, Newest, Good, ImageOK
      <4> QED  BY <2>1, <4>1, <4>2 DEF InsertStep, At
    <3>2. shaky' \in {shaky, shaky \cup {cur.id}, shaky \ {cur.id}}  BY DEF Next
    <3> QED  BY <3>1, <3>2 DEF RewindInv, TypeOK
  <2>2. CASE ~InsertStep
    <3>1. shaky' = shaky  BY <2>2 DEF Next
    <3> QED  BY <3>1 DEF RewindInv, TypeOK
  <2> QED  BY <2>1, <2>2
<1> QED  BY <1>1, <1>2, <1>3, <1>5, <1>6 DEF Framed

\* The rows of a provisioned image are rows of a tree, and it has no records.
LEMMA StartGood ==
  ASSUME NEW t \in Tree, NEW img,
         img = [row |-> t, undo |-> [i \in {} |-> t], steps |-> {}, before |-> [i \in {} |-> t], undone |-> {}]
  PROVE  Good(img) /\ img.row = t /\ DOMAIN img.undo = {}
BY DEF Good, ImageOK, Exact

\* Every image, record and local is well formed, every image a crash, a rollback or a
\* savepoint can bring back rewinds exactly, and the record of the command that runs is the
\* youngest: inductive, so true of every reachable state of session.rs and undo.rs.
THEOREM SessionSafe == Spec => []RewindInv
<1>1. Init => RewindInv
  <2> SUFFICES ASSUME Init PROVE RewindInv
    OBVIOUS
  <2>1. Good(disk) /\ work = disk
    <3>1. PICK t \in Provisioned :
            disk = [row |-> t, undo |-> [i \in {} |-> t], steps |-> {}, before |-> [i \in {} |-> t], undone |-> {}]
      BY DEF Init
    <3>2. t \in Tree  BY DEF Provisioned
    <3> QED  BY <3>1, <3>2, StartGood DEF Init
  <2>2. disk \in Image /\ work \in Image  BY <2>1, ImageTyped DEF Good
  <2>3. cur = NoCommand /\ cur \in Locals /\ cur.mark = {}  BY DEF Init, NoCommand, Locals
  <2>4. TypeOK  BY <2>2, <2>3 DEF Init, TypeOK, Locals, EmptyTree, Tree, Node
  <2> QED  BY <2>1, <2>3, <2>4 DEF Init, RewindInv, ImagesOK, Open, Applied, Numbered
<1>2. RewindInv /\ [Next]_vars => RewindInv'
  <2> SUFFICES ASSUME RewindInv, [Next]_vars PROVE RewindInv'
    OBVIOUS
  <2>1. CASE Next
    <3>1. Step /\ Framed  BY <2>1, NextStep
    <3> QED  BY <3>1, OutsideKeeps, BeginKeeps, SyncKeeps, SyncEndKeeps, OutcomeKeeps, RestoreKeeps DEF Step
  <2>2. CASE UNCHANGED vars
    BY <2>2 DEF vars, RewindInv, TypeOK, ImagesOK, Open, Applied, Numbered
  <2> QED  BY <2>1, <2>2
<1> QED  BY <1>1, <1>2, PTL DEF Spec

\* Session::rewind to a command that no earlier rewind went past returns to the rows as they
\* were before it, from every database the session or a crash leaves.
THEOREM RewindsExact == Spec => []RewindExact
<1>1. RewindInv => RewindExact  BY DEF RewindInv, ImagesOK, Good, Exact, RewindExact
<1> QED  BY <1>1, SessionSafe, PTL

\* The database and the locals of session.rs keep their types.
THEOREM SessionTypeCorrect == Spec => []TypeOK
<1>1. RewindInv => TypeOK  BY DEF RewindInv
<1> QED  BY <1>1, SessionSafe, PTL

-----------------------------------------------------------------------------
(* A command that was reported is committed. *)

\* While a record is open it is in the table of undo records.
LEMMA OpenRecord ==
  ASSUME RewindInv, pc \in {"begun", "sync", "synced", "drop"}
  PROVE  ImageOK(work) /\ Good(work) /\ Newest(work, cur.id) /\ cur.id \in DOMAIN work.undo /\ cur.id \in Id
BY DEF RewindInv, ImagesOK, Good, Open, Newest, ImageOK

\* A sync writes rows and records, no steps.
LEMMA SyncSteps ==
  ASSUME NEW img, ImageOK(img), NEW u \in DOMAIN img.undo
  PROVE  /\ \A P \in SUBSET Path : Capture(img, u, P).steps = img.steps /\ Delete(img, u, P).steps = img.steps
         /\ \A p \in Path, v \in Node : Put(img, u, p, v).steps = img.steps
<1>1. ASSUME NEW P \in SUBSET Path
      PROVE  Capture(img, u, P).steps = img.steps /\ Delete(img, u, P).steps = img.steps
  <2>1. ImageOK(Capture(img, u, P)) /\ Capture(img, u, P).steps = img.steps  BY CaptureParts
  <2> QED  BY <2>1 DEF Delete, ImageOK
<1>2. ASSUME NEW p \in Path, NEW v \in Node
      PROVE  Put(img, u, p, v).steps = img.steps
  <2>1. ImageOK(Capture(img, u, {p})) /\ Capture(img, u, {p}).steps = img.steps  BY CaptureParts
  <2> QED  BY <2>1 DEF Put, ImageOK
<1> QED  BY <1>1, <1>2

\* Only InsertStep changes the steps of an image; a failed sync brings back those it began with.
LEMMA StepsKept ==
  ASSUME RewindInv, Plain \/ Loose \/ \E D \in SUBSET Path : SyncFullError(D)
  PROVE  \/ work' \in cur.mark
         \/ work'.steps = work.steps
<1> USE Unpacked
<1>1. CASE UndoBegin
  <2> DEFINE u == 1 + Cardinality({i \in Id : \E j \in DOMAIN work.undo : i <= j})
  <2>1. work' = UndoOpen(work, u)  BY <1>1 DEF UndoBegin, Commit
  <2> HIDE DEF u
  <2> QED  BY <2>1 DEF UndoOpen, Good, ImageOK
<1>2. CASE \E p \in Path, alike \in BOOLEAN : SyncPresent(p, alike)
  <2>1. PICK p \in Path, alike \in BOOLEAN : SyncPresent(p, alike)  BY <1>2
  <2>2. ImageOK(work) /\ cur.id \in DOMAIN work.undo  BY <2>1, OpenRecord DEF SyncPresent, Turn, At
  <2>3. tree[p] \in Node  BY DEF Tree
  <2>4. Capture(work, cur.id, {p}).steps = work.steps  BY <2>2, CaptureParts
  <2>5. Put(work, cur.id, p, tree[p]).steps = work.steps  BY <2>2, <2>3, SyncSteps
  <2> QED  BY <2>1, <2>4, <2>5 DEF SyncPresent
<1>3. CASE \E p \in Path : SyncMissing(p)
  <2>1. PICK p \in Path : SyncMissing(p)  BY <1>3
  <2>2. ImageOK(work) /\ cur.id \in DOMAIN work.undo  BY <2>1, OpenRecord DEF SyncMissing, Turn, At
  <2>3. Missing(work, p) \in SUBSET Path
    <3>1. Like[p] \in SUBSET Path  BY SessionAssumption DEF RewindInv, TypeOK, Like
    <3> QED  BY <3>1 DEF Missing
  <2>4. Delete(work, cur.id, Missing(work, p)).steps = work.steps  BY <2>2, <2>3, SyncSteps
  <2> QED  BY <2>1, <2>4 DEF SyncMissing
<1>4. CASE SyncEnd
  <2>1. ImageOK(work) /\ cur.id \in DOMAIN work.undo  BY <1>4, OpenRecord DEF SyncEnd, At
  <2>2. Gone \in SUBSET Path  BY DEF Gone
  <2>3. Delete(work, cur.id, Gone).steps = work.steps  BY <2>1, <2>2, SyncSteps
  <2> QED  BY <1>4, <2>3 DEF SyncEnd
<1>5. CASE UndoApply
  <2>1. ImageOK(work) /\ cur.id \in DOMAIN work.undo  BY <1>5, OpenRecord DEF UndoApply, At
  <2>2. UndoPut(work, cur.id).steps = work.steps  BY <2>1, UndoPutLogged
  <2> QED  BY <1>5, <2>2 DEF UndoApply, Commit
<1>6. CASE UndoDelete
  <2>1. work' = UndoDrop(work, cur.id)  BY <1>6 DEF UndoDelete, Commit
  <2> QED  BY <2>1 DEF UndoDrop, Good, ImageOK
<1>7. CASE \E u \in Id : Rewind(u)
  <2>1. PICK u \in Id : Rewind(u)  BY <1>7
  <2> DEFINE n == work.undone \cup ({i \in DOMAIN work.undo : i >= u} \ {u})
  <2>2. work' = [work EXCEPT !.row = RewindTo(work, u), !.undone = n]  BY <2>1 DEF Rewind, Commit
  <2> HIDE DEF n
  <2> QED  BY <2>2 DEF Good, ImageOK
<1>8. CASE \E p \in Path : SyncPathsError(p)  BY <1>8 DEF SyncPathsError
<1>9. CASE \E D \in SUBSET Path : SyncFullError(D)
  <2>1. PICK D \in SUBSET Path : SyncFullError(D)  BY <1>9
  <2>2. ImageOK(work) /\ cur.id \in DOMAIN work.undo  BY <2>1, OpenRecord DEF SyncFullError, At
  <2>3. Delete(work, cur.id, D).steps = work.steps  BY <2>2, SyncSteps
  <2> QED  BY <2>1, <2>3 DEF SyncFullError
<1>10. CASE work' = work  BY <1>10
<1> QED
  BY <1>1, <1>2, <1>3, <1>4, <1>5, <1>6, <1>7, <1>8, <1>9, <1>10
  DEF Plain, Loose, Start, Touch, Exec, RunError, RunEnd, SyncBegin, SyncNested, Restore, RestoreError, Discard

\* The transaction of a full sync ends with it, or a refused deletion has ended it.
LEMMA EnclosedKept ==
  ASSUME RewindInv, Enclosed, Next
  PROVE  Enclosed'
<1> USE Unpacked
<1>1. CASE \E D \in SUBSET Path : SyncFullError(D) /\ halted' = TRUE
  <2>1. cur'.mark = {}  BY <1>1 DEF SyncFullError, Return, NoCommand
  <2> QED  BY <1>1, <2>1 DEF Enclosed
<1>2. CASE Stop  BY <1>2 DEF Stop, Enclosed
<1>3. CASE halted' = halted /\ (Plain \/ Loose \/ InsertStep)
  <2>1. CASE \E p \in Path, alike \in BOOLEAN : SyncPresent(p, alike) \/ SyncMissing(p)
    <3>1. PICK p \in Path, alike \in BOOLEAN : SyncPresent(p, alike) \/ SyncMissing(p)  BY <2>1
    <3>2. pc' = pc /\ tx' = tx /\ cur'.all = cur.all /\ cur'.mark = cur.mark
      BY <3>1 DEF SyncPresent, SyncMissing, Locals
    <3> QED  BY <1>3, <3>2 DEF Enclosed
  <2>2. CASE SyncBegin
    <3>1. pc = "begun" /\ pc' = "sync" /\ tx' = (tx \/ cur.all) /\ cur'.all = cur.all
      BY <2>2 DEF SyncBegin, Locals, At
    <3> QED  BY <1>3, <3>1 DEF Enclosed
  <2>3. CASE SyncEnd
    <3>1. tx' = (tx /\ ~cur.all) /\ cur'.mark = {} /\ pc' = "synced"  BY <2>3 DEF SyncEnd, Locals
    <3> QED  BY <1>3, <3>1 DEF Enclosed
  <2>4. CASE \E p \in Path : SyncPathsError(p)
    <3>1. ~cur.all /\ tx' = tx /\ cur'.mark = {} /\ pc' = "idle"  BY <2>4 DEF SyncPathsError, Return, NoCommand
    <3> QED  BY <1>3, <3>1 DEF Enclosed
  <2>5. CASE pc # "sync" /\ tx' = tx /\ cur'.mark = {}
    BY <1>3, <2>5 DEF Enclosed
  <2>6. CASE \E p \in Path, v \in Node, lost \in BOOLEAN : Touch(p, v, lost)
    BY <1>3, <2>6 DEF Touch, Enclosed
  <2>7. CASE Start \/ RunError \/ SyncNested
    BY <2>5, <2>7 DEF Start, RunError, SyncNested, Return, NoCommand, At
  <2>8. CASE Exec \/ UndoDelete
    BY <2>5, <2>8 DEF Exec, UndoDelete, Enclosed, At
  <2>9. CASE InsertStep
    BY <2>5, <2>9 DEF InsertStep, Return, NoCommand, At
  <2>10. CASE \E roll \in BOOLEAN : RunEnd(roll)
    <3>1. pc = "run" /\ tx' = tx /\ cur'.mark = {}  BY <2>10 DEF RunEnd, At, NoCommand
    <3> QED  BY <2>5, <3>1
  <2>11. CASE UndoBegin \/ UndoApply
    <3>1. pc \in {"took", "synced"} /\ tx' = tx /\ cur'.mark = cur.mark
      BY <2>11 DEF UndoBegin, UndoApply, At, Locals
    <3> QED  BY <2>5, <3>1 DEF Enclosed
  <2>12. CASE \E t \in Tree : Restore(t)  BY <1>3, <2>12 DEF Restore, Enclosed, At
  <2>13. CASE \E D \in SUBSET Path : RestoreError(D)
    BY <2>5, <2>13 DEF RestoreError, Return, NoCommand, At
  <2>14. CASE Discard
    <3>1. pc = "clean" /\ tx' = tx  BY <2>14 DEF Discard, At
    <3>2. cur'.mark = {}  BY <2>14, <3>1 DEF Discard, Return, Locals, Enclosed
    <3> QED  BY <2>5, <3>1, <3>2
  <2>15. CASE \E u \in Id : Rewind(u)
    <3>1. pc = "idle" /\ tx' = tx /\ cur'.mark = {}  BY <2>15 DEF Rewind, At, NoCommand
    <3> QED  BY <2>5, <3>1
  <2> QED
    BY <1>3, <2>1, <2>2, <2>3, <2>4, <2>6, <2>7, <2>8, <2>9, <2>10, <2>11, <2>12, <2>13, <2>14, <2>15
    DEF Plain, Loose
<1> QED  BY <1>1, <1>2, <1>3 DEF Next

\* A database the session can fall back on has the reported steps.
LEMMA KeptKept ==
  ASSUME RewindInv, Enclosed, Enclosed', Kept, Next
  PROVE  Kept'
<1> USE Unpacked
<1>1. /\ told \ shaky \subseteq disk.steps /\ told \ shaky \subseteq work.steps
      /\ \A img \in cur.mark : told \ shaky \subseteq img.steps
  BY DEF Kept
<1>2. CASE InsertStep /\ shaky' = IF halted THEN shaky \cup {cur.id} ELSE shaky \ {cur.id}
  <2>1. (tx => halted) /\ cur'.mark = {}  BY <1>2 DEF InsertStep, Enclosed, At, Return, NoCommand
  <2> DEFINE S == work.steps \cup {cur.id}
  <2>2. work' = [work EXCEPT !.steps = S] /\ disk' = (IF tx THEN disk ELSE work') /\ told' = told \cup {cur.id}
    BY <1>2 DEF InsertStep, Commit
  <2>3. S = work.steps \cup {cur.id}  OBVIOUS
  <2> HIDE DEF S
  <2>4. work'.steps = S  BY <2>2 DEF Good, ImageOK
  <2>5. CASE halted
    <3>1. told' \ shaky' \subseteq told \ shaky  BY <1>2, <2>2, <2>5
    <3> QED  BY <1>1, <2>1, <2>2, <2>3, <2>4, <3>1 DEF Kept
  <2>6. CASE ~halted
    <3>1. told' \ shaky' \subseteq (told \ shaky) \cup {cur.id}  BY <1>2, <2>2, <2>6
    <3> QED  BY <1>1, <2>1, <2>2, <2>3, <2>4, <2>6, <3>1 DEF Kept
  <2> QED  BY <2>5, <2>6
<1>3. CASE Stop /\ shaky' = shaky
  <2>1. work' = disk /\ disk' = disk /\ told' = told /\ cur'.mark = {}  BY <1>3 DEF Stop, NoCommand
  <2> QED  BY <1>1, <1>3, <2>1 DEF Kept
<1>4. CASE (Plain \/ Loose \/ \E D \in SUBSET Path : SyncFullError(D)) /\ shaky' = shaky
  <2>1. work' \in cur.mark \/ work'.steps = work.steps  BY <1>4, StepsKept
  <2>2. told' = told
    BY <1>4 DEF Plain, Loose, Start, Touch, Exec, RunError, RunEnd, UndoBegin, SyncBegin, SyncNested, SyncPresent,
               SyncMissing, SyncPathsError, SyncEnd, SyncFullError, UndoApply, UndoDelete, Restore,
               RestoreError, Discard, Rewind
  <2>3. disk' = disk \/ disk' = work'
    BY <1>4 DEF Plain, Loose, Start, Touch, Exec, RunError, RunEnd, UndoBegin, SyncBegin, SyncNested, SyncPresent,
               SyncMissing, SyncPathsError, SyncEnd, SyncFullError, UndoApply, UndoDelete, Restore,
               RestoreError, Discard, Rewind, Commit
  <2>4. cur'.mark \subseteq cur.mark \cup {work}
    <3>1. CASE SyncBegin  BY <3>1 DEF SyncBegin, Locals
    <3>2. CASE pc' # "sync"  BY <3>2 DEF Enclosed
    <3>3. CASE \E p \in Path, alike \in BOOLEAN : SyncPresent(p, alike) \/ SyncMissing(p)
      BY <3>3 DEF SyncPresent, SyncMissing, Locals
    <3>4. CASE cur' = cur  BY <3>4
    <3> QED
      BY <1>4, <3>1, <3>2, <3>3, <3>4
      DEF Plain, Loose, Start, Touch, Exec, RunError, RunEnd, UndoBegin, SyncNested, SyncPathsError, SyncEnd,
          SyncFullError, UndoApply, UndoDelete, Restore, RestoreError, Discard, Rewind, Return, Locals
  <2> QED  BY <1>1, <1>4, <2>1, <2>2, <2>3, <2>4 DEF Kept
<1> QED  BY <1>2, <1>3, <1>4 DEF Next

\* No transaction outlives a full sync that no refused deletion ended, and the steps reported
\* before such an end are in every image the session can fall back on.
LEMMA DurablySafe == Spec => []DurableInv
<1>1. Init => DurableInv
  <2> SUFFICES ASSUME Init PROVE Enclosed /\ Kept
    BY DEF DurableInv
  <2>1. tx = FALSE /\ cur.mark = {} /\ told = {}  BY DEF Init, NoCommand
  <2> QED  BY <2>1 DEF Enclosed, Kept
<1>2. RewindInv /\ DurableInv /\ [Next]_vars => DurableInv'
  <2> SUFFICES ASSUME RewindInv, DurableInv, [Next]_vars PROVE DurableInv'
    OBVIOUS
  <2>1. CASE Next
    BY <2>1, EnclosedKept, KeptKept DEF DurableInv
  <2>2. CASE UNCHANGED vars
    BY <2>2 DEF vars, DurableInv, Enclosed, Kept
  <2> QED  BY <2>1, <2>2
<1> QED  BY <1>1, <1>2, SessionSafe, PTL DEF Spec

\* A command whose exec returned Ok is in the committed database, whatever is refused, whatever
\* processes it left running and wherever the session is stopped: all but those reported after
\* a refused deletion had ended a full sync of their session, whose transaction stays open.
THEOREM ReportedIsDurable == Spec => []Durable
<1>1. DurableInv => Durable  BY DEF DurableInv, Kept, Durable
<1> QED  BY <1>1, DurablySafe, PTL

-----------------------------------------------------------------------------
(* Tree and database agree between commands. *)

\* The rows a sync writes, and the record it writes them under.
LEMMA SyncRows ==
  ASSUME NEW img, ImageOK(img), NEW u \in DOMAIN img.undo
  PROVE  /\ \A p, q \in Path, v \in Node : Put(img, u, p, v).row[q] = IF q = p THEN v ELSE img.row[q]
         /\ \A P \in SUBSET Path, q \in Path :
              /\ Delete(img, u, P).row[q] = IF q \in P THEN "none" ELSE img.row[q]
              /\ Capture(img, u, P).row[q] = img.row[q]
<1>1. ASSUME NEW p \in Path, NEW q \in Path, NEW v \in Node
      PROVE  Put(img, u, p, v).row[q] = IF q = p THEN v ELSE img.row[q]
  <2>1. ImageOK(Capture(img, u, {p})) /\ Capture(img, u, {p}).row = img.row  BY CaptureParts
  <2>2. img.row \in Tree  BY DEF ImageOK
  <2> QED  BY <2>1, <2>2 DEF Put, ImageOK, Tree
<1>2. ASSUME NEW P \in SUBSET Path, NEW q \in Path
      PROVE  /\ Delete(img, u, P).row[q] = IF q \in P THEN "none" ELSE img.row[q]
             /\ Capture(img, u, P).row[q] = img.row[q]
  <2>1. ImageOK(Capture(img, u, P)) /\ Capture(img, u, P).row = img.row  BY CaptureParts
  <2> QED  BY <2>1 DEF Delete, ImageOK
<1> QED  BY <1>1, <1>2

\* What a record holds it goes on holding.
LEMMA LoggedHeld ==
  ASSUME NEW img, NEW new, NEW w, ImageOK(img), Logged(img, new, w), NEW p \in Path,
         img.undo[w][p] # "unknown"
  PROVE  new.undo[w][p] # "unknown"
BY DEF Logged

\* A path that was adrift, or becomes so, is adrift after the step or its tree and row agree.
LEMMA DriftKeeps ==
  ASSUME NEW P, Drift(P)
  PROVE  \A p \in adrift \cup P : p \in adrift' \/ tree'[p] = work'.row[p]
BY DEF Drift

\* The start, the end, and what the sandbox does between.
LEMMA OutsideAgrees ==
  ASSUME RewindInv, DurableInv, SyncInv, UNCHANGED halted, Drift({}),
         \/ Start \/ Exec \/ RunError
         \/ \E roll \in BOOLEAN : RunEnd(roll)
  PROVE  SyncInv'
<1> USE Unpacked
<1>0. \A p \in adrift : p \in adrift' \/ tree'[p] = work'.row[p]  BY DriftKeeps
<1>1. CASE Start
  <2>1. /\ tree' = disk.row /\ pc = "down" /\ pc' = "idle" /\ UNCHANGED <<disk, work>>
    BY <1>1 DEF Start, Return, At
  <2>2. disk = work  BY <2>1 DEF SyncInv, Settled
  <2>3. \A p \in Path : tree'[p] = work'.row[p]  BY <2>1, <2>2
  <2> QED  BY <2>1, <2>2, <2>3 DEF SyncInv, Settled, Agreed
<1>2. CASE Exec \/ RunError
  <2>1. pc \in {"idle", "run"} /\ pc' \in {"idle", "run"} /\ UNCHANGED <<disk, work, tree, pending, full>>
    BY <1>2 DEF Exec, RunError, Return, At
  <2>2. \A p \in Path : Loosely(p) \/ tree[p] = work.row[p]  BY <2>1 DEF SyncInv, Agreed
  <2>3. \A p \in Path : Loosely(p)' \/ tree'[p] = work'.row[p]  BY <1>0, <2>1, <2>2 DEF Loosely
  <2> QED  BY <2>1, <2>3 DEF SyncInv, Settled, Agreed
<1>3. CASE \E roll \in BOOLEAN : RunEnd(roll)
  <2>1. PICK roll \in BOOLEAN : RunEnd(roll)  BY <1>3
  <2>2. pc = "run" /\ pc' = "took" /\ UNCHANGED <<disk, work, tree>>  BY <2>1 DEF RunEnd, At
  <2>3. cur'.todo = (IF full THEN Path ELSE pending) /\ cur'.all = full /\ cur'.seen = {}
    BY <2>1 DEF RunEnd, NoCommand
  <2>4. \A p \in Path : Loosely(p) \/ tree[p] = work.row[p]  BY <2>2 DEF SyncInv, Agreed
  <2>5. \A p \in Path \ cur'.todo : Loosely(p)' \/ tree'[p] = work'.row[p]
    BY <1>0, <2>2, <2>3, <2>4 DEF Loosely
  <2> QED  BY <2>2, <2>3, <2>5 DEF SyncInv, Settled, Agreed
<1> QED  BY <1>1, <1>2, <1>3

\* Stop leaves nothing uncommitted, and the tree is gone.
LEMMA StopAgrees ==
  ASSUME RewindInv, SyncInv, Stop
  PROVE  SyncInv'
BY DEF SyncInv, Stop, Settled, Agreed

\* A write of the sandbox is reported, or adrift where the report will be discarded.
LEMMA TouchAgrees ==
  ASSUME RewindInv, SyncInv, UNCHANGED halted, NEW p \in Path, NEW v \in Node, NEW lost \in BOOLEAN,
         Touch(p, v, lost), Drift(IF At("clean") THEN {p} ELSE {})
  PROVE  SyncInv'
<1> USE Unpacked
<1>1. /\ tree' = [tree EXCEPT ![p] = v] /\ pending' = (IF lost THEN pending ELSE pending \cup {p})
      /\ full' = (full \/ lost) /\ UNCHANGED <<disk, work, pc, cur>>
  BY DEF Touch
<1>2. \A q \in Path : q # p => tree'[q] = tree[q]  BY <1>1 DEF Tree
<1>3. \A q \in adrift : q \in adrift' \/ tree'[q] = work'.row[q]  BY DriftKeeps
<1>4. pc = "clean" => p \in adrift' \/ tree'[p] = work'.row[p]  BY DriftKeeps DEF At
<1>5. Loosely(p)'  BY <1>1 DEF Loosely
<1>6. \A q \in Path : Loosely(q) => Loosely(q)' \/ tree'[q] = work'.row[q]  BY <1>1, <1>3 DEF Loosely
<1>7. Settled'  BY <1>1 DEF SyncInv, Settled
<1>8. pc = "clean" => \A q \in Path : q \in adrift' \/ tree'[q] = work'.row[q]
  BY <1>1, <1>2, <1>3, <1>4 DEF SyncInv, Agreed
<1>9. ASSUME NEW q \in Path, Loosely(q) \/ tree[q] = work.row[q] PROVE Loosely(q)' \/ tree'[q] = work'.row[q]
  BY <1>1, <1>2, <1>5, <1>6, <1>9
<1>10. pc = "sync" => \A q \in Path \ cur.todo :
                        IF cur.all /\ q \notin cur.seen THEN full' \/ q \in pending' \/ tree'[q] = "none"
                        ELSE \/ Loosely(q)' \/ tree'[q] = work'.row[q]
                             \/ cur.failed /\ work.undo[cur.id][q] # "unknown"
  <2> SUFFICES ASSUME pc = "sync", NEW q \in Path \ cur.todo
               PROVE  IF cur.all /\ q \notin cur.seen THEN full' \/ q \in pending' \/ tree'[q] = "none"
                      ELSE \/ Loosely(q)' \/ tree'[q] = work'.row[q]
                           \/ cur.failed /\ work.undo[cur.id][q] # "unknown"
    OBVIOUS
  <2>1. CASE cur.all /\ q \notin cur.seen  BY <1>1, <1>2, <2>1 DEF SyncInv, Agreed
  <2>2. CASE ~(cur.all /\ q \notin cur.seen)  BY <1>9, <2>2 DEF SyncInv, Agreed
  <2> QED  BY <2>1, <2>2
<1>11. Agreed'
  <2>1. pc' \in {"idle", "run", "record"} => \A q \in Path : Loosely(q)' \/ tree'[q] = work'.row[q]
    BY <1>1, <1>9 DEF SyncInv, Agreed
  <2>2. pc' \in {"took", "begun"} => \A q \in Path \ cur'.todo : Loosely(q)' \/ tree'[q] = work'.row[q]
    BY <1>1, <1>9 DEF SyncInv, Agreed
  <2>3. pc' \in {"took", "begun"} => cur'.seen = {} /\ (cur'.all => cur'.todo = Path)
    BY <1>1 DEF SyncInv, Agreed
  <2>4. pc' = "sync" => cur'.seen \cap cur'.todo = {}  BY <1>1 DEF SyncInv, Agreed
  <2>5. pc' = "synced" => \A q \in Path : \/ Loosely(q)' \/ tree'[q] = work'.row[q]
                                          \/ cur'.failed /\ work'.undo[cur'.id][q] # "unknown"
    BY <1>1, <1>9 DEF SyncInv, Agreed
  <2>6. pc' \in {"drop", "restore"} => \A q \in Path \ cur'.restore : Loosely(q)' \/ tree'[q] = work'.row[q]
    BY <1>1, <1>9 DEF SyncInv, Agreed
  <2> QED  BY <1>1, <1>8, <1>10, <2>1, <2>2, <2>3, <2>4, <2>5, <2>6 DEF Agreed
<1> QED  BY <1>7, <1>11 DEF SyncInv

\* A sync or restore that fails leaves every path that differs adrift.
LEMMA FailAgrees ==
  ASSUME SyncInv, Drift(Path), pc' = "idle", halted' \/ disk' = work'
  PROVE  SyncInv'
<1>1. \A p \in Path : p \in adrift' \/ tree'[p] = work'.row[p]  BY DriftKeeps
<1> QED  BY <1>1 DEF SyncInv, Settled, Agreed, Loosely

\* undo_begin, and the opening of the sync.
LEMMA BeginAgrees ==
  ASSUME RewindInv, DurableInv, SyncInv, UNCHANGED halted, Drift({}), UndoBegin \/ SyncBegin
  PROVE  SyncInv'
<1> USE Unpacked
<1>0. \A p \in adrift : p \in adrift' \/ tree'[p] = work'.row[p]  BY DriftKeeps
<1>1. CASE UndoBegin
  <2> DEFINE u == 1 + Cardinality({i \in Id : \E j \in DOMAIN work.undo : i <= j})
  <2>1. /\ work' = UndoOpen(work, u) /\ disk' = (IF tx THEN disk ELSE UndoOpen(work, u))
        /\ cur' = [cur EXCEPT !.id = u] /\ pc = "took" /\ pc' = "begun"
        /\ UNCHANGED <<tree, pending, full>>
    BY <1>1 DEF UndoBegin, At, Commit
  <2> HIDE DEF u
  <2>2. cur'.todo = cur.todo /\ cur'.all = cur.all /\ cur'.seen = cur.seen  BY <2>1 DEF Locals
  <2>3. work'.row = work.row  BY <2>1 DEF UndoOpen, Good, ImageOK
  <2>4. ~halted => disk' = work'  BY <2>1 DEF DurableInv, Enclosed
  <2>5. \A p \in Path \ cur'.todo : Loosely(p)' \/ tree'[p] = work'.row[p]
    BY <1>0, <2>1, <2>2, <2>3 DEF SyncInv, Agreed, Loosely
  <2>6. cur'.seen = {} /\ (cur'.all => cur'.todo = Path)  BY <2>1, <2>2 DEF SyncInv, Agreed
  <2> QED  BY <2>1, <2>4, <2>5, <2>6 DEF SyncInv, Settled, Agreed
<1>2. CASE SyncBegin
  <2>1. /\ pc = "begun" /\ pc' = "sync" /\ UNCHANGED <<disk, work, tree, pending, full>>
        /\ cur'.todo = cur.todo /\ cur'.all = cur.all /\ cur'.seen = cur.seen /\ cur'.mark = {work}
    BY <1>2 DEF SyncBegin, At, Locals
  <2>2. \A p \in Path \ cur.todo : Loosely(p)' \/ tree'[p] = work'.row[p]
    BY <1>0, <2>1 DEF SyncInv, Agreed, Loosely
  <2>3. cur.seen = {} /\ (cur.all => cur.todo = Path)  BY <2>1 DEF SyncInv, Agreed
  <2> QED  BY <2>1, <2>2, <2>3 DEF SyncInv, Settled, Agreed
<1> QED  BY <1>1, <1>2

\* A path found on the host: its row becomes the host's, or is taken for it, or is refused.
LEMMA PresentAgrees ==
  ASSUME RewindInv, DurableInv, SyncInv, UNCHANGED halted, NEW p \in Path, NEW alike \in BOOLEAN,
         SyncPresent(p, alike), Drift(IF alike THEN {p} ELSE {})
  PROVE  SyncInv'
<1> USE Unpacked
<1>1. pc = "sync" /\ p \in cur.todo  BY DEF SyncPresent, Turn, At
<1>2. ImageOK(work) /\ Newest(work, cur.id) /\ cur.id \in DOMAIN work.undo  BY <1>1, OpenRecord
<1>3. tree[p] \in Node /\ work.row[p] \in Node  BY <1>2 DEF Tree, ImageOK
<1>4. work.row[p] # "unknown"  BY <1>3, SessionAssumption DEF Node
<1> DEFINE same == alike \/ work.row[p] = tree[p]
<1> DEFINE bad == ~same /\ Refused(p, tree[p])
<1>5. /\ work' = (IF same THEN work
                  ELSE IF bad THEN Capture(work, cur.id, {p}) ELSE Put(work, cur.id, p, tree[p]))
      /\ cur' = [cur EXCEPT !.todo = @ \ {p}, !.seen = @ \cup {p}, !.failed = @ \/ bad]
      /\ UNCHANGED <<disk, tree, pending, full, pc>>
  BY DEF SyncPresent
<1>6. bad \in BOOLEAN /\ (bad => ~same) /\ (same => alike \/ work.row[p] = tree[p])  OBVIOUS
<1>7. same => p \in adrift' \/ tree'[p] = work'.row[p]
  <2>1. CASE alike  BY <2>1, DriftKeeps
  <2>2. CASE ~alike  BY <1>5, <2>2
  <2> QED  BY <2>1, <2>2
<1> HIDE DEF same, bad
<1>8. /\ cur'.id = cur.id /\ cur'.all = cur.all /\ cur'.todo = cur.todo \ {p} /\ cur'.seen = cur.seen \cup {p}
      /\ cur'.failed = (cur.failed \/ bad) /\ cur'.mark = cur.mark
  BY <1>5, <1>6 DEF Locals
<1>9. work' = work \/ Logged(work, work', cur.id)
  <2>1. Logged(work, Capture(work, cur.id, {p}), cur.id)  BY <1>2, CaptureLogged
  <2>2. Logged(work, Put(work, cur.id, p, tree[p]), cur.id)  BY <1>2, <1>3, PutLogged
  <2> QED  BY <1>5, <2>1, <2>2
<1>10. \A q \in Path : q # p => work'.row[q] = work.row[q]  BY <1>2, <1>3, <1>5, SyncRows
<1>11. \/ p \in adrift' \/ tree'[p] = work'.row[p]
       \/ cur'.failed /\ work'.undo[cur.id][p] # "unknown"
  <2>1. CASE same  BY <1>7, <2>1
  <2>2. CASE ~same /\ bad
    <3>1. Capture(work, cur.id, {p}).undo[cur.id][p]
            = IF p \in {p} /\ work.undo[cur.id][p] = "unknown" THEN work.row[p] ELSE work.undo[cur.id][p]
      BY <1>2, CaptureParts
    <3> QED  BY <1>4, <1>5, <1>8, <2>2, <3>1
  <2>3. CASE ~same /\ ~bad  BY <1>2, <1>3, <1>5, <2>3, SyncRows
  <2> QED  BY <2>1, <2>2, <2>3
<1>12. \A q \in Path : work.undo[cur.id][q] # "unknown" => work'.undo[cur.id][q] # "unknown"
  BY <1>2, <1>9, LoggedHeld
<1>13. \A q \in adrift : q \in adrift' \/ tree'[q] = work'.row[q]  BY DriftKeeps
<1>14. ASSUME NEW q \in Path \ cur'.todo
       PROVE  IF cur'.all /\ q \notin cur'.seen THEN full' \/ q \in pending' \/ tree'[q] = "none"
              ELSE \/ Loosely(q)' \/ tree'[q] = work'.row[q]
                   \/ cur'.failed /\ work'.undo[cur'.id][q] # "unknown"
  <2>1. CASE q = p  BY <1>8, <1>11, <2>1 DEF Loosely
  <2>2. CASE q # p
    <3>1. q \in Path \ cur.todo  BY <1>8, <2>2
    <3>2. IF cur.all /\ q \notin cur.seen THEN full \/ q \in pending \/ tree[q] = "none"
          ELSE \/ Loosely(q) \/ tree[q] = work.row[q]
               \/ cur.failed /\ work.undo[cur.id][q] # "unknown"
      BY <1>1, <3>1 DEF SyncInv, Agreed
    <3>3. cur'.seen = cur.seen \cup {p} /\ (q \in cur'.seen <=> q \in cur.seen)  BY <1>8, <2>2
    <3>4. CASE cur.all /\ q \notin cur.seen  BY <1>5, <1>8, <3>2, <3>3, <3>4
    <3>5. CASE ~(cur.all /\ q \notin cur.seen)
      <4>1. CASE Loosely(q)  BY <1>5, <1>8, <1>13, <3>3, <3>5, <4>1 DEF Loosely
      <4>2. CASE tree[q] = work.row[q]  BY <1>5, <1>8, <1>10, <2>2, <3>3, <3>5, <4>2
      <4>3. CASE cur.failed /\ work.undo[cur.id][q] # "unknown"  BY <1>8, <1>12, <3>3, <3>5, <4>3
      <4> QED  BY <3>2, <3>5, <4>1, <4>2, <4>3
    <3> QED  BY <3>4, <3>5
  <2> QED  BY <2>1, <2>2
<1>15. cur'.seen \cap cur'.todo = {}  BY <1>1, <1>8 DEF SyncInv, Agreed
<1>16. pc' = "sync"  BY <1>1, <1>5
<1>17. Agreed'  BY <1>14, <1>15, <1>16 DEF Agreed
<1> QED  BY <1>1, <1>5, <1>8, <1>16, <1>17 DEF SyncInv, Settled

\* A path missing on the host: a path sync deletes its row, and the rows its pattern matches.
LEMMA MissingAgrees ==
  ASSUME RewindInv, DurableInv, SyncInv, UNCHANGED halted, NEW p \in Path,
         SyncMissing(p), Drift(IF cur.all THEN {} ELSE Like[p])
  PROVE  SyncInv'
<1> USE Unpacked
<1>1. pc = "sync" /\ p \in cur.todo  BY DEF SyncMissing, Turn, At
<1>2. ImageOK(work) /\ Newest(work, cur.id) /\ cur.id \in DOMAIN work.undo  BY <1>1, OpenRecord
<1>3. Like[p] \in SUBSET Path  BY SessionAssumption DEF RewindInv, TypeOK, Like
<1>4. Missing(work, p) \in SUBSET Path /\ Missing(work, p) = {q \in {p} \cup Like[p] : work.row[q] # "none"}
  BY <1>3 DEF Missing
<1>5. /\ work' = IF cur.all THEN work ELSE Delete(work, cur.id, Missing(work, p))
      /\ cur' = [cur EXCEPT !.todo = @ \ {p}] /\ tree[p] = "none"
      /\ UNCHANGED <<disk, tree, pending, full, pc>>
  BY DEF SyncMissing
<1>6. /\ cur'.id = cur.id /\ cur'.all = cur.all /\ cur'.todo = cur.todo \ {p} /\ cur'.seen = cur.seen
      /\ cur'.failed = cur.failed /\ cur'.mark = cur.mark
  BY <1>5 DEF Locals
<1>7. work' = work \/ Logged(work, work', cur.id)
  <2>1. Logged(work, Delete(work, cur.id, Missing(work, p)), cur.id)  BY <1>2, <1>4, DeleteLogged
  <2> QED  BY <1>5, <2>1
<1>8. \A q \in Path : Delete(work, cur.id, Missing(work, p)).row[q]
                        = IF q \in Missing(work, p) THEN "none" ELSE work.row[q]
  BY <1>2, <1>4, SyncRows
<1>9. \A q \in Path : q # p => cur.all \/ q \in Like[p] \/ work'.row[q] = work.row[q]  BY <1>4, <1>5, <1>8
<1>10. cur.all => work' = work  BY <1>5
<1>11. ~cur.all => work'.row[p] = "none"  BY <1>4, <1>5, <1>8
<1>12. \A q \in Path : work.undo[cur.id][q] # "unknown" => work'.undo[cur.id][q] # "unknown"
  BY <1>2, <1>7, LoggedHeld
<1>13. \A q \in adrift : q \in adrift' \/ tree'[q] = work'.row[q]  BY DriftKeeps
<1>14. ~cur.all => \A q \in Like[p] : q \in adrift' \/ tree'[q] = work'.row[q]  BY DriftKeeps
<1>15. p \notin cur.seen  BY <1>1 DEF SyncInv, Agreed
<1>16. ASSUME NEW q \in Path \ cur'.todo
       PROVE  IF cur'.all /\ q \notin cur'.seen THEN full' \/ q \in pending' \/ tree'[q] = "none"
              ELSE \/ Loosely(q)' \/ tree'[q] = work'.row[q]
                   \/ cur'.failed /\ work'.undo[cur'.id][q] # "unknown"
  <2>1. CASE q = p  BY <1>5, <1>6, <1>11, <1>15, <2>1
  <2>2. CASE q # p
    <3>1. q \in Path \ cur.todo  BY <1>6, <2>2
    <3>2. IF cur.all /\ q \notin cur.seen THEN full \/ q \in pending \/ tree[q] = "none"
          ELSE \/ Loosely(q) \/ tree[q] = work.row[q]
               \/ cur.failed /\ work.undo[cur.id][q] # "unknown"
      BY <1>1, <3>1 DEF SyncInv, Agreed
    <3>3. CASE ~cur.all /\ q \in Like[p]  BY <1>6, <1>14, <3>3 DEF Loosely
    <3>4. CASE cur.all \/ q \notin Like[p]
      <4>1. work'.row[q] = work.row[q]  BY <1>9, <1>10, <2>2, <3>4
      <4> QED  BY <1>5, <1>6, <1>12, <1>13, <3>1, <3>2, <4>1 DEF Loosely
    <3> QED  BY <3>3, <3>4
  <2> QED  BY <2>1, <2>2
<1>17. cur'.seen \cap cur'.todo = {}  BY <1>1, <1>6 DEF SyncInv, Agreed
<1>18. pc' = "sync"  BY <1>1, <1>5
<1>19. Agreed'  BY <1>16, <1>17, <1>18 DEF Agreed
<1> QED  BY <1>1, <1>5, <1>6, <1>18, <1>19 DEF SyncInv, Settled

\* The end of a sync: what a full walk did not meet is deleted.
LEMMA SyncEndAgrees ==
  ASSUME RewindInv, DurableInv, SyncInv, UNCHANGED halted, Drift({}), SyncEnd
  PROVE  SyncInv'
<1> USE Unpacked
<1>2. pc = "sync"  BY DEF SyncEnd, At
<1>3. ImageOK(work) /\ Newest(work, cur.id) /\ cur.id \in DOMAIN work.undo  BY <1>2, OpenRecord
<1>4. Gone \in SUBSET Path /\ \A q \in Path : q \in Gone <=> q \notin cur.seen /\ work.row[q] # "none"
  BY DEF Gone
<1>5. /\ work' = (IF cur.all THEN Delete(work, cur.id, Gone) ELSE work)
      /\ tx' = (tx /\ ~cur.all) /\ disk' = (IF tx' THEN disk ELSE work') /\ cur.todo = {}
      /\ cur' = [cur EXCEPT !.mark = {}, !.seen = {}] /\ pc' = "synced"
      /\ UNCHANGED <<tree, pending, full>>
  BY DEF SyncEnd
<1>6. cur'.id = cur.id /\ cur'.failed = cur.failed  BY <1>5 DEF Locals
<1>7. work' = work \/ Logged(work, work', cur.id)
  <2>1. Logged(work, Delete(work, cur.id, Gone), cur.id)  BY <1>3, <1>4, DeleteLogged
  <2> QED  BY <1>5, <2>1
<1>8. \A q \in Path : work'.row[q] = IF cur.all /\ q \notin cur.seen THEN "none" ELSE work.row[q]
  <2>1. \A q \in Path : Delete(work, cur.id, Gone).row[q] = IF q \in Gone THEN "none" ELSE work.row[q]
    BY <1>3, <1>4, SyncRows
  <2> QED  BY <1>4, <1>5, <2>1
<1>9. \A q \in adrift : q \in adrift' \/ tree'[q] = work'.row[q]  BY DriftKeeps
<1>10. \A q \in Path : work.undo[cur.id][q] # "unknown" => work'.undo[cur.id][q] # "unknown"
  BY <1>3, <1>7, LoggedHeld
<1>11. ASSUME NEW q \in Path
       PROVE  \/ Loosely(q)' \/ tree'[q] = work'.row[q]
              \/ cur'.failed /\ work'.undo[cur'.id][q] # "unknown"
  <2>1. IF cur.all /\ q \notin cur.seen THEN full \/ q \in pending \/ tree[q] = "none"
        ELSE \/ Loosely(q) \/ tree[q] = work.row[q]
             \/ cur.failed /\ work.undo[cur.id][q] # "unknown"
    BY <1>2, <1>5 DEF SyncInv, Agreed
  <2> QED  BY <1>5, <1>6, <1>8, <1>9, <1>10, <2>1 DEF Loosely
<1>12. ~halted => disk' = work'  BY <1>5 DEF DurableInv, Enclosed
<1>13. Agreed'  BY <1>5, <1>11 DEF Agreed
<1> QED  BY <1>5, <1>12, <1>13 DEF SyncInv, Settled

\* The outcome of a command.
LEMMA OutcomeAgrees ==
  ASSUME RewindInv, DurableInv, SyncInv, UNCHANGED halted, Drift({}), UndoApply \/ UndoDelete \/ InsertStep
  PROVE  SyncInv'
<1> USE Unpacked
<1>0. \A p \in adrift : p \in adrift' \/ tree'[p] = work'.row[p]  BY DriftKeeps
<1>00. pc # "sync" => (~halted => ~tx)  BY DEF DurableInv, Enclosed
<1>1. CASE UndoApply
  <2>1. pc = "synced" /\ pc' \in {"drop", "restore"} /\ UNCHANGED <<tree, pending, full>>
        /\ work' = UndoPut(work, cur.id) /\ (~tx => disk' = work') /\ cur'.restore = Covered(work, cur.id)
    BY <1>1 DEF UndoApply, At, Commit, Locals
  <2>2. ImageOK(work) /\ Newest(work, cur.id) /\ cur.id \in DOMAIN work.undo  BY <2>1, OpenRecord
  <2>3. \A p \in Path : work'.row[p]
                          = IF work.undo[cur.id][p] # "unknown" THEN work.undo[cur.id][p] ELSE work.row[p]
    BY <2>1, <2>2, UndoPutLogged
  <2>4. \A p \in Path \ cur'.restore : work.undo[cur.id][p] = "unknown" /\ work'.row[p] = work.row[p]
    BY <2>1, <2>3 DEF Covered
  <2>5. \A p \in Path \ cur'.restore : Loosely(p)' \/ tree'[p] = work'.row[p]
    <3> TAKE p \in Path \ cur'.restore
    <3>1. Loosely(p) \/ tree[p] = work.row[p]  BY <2>1, <2>4 DEF SyncInv, Agreed
    <3> QED  BY <1>0, <2>1, <2>4, <3>1 DEF Loosely
  <2>6. Agreed'  BY <2>1, <2>5 DEF Agreed
  <2> QED  BY <1>00, <2>1, <2>6 DEF SyncInv, Settled
<1>2. CASE UndoDelete
  <2>1. pc = "drop" /\ pc' = "restore" /\ UNCHANGED <<tree, pending, full, cur>>
        /\ work' = UndoDrop(work, cur.id) /\ (~tx => disk' = work')
    BY <1>2 DEF UndoDelete, At, Commit
  <2>2. work'.row = work.row  BY <2>1 DEF UndoDrop, Good, ImageOK
  <2>3. \A p \in Path \ cur'.restore : Loosely(p)' \/ tree'[p] = work'.row[p]
    BY <1>0, <2>1, <2>2 DEF SyncInv, Agreed, Loosely
  <2>4. Agreed'  BY <2>1, <2>3 DEF Agreed
  <2> QED  BY <1>00, <2>1, <2>4 DEF SyncInv, Settled
<1>3. CASE InsertStep
  <2> DEFINE S == work.steps \cup {cur.id}
  <2>1. /\ pc = "record" \/ (pc = "synced" /\ ~cur.failed)
        /\ pc' = "idle" /\ UNCHANGED <<tree, pending, full>>
        /\ work' = [work EXCEPT !.steps = S] /\ (~tx => disk' = work')
    BY <1>3 DEF InsertStep, At, Commit, Return
  <2> HIDE DEF S
  <2>2. work'.row = work.row  BY <2>1 DEF Good, ImageOK
  <2>3. \A p \in Path : Loosely(p) \/ tree[p] = work.row[p]  BY <2>1 DEF SyncInv, Agreed
  <2>4. \A p \in Path : Loosely(p)' \/ tree'[p] = work'.row[p]  BY <1>0, <2>1, <2>2, <2>3 DEF Loosely
  <2>5. Agreed'  BY <2>1, <2>4 DEF Agreed
  <2> QED  BY <1>00, <2>1, <2>5 DEF SyncInv, Settled
<1> QED  BY <1>1, <1>2, <1>3

\* The materialize brings every path back to its row, but for those it leaves adrift.
LEMMA RestoreAgrees ==
  ASSUME RewindInv, DurableInv, SyncInv, UNCHANGED halted, NEW t \in Tree, Restore(t), Drift(Unrestored)
  PROVE  SyncInv'
<1> USE Unpacked
<1>1. /\ pc = "restore" /\ pc' = "clean" /\ tree' = t /\ UNCHANGED <<disk, work, full, cur>>
      /\ \A p \in Path : t[p] \in Made(p, Removed(p))
  BY DEF Restore, At
<1>2. \A p \in adrift \cup Unrestored : p \in adrift' \/ tree'[p] = work'.row[p]  BY DriftKeeps
<1>3. ASSUME NEW p \in Path, p \notin adrift, p \notin Unrestored
      PROVE  t[p] = work.row[p]
  <2>1. ~full /\ ~halted /\ p \notin pending /\ (p \in cur.restore => tree[p] # "dir")  BY <1>3 DEF Unrestored
  <2>2. disk = work  BY <1>1, <2>1 DEF SyncInv, Settled
  <2>3. CASE work.row[p] \notin Content  BY <1>1, <2>3 DEF Made
  <2>4. CASE work.row[p] \in Content
    <3>1. "dir" \notin Content /\ "none" \notin Content  BY SessionAssumption
    <3>2. Removed(p) = "none" \/ Removed(p) = work.row[p]
      <4>1. CASE p \in cur.restore  BY <2>1, <4>1 DEF Removed
      <4>2. CASE p \notin cur.restore
        <5>1. tree[p] = work.row[p]  BY <1>1, <1>3, <2>1, <4>2 DEF SyncInv, Agreed, Loosely
        <5> QED  BY <4>2, <5>1 DEF Removed
      <4> QED  BY <4>1, <4>2
    <3>3. Removed(p) # "dir"  BY <2>4, <3>1, <3>2
    <3>4. t[p] \in Made(p, Removed(p))  BY <1>1
    <3> QED  BY <2>2, <2>4, <3>2, <3>3, <3>4 DEF Made
  <2> QED  BY <2>3, <2>4
<1>4. \A p \in Path : p \in adrift' \/ tree'[p] = work'.row[p]  BY <1>1, <1>2, <1>3
<1>5. Agreed'  BY <1>1, <1>4 DEF Agreed
<1> QED  BY <1>1, <1>5 DEF SyncInv, Settled

\* A materialize that fails leaves the restored paths adrift.
LEMMA RestoreErrorAgrees ==
  ASSUME RewindInv, DurableInv, SyncInv, UNCHANGED halted, NEW D \in SUBSET Path, RestoreError(D),
         Drift(cur.restore)
  PROVE  SyncInv'
<1> USE Unpacked
<1>1. /\ pc = "restore" /\ pc' = "idle" /\ UNCHANGED <<disk, work, full>>
      /\ tree' = [p \in Path |-> IF work.row[p] = "none" THEN "none" ELSE IF p \in D THEN "dir" ELSE Removed(p)]
      /\ pending' = pending \cup {p \in Path : tree'[p] # tree[p]}
  BY DEF RestoreError, Return, At
<1>2. D \subseteq {p \in Path : work.row[p] = "dir" /\ Removed(p) = "none"}  BY DEF RestoreError
<1>3. \A p \in adrift \cup cur.restore : p \in adrift' \/ tree'[p] = work'.row[p]  BY DriftKeeps
<1>4. ASSUME NEW p \in Path PROVE Loosely(p)' \/ tree'[p] = work'.row[p]
  <2>1. CASE p \in cur.restore  BY <1>3, <2>1 DEF Loosely
  <2>2. CASE p \notin cur.restore
    <3>1. Loosely(p) \/ tree[p] = work.row[p]  BY <1>1, <2>2 DEF SyncInv, Agreed
    <3>2. CASE Loosely(p)  BY <1>1, <1>3, <3>2 DEF Loosely
    <3>3. CASE tree[p] = work.row[p]
      <4>1. CASE tree'[p] = tree[p]  BY <1>1, <3>3, <4>1
      <4>2. CASE tree'[p] # tree[p]  BY <1>1, <4>2 DEF Loosely
      <4> QED  BY <4>1, <4>2
    <3> QED  BY <3>1, <3>2, <3>3
  <2> QED  BY <2>1, <2>2
<1>5. Agreed'  BY <1>1, <1>4 DEF Agreed
<1> QED  BY <1>1, <1>5 DEF SyncInv, Settled

\* The end of restore_tree, and rewind.
LEMMA RewindAgrees ==
  ASSUME RewindInv, DurableInv, SyncInv, UNCHANGED halted, Drift({}), Discard \/ \E u \in Id : Rewind(u)
  PROVE  SyncInv'
<1> USE Unpacked
<1>0. \A p \in adrift : p \in adrift' \/ tree'[p] = work'.row[p]  BY DriftKeeps
<1>3. CASE Discard
  <2>1. pc = "clean" /\ pc' \in {"idle", "record"} /\ UNCHANGED <<disk, work, tree>>
    BY <1>3 DEF Discard, At, Return, Locals
  <2>2. \A p \in Path : Loosely(p)' \/ tree'[p] = work'.row[p]  BY <1>0, <2>1 DEF SyncInv, Agreed, Loosely
  <2>3. Agreed'  BY <2>1, <2>2 DEF Agreed
  <2> QED  BY <2>1, <2>3 DEF SyncInv, Settled
<1>4. CASE \E u \in Id : Rewind(u)
  <2>1. PICK u \in Id : Rewind(u)  BY <1>4
  <2> DEFINE ids == {i \in DOMAIN work.undo : i >= u}
  <2> DEFINE n == work.undone \cup (ids \ {u})
  <2>2. /\ work' = [work EXCEPT !.row = RewindTo(work, u), !.undone = n] /\ (~tx => disk' = work')
        /\ cur' = [NoCommand EXCEPT !.restore = UNION {Covered(work, i) : i \in ids}]
        /\ pc = "idle" /\ pc' = "restore" /\ UNCHANGED <<tree, pending, full>>
    BY <2>1 DEF Rewind, At, Commit
  <2>3. \A p \in Path : p \notin cur'.restore => Unheld(work, u, p)
    BY <2>2 DEF NoCommand, Covered, Unheld
  <2> HIDE DEF ids, n
  <2>4. work'.row = RewindTo(work, u)  BY <2>2 DEF Good, ImageOK
  <2>5. ImageOK(work)  BY DEF Good
  <2>6. \A p \in Path \ cur'.restore : Loosely(p)' \/ tree'[p] = work'.row[p]
    <3> TAKE p \in Path \ cur'.restore
    <3>1. Unheld(work, u, p)  BY <2>3
    <3>2. RewindTo(work, u)[p] = work.row[p]  BY <2>5, <3>1, RewindPoint
    <3>3. Loosely(p) \/ tree[p] = work.row[p]  BY <2>2 DEF SyncInv, Agreed
    <3> QED  BY <1>0, <2>2, <2>4, <3>2, <3>3 DEF Loosely
  <2>7. ~halted => ~tx  BY <2>2 DEF DurableInv, Enclosed
  <2>8. Agreed'  BY <2>2, <2>6 DEF Agreed
  <2> QED  BY <2>2, <2>7, <2>8 DEF SyncInv, Settled
<1> QED  BY <1>3, <1>4

\* Every step keeps tree and rows agreed, or lists where they are not.
LEMMA NextAgrees ==
  ASSUME RewindInv, DurableInv, SyncInv, Next
  PROVE  SyncInv'
<1>1. CASE Plain /\ Drift({}) /\ UNCHANGED halted
  BY <1>1, OutsideAgrees, BeginAgrees, SyncEndAgrees, OutcomeAgrees, RewindAgrees DEF Plain
<1>2. CASE Loose /\ UNCHANGED halted
  <2>1. CASE \E p \in Path : SyncPathsError(p) /\ Drift(Path)
    <3>1. pc' = "idle" /\ Drift(Path) /\ disk' = disk /\ work' \in cur.mark /\ pc = "sync"
      BY <2>1 DEF SyncPathsError, Return, Turn, At
    <3>2. ~halted => work' = disk  BY <3>1 DEF SyncInv, Settled
    <3> QED  BY <1>2, <3>1, <3>2, FailAgrees
  <2>2. CASE SyncNested /\ Drift(Path)
    <3>1. pc' = "idle" /\ disk' = disk /\ work' = work /\ pc = "begun"  BY <2>2 DEF SyncNested, Return, At
    <3>2. ~halted => disk = work  BY <3>1 DEF SyncInv, Settled
    <3> QED  BY <1>2, <2>2, <3>1, <3>2, FailAgrees
  <2>3. CASE \E p \in Path, v \in Node, lost \in BOOLEAN : Touch(p, v, lost) /\ Drift(IF At("clean") THEN {p} ELSE {})
    BY <1>2, <2>3, TouchAgrees
  <2>4. CASE \E p \in Path, alike \in BOOLEAN : SyncPresent(p, alike) /\ Drift(IF alike THEN {p} ELSE {})
    BY <1>2, <2>4, PresentAgrees
  <2>5. CASE \E p \in Path : SyncMissing(p) /\ Drift(IF cur.all THEN {} ELSE Like[p])
    BY <1>2, <2>5, MissingAgrees
  <2>6. CASE \E t \in Tree : Restore(t) /\ Drift(Unrestored)  BY <1>2, <2>6, RestoreAgrees
  <2>7. CASE \E D \in SUBSET Path : RestoreError(D) /\ Drift(cur.restore)  BY <1>2, <2>7, RestoreErrorAgrees
  <2> QED  BY <1>2, <2>1, <2>2, <2>3, <2>4, <2>5, <2>6, <2>7 DEF Loose
<1>3. CASE Stop  BY <1>3, StopAgrees
<1>4. CASE \E D \in SUBSET Path : SyncFullError(D) /\ Drift(Path) /\ halted' = TRUE
  <2>1. pc' = "idle" /\ Drift(Path) /\ halted'  BY <1>4 DEF SyncFullError, Return
  <2> QED  BY <2>1, FailAgrees
<1>5. CASE InsertStep /\ Drift({}) /\ UNCHANGED halted  BY <1>5, OutcomeAgrees
<1> QED  BY <1>1, <1>2, <1>3, <1>4, <1>5 DEF Next

\* Between commands the tree on the host and the rows of the database are the same on every
\* path the watcher will not report and that no disclosed lapse has left adrift: through refused
\* writes, rollbacks, rewinds, full and failed syncs, processes that outlive their command,
\* directories and restarts.
THEOREM TreeSynced == Spec => []Synced
<1>1. Init => SyncInv
  <2> SUFFICES ASSUME Init PROVE SyncInv
    OBVIOUS
  <2> QED  BY DEF Init, SyncInv, Settled, Agreed
<1>2. RewindInv /\ DurableInv /\ SyncInv /\ [Next]_vars => SyncInv'
  <2> SUFFICES ASSUME RewindInv, DurableInv, SyncInv, [Next]_vars PROVE SyncInv'
    OBVIOUS
  <2>1. CASE Next  BY <2>1, NextAgrees
  <2>2. CASE UNCHANGED vars
    BY <2>2 DEF vars, SyncInv, Settled, Agreed, Loosely
  <2> QED  BY <2>1, <2>2
<1>3. SyncInv => Synced  BY DEF SyncInv, Agreed, Loosely, Synced, At
<1> QED  BY <1>1, <1>2, <1>3, SessionSafe, DurablySafe, PTL DEF Spec
=============================================================================
