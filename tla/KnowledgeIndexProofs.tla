------------------------ MODULE KnowledgeIndexProofs ------------------------
(***************************************************************************)
(* Proofs about KnowledgeIndex. A walk is followed by what it has passed:  *)
(* the files of the directories behind it and those of the current one     *)
(* that are not on its list. The calls are followed by who holds the lock  *)
(* and which ingestions the log can hold.                                  *)
(***************************************************************************)
EXTENDS KnowledgeIndex, FiniteSetTheorems, TLAPS

LEMMA TreeFacts ==
    /\ Len(Tree) \in Nat /\ 1 \in 1 .. Len(Tree)
    /\ \A d \in 1 .. Len(Tree) : Len(Tree[d]) \in Nat
    /\ \A d \in 1 .. Len(Tree) : \A n \in 1 .. Len(Tree[d]) : Tree[d][n] \in Paths
<1>1. Len(Tree) \in Nat /\ 1 \in 1 .. Len(Tree)
  BY IndexAssumption
<1>2. \A d \in 1 .. Len(Tree) : Tree[d] \in Seq(Paths)
  BY IndexAssumption
<1> QED BY <1>1, <1>2

\* A file is in one place of the tree.
LEMMA OnePlace ==
    ASSUME NEW d \in 1 .. Len(Tree), NEW e \in 1 .. Len(Tree),
           NEW m \in 1 .. Len(Tree[d]), NEW n \in 1 .. Len(Tree[e]), Tree[d][m] = Tree[e][n]
    PROVE  d = e /\ m = n
BY IndexAssumption

\* What is listed is in the directory being walked; a walk starts with the first.
Placed ==
    \A i \in Ingestions : /\ todo[i] \subseteq 1 .. Len(Tree[dir[i]])
                          /\ pc[i] = "idle" => dir[i] = 1

LEMMA DocumentTyped ==
    ASSUME TypeOK, Placed, NEW i \in Ingestions, NEW n \in todo[i], DocumentAt(i, n).text # None
    PROVE  /\ n \in 1 .. Len(Tree[dir[i]]) /\ Tree[dir[i]][n] \in Paths
           /\ DocumentAt(i, n) \in OnDisk
           /\ DocumentAt(i, n).path = Tree[dir[i]][n]
<1>1. n \in 1 .. Len(Tree[dir[i]]) /\ Tree[dir[i]][n] \in Paths
  BY TreeFacts DEF TypeOK, Placed
<1> QED BY <1>1 DEF DocumentAt, OnDisk, Document, TypeOK

(***************************************************************************)
(* Every variable stays in its set.                                        *)
(***************************************************************************)
THEOREM TypeCorrect == Spec => [](TypeOK /\ Placed)
<1> USE DEF TypeOK, Placed, PC, Operations
<1>1. Init => TypeOK /\ Placed
  BY IndexAssumption, TreeFacts DEF Init
<1>2. (TypeOK /\ Placed) /\ [Next]_vars => (TypeOK /\ Placed)'
  <2> SUFFICES ASSUME TypeOK, Placed, [Next]_vars PROVE TypeOK' /\ Placed'
    OBVIOUS
  <2> USE DEF files, table, walk, Goto
  <2>1. ASSUME NEW i \in Ingestions, BeginIngestion(i) PROVE TypeOK' /\ Placed'
    BY <2>1, TreeFacts DEF BeginIngestion, Listing, OnDisk, Document
  <2>2. ASSUME NEW i \in Ingestions, RefuseRoot(i) PROVE TypeOK' /\ Placed'
    BY <2>2 DEF RefuseRoot
  <2>3. ASSUME NEW q \in Searches, BeginSearch(q) PROVE TypeOK' /\ Placed'
    BY <2>3 DEF BeginSearch
  <2>4. ASSUME NEW p \in Probes, BeginProbe(p) PROVE TypeOK' /\ Placed'
    BY <2>4 DEF BeginProbe
  <2>5. ASSUME NEW i \in Ingestions, NEW n \in todo[i], ReadFile(i, n) PROVE TypeOK' /\ Placed'
    <3>1. DocumentAt(i, n) \in Document
      BY <2>5, DocumentTyped DEF ReadFile, OnDisk
    <3> QED BY <2>5, <3>1 DEF ReadFile
  <2>6. ASSUME NEW i \in Ingestions, NEW n \in todo[i], SkipFile(i, n) PROVE TypeOK' /\ Placed'
    BY <2>6 DEF SkipFile
  <2>7. ASSUME NEW i \in Ingestions, NextDirectory(i) PROVE TypeOK' /\ Placed'
    BY <2>7, TreeFacts DEF NextDirectory, Listing
  <2>8. ASSUME NEW i \in Ingestions, FinishWalk(i) PROVE TypeOK' /\ Placed'
    BY <2>8 DEF FinishWalk
  <2>9. ASSUME NEW i \in Ingestions, Replace(i) PROVE TypeOK' /\ Placed'
    BY <2>9, IndexAssumption DEF Replace
  <2>10. ASSUME NEW o \in Operations, Lock(o) PROVE TypeOK' /\ Placed'
    BY <2>10 DEF Lock
  <2>11. ASSUME NEW o \in Operations, ReadRows(o) PROVE TypeOK' /\ Placed'
    BY <2>11 DEF ReadRows
  <2>12. ASSUME NEW o \in Operations, Abort(o) PROVE TypeOK' /\ Placed'
    BY <2>12 DEF Abort
  <2>13. ASSUME NEW o \in Operations, Return(o) PROVE TypeOK' /\ Placed'
    BY <2>13 DEF Return
  <2>14. ASSUME NEW p \in Paths, NEW c \in Texts \cup {None}, Edit(p, c) PROVE TypeOK' /\ Placed'
    <3>1. edits' \in 0 .. MaxEdits
      BY <2>14, IndexAssumption DEF Edit
    <3>2. disk' \in [Paths -> Texts \cup {None}] /\ OnDisk' \subseteq Document
      BY <2>14 DEF Edit, OnDisk, Document
    <3> QED BY <2>14, <3>1, <3>2 DEF Edit
  <2>15. CASE Restart BY <2>15 DEF Restart
  <2>16. CASE UNCHANGED vars BY <2>16 DEF vars
  <2> QED
    BY <2>1, <2>2, <2>3, <2>4, <2>5, <2>6, <2>7, <2>8, <2>9, <2>10, <2>11, <2>12, <2>13, <2>14,
       <2>15, <2>16 DEF Next, Begin, Ingest, Runs, Quiet
<1> QED BY <1>1, <1>2, PTL DEF Spec

-----------------------------------------------------------------------------
(* The walk.                                                               *)

\* The walk is past this file: read, skipped or not listed.
Passed(i, p) ==
    \E e \in 1 .. Len(Tree) : \E n \in 1 .. Len(Tree[e]) :
        p = Tree[e][n] /\ (e < dir[i] \/ (e = dir[i] /\ n \notin todo[i]))

Begins(i) == pc[i] = "idle" => docs[i] = {}

Walks(i) ==
    /\ docs[i] \subseteq during[i]
    /\ \A d, e \in docs[i] : d.path = e.path => d = e
    /\ pc[i] = "walking" =>
          /\ OnDisk \subseteq during[i] /\ steady[i] \subseteq OnDisk
          /\ \A d \in docs[i] : Passed(i, d.path)
          /\ Cardinality(docs[i]) >= Cap
                \/ \A d \in steady[i] : Passed(i, d.path) => d \in docs[i]

Counts(i) ==
    /\ IsFiniteSet(docs[i])
    /\ Cardinality(docs[i]) <= Cap + dir[i] - 1
    /\ todo[i] # {} => Cardinality(docs[i]) <= Cap + dir[i] - 2

\* What the rest of the system does to a walk: nothing, or it ends it.
LEMMA WalkUntouched ==
    ASSUME TypeOK, [Next]_vars, NEW i \in Ingestions,
           ~BeginIngestion(i), ~NextDirectory(i), ~FinishWalk(i),
           \A n \in todo[i] : ~ReadFile(i, n) /\ ~SkipFile(i, n),
           \A p \in Paths, c \in Texts \cup {None} : ~Edit(p, c)
    PROVE  /\ UNCHANGED <<docs[i], dir[i], todo[i], during[i], steady[i], disk>>
           /\ pc'[i] = pc[i] \/ (pc[i] # "walking" /\ pc'[i] # "walking") \/ pc'[i] = "failed"
<1>0. i \in Operations /\ pc \in [Operations -> PC]
  BY DEF TypeOK, Operations
<1> USE DEF TypeOK, Operations, PC
<1>1. ASSUME NEW j \in Ingestions, j # i, BeginIngestion(j) \/ Ingest(j)
      PROVE  UNCHANGED <<docs[i], dir[i], todo[i], during[i], steady[i], disk, pc[i]>>
  BY <1>1, ZenonT(60) DEF BeginIngestion, Ingest, ReadFile, SkipFile, NextDirectory, FinishWalk, Replace,
     Goto, files, walk
<1>2. ASSUME NEW o \in Operations,
             Runs(o) \/ Abort(o) \/ Replace(o) \/ RefuseRoot(o) \/ BeginSearch(o) \/ BeginProbe(o)
      PROVE  /\ UNCHANGED <<docs[i], dir[i], todo[i], during[i], steady[i], disk>>
             /\ pc'[i] = pc[i] \/ (pc[i] # "walking" /\ pc'[i] # "walking")
  <2>1. UNCHANGED <<docs, dir, todo, during, steady, disk>>
    BY <1>2 DEF Runs, Lock, Abort, Return, ReadRows, Replace, RefuseRoot, BeginSearch, BeginProbe,
       files, walk
  <2>2. /\ pc[o] # "walking"
        /\ \E label \in PC \ {"walking"} : pc' = [pc EXCEPT ![o] = label]
    BY <1>2 DEF Runs, Lock, Abort, Return, ReadRows, Replace, RefuseRoot, BeginSearch, BeginProbe,
       Goto
  <2>3. pc'[i] = pc[i] \/ (pc[i] # "walking" /\ pc'[i] # "walking")
    <3>1. PICK label \in PC \ {"walking"} : pc' = [pc EXCEPT ![o] = label]
      BY <2>2
    <3>2. label # "walking"
      BY <3>1
    <3> HIDE DEF PC, Operations, TypeOK
    <3> QED BY <1>0, <2>2, <3>1, <3>2
  <2> QED BY <2>1, <2>3
<1>3. ASSUME Restart \/ UNCHANGED vars
      PROVE  /\ UNCHANGED <<docs[i], dir[i], todo[i], during[i], steady[i], disk>>
             /\ pc'[i] = pc[i] \/ pc'[i] = "failed"
  <2>1. UNCHANGED <<docs, dir, todo, during, steady, disk>>
    BY <1>3 DEF Restart, vars, files, walk
  <2>2. pc'[i] = pc[i] \/ pc'[i] = "failed"
    BY <1>3 DEF Restart, vars
  <2> QED BY <2>1, <2>2
<1>4. \/ \E j \in Ingestions : j # i /\ (BeginIngestion(j) \/ Ingest(j))
      \/ \E o \in Operations : Runs(o) \/ Abort(o) \/ Replace(o) \/ RefuseRoot(o)
                               \/ BeginSearch(o) \/ BeginProbe(o)
      \/ Restart \/ UNCHANGED vars
  BY DEF Next, Begin, Ingest, Quiet
<1> HIDE DEF TypeOK, PC, Operations
<1>5. CASE \E j \in Ingestions : j # i /\ (BeginIngestion(j) \/ Ingest(j))
  <2>1. PICK j \in Ingestions : j # i /\ (BeginIngestion(j) \/ Ingest(j))
    BY <1>5
  <2>2. UNCHANGED <<docs[i], dir[i], todo[i], during[i], steady[i], disk, pc[i]>>
    BY <1>1, <2>1
  <2> QED BY <2>2
<1>6. CASE \E o \in Operations : Runs(o) \/ Abort(o) \/ Replace(o) \/ RefuseRoot(o)
                                 \/ BeginSearch(o) \/ BeginProbe(o)
  BY <1>2, <1>6
<1> QED BY <1>3, <1>4, <1>5, <1>6

(***************************************************************************)
(* A walk reads at most the cap and one document for each later directory. *)
(***************************************************************************)
LEMMA CountStep ==
    ASSUME TypeOK, Placed, TypeOK', [Next]_vars, NEW i \in Ingestions, Counts(i), Begins(i)
    PROVE  Counts(i)' /\ Begins(i)'
<1> USE DEF Counts, Begins, TypeOK, Placed, Operations
<1>1. Cap \in Nat \ {0} /\ dir[i] \in Nat \ {0} /\ Cardinality(docs[i]) \in Nat
  <2>1. Cap \in Nat \ {0}
    BY IndexAssumption
  <2>2. dir[i] \in Nat \ {0}
    BY TreeFacts
  <2>3. Cardinality(docs[i]) \in Nat
    BY FS_CardinalityType
  <2> QED BY <2>1, <2>2, <2>3
<1>2. CASE BeginIngestion(i)
  <2>1. docs'[i] = {} /\ dir'[i] = 1 /\ pc'[i] = "walking"
    BY <1>2 DEF BeginIngestion, Goto
  <2>2. IsFiniteSet({}) /\ Cardinality({}) = 0
    BY FS_EmptySet
  <2> QED BY <1>1, <2>1, <2>2, SMTT(30)
<1>3. CASE NextDirectory(i)
  BY <1>1, <1>3, SMTT(30) DEF NextDirectory
<1>4. CASE FinishWalk(i)
  BY <1>1, <1>4 DEF FinishWalk, Goto, walk
<1>5. ASSUME NEW n \in todo[i], ReadFile(i, n) PROVE Counts(i)' /\ Begins(i)'
  <2> DEFINE d == DocumentAt(i, n)
             read == docs[i] \cup {d}
  <2>1. IsFiniteSet(read) /\ Cardinality(read) \in Nat /\ Cardinality(read) <= Cardinality(docs[i]) + 1
    <3>1. Cardinality(read) = Cardinality(docs[i]) \/ Cardinality(read) = Cardinality(docs[i]) + 1
      BY FS_AddElement
    <3>2. IsFiniteSet(read)
      BY FS_AddElement
    <3> QED BY <1>1, <3>1, <3>2
  <2>2. docs'[i] = read /\ dir'[i] = dir[i] /\ pc'[i] = "walking"
        /\ todo'[i] = (IF Cardinality(read) >= Cap THEN {} ELSE todo[i] \ {n})
    BY <1>5 DEF ReadFile
  <2>3. Cardinality(docs[i]) <= Cap + dir[i] - 2
    BY <1>5
  <2> HIDE DEF read
  <2>4. Cardinality(read) <= Cap + dir[i] - 1
    BY <1>1, <2>1, <2>3, SMTT(30)
  <2>5. ~(Cardinality(read) >= Cap) => Cardinality(read) <= Cap + dir[i] - 2
    BY <1>1, <2>1, SMTT(30)
  <2> QED BY <2>1, <2>2, <2>4, <2>5
<1>6. ASSUME NEW n \in todo[i], SkipFile(i, n) PROVE Counts(i)' /\ Begins(i)'
  BY <1>6 DEF SkipFile
<1>7. ASSUME NEW p \in Paths, NEW c \in Texts \cup {None}, Edit(p, c)
      PROVE  Counts(i)' /\ Begins(i)'
  BY <1>7 DEF Edit
<1>8. ASSUME UNCHANGED <<docs[i], dir[i], todo[i]>>, pc'[i] = "idle" => pc[i] = "idle"
      PROVE  Counts(i)' /\ Begins(i)'
  BY <1>8
<1>9. pc'[i] = "idle" => pc[i] = "idle"
  BY ZenonT(60) DEF Next, Begin, Ingest, Runs, BeginIngestion, RefuseRoot, BeginSearch, BeginProbe, ReadFile,
     SkipFile, NextDirectory, FinishWalk, Replace, Lock, Abort, Return, ReadRows, Edit, Restart,
     Quiet, Goto, vars
<1> QED BY <1>2, <1>3, <1>4, <1>5, <1>6, <1>7, <1>8, <1>9, WalkUntouched

THEOREM WalksAreBounded == Spec => []WalkBounded
<1> DEFINE Inv == \A i \in Ingestions : Counts(i) /\ Begins(i)
<1>1. Init => Inv
  BY IndexAssumption, FS_EmptySet DEF Init, Counts, Begins
<1>2. TypeOK /\ Placed /\ TypeOK' /\ Inv /\ [Next]_vars => Inv'
  BY CountStep
<1>3. TypeOK /\ Inv => WalkBounded
  <2> SUFFICES ASSUME TypeOK, NEW i \in Ingestions, Counts(i)
               PROVE  Cardinality(docs[i]) <= Cap + Len(Tree) - 1
    BY DEF WalkBounded
  <2>1. Cap \in Nat /\ Len(Tree) \in Nat /\ dir[i] \in 1 .. Len(Tree) /\ Cardinality(docs[i]) \in Nat
    BY IndexAssumption, TreeFacts, FS_CardinalityType DEF TypeOK, Counts
  <2> QED BY <2>1 DEF Counts
<1> QED BY <1>1, <1>2, <1>3, TypeCorrect, PTL DEF Spec

(***************************************************************************)
(* What a walk has read were files while it walked, one text for each; and *)
(* under the cap nothing that was there all the time is missing.           *)
(***************************************************************************)
LEMMA WalkStep ==
    ASSUME TypeOK, Placed, [Next]_vars, NEW i \in Ingestions, Walks(i), Begins(i), Counts(i)
    PROVE  Walks(i)'
<1> USE DEF Walks
<1>0. i \in Operations
  BY DEF Operations
<1>1. CASE BeginIngestion(i)
  <2>1. /\ docs[i] = {} /\ docs'[i] = docs[i] /\ pc'[i] = "walking" /\ disk' = disk
        /\ during'[i] = OnDisk /\ steady'[i] = OnDisk /\ OnDisk' = OnDisk
        /\ dir'[i] = 1 /\ todo'[i] = Listing(1)
    BY <1>0, <1>1 DEF BeginIngestion, Goto, TypeOK, Placed, Begins, files, OnDisk
  <2>2. ASSUME NEW d \in OnDisk, Passed(i, d.path)' PROVE FALSE
    <3>1. PICK e \in 1 .. Len(Tree) :
             \E n \in 1 .. Len(Tree[e]) : d.path = Tree[e][n] /\ (e < 1 \/ (e = 1 /\ n \notin Listing(1)))
      BY <2>1, <2>2 DEF Passed
    <3>2. PICK n \in 1 .. Len(Tree[e]) : d.path = Tree[e][n] /\ (e < 1 \/ (e = 1 /\ n \notin Listing(1)))
      BY <3>1
    <3>3. e = 1 /\ disk[d.path] = None
      BY <3>2 DEF Listing
    <3> QED BY <2>2, <3>3, IndexAssumption DEF OnDisk, Document
  <2> QED BY <2>1, <2>2
<1>2. CASE NextDirectory(i)
  <2>1. /\ docs' = docs /\ pc' = pc /\ disk' = disk /\ during' = during /\ steady' = steady
        /\ OnDisk' = OnDisk /\ pc[i] = "walking"
        /\ dir'[i] = dir[i] + 1 /\ todo[i] = {} /\ todo'[i] = Listing(dir[i] + 1)
    BY <1>2 DEF NextDirectory, TypeOK, files, OnDisk
  <2>2. dir[i] \in Nat
    BY TreeFacts DEF TypeOK
  <2>3. ASSUME NEW p, Passed(i, p) PROVE Passed(i, p)'
    <3>1. PICK e \in 1 .. Len(Tree) :
             \E n \in 1 .. Len(Tree[e]) : p = Tree[e][n] /\ (e < dir[i] \/ (e = dir[i] /\ n \notin todo[i]))
      BY <2>3 DEF Passed
    <3>2. e < dir'[i]
      BY <2>1, <2>2, <3>1
    <3> QED BY <3>1, <3>2 DEF Passed
  <2>4. ASSUME NEW d \in OnDisk, Passed(i, d.path)' PROVE Passed(i, d.path)
    <3>1. PICK e \in 1 .. Len(Tree) :
             \E n \in 1 .. Len(Tree[e]) :
                d.path = Tree[e][n] /\ (e < dir'[i] \/ (e = dir'[i] /\ n \notin todo'[i]))
      BY <2>4 DEF Passed
    <3>2. PICK n \in 1 .. Len(Tree[e]) :
             d.path = Tree[e][n] /\ (e < dir'[i] \/ (e = dir'[i] /\ n \notin todo'[i]))
      BY <3>1
    <3>3. CASE e = dir'[i] /\ n \notin todo'[i]
      <4>1. disk[d.path] = None
        BY <2>1, <3>2, <3>3 DEF Listing
      <4> QED BY <4>1, <2>4, IndexAssumption DEF OnDisk, Document
    <3>4. CASE e < dir'[i]
      <4>1. e < dir[i] \/ (e = dir[i] /\ n \notin todo[i])
        BY <2>1, <2>2, <3>4
      <4> QED BY <3>2, <4>1 DEF Passed
    <3> QED BY <3>2, <3>3, <3>4
  <2> QED BY <2>1, <2>3, <2>4
<1>3. CASE FinishWalk(i)
  BY <1>0, <1>3 DEF FinishWalk, Goto, walk, TypeOK
<1>4. ASSUME NEW n \in todo[i], ReadFile(i, n) PROVE Walks(i)'
  <2> DEFINE d == DocumentAt(i, n)
             p == Tree[dir[i]][n]
  <2>1. /\ docs'[i] = docs[i] \cup {d} /\ pc' = pc /\ disk' = disk /\ during' = during
        /\ steady' = steady /\ OnDisk' = OnDisk /\ dir' = dir /\ pc[i] = "walking"
        /\ todo'[i] = IF Cardinality(docs[i] \cup {d}) >= Cap THEN {} ELSE todo[i] \ {n}
    BY <1>4 DEF ReadFile, TypeOK, files, OnDisk
  <2>2. d \in OnDisk /\ d.path = p /\ n \in 1 .. Len(Tree[dir[i]])
    BY <1>4, DocumentTyped DEF ReadFile
  <2>3. ~Passed(i, p)
    <3> SUFFICES ASSUME NEW e \in 1 .. Len(Tree), NEW m \in 1 .. Len(Tree[e]), p = Tree[e][m],
                        e < dir[i] \/ (e = dir[i] /\ m \notin todo[i])
                 PROVE  FALSE
      BY DEF Passed
    <3>1. dir[i] \in 1 .. Len(Tree) /\ dir[i] \in Nat
      BY TreeFacts DEF TypeOK
    <3>2. e = dir[i] /\ m = n
      BY <2>2, <3>1, OnePlace
    <3> QED BY <3>1, <3>2
  <2>4. \A q : Passed(i, q) => Passed(i, q)'
    BY <2>1 DEF Passed
  <2>5. Passed(i, p)'
    <3>1. n \notin todo'[i] /\ dir[i] \in 1 .. Len(Tree)
      BY <2>1 DEF TypeOK
    <3> QED BY <2>1, <2>2, <3>1 DEF Passed
  <2>6. ASSUME ~(Cardinality(docs[i] \cup {d}) >= Cap), NEW q, Passed(i, q)'
        PROVE  Passed(i, q) \/ q = p
    <3>1. todo'[i] = todo[i] \ {n}
      BY <2>1, <2>6
    <3>2. PICK e \in 1 .. Len(Tree) :
             \E m \in 1 .. Len(Tree[e]) :
                q = Tree[e][m] /\ (e < dir[i] \/ (e = dir[i] /\ m \notin todo'[i]))
      BY <2>1, <2>6 DEF Passed
    <3>3. PICK m \in 1 .. Len(Tree[e]) :
             q = Tree[e][m] /\ (e < dir[i] \/ (e = dir[i] /\ m \notin todo'[i]))
      BY <3>2
    <3> QED BY <3>1, <3>3 DEF Passed
  <2>7. ~(Cardinality(docs[i] \cup {d}) >= Cap) => ~(Cardinality(docs[i]) >= Cap)
    <3>1. Cardinality(docs[i]) \in Nat /\ IsFiniteSet(docs[i] \cup {d})
      BY FS_CardinalityType, FS_AddElement DEF Counts
    <3>2. Cardinality(docs[i]) <= Cardinality(docs[i] \cup {d})
      BY <3>1, FS_Subset
    <3>3. Cardinality(docs[i] \cup {d}) \in Nat
      BY <3>1, FS_CardinalityType
    <3> HIDE DEF d
    <3> QED BY <3>1, <3>2, <3>3, IndexAssumption
  <2>8. \A e \in steady[i] : e.path = p => e = d
    BY <2>1, <2>2 DEF OnDisk, Document
  <2>9. Cardinality(docs'[i]) >= Cap \/ \A e \in steady'[i] : Passed(i, e.path)' => e \in docs'[i]
    BY <2>1, <2>6, <2>7, <2>8
  <2>10. \A e \in docs'[i] : Passed(i, e.path)'
    BY <2>1, <2>2, <2>4, <2>5
  <2>11. \A e, f \in docs'[i] : e.path = f.path => e = f
    BY <2>1, <2>2, <2>3
  <2> QED BY <2>1, <2>2, <2>9, <2>10, <2>11
<1>5. ASSUME NEW n \in todo[i], SkipFile(i, n) PROVE Walks(i)'
  <2>1. /\ docs' = docs /\ pc' = pc /\ disk' = disk /\ during' = during /\ steady' = steady
        /\ OnDisk' = OnDisk /\ dir' = dir /\ todo'[i] = todo[i] \ {n} /\ pc[i] = "walking"
        /\ disk[Tree[dir[i]][n]] = None
    BY <1>5 DEF SkipFile, TypeOK, files, OnDisk, DocumentAt
  <2>2. \A p : Passed(i, p) => Passed(i, p)'
    BY <2>1 DEF Passed
  <2>3. ASSUME NEW d \in OnDisk, Passed(i, d.path)' PROVE Passed(i, d.path)
    <3>1. PICK e \in 1 .. Len(Tree) :
             \E m \in 1 .. Len(Tree[e]) :
                d.path = Tree[e][m] /\ (e < dir[i] \/ (e = dir[i] /\ m \notin todo'[i]))
      BY <2>1, <2>3 DEF Passed
    <3>2. PICK m \in 1 .. Len(Tree[e]) :
             d.path = Tree[e][m] /\ (e < dir[i] \/ (e = dir[i] /\ m \notin todo'[i]))
      BY <3>1
    <3>3. CASE e = dir[i] /\ m = n
      BY <2>1, <2>3, <3>2, <3>3, IndexAssumption DEF OnDisk, Document
    <3> QED BY <2>1, <3>2, <3>3 DEF Passed
  <2> QED BY <2>1, <2>2, <2>3
<1>6. ASSUME NEW p \in Paths, NEW c \in Texts \cup {None}, Edit(p, c) PROVE Walks(i)'
  <2>1. /\ docs' = docs /\ pc' = pc /\ dir' = dir /\ todo' = todo
        /\ during'[i] = IF pc[i] = "walking" THEN during[i] \cup OnDisk' ELSE during[i]
        /\ steady'[i] = IF pc[i] = "walking" THEN steady[i] \cap OnDisk' ELSE steady[i]
    BY <1>6 DEF Edit
  <2>2. \A q : Passed(i, q)' <=> Passed(i, q)
    BY <2>1 DEF Passed
  <2> QED BY <2>1, <2>2
<1>7. ASSUME UNCHANGED <<docs[i], dir[i], todo[i], during[i], steady[i], disk>>,
             pc'[i] = pc[i] \/ (pc[i] # "walking" /\ pc'[i] # "walking") \/ pc'[i] = "failed"
      PROVE  Walks(i)'
  <2>1. \A q : Passed(i, q)' <=> Passed(i, q)
    BY <1>7 DEF Passed
  <2>2. OnDisk' = OnDisk
    BY <1>7 DEF OnDisk
  <2> QED BY <1>7, <2>1, <2>2
<1> QED BY <1>1, <1>2, <1>3, <1>4, <1>5, <1>6, <1>7, WalkUntouched

Ended == {"waiting", "holding", "returning", "done"}

Faithful(i) ==
    pc[i] \in Ended => Cardinality(docs[i]) >= Cap \/ steady[i] \subseteq docs[i]

LEMMA EndStep ==
    ASSUME TypeOK, [Next]_vars, NEW i \in Ingestions, Walks(i), Faithful(i)
    PROVE  Faithful(i)'
<1>0. i \in Operations /\ i \notin Searches /\ i \notin Probes
  BY IndexAssumption DEF Operations
<1>1. CASE FinishWalk(i)
  <2>1. docs' = docs /\ steady' = steady /\ pc[i] = "walking" /\ todo[i] = {} /\ dir[i] = Len(Tree)
    BY <1>1 DEF FinishWalk, walk
  <2>2. ASSUME NEW d \in steady[i] PROVE Passed(i, d.path)
    <3>1. d.path \in Paths
      BY <2>1, <2>2 DEF Walks, OnDisk, Document
    <3>2. PICK e \in 1 .. Len(Tree) : d.path \in Range(Tree[e])
      BY <3>1 DEF Paths
    <3>3. DOMAIN Tree[e] = 1 .. Len(Tree[e])
      BY IndexAssumption
    <3>4. PICK n \in 1 .. Len(Tree[e]) : d.path = Tree[e][n]
      BY <3>2, <3>3 DEF Range
    <3>5. e < dir[i] \/ e = dir[i]
      BY <2>1, TreeFacts
    <3> QED BY <2>1, <3>4, <3>5 DEF Passed
  <2> QED BY <2>1, <2>2 DEF Walks, Faithful
<1>2. ASSUME ~FinishWalk(i), pc'[i] \in Ended PROVE pc[i] \in Ended
  <2>1. ASSUME NEW o \in Operations, Runs(o) \/ Abort(o) \/ Replace(o) PROVE pc[i] \in Ended
    BY <1>0, <1>2, <2>1 DEF Runs, Lock, Abort, Return, ReadRows, Replace, Goto, Ended, TypeOK
  <2>2. ASSUME NEW j \in Ingestions, BeginIngestion(j) \/ RefuseRoot(j) PROVE pc[i] \in Ended
    BY <1>0, <1>2, <2>2 DEF BeginIngestion, RefuseRoot, Goto, Ended, TypeOK
  <2>3. ASSUME NEW o \in Searches \cup Probes, BeginSearch(o) \/ BeginProbe(o) PROVE pc[i] \in Ended
    BY <1>0, <1>2, <2>3 DEF BeginSearch, BeginProbe, Goto, Ended, TypeOK
  <2>4. ASSUME NEW j \in Ingestions, NextDirectory(j) \/ (j # i /\ FinishWalk(j))
                 \/ \E n \in todo[j] : ReadFile(j, n) \/ SkipFile(j, n)
        PROVE  pc[i] \in Ended
    BY <1>0, <1>2, <2>4 DEF NextDirectory, FinishWalk, ReadFile, SkipFile, Goto, TypeOK
  <2>5. ASSUME (\E p \in Paths, c \in Texts \cup {None} : Edit(p, c)) \/ UNCHANGED vars
        PROVE  pc[i] \in Ended
    BY <1>2, <2>5 DEF Edit, vars
  <2>6. CASE Restart BY <1>0, <1>2, <2>6 DEF Restart, Ended
  <2> QED BY <1>2, <2>1, <2>2, <2>3, <2>4, <2>5, <2>6 DEF Next, Begin, Ingest, Quiet, Operations
<1>3. ASSUME pc[i] \in Ended PROVE UNCHANGED <<docs[i], steady[i]>>
  <2>1. pc[i] # "idle" /\ pc[i] # "walking"
    BY <1>3 DEF Ended
  <2>2. CASE \E p \in Paths, c \in Texts \cup {None} : Edit(p, c)
    BY <2>1, <2>2 DEF Edit
  <2> QED
    BY <2>1, <2>2, WalkUntouched DEF BeginIngestion, NextDirectory, FinishWalk, ReadFile, SkipFile
<1> QED BY <1>1, <1>2, <1>3 DEF Faithful

THEOREM WalksAreFaithful == Spec => []WalkIsFaithful
<1> DEFINE Inv == \A i \in Ingestions : Walks(i) /\ Faithful(i) /\ Counts(i) /\ Begins(i)
<1>1. Init => Inv
  <2> SUFFICES ASSUME Init, NEW i \in Ingestions
               PROVE  Walks(i) /\ Faithful(i) /\ Counts(i) /\ Begins(i)
    OBVIOUS
  <2>1. pc[i] = "idle" /\ docs[i] = {} /\ todo[i] = {} /\ dir[i] = 1 /\ during[i] = {}
    BY DEF Init, Operations
  <2>2. Counts(i)
    BY <2>1, IndexAssumption, FS_EmptySet DEF Counts
  <2> QED BY <2>1, <2>2 DEF Walks, Faithful, Begins, Ended
<1>2. TypeOK /\ Placed /\ TypeOK' /\ Inv /\ [Next]_vars => Inv'
  BY CountStep, WalkStep, EndStep
<1>3. Inv => WalkIsFaithful
  BY DEF WalkIsFaithful, Walks, Faithful, Ended
<1> QED BY <1>1, <1>2, <1>3, TypeCorrect, PTL DEF Spec

-----------------------------------------------------------------------------
(* The table.                                                              *)

\* Only a call at the lock holds it; the log has the ingestions that left it with
\* their rows written, and every ingestion about to be answered.
Logged ==
    /\ \A n \in 1 .. Len(log) : pc[log[n]] \in {"returning", "done", "failed"}
    /\ \A i, j \in Ingestions : j \in settled[i] => pc[j] = "done"

Effective ==
    \A i \in Ingestions : pc[i] \in {"returning", "done"} =>
        \E n \in 1 .. Len(log) :
            /\ log[n] = i
            /\ \A m \in n + 1 .. Len(log) : log[m] \notin settled[i]

\* The table is as it was, and every call is where it was or further on.
TableIsStill ==
    /\ UNCHANGED table
    /\ \A o \in Operations : pc[o] \in {"returning", "done", "failed"}
          => pc'[o] \in {"returning", "done", "failed"}
    /\ \A i \in Ingestions :
          /\ pc'[i] \in {"returning", "done"} => pc[i] \in {"returning", "done"}
          /\ pc[i] = "done" => pc'[i] = "done"
          /\ docs'[i] # docs[i] => pc[i] = "walking"
          /\ settled'[i] # settled[i]
                => /\ pc[i] = "idle" /\ pc'[i] = "walking"
                   /\ settled'[i] = {j \in Ingestions : pc[j] = "done"}

\* What a step can do to the table and to the calls.
LEMMA TableStep ==
    ASSUME TypeOK, [Next]_vars
    PROVE  (\E i \in Ingestions : Replace(i)) \/ TableIsStill
<1> USE DEF TypeOK, table
<1>1. ASSUME NEW i \in Ingestions, BeginIngestion(i) \/ RefuseRoot(i) PROVE TableIsStill
  BY <1>1 DEF BeginIngestion, RefuseRoot, Goto, walk, Operations, TableIsStill
<1>2. ASSUME NEW o \in Searches \cup Probes, BeginSearch(o) \/ BeginProbe(o) PROVE TableIsStill
  BY <1>2, IndexAssumption DEF BeginSearch, BeginProbe, Goto, walk, Operations, TableIsStill
<1>3. ASSUME NEW i \in Ingestions, NextDirectory(i) \/ FinishWalk(i)
               \/ \E n \in todo[i] : ReadFile(i, n) \/ SkipFile(i, n)
      PROVE  TableIsStill
  BY <1>3 DEF NextDirectory, FinishWalk, ReadFile, SkipFile, Goto, walk, Operations, TableIsStill
<1>4. ASSUME NEW o \in Operations, Lock(o) \/ Abort(o) \/ Return(o) PROVE TableIsStill
  BY <1>4 DEF Lock, Abort, Return, Goto, walk, Operations, TableIsStill
<1>5. ASSUME NEW o \in Operations, ReadRows(o) PROVE TableIsStill
  BY <1>5 DEF ReadRows, Goto, walk, Operations, TableIsStill
<1>6. ASSUME (\E p \in Paths, c \in Texts \cup {None} : Edit(p, c)) \/ UNCHANGED vars
      PROVE  TableIsStill
  BY <1>6 DEF Edit, vars, walk, TableIsStill
<1>7. CASE Restart
  BY <1>7 DEF Restart, walk, Operations, TableIsStill
<1> QED
  BY <1>1, <1>2, <1>3, <1>4, <1>5, <1>6, <1>7 DEF Next, Begin, Ingest, Runs, Quiet

\* A replacement and what it leaves as it was.
LEMMA ReplaceStep ==
    ASSUME TypeOK, Logged, NEW i \in Ingestions, Replace(i)
    PROVE  /\ pc[i] = "holding" /\ pc' = [pc EXCEPT ![i] = "returning"]
           /\ index' = [index EXCEPT ![SourceOf[i]] = docs[i]]
           /\ docs' = docs /\ settled' = settled
           /\ Len(log) \in Nat /\ Len(log') = Len(log) + 1
           /\ log'[Len(log) + 1] = i
           /\ \A n \in 1 .. Len(log) : log'[n] = log[n] /\ log[n] \in Ingestions /\ log[n] # i
<1>1. log \in Seq(Ingestions) /\ log' = Append(log, i)
  BY DEF TypeOK, Replace
<1>2. \A n \in 1 .. Len(log) : log[n] # i
  BY DEF Logged, Replace
<1> QED BY <1>1, <1>2 DEF Replace, Goto, walk

LEMMA LoggedStep ==
    ASSUME TypeOK, Logged, [Next]_vars
    PROVE  Logged'
<1>1. ASSUME NEW i \in Ingestions, Replace(i) PROVE Logged'
  <2>1. \A j \in Ingestions : pc'[j] = IF j = i THEN "returning" ELSE pc[j]
    BY <1>1, ReplaceStep DEF TypeOK, Operations
  <2>2. ASSUME NEW n \in 1 .. Len(log') PROVE pc'[log'[n]] \in {"returning", "done", "failed"}
    <3>1. CASE n = Len(log) + 1
      BY <1>1, <2>1, <3>1, ReplaceStep
    <3>2. CASE n \in 1 .. Len(log)
      BY <1>1, <2>1, <3>2, ReplaceStep DEF Logged
    <3> QED BY <1>1, <3>1, <3>2, ReplaceStep
  <2>3. ASSUME NEW j \in Ingestions, NEW k \in Ingestions, k \in settled'[j] PROVE pc'[k] = "done"
    BY <1>1, <2>1, <2>3, ReplaceStep DEF Logged
  <2> QED BY <2>2, <2>3 DEF Logged
<1>2. CASE TableIsStill
  <2>1. log' = log /\ \A n \in 1 .. Len(log) : log[n] \in Operations
    BY <1>2 DEF TableIsStill, table, TypeOK, Operations
  <2> QED BY <1>2, <2>1 DEF Logged, TableIsStill
<1> QED BY <1>1, <1>2, TableStep

(***************************************************************************)
(* The index implements the atomic one.                                    *)
(***************************************************************************)
THEOREM ImplementsAtomicIndex == Spec => AtomicReplacement
<1>1. Init => Promise!Init /\ Logged
  BY IndexAssumption DEF Init, Promise!Init, Logged
<1>2. TypeOK /\ Logged /\ [Next]_vars => Logged'
  BY LoggedStep
<1>3. TypeOK /\ Logged /\ WalkIsFaithful /\ [Next]_vars => [Promise!Next]_Promise!vars
  <2> SUFFICES ASSUME TypeOK, Logged, WalkIsFaithful, [Next]_vars
               PROVE  [Promise!Next]_<<index, log>>
    BY DEF Promise!vars
  <2>1. ASSUME NEW i \in Ingestions, Replace(i) PROVE Promise!Next
    <3>1. docs[i] \in Promise!Shelves
      BY DEF Promise!Shelves, Promise!Document, TypeOK, Document, WalkIsFaithful
    <3>2. i \notin Promise!Range(log)
      BY <2>1, ReplaceStep DEF Promise!Range, TypeOK
    <3> QED BY <2>1, <3>1, <3>2 DEF Replace, Promise!Next, Promise!Replace
  <2> QED BY <2>1, TableStep DEF TableIsStill, table
<1> QED
  BY <1>1, <1>2, <1>3, TypeCorrect, WalksAreFaithful, PTL DEF Spec, AtomicReplacement, Promise!Spec

(***************************************************************************)
(* The rows of a source are those of its last committed ingestion.         *)
(***************************************************************************)
THEOREM RowsAreTheLastWalk == Spec => []IndexIsLastWalk
<1>1. Init => Logged /\ IndexIsLastWalk
  BY IndexAssumption DEF Init, Logged, IndexIsLastWalk
<1>2. TypeOK /\ (Logged /\ IndexIsLastWalk) /\ [Next]_vars => (Logged /\ IndexIsLastWalk)'
  <2> SUFFICES ASSUME TypeOK, Logged, IndexIsLastWalk, [Next]_vars, NEW s \in Sources
               PROVE  \/ index'[s] = {} /\ \A n \in 1 .. Len(log') : SourceOf[log'[n]] # s
                      \/ \E n \in 1 .. Len(log') :
                            /\ SourceOf[log'[n]] = s /\ index'[s] = docs'[log'[n]]
                            /\ \A m \in n + 1 .. Len(log') : SourceOf[log'[m]] # s
    BY LoggedStep DEF IndexIsLastWalk
  <2>1. ASSUME NEW i \in Ingestions, Replace(i), SourceOf[i] = s
        PROVE  \E n \in 1 .. Len(log') :
                  /\ SourceOf[log'[n]] = s /\ index'[s] = docs'[log'[n]]
                  /\ \A m \in n + 1 .. Len(log') : SourceOf[log'[m]] # s
    <3>1. index'[s] = docs[i] /\ docs' = docs
      BY <2>1, ReplaceStep DEF TypeOK
    <3>2. Len(log) + 1 \in 1 .. Len(log') /\ log'[Len(log) + 1] = i
      BY <2>1, ReplaceStep
    <3>3. \A m \in Len(log) + 1 + 1 .. Len(log') : FALSE
      BY <2>1, ReplaceStep
    <3> QED BY <2>1, <3>1, <3>2, <3>3
  <2>2. ASSUME NEW i \in Ingestions, Replace(i), SourceOf[i] # s
        PROVE  \/ index'[s] = {} /\ \A n \in 1 .. Len(log') : SourceOf[log'[n]] # s
               \/ \E n \in 1 .. Len(log') :
                     /\ SourceOf[log'[n]] = s /\ index'[s] = docs'[log'[n]]
                     /\ \A m \in n + 1 .. Len(log') : SourceOf[log'[m]] # s
    <3>1. index'[s] = index[s] /\ docs' = docs
      BY <2>2, ReplaceStep DEF TypeOK
    <3>2. CASE index[s] = {} /\ \A n \in 1 .. Len(log) : SourceOf[log[n]] # s
      <4>1. ASSUME NEW n \in 1 .. Len(log') PROVE SourceOf[log'[n]] # s
        BY <2>2, <3>2, ReplaceStep
      <4> QED BY <3>1, <3>2, <4>1
    <3>3. ASSUME NEW n \in 1 .. Len(log), SourceOf[log[n]] = s, index[s] = docs[log[n]],
                 \A m \in n + 1 .. Len(log) : SourceOf[log[m]] # s
          PROVE  \E k \in 1 .. Len(log') :
                    /\ SourceOf[log'[k]] = s /\ index'[s] = docs'[log'[k]]
                    /\ \A m \in k + 1 .. Len(log') : SourceOf[log'[m]] # s
      <4>1. n \in 1 .. Len(log') /\ log'[n] = log[n]
        BY <2>2, ReplaceStep
      <4>2. ASSUME NEW m \in n + 1 .. Len(log') PROVE SourceOf[log'[m]] # s
        BY <2>2, <3>3, ReplaceStep
      <4> QED BY <3>1, <3>3, <4>1, <4>2
    <3> QED BY <3>2, <3>3 DEF IndexIsLastWalk
  <2>3. CASE TableIsStill
    <3>1. ASSUME NEW n \in 1 .. Len(log) PROVE docs'[log[n]] = docs[log[n]]
      <4>1. log[n] \in Ingestions
        BY DEF TypeOK
      <4>2. pc[log[n]] # "walking"
        BY DEF Logged
      <4> QED BY <2>3, <4>1, <4>2 DEF TableIsStill
    <3>2. index' = index /\ log' = log
      BY <2>3 DEF TableIsStill, table
    <3> QED BY <3>1, <3>2 DEF IndexIsLastWalk
  <2> QED BY <2>1, <2>2, <2>3, TableStep
<1> QED BY <1>1, <1>2, TypeCorrect, PTL DEF Spec

(***************************************************************************)
(* An ingestion that was answered has taken effect, after every ingestion  *)
(* that had been answered when it began.                                   *)
(***************************************************************************)
THEOREM AnswersTakeEffect == Spec => []AnsweredIsIndexed
<1>1. Init => Logged /\ Effective
  BY IndexAssumption DEF Init, Logged, Effective, Operations
<1>2. TypeOK /\ (Logged /\ Effective) /\ [Next]_vars => (Logged /\ Effective)'
  <2> SUFFICES ASSUME TypeOK, Logged, Effective, [Next]_vars,
                      NEW i \in Ingestions, pc'[i] \in {"returning", "done"}
               PROVE  \E n \in 1 .. Len(log') :
                         /\ log'[n] = i
                         /\ \A m \in n + 1 .. Len(log') : log'[m] \notin settled'[i]
    BY LoggedStep DEF Effective
  <2>1. ASSUME Replace(i)
        PROVE  \E n \in 1 .. Len(log') :
                  /\ log'[n] = i
                  /\ \A m \in n + 1 .. Len(log') : log'[m] \notin settled'[i]
    BY <2>1, ReplaceStep
  <2>2. ASSUME NEW j \in Ingestions, j # i, Replace(j)
        PROVE  \E n \in 1 .. Len(log') :
                  /\ log'[n] = i
                  /\ \A m \in n + 1 .. Len(log') : log'[m] \notin settled'[i]
    <3>1. pc'[i] = pc[i]
      BY <2>2, ReplaceStep DEF TypeOK, Operations
    <3>2. PICK n \in 1 .. Len(log) :
             log[n] = i /\ \A m \in n + 1 .. Len(log) : log[m] \notin settled[i]
      BY <3>1 DEF Effective
    <3>3. j \notin settled[i] /\ settled' = settled
      BY <2>2, ReplaceStep DEF Logged
    <3>4. ASSUME NEW m \in n + 1 .. Len(log') PROVE log'[m] \notin settled'[i]
      BY <2>2, <3>2, <3>3, ReplaceStep
    <3>5. n \in 1 .. Len(log') /\ log'[n] = i
      BY <2>2, <3>2, ReplaceStep
    <3> QED BY <3>4, <3>5
  <2>3. CASE TableIsStill
    <3>1. log' = log /\ pc[i] \in {"returning", "done"} /\ settled'[i] = settled[i]
      BY <2>3 DEF TableIsStill, table
    <3> QED BY <3>1 DEF Effective
  <2> QED BY <2>1, <2>2, <2>3, TableStep
<1>3. Effective => AnsweredIsIndexed
  BY DEF Effective, AnsweredIsIndexed
<1> QED BY <1>1, <1>2, <1>3, TypeCorrect, PTL DEF Spec

(***************************************************************************)
(* Every walk is sound: faithful, and bounded beyond the cap               *)
(* (store.py:134-151).                                                     *)
(***************************************************************************)
THEOREM WalksAreSound == Spec => []WalkIsSound
BY WalksAreFaithful, WalksAreBounded, PTL DEF WalkIsSound
=============================================================================
