--------------------------- MODULE KnowledgeIndex ---------------------------
(***************************************************************************)
(* The knowledge index of the runtime store (store.py:126-206) and the     *)
(* routes that use it: concurrent ingestions, searches and status probes.  *)
(*                                                                         *)
(* An ingestion walks a directory tree in a worker thread while files      *)
(* change under it, then takes the store's thread lock and replaces the    *)
(* rows of its source in one transaction. A search takes the same lock in  *)
(* a thread of its own. A probe takes it on the event loop's own thread,   *)
(* so while it waits no coroutine runs: none begins and none returns.      *)
(* The process may stop at any point; the table survives it.               *)
(***************************************************************************)
EXTENDS Naturals, Sequences, FiniteSets, Functions

CONSTANTS
    Ingestions,     \* calls of ingest_root
    Searches,       \* calls of search_knowledge
    Probes,         \* calls of knowledge_status
    Sources,        \* source identifiers
    SourceOf,       \* [Ingestions -> Sources]
    Texts,          \* what a file can contain
    Tree,           \* the walk: a sequence of directories, each a sequence of text files
    Disks,          \* what its files can contain at first: a set of [Paths -> Texts \cup {None}]
    Cap,            \* 20000: the documents after which a directory is left
    MaxEdits,       \* bound: how often the files change
    None,           \* no file, or one that cannot be read as text
    Nobody          \* the holder of a free lock

Operations == Ingestions \cup Searches \cup Probes

Paths == UNION {Range(Tree[d]) : d \in 1 .. Len(Tree)}

ASSUME IndexAssumption ==
    /\ Ingestions \cap (Searches \cup Probes) = {}
    /\ SourceOf \in [Ingestions -> Sources]
    /\ Tree # << >> /\ Tree \in Seq(Seq(Paths))
    /\ \A d, e \in 1 .. Len(Tree) : \A m \in 1 .. Len(Tree[d]), n \in 1 .. Len(Tree[e]) :
          Tree[d][m] = Tree[e][n] => d = e /\ m = n
    /\ Disks \subseteq [Paths -> Texts \cup {None}]
    /\ Cap \in Nat \ {0}
    /\ MaxEdits \in Nat
    /\ None \notin Texts
    /\ Nobody \notin Operations

VARIABLES
    disk,           \* [Paths -> Texts \cup {None}]: the files
    edits,          \* how often they have changed
    index,          \* table knowledge_documents: [Sources -> set of documents]
    lock,           \* _db_lock: its holder, or Nobody
    loop,           \* the probe that keeps the event loop's thread, or Nobody
    pc,             \* [Operations -> where the call is]
    dir,            \* [Ingestions -> the directory it walks]
    todo,           \* [Ingestions -> the positions in it of the listed files still to read]
    docs,           \* [Ingestions -> the documents it has read]
    during,         \* history: every document on disk since the walk began
    steady,         \* history: those on disk ever since it began
    log,            \* history: the ingestions that were committed, in order
    settled         \* history: the ingestions answered before it began

walk == <<dir, todo, docs, during, steady, settled>>
files == <<disk, edits>>
table == <<index, log>>
vars == <<files, table, lock, loop, pc, walk>>

Document == [path : Paths, text : Texts]

PC == {"idle", "walking", "waiting", "holding", "returning", "done", "failed"}

OnDisk == {d \in Document : disk[d.path] = d.text}

\* The files of a directory that os.walk lists now, by their place in it.
Listing(d) == {n \in 1 .. Len(Tree[d]) : disk[Tree[d][n]] # None}

\* The file the ingestion reads next, and the document it makes.
IsNext(i, n) == n \in todo[i] /\ \A m \in todo[i] : n <= m

DocumentAt(i, n) ==
    LET p == Tree[dir[i]][n] IN [path |-> p, text |-> disk[p]]

Init ==
    /\ disk \in Disks
    /\ edits = 0
    /\ index = [s \in Sources |-> {}]
    /\ lock = Nobody
    /\ loop = Nobody
    /\ pc = [o \in Operations |-> "idle"]
    /\ dir = [i \in Ingestions |-> 1]
    /\ todo = [i \in Ingestions |-> {}]
    /\ docs = [i \in Ingestions |-> {}]
    /\ during = [i \in Ingestions |-> {}]
    /\ steady = [i \in Ingestions |-> {}]
    /\ log = << >>
    /\ settled = [i \in Ingestions |-> {}]

Goto(o, label) == pc' = [pc EXCEPT ![o] = label]

-----------------------------------------------------------------------------
(* An ingestion walks the tree.                                            *)

\* The root is a directory under a grant; the walk goes to a worker thread.
BeginIngestion(i) ==
    /\ pc[i] = "idle" /\ loop = Nobody
    /\ todo' = [todo EXCEPT ![i] = Listing(1)]
    /\ during' = [during EXCEPT ![i] = OnDisk]
    /\ steady' = [steady EXCEPT ![i] = OnDisk]
    /\ settled' = [settled EXCEPT ![i] = {j \in Ingestions : pc[j] = "done"}]
    /\ Goto(i, "walking")
    /\ UNCHANGED <<files, table, lock, loop, dir, docs>>

\* No grant covers the root, or it is no directory.
RefuseRoot(i) ==
    /\ pc[i] = "idle" /\ loop = Nobody
    /\ Goto(i, "failed")
    /\ UNCHANGED <<files, table, lock, loop, walk>>

\* A file is read, and its directory left if that makes the cap.
ReadFile(i, n) ==
    LET d == DocumentAt(i, n)
        read == docs[i] \cup {d}
    IN  /\ pc[i] = "walking" /\ IsNext(i, n)
        /\ d.text # None
        /\ docs' = [docs EXCEPT ![i] = read]
        /\ todo' = [todo EXCEPT ![i] = IF Cardinality(read) >= Cap THEN {} ELSE @ \ {n}]
        /\ UNCHANGED <<files, table, lock, loop, pc, dir, during, steady, settled>>

\* Mutant of SkipFile: a file that cannot be read ends its directory.
SkipDirectory(i, n) ==
    /\ pc[i] = "walking" /\ IsNext(i, n)
    /\ DocumentAt(i, n).text = None
    /\ todo' = [todo EXCEPT ![i] = {}]
    /\ UNCHANGED <<files, table, lock, loop, pc, dir, docs, during, steady, settled>>

\* It was listed, and is gone or no longer text.
SkipFile(i, n) ==
    /\ pc[i] = "walking" /\ IsNext(i, n)
    /\ DocumentAt(i, n).text = None
    /\ todo' = [todo EXCEPT ![i] = @ \ {n}]
    /\ UNCHANGED <<files, table, lock, loop, pc, dir, docs, during, steady, settled>>

NextDirectory(i) ==
    /\ pc[i] = "walking" /\ todo[i] = {}
    /\ dir[i] < Len(Tree)
    /\ dir' = [dir EXCEPT ![i] = @ + 1]
    /\ todo' = [todo EXCEPT ![i] = Listing(dir[i] + 1)]
    /\ UNCHANGED <<files, table, lock, loop, pc, docs, during, steady, settled>>

FinishWalk(i) ==
    /\ pc[i] = "walking" /\ todo[i] = {}
    /\ dir[i] = Len(Tree)
    /\ Goto(i, "waiting")
    /\ UNCHANGED <<files, table, lock, loop, walk>>

-----------------------------------------------------------------------------
(* The thread lock and the database.                                       *)

\* A search goes to a thread of its own; a probe stays on the loop's.
BeginSearch(q) ==
    /\ pc[q] = "idle" /\ loop = Nobody
    /\ Goto(q, "waiting")
    /\ UNCHANGED <<files, table, lock, loop, walk>>

BeginProbe(p) ==
    /\ pc[p] = "idle" /\ loop = Nobody
    /\ loop' = p
    /\ Goto(p, "waiting")
    /\ UNCHANGED <<files, table, lock, walk>>

Lock(o) ==
    /\ pc[o] = "waiting" /\ lock = Nobody
    /\ lock' = o
    /\ Goto(o, "holding")
    /\ UNCHANGED <<files, table, loop, walk>>

\* Mutant of Replace: the new rows are added to the ones of the source.
AddRows(i) ==
    /\ pc[i] = "holding"
    /\ index' = [index EXCEPT ![SourceOf[i]] = @ \cup docs[i]]
    /\ log' = Append(log, i)
    /\ lock' = Nobody
    /\ Goto(i, "returning")
    /\ UNCHANGED <<files, loop, walk>>

\* Mutant of Replace: the rows are handed to the event loop while the lock is held.
ReplaceOnLoop(i) ==
    /\ pc[i] = "holding" /\ loop = Nobody
    /\ index' = [index EXCEPT ![SourceOf[i]] = docs[i]]
    /\ log' = Append(log, i)
    /\ lock' = Nobody
    /\ Goto(i, "returning")
    /\ UNCHANGED <<files, loop, walk>>

\* DELETE and INSERT in one transaction; then the lock is freed.
Replace(i) ==
    /\ pc[i] = "holding"
    /\ index' = [index EXCEPT ![SourceOf[i]] = docs[i]]
    /\ log' = Append(log, i)
    /\ lock' = Nobody
    /\ Goto(i, "returning")
    /\ UNCHANGED <<files, loop, walk>>

\* The search's rows, or the probe's counts.
ReadRows(o) ==
    /\ pc[o] = "holding" /\ o \notin Ingestions
    /\ lock' = Nobody
    /\ loop' = IF o = loop THEN Nobody ELSE loop
    /\ Goto(o, IF o = loop THEN "done" ELSE "returning")
    /\ UNCHANGED <<files, table, walk>>

\* Mutant of Abort: no transaction is open, so the DELETE stays.
AbortWithoutRollback(o) ==
    /\ pc[o] = "holding"
    /\ index' = IF o \in Ingestions THEN [index EXCEPT ![SourceOf[o]] = {}] ELSE index
    /\ lock' = Nobody
    /\ loop' = IF o = loop THEN Nobody ELSE loop
    /\ Goto(o, "failed")
    /\ UNCHANGED <<files, log, walk>>

\* Mutant of Abort: the error is lost between the thread and the route.
AbortQuietly(o) ==
    /\ pc[o] = "holding"
    /\ lock' = Nobody
    /\ loop' = IF o = loop THEN Nobody ELSE loop
    /\ Goto(o, IF o = loop THEN "failed" ELSE "returning")
    /\ UNCHANGED <<files, table, walk>>

\* A database error: the transaction rolls back, the lock is freed.
Abort(o) ==
    /\ pc[o] = "holding"
    /\ lock' = Nobody
    /\ loop' = IF o = loop THEN Nobody ELSE loop
    /\ Goto(o, "failed")
    /\ UNCHANGED <<files, table, walk>>

\* The thread has ended: its coroutine answers when the loop runs it.
Return(o) ==
    /\ pc[o] = "returning" /\ loop = Nobody
    /\ Goto(o, "done")
    /\ UNCHANGED <<files, table, lock, loop, walk>>

-----------------------------------------------------------------------------
(* The world around them.                                                  *)

\* A file is written, replaced or removed.
Edit(p, c) ==
    /\ edits < MaxEdits
    /\ c # disk[p]
    /\ disk' = [disk EXCEPT ![p] = c]
    /\ edits' = edits + 1
    /\ during' = [i \in Ingestions |->
                     IF pc[i] = "walking" THEN during[i] \cup OnDisk' ELSE during[i]]
    /\ steady' = [i \in Ingestions |->
                     IF pc[i] = "walking" THEN steady[i] \cap OnDisk' ELSE steady[i]]
    /\ UNCHANGED <<table, lock, loop, pc, dir, todo, docs, settled>>

Restart ==
    /\ pc' = [o \in Operations |-> IF pc[o] \in {"idle", "done"} THEN pc[o] ELSE "failed"]
    /\ \E o \in Operations : pc[o] \notin {"idle", "done", "failed"}
    /\ lock' = Nobody
    /\ loop' = Nobody
    /\ UNCHANGED <<files, table, walk>>

Quiet ==
    /\ \A o \in Operations : pc[o] \in {"done", "failed"}
    /\ UNCHANGED vars

-----------------------------------------------------------------------------

Runs(o) == Lock(o) \/ ReadRows(o) \/ Return(o)

Ingest(i) ==
    \/ \E n \in todo[i] : ReadFile(i, n) \/ SkipFile(i, n)
    \/ NextDirectory(i) \/ FinishWalk(i) \/ Replace(i)

Begin ==
    \/ \E i \in Ingestions : BeginIngestion(i) \/ RefuseRoot(i)
    \/ \E q \in Searches : BeginSearch(q)
    \/ \E p \in Probes : BeginProbe(p)

Next ==
    \/ Begin
    \/ \E i \in Ingestions : Ingest(i)
    \/ \E o \in Operations : Runs(o) \/ Abort(o)
    \/ \E p \in Paths, c \in Texts \cup {None} : Edit(p, c)
    \/ Restart
    \/ Quiet

\* Threads and the loop go on. That the database fails is not promised.
Fairness ==
    /\ \A i \in Ingestions : WF_vars(Ingest(i))
    /\ \A o \in Operations : WF_vars(Runs(o))

Spec == Init /\ [][Next]_vars /\ Fairness

-----------------------------------------------------------------------------
(* Properties.                                                             *)

TypeOK ==
    /\ disk \in [Paths -> Texts \cup {None}]
    /\ edits \in 0 .. MaxEdits
    /\ index \in [Sources -> SUBSET Document]
    /\ lock \in Operations \cup {Nobody}
    /\ loop \in Probes \cup {Nobody}
    /\ pc \in [Operations -> PC]
    /\ dir \in [Ingestions -> 1 .. Len(Tree)]
    /\ todo \in [Ingestions -> SUBSET Nat]
    /\ docs \in [Ingestions -> SUBSET Document]
    /\ during \in [Ingestions -> SUBSET Document]
    /\ steady \in [Ingestions -> SUBSET Document]
    /\ log \in Seq(Ingestions)
    /\ settled \in [Ingestions -> SUBSET Ingestions]

(***************************************************************************)
(* docs/CONNECTING-DATA.md:32: "Ingestion replaces documents for the named *)
(* source atomically." Whatever ingestions, searches and failures overlap, *)
(* the table only ever changes by a whole replacement, once for each       *)
(* ingestion (store.py:152-157).                                           *)
(***************************************************************************)
Promise == INSTANCE AtomicIndex

AtomicReplacement == Promise!Spec

(***************************************************************************)
(* The rows of a source are the ones its last committed ingestion read: a  *)
(* failed transaction leaves those of the one before it, and an ingestion  *)
(* that is walking shows nothing of its walk (store.py:133-157).           *)
(***************************************************************************)
IndexIsLastWalk ==
    \A s \in Sources :
        \/ index[s] = {} /\ \A n \in 1 .. Len(log) : SourceOf[log[n]] # s
        \/ \E n \in 1 .. Len(log) :
              /\ SourceOf[log[n]] = s /\ index[s] = docs[log[n]]
              /\ \A m \in n + 1 .. Len(log) : SourceOf[log[m]] # s

(***************************************************************************)
(* What an ingestion has read, once its walk is over, were files of the    *)
(* tree while it walked, one text for each; and if it stayed under the     *)
(* cap, no file that was there all the time is missing, whatever appeared, *)
(* changed or vanished beside it (store.py:134-151).                       *)
(***************************************************************************)
WalkIsFaithful ==
    \A i \in Ingestions :
        /\ docs[i] \subseteq during[i]
        /\ \A d, e \in docs[i] : d.path = e.path => d = e
        /\ pc[i] \in {"waiting", "holding", "returning", "done"}
              => Cardinality(docs[i]) >= Cap \/ steady[i] \subseteq docs[i]

(***************************************************************************)
(* The cap leaves a directory and not the walk: every directory after it   *)
(* still adds one document, and no more (store.py:150-151).                *)
(***************************************************************************)
WalkBounded ==
    \A i \in Ingestions : Cardinality(docs[i]) <= Cap + Len(Tree) - 1

(***************************************************************************)
(* An ingestion that was answered has taken effect, and only one that had  *)
(* not been answered when it began can have replaced its rows: an older    *)
(* walk may win over a newer one, but never over one that began after it   *)
(* had been answered (store.py:126-160).                                   *)
(***************************************************************************)
AnsweredIsIndexed ==
    \A i \in Ingestions : pc[i] = "done" =>
        \E n \in 1 .. Len(log) :
            /\ log[n] = i
            /\ \A m \in n + 1 .. Len(log) : log[m] \notin settled[i]

(***************************************************************************)
(* Every call that begins ends: although a probe keeps the event loop      *)
(* until it has the thread lock, nobody who holds that lock waits for the  *)
(* loop (store.py:152, 164, 188-193).                                      *)
(***************************************************************************)
CallsEnd ==
    \A o \in Operations : pc[o] = "walking" \/ pc[o] = "waiting" ~> pc[o] \in {"done", "failed"}

(***************************************************************************)
(* What an ingestion takes into the index is a faithful walk of the tree,  *)
(* under the cap complete, and beyond the cap bounded: a skipped file      *)
(* skips no other, and a directory left at the cap leaves no more than the *)
(* walk is meant to leave (store.py:134-151).                              *)
(***************************************************************************)
WalkIsSound == WalkIsFaithful /\ WalkBounded
=============================================================================
