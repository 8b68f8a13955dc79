---------------------------- MODULE AtomicIndex -----------------------------
(***************************************************************************)
(* What the knowledge index promises (docs/CONNECTING-DATA.md:32): an      *)
(* ingestion replaces the documents of its source, all of them, in one     *)
(* step, at most once; nothing else changes the index.                     *)
(***************************************************************************)
EXTENDS Sequences, Functions

CONSTANTS Sources, Ingestions, SourceOf, Paths, Texts

VARIABLES
    index,      \* [Sources -> set of documents]
    log         \* the ingestions that have taken effect, in order

vars == <<index, log>>

Document == [path : Paths, text : Texts]

\* Sets of documents with one text for a path: the table's primary key.
Shelves == {docs \in SUBSET Document :
               \A d, e \in docs : d.path = e.path => d = e}

Init ==
    /\ index = [s \in Sources |-> {}]
    /\ log = << >>

Replace(i) ==
    /\ i \notin Range(log)
    /\ log' = Append(log, i)
    /\ \E docs \in Shelves : index' = [index EXCEPT ![SourceOf[i]] = docs]

Next == \E i \in Ingestions : Replace(i)

Spec == Init /\ [][Next]_vars
=============================================================================
