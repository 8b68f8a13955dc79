------------------------- MODULE MCConnectorSearch --------------------------
(* A folder, the three services and the index.                              *)
EXTENDS ConnectorSearch, TLC

H(s, l, n) == [by |-> s, source |-> s, locator |-> l, score |-> n]

(* A document of the index, labelled with the source it was ingested from. *)
I(source, l, n) == [by |-> 5, source |-> source, locator |-> l, score |-> n]

MCSources == 1 .. 5
MCKind == <<"files", "vector", "web", "git", "index">>

(* A folder with ties and more files than a walk reads, of which it meets   *)
(* the best match last, against services that score alike.                   *)
MCTies ==
    <<{H(1, 1, 1), H(1, 2, 0), H(1, 3, 1), H(1, 4, 2)},
      {},
      {H(3, 1, 1)},
      {H(4, 1, 1), H(4, 4, 0)},
      {I(2, 4, 1), I(9, 1, 1), I(9, 2, 2), I(9, 3, 1)}>>

(* A single file against an index and services that score higher.           *)
MCHigher ==
    <<{H(1, 1, 1)},
      {H(2, 1, 3)},
      {H(3, 1, 1)},
      {H(4, 1, 3), H(4, 2, 3), H(4, 4, 0)},
      {I(2, 4, 3), I(9, 1, 1), I(9, 2, 2), I(9, 3, 3)}>>

MCCorpora == {MCTies, MCHigher}
=============================================================================
