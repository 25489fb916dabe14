----------------------------- MODULE MCDownload -----------------------------
(* Queries on either metadata store, one pack of several blobs, or two of  *)
(* one blob: nothing but the stores and the gauge connects handlers.       *)
EXTENDS PackDownload

CONSTANTS one, two, empty, huge

MCDigests == {one, two, empty, huge}
MCSize == [d \in MCDigests |-> CASE d = empty -> 0 [] d = one -> 1 [] d = two -> 2 [] d = huge -> 9]
Lists == {<<one, two>>, <<huge, two, one>>, <<two, one, two>>, <<one, two, one, two>>}

Setup(backend, clients, asks, stored, published) ==
    [backend |-> backend, clients |-> clients, asks |-> asks,
     stored |-> stored, published |-> published]

MCSetups ==
    {Setup(b, Queries, Lists, {one}, {one, two}) : b \in {"memory", "postgres"}}
    \cup {Setup("postgres", {CHOOSE k \in Packs : TRUE}, Lists \cup {<<two, empty, one>>}, {one, two, empty}, {}),
          Setup("postgres", Packs, {<<one>>}, {one}, {})}
==============================================================================
