------------------------------ MODULE MCHomarr ------------------------------
(***************************************************************************)
(* A small instance of Homarr for TLC, and the boards to pack.              *)
(***************************************************************************)
EXTENDS Homarr, TLC

\* One service, the same with another title and a second one of that title, and
\* two that share a URL.
Row(url, title) == [url |-> url, title |-> title]
SomeCatalogs == {"n1" :> Row("u1", "t1"),
                 "n1" :> Row("u1", "t2") @@ "n2" :> Row("u2", "t2"),
                 "n1" :> Row("u2", "t1") @@ "n2" :> Row("u2", "t2")}
SomeWanted == {[kind |-> "a", url |-> "x"], [kind |-> "b", url |-> "y"]}

Boxes == (1 .. 4) \X (1 .. 2)
SizeLists == UNION {[1 .. n -> Boxes] : n \in 0 .. 3}
SomeLayouts == [sizes : SizeLists, columns : 1 .. 3]
=============================================================================
