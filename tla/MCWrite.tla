------------------------------ MODULE MCWrite ------------------------------
(* Schemas, trees and payloads for Write. Relation p points at itself (up), *)
(* r points at p; a has a key of two columns and b points at it.            *)
EXTENDS Write

Table(cols, pk) ==
  [cols |-> cols, pk |-> pk, uniques |-> {}, indexes |-> {pk}, fks |-> {}, dflt |-> <<>>, notnull |-> pk,
   computed |-> {}]

Fk(pairs, to) == [pairs |-> pairs, to |-> to]

MCTables ==
  [p |-> [Table(<<"id", "up", "v">>, {"id"}) EXCEPT
            !.uniques = {{"v"}}, !.fks = {Fk({<<"up", "id">>}, "p")}, !.dflt = "id" :> Serial,
            !.indexes = {{"id"}, {"up"}, {"v"}}],
   r |-> [Table(<<"id", "p", "v">>, {"id"}) EXCEPT
            !.fks = {Fk({<<"p", "id">>}, "p")}, !.dflt = "id" :> Serial @@ "v" :> 2,
            !.notnull = {"id", "p"}, !.indexes = {{"id"}, {"p"}}]]

CompositeTables ==
  [a |-> Table(<<"x", "y">>, {"x", "y"}),
   b |-> [Table(<<"id", "x", "y">>, {"id"}) EXCEPT
            !.fks = {Fk({<<"x", "x">>, <<"y", "y">>}, "a")}, !.dflt = "id" :> Serial,
            !.indexes = {{"id"}, {"x", "y"}}]]

Full == [star |-> "full", except |-> {}, keys |-> <<>>]
Root(rel, mode) ==
  [rel |-> rel, parent |-> 0, alias |-> "", on |-> {}, mode |-> mode, conflict |-> {}, ins |-> {},
   upd |-> {}, sel |-> Full, where |-> <<>>, order |-> <<>>, limit |-> Null]
Join(parent, rel, alias, on, mode) ==
  [Root(rel, mode) EXCEPT !.parent = parent, !.alias = alias, !.on = on]

Up(mode) == Join(1, "p", "boss", {<<"id", "up">>}, mode)
Rs(mode) == Join(1, "r", "rs", {<<"p", "id">>}, mode)
OfP(mode) == Join(1, "p", "owner", {<<"id", "p">>}, mode)
Twos(n) == [n EXCEPT !.where = <<"v", 2>>]

O(node, parent, vals) == [node |-> node, parent |-> parent, vals |-> vals]
V(v) == "v" :> v
IdV(i, v) == "id" :> i @@ "v" :> v
Item(tree, data, objs) == [tree |-> tree, data |-> data, objs |-> objs, general |-> FALSE, rollback |-> FALSE]
General(item) == [item EXCEPT !.general = TRUE]
Undone(item) == [item EXCEPT !.rollback = TRUE]
Write1(tree, objs) == Item(tree, "array", objs)

P(i, up, v) == [id |-> i, up |-> up, v |-> v]
R(i, p, v) == [id |-> i, p |-> p, v |-> v]

MCStarts ==
  {[p |-> {P(1, Null, 1), P(2, 1, 2)}, r |-> {R(1, 1, 1), R(2, 1, 2), R(3, 2, 2)}],
   [p |-> {P(1, Null, 1)}, r |-> {}]}

\* One relation.
Plain ==
  {Write1(<<Root("r", "insert")>>, <<O(1, 0, V(1) @@ "p" :> 1), O(1, 0, "p" :> 1)>>),
   Write1(<<Root("r", "upsert")>>, <<O(1, 0, IdV(2, 1) @@ "p" :> 1), O(1, 0, V(Null) @@ "p" :> 1)>>),
   Write1(<<Root("r", "update-existing")>>, <<O(1, 0, IdV(2, Null)), O(1, 0, "id" :> 1)>>),
   Write1(<<[Root("p", "upsert") EXCEPT !.ins = {"id", "v"}]>>, <<O(1, 0, IdV(2, 5) @@ "up" :> 2)>>),
   Write1(<<[Root("p", "upsert") EXCEPT !.conflict = {"v"}]>>, <<O(1, 0, V(2)), O(1, 0, V(5) @@ "up" :> 1)>>),
   Write1(<<Root("r", "insert")>>, <<>>),
   Item(<<Twos([Root("r", "update") EXCEPT !.limit = 2])>>, "object", <<O(1, 0, V(1))>>),
   Item(<<Twos(Root("r", "delete"))>>, "none", <<>>)}

PlainGeneral == {General(item) : item \in {i \in Plain : i.tree[1].mode # "delete"}}

\* Refused, each for a reason of its own.
Bad ==
  {Write1(<<Root("r", "merge")>>, <<>>),
   Write1(<<Root("r", "readonly")>>, <<>>),
   Item(<<Root("r", "insert")>>, "object", <<>>),
   Item(<<Twos(Root("r", "delete"))>>, "array", <<O(1, 0, IdV(1, 1))>>),
   Write1(<<[Root("r", "insert") EXCEPT !.sel.except = {"id"}]>>, <<>>),
   Write1(<<Root("p", "upsert"), [Rs("") EXCEPT !.alias = "v"]>>, <<>>),
   Write1(<<Root("p", "upsert"), [Rs("") EXCEPT !.on = {<<"v", "v">>}]>>, <<>>)}

\* The r's of two rows of p: one kept or moved, one new, none.
Nested ==
  {Write1(<<Root("p", "upsert"), Rs(mode)>>, objs) :
     mode \in {"", "insert", "merge-update", "merge-new", "deleteonly"},
     objs \in {<<O(1, 0, IdV(1, 1)), O(2, 1, IdV(1, 3)), O(2, 1, V(3)), O(1, 0, IdV(2, 2))>>,
               <<O(1, 0, IdV(2, 2)), O(2, 1, "id" :> 1), O(2, 1, IdV(9, Null)), O(1, 0, IdV(1, 1))>>}}

Expr(wrap, kind, name, col) == [wrap |-> wrap, kind |-> kind, name |-> name, col |-> col]
Summary ==
  [star |-> "own", except |-> {"v"},
   keys |-> [w |-> Expr("coalesce", "col", "v", ""), rs |-> Id("rs"), boss |-> Id("boss"),
             sum |-> Expr("bare", "agg", "rs", "v"), top |-> Expr("op", "hop", "boss", "v")]]

\* v is read under one key and written under another.
Split ==
  [star |-> "own", except |-> {"v"},
   keys |-> [now |-> Expr("bare", "get", "v", ""), then |-> Expr("bare", "set", "v", "")]]

\* Other shapes of tree.
Trees ==
  {\* a boss, and the r's of each row
   Write1(<<Root("p", "upsert"), Up(""), Rs("")>>,
          <<O(1, 0, V(5)), O(2, 1, V(6)), O(3, 1, V(1)), O(1, 0, IdV(1, 7)), O(3, 4, IdV(1, 2))>>),
   Write1(<<[Root("p", "insert") EXCEPT !.sel = Summary], Up("upsert"), Rs("insert")>>,
          <<O(1, 0, "w" :> 5), O(2, 1, IdV(2, 6)), O(3, 1, V(1)), O(3, 1, V(Null)), O(1, 0, "w" :> 8)>>),
   Write1(<<Root("r", "upsert"), OfP("")>>,
          <<O(1, 0, IdV(1, 2)), O(2, 1, V(5)), O(1, 0, V(1)), O(2, 3, IdV(1, 3))>>),
   \* a p found by another key, whose id its r's need
   Write1(<<[Root("p", "upsert") EXCEPT !.conflict = {"v"}], Rs("")>>,
          <<O(1, 0, V(1)), O(2, 1, V(1)), O(1, 0, V(2)), O(2, 3, V(2))>>),
   \* two nodes over r, told apart by their where
   Write1(<<Root("p", "upsert"), [Rs("") EXCEPT !.alias = "ones", !.where = <<"v", 1>>],
            [Twos(Rs("")) EXCEPT !.alias = "twos"]>>,
          <<O(1, 0, IdV(1, 1)), O(2, 1, V(1)), O(3, 1, V(2))>>),
   Write1(<<[Root("r", "upsert") EXCEPT !.sel = Split]>>,
          <<O(1, 0, "id" :> 1 @@ "p" :> 1 @@ "now" :> 3 @@ "then" :> 1), O(1, 0, "p" :> 1)>>),
   \* a p that r's may still point at is deleted
   Write1(<<Root("p", "upsert"), Join(1, "p", "staff", {<<"up", "id">>}, "merge")>>, <<O(1, 0, IdV(1, 1))>>),
   Write1(<<Root("r", "insert"), OfP("readonly")>>, <<O(1, 0, V(1))>>),
   Item(<<[Twos(Root("r", "update")) EXCEPT !.order = <<"p", "id">>], OfP("")>>, "object", <<O(1, 0, V(2))>>)}

Rollbacks ==
  {Undone(item) : item \in {i \in Plain : i.tree[1].mode = "update"}
                    \cup {General(i) : i \in {j \in Plain : j.tree[1].mode = "insert"}}
                    \cup {i \in Nested : i.tree[2].mode = "merge-new"}}

MCItems == Rollbacks \cup Plain \cup PlainGeneral \cup Bad \cup Nested \cup Trees

CompositeStarts ==
  {[a |-> {[x |-> i, y |-> j] : i, j \in 1..2},
    b |-> {[id |-> 1, x |-> 1, y |-> 1], [id |-> 2, x |-> 1, y |-> 2]}]}

\* Two parents, (1, 1) and (2, 2), with nothing under them.
CompositeItems ==
  {Write1(<<Root("a", "update-existing"), Join(1, "b", "bs", {<<"x", "x">>, <<"y", "y">>}, "merge")>>,
          <<O(1, 0, "x" :> 1 @@ "y" :> 1), O(1, 0, "x" :> 2 @@ "y" :> 2)>>)}

\* Rows of p written with boss left out, or joined only to be read.
BossItems ==
  {Write1(<<Root("p", "update-existing"), Up("")>>, <<O(1, 0, IdV(2, 5))>>),
   Write1(<<Root("p", "update-existing"), Up("readonly")>>, <<O(1, 0, IdV(2, 5))>>)}

=============================================================================
