------------------------------- MODULE Query -------------------------------
(***************************************************************************)
(* A query tree: how it is resolved against the introspected schema, what  *)
(* of it is writable, and what the SELECT compiled from it returns.        *)
(*                                                                         *)
(* A tree is a sequence of nodes, parents before their children, siblings  *)
(* in the order of their aliases:                                          *)
(*   rel, parent (0 at the root), alias, on (pairs <<own column, parent's  *)
(*   column>>), mode ("" when not given), conflict (on_conflict's columns, *)
(*   {} when not given), ins and upd (insert_columns and update_columns,   *)
(*   {} when not given), sel, where, order, limit.                         *)
(* A select is [star, except, keys]: star is "own", "full" or "none", keys *)
(* maps an output key to an expression. An expression is what stands       *)
(* inside its operators, and whether those only coalesce:                  *)
(*   [wrap, kind, name, col], wrap one of "bare", "coalesce", "op", kind   *)
(*   one of "id", "col", "get" and "set" (a column only read, or only      *)
(*   written), "hop" and "agg" (of column col, through the child name).    *)
(* Tables gives, for each relation, its columns in order, pk, uniques,     *)
(* indexes, fks, defaults, NOT NULL columns and computed fields. A row is  *)
(* a function on the columns. Relations are tables: functions, views and   *)
(* generated columns are left out, and so is on_conflict by a name.        *)
(***************************************************************************)
EXTENDS Integers, Sequences, FiniteSets, SequencesExt, FiniteSetsExt, TLC

CONSTANTS Tables,   \* the introspected schema
          MaxDepth  \* pg.query.max_depth

ASSUME QueryAssumption == MaxDepth \in Nat \ {0}

Null == -1

WhereDriven == {"update", "delete"}
DeleteBearing == {"merge", "merge-new", "merge-update", "deleteonly"}

Cols(rel) == ToSet(Tables[rel].cols)
Parent(t, i) == t[t[i].parent]
Kids(t, i) == {j \in DOMAIN t : t[j].parent = i}

Local(n) == {p[1] : p \in n.on}
Distant(n) == {p[2] : p \in n.on}

-----------------------------------------------------------------------------
(* Resolution of the tree (node_resolve.go) and of its joins.              *)

FindUniqueConstraint(rel, cols) ==
  cols # {} /\ cols \in {Tables[rel].pk} \cup Tables[rel].uniques

\* Every foreign key between the two, in either direction, as pairs of
\* a column of rel and one of other.
RelationshipsTo(rel, other) ==
  {fk.pairs : fk \in {f \in Tables[rel].fks : f.to = other}}
  \cup {{<<p[2], p[1]>> : p \in fk.pairs} : fk \in {f \in Tables[other].fks : f.to = rel}}

ResolveJoin(rel, parent, n) ==
  LET keys == RelationshipsTo(rel, parent)
      inverted == \E k \in keys : /\ {p[1] : p \in k} = Local(n)
                                  /\ {p[2] : p \in k} = Distant(n)
  IN /\ n.on # {}
     /\ \/ n.on \in keys
        \/ /\ ~inverted
           /\ \/ FindUniqueConstraint(rel, Local(n))
              \/ FindUniqueConstraint(parent, Distant(n))
     /\ Local(n) \in Tables[rel].indexes

\* To-one: the joined relation's own columns are unique.
Outgoing(t, i) == t[i].parent # 0 /\ FindUniqueConstraint(t[i].rel, Local(t[i]))
Incoming(t, i) == t[i].parent # 0 /\ ~Outgoing(t, i)

OutgoingNodes(t, i) == {j \in Kids(t, i) : Outgoing(t, j)}
IncomingNodes(t, i) == {j \in Kids(t, i) : Incoming(t, j)}

DefaultMode(t, i, up) ==
  CASE up \in WhereDriven -> "readonly"
    [] t[i].parent = 0 -> "insert"
    [] Outgoing(t, i) -> "upsert"
    [] OTHER -> "merge"

\* The write mode of each node: up is the parent's.
Modes(t) ==
  LET mode[i \in DOMAIN t] ==
        IF t[i].mode # "" THEN t[i].mode
        ELSE DefaultMode(t, i, IF t[i].parent = 0 THEN "" ELSE mode[t[i].parent])
  IN mode

Depth(t) ==
  LET depth[i \in DOMAIN t] == IF t[i].parent = 0 THEN 1 ELSE depth[t[i].parent] + 1
  IN depth

CheckWriteModePlacement(t, i) ==
  LET m == Modes(t)[i]
      up == IF t[i].parent = 0 THEN "" ELSE Modes(t)[t[i].parent]
  IN /\ m \in WhereDriven => /\ t[i].parent = 0
                             /\ t[i].where # <<>>
                             /\ m = "delete" => Kids(t, i) = {}
     /\ m \in DeleteBearing => t[i].parent # 0 /\ ~Outgoing(t, i)
     /\ up \in WhereDriven => m = "readonly"

ResolveNode(t, i) ==
  /\ Depth(t)[i] <= MaxDepth
  /\ t[i].parent # 0 => /\ ResolveJoin(t[i].rel, Parent(t, i).rel, t[i])
                        /\ Local(t[i]) \subseteq Cols(t[i].rel)
                        /\ Distant(t[i]) \subseteq Cols(Parent(t, i).rel)
  /\ CheckWriteModePlacement(t, i)
  /\ t[i].conflict # {} => FindUniqueConstraint(t[i].rel, t[i].conflict)
  /\ t[i].ins \cup t[i].upd \subseteq Cols(t[i].rel)

-----------------------------------------------------------------------------
(* Names and shapes (scope.go, expression_resolve.go, shape.go).           *)

\* What a bare name may mean in a node: its columns, its computed fields, its
\* children's aliases.
ScopeMatches(t, i, name) ==
  {<<"column", c>> : c \in Cols(t[i].rel) \cap {name}}
  \cup {<<"computed", f>> : f \in Tables[t[i].rel].computed \cap {name}}
  \cup {<<"node", j>> : j \in {k \in Kids(t, i) : t[k].alias = name}}

\* More than one meaning is an error, as is none.
LookupInScope(t, i, name) ==
  LET found == ScopeMatches(t, i, name)
  IN IF Cardinality(found) = 1 THEN CHOOSE f \in found : TRUE ELSE <<"error", name>>

ChildOf(t, i, alias) == LookupInScope(t, i, alias)

\* A hop into a child: what the child's scope calls name.
ResolveHopInto(t, i, alias, name) ==
  /\ ChildOf(t, i, alias)[1] = "node"
  /\ LookupInScope(t, ChildOf(t, i, alias)[2], name)[1] = "column"

\* "." only reaches through a join to one row (compileScalarHop's error).
ResolveChain(t, i, e) ==
  CASE e.kind = "id" -> LookupInScope(t, i, e.name)[1] # "error"
    [] e.kind = "col" -> LookupInScope(t, i, e.name)[1] = "column"
    [] e.kind \in {"get", "set"} -> e.name \in Cols(t[i].rel)
    [] e.kind = "hop" -> ResolveHopInto(t, i, e.name, e.col) /\ Outgoing(t, ChildOf(t, i, e.name)[2])

ResolveExpr(t, i, e) ==
  IF e.kind = "agg" THEN ResolveHopInto(t, i, e.name, e.col) ELSE ResolveChain(t, i, e)

Col(c) == [wrap |-> "bare", kind |-> "col", name |-> c, col |-> ""]
Id(a) == [wrap |-> "bare", kind |-> "id", name |-> a, col |-> ""]

OwnKeys(t, i) ==
  IF t[i].sel.star = "none" THEN {} ELSE Cols(t[i].rel) \ t[i].sel.except

AliasKeys(t, i) ==
  IF t[i].sel.star = "full" THEN {t[j].alias : j \in Kids(t, i)} ELSE {}

\* The output keys of a node and the expression under each.
SelectFieldsFor(t, i) ==
  [k \in OwnKeys(t, i) \cup AliasKeys(t, i) \cup DOMAIN t[i].sel.keys |->
     CASE k \in DOMAIN t[i].sel.keys -> t[i].sel.keys[k]
       [] k \in OwnKeys(t, i) -> Col(k)
       [] OTHER -> Id(k)]

\* A computed key may not hide a column or an alias.
BuildShape(t, i) ==
  /\ DOMAIN t[i].sel.keys \cap (OwnKeys(t, i) \cup AliasKeys(t, i)) = {}
  /\ t[i].sel.except \subseteq Cols(t[i].rel)
  /\ \A k \in DOMAIN t[i].sel.keys : ResolveExpr(t, i, t[i].sel.keys[k])

ResolveExpressions(t, i) ==
  /\ BuildShape(t, i)
  /\ t[i].where # <<>> => LookupInScope(t, i, t[i].where[1])[1] = "column"
  /\ \A c \in ToSet(t[i].order) : LookupInScope(t, i, c)[1] = "column"

\* Resolve: the tree, its expressions, its shapes.
Resolvable(t) == \A i \in DOMAIN t : ResolveNode(t, i) /\ ResolveExpressions(t, i)

\* The child a field embeds: an alias on its own, under no operator.
EmbedChildOf(t, i, e) ==
  IF e.kind = "id" /\ e.wrap = "bare" /\ LookupInScope(t, i, e.name)[1] = "node"
  THEN {LookupInScope(t, i, e.name)[2]} ELSE {}

Embedded(t, i) ==
  UNION {EmbedChildOf(t, i, SelectFieldsFor(t, i)[k]) : k \in DOMAIN SelectFieldsFor(t, i)}

\* The keys under which a column of the node itself can be written.
RecordedKeys(t, i, c) ==
  {k \in DOMAIN SelectFieldsFor(t, i) :
     LET e == SelectFieldsFor(t, i)[k]
     IN /\ e.kind \in {"id", "col", "set"}
        /\ e.name = c}

\* Exactly once, and under nothing but coalescing.
Extractable(t, i, c) ==
  /\ Cardinality(RecordedKeys(t, i, c)) = 1
  /\ \A k \in RecordedKeys(t, i, c) : SelectFieldsFor(t, i)[k].wrap # "op"

Extractors(t, i) == {c \in Cols(t[i].rel) : Extractable(t, i, c)}
KeyOf(t, i, c) == CHOOSE k \in RecordedKeys(t, i, c) : TRUE

IdentityColumns(n) == IF n.conflict # {} THEN n.conflict ELSE Tables[n.rel].pk

IdentityIsWritable(t, i) ==
  /\ IdentityColumns(t[i]) # {}
  /\ IdentityColumns(t[i]) \subseteq Extractors(t, i)

\* A node that stands in the way of a write, readonly subtrees apart.
Unwritable(t) ==
  LET mode == Modes(t)
      pruned[i \in DOMAIN t] ==
        mode[i] = "readonly" \/ (t[i].parent # 0 /\ pruned[t[i].parent])
  IN {i \in DOMAIN t : /\ ~pruned[i]
                       /\ mode[i] \notin WhereDriven
                       /\ ~IdentityIsWritable(t, i)}

\* A to-many child used by more than one output is computed once, in a
\* lateral join: its array, and each aggregate over it.
Consumers(t, i, j) ==
  (IF j \in Embedded(t, i) THEN 1 ELSE 0)
  + Cardinality({k \in DOMAIN SelectFieldsFor(t, i) :
                   /\ SelectFieldsFor(t, i)[k].kind = "agg"
                   /\ ChildOf(t, i, SelectFieldsFor(t, i)[k].name) = <<"node", j>>})

AnalyzeLaterals(t, i) == {j \in IncomingNodes(t, i) : Consumers(t, i, j) > 1}

\* The child an expression reads from, 0 when it reads the node itself.
ChildRead(t, i, e) ==
  LET found == LookupInScope(t, i, e.name)
  IN IF e.kind \in {"id", "hop", "agg"} /\ found[1] = "node" THEN found[2] ELSE 0

\* A resolved tree: each node with what Resolve attaches to it.
Resolve(t) ==
  [i \in DOMAIN t |->
     [mode |-> Modes(t)[i],
      outgoing |-> OutgoingNodes(t, i),
      incoming |-> IncomingNodes(t, i),
      toOne |-> Outgoing(t, i),
      fields |-> [k \in DOMAIN SelectFieldsFor(t, i) |->
                    LET e == SelectFieldsFor(t, i)[k] IN [child |-> ChildRead(t, i, e)] @@ e],
      embeds |-> Embedded(t, i),
      laterals |-> AnalyzeLaterals(t, i),
      extractors |-> [c \in Extractors(t, i) |-> KeyOf(t, i, c)]] @@ t[i]]

-----------------------------------------------------------------------------
(* What the SELECT compiled from a resolved tree returns (sql.go,          *)
(* sql_expr.go). A JSON value is a tuple whose first component says what   *)
(* it is.                                                                  *)

None == <<"null">>
Val(v) == IF v = Null THEN None ELSE <<"val", v>>
Obj(f) == <<"obj", f>>
Arr(s) == <<"arr", s>>

Holds(where, row) == where # <<>> => row[where[1]] = where[2]

\* SQL's equality: null equals nothing.
Joined(n, row, up) == \A p \in n.on : row[p[1]] # Null /\ row[p[1]] = up[p[2]]

\* An order the rows may come in: by the order_by columns, then by the others,
\* nulls last.
Less(v, w) == v # Null /\ (w = Null \/ v < w)
Before(order, a, b) ==
  \E k \in DOMAIN order : /\ Less(a[order[k]], b[order[k]])
                          /\ \A j \in 1..(k - 1) : a[order[j]] = b[order[j]]

InOrder(n, rows) ==
  LET all == n.order \o SelectSeq(Tables[n.rel].cols, LAMBDA c : c \notin ToSet(n.order))
  IN SetToSortSeq(rows, LAMBDA a, b : Before(all, a, b))

Limited(n, s) == IF n.limit = Null \/ n.limit >= Len(s) THEN s ELSE SubSeq(s, 1, n.limit)

\* The rows of a joined node under a row of its parent.
RowsUnder(n, db, up) ==
  Limited(n, InOrder(n, {r \in db[n.rel] : Joined(n, r, up) /\ Holds(n.where, r)}))

\* The array of a lateral join is not coalesced: without rows it is null.
CompileLateralJoin(vals) == IF vals = <<>> THEN None ELSE Arr(vals)

CompileEmbedField(t, i, j, vals) ==
  CASE j \in t[i].laterals -> CompileLateralJoin(vals)
    [] t[j].toOne -> IF vals = <<>> THEN None ELSE vals[1]
    [] OTHER -> Arr(vals)

\* "." reaches a column of a to-one child; an aggregate (here a sum) ranges
\* over the rows of a to-many child.
CompileScalarHop(rows, c) == IF rows = <<>> THEN None ELSE Val(rows[1][c])
CompileAgg(rows, c) ==
  LET given == SelectSeq(rows, LAMBDA r : r[c] # Null)
  IN IF given = <<>> THEN None ELSE Val(FoldLeft(LAMBDA a, r : a + r[c], 0, given))

\* A column only written is read as null.
CompileResolvedField(e, row) == IF e.kind = "set" THEN None ELSE Val(row[e.name])

\* An operator other than a coalesce yields some other value.
CompileFolded(e, v) == IF e.wrap = "op" THEN <<"op", v>> ELSE v
CompileExpr(e, v) == IF e.wrap = "coalesce" /\ v = None THEN Val(0) ELSE CompileFolded(e, v)

\* The value of each node for a row it is read for.
CompileNode(t, db) ==
  LET value[i \in DOMAIN t] ==
        [row \in db[t[i].rel] |->
           Obj([k \in DOMAIN t[i].fields |->
              LET e == t[i].fields[k]
                  rows == RowsUnder(t[e.child], db, row)
              IN CASE e.child = 0 -> CompileExpr(e, CompileResolvedField(e, row))
                   [] e.kind = "hop" -> CompileExpr(e, CompileScalarHop(rows, e.col))
                   [] e.kind = "agg" -> CompileExpr(e, CompileAgg(rows, e.col))
                   [] OTHER -> CompileEmbedField(t, i, e.child,
                                 [n \in DOMAIN rows |-> value[e.child][rows[n]]])])]
  IN value

\* CompileSelect at the root, on the rows it is given.
CompileSelect(t, db, rows) == [n \in DOMAIN rows |-> CompileNode(t, db)[1][rows[n]]]

=============================================================================
