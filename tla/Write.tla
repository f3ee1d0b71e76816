------------------------------- MODULE Write -------------------------------
(***************************************************************************)
(* The write engine: a batch of write items in one transaction. The rows   *)
(* of an item's payload are numbered and loaded into one temp table per    *)
(* relation, the tables keep the rows of every item of the batch, and each *)
(* node of the tree becomes one or two statements over them: writes from   *)
(* the outside in (phase 1), then deletes from the inside out (phase 2). A *)
(* single plain node takes the fast path and leaves the tables alone. What *)
(* was written is read back when every item has run.                       *)
(*                                                                         *)
(* An item is [tree, data, objs, general, rollback]: data says what the    *)
(* payload is ("none", "array", "object" or "other"), objs lists its       *)
(* objects, parents before children, as [node, parent, vals] (parent is an *)
(* index of objs, 0 at the root, vals maps output keys to values), general *)
(* is that stats, sql or query_plan is asked for, and rollback that the    *)
(* item is undone once it has run. A temp row is                           *)
(* [row, node, parent, mask, vals].                                        *)
(***************************************************************************)
EXTENDS Query

CONSTANTS Starts,   \* the databases a request may find
          Items,    \* the items it may carry
          MaxItems  \* and how many

ASSUME WriteAssumption == MaxItems \in Nat \ {0}

Serial == -2  \* the default of a generated column
FirstSerial == 10

VARIABLES
  db,       \* the database as the transaction sees it
  temp,     \* the temp table of each relation
  serial,   \* the next generated value of each relation
  state,    \* WriteState: next node id, next row id, tableNodes
  status,   \* "open" between items, "running", "done" or "failed"
  cur,      \* the running item: the item, its dmlCompiler and its statements
  batch,    \* the items finished
  roots,    \* for each, what its answer is read from: [node] or [rows]
  answers,  \* the answers, once they are read
  start,    \* the database at the start of the transaction
  before    \* the database at the start of the running item

vars == <<db, temp, serial, state, status, cur, batch, roots, answers, start, before>>

-----------------------------------------------------------------------------
(* Numbering (assignNodeIDs, denormalize).                                 *)

Pruned(t) ==
  LET pruned[i \in DOMAIN t] ==
        t[i].mode = "readonly" \/ (t[i].parent # 0 /\ pruned[t[i].parent])
  IN {i \in DOMAIN t : pruned[i]}

Rank(i, S) == Cardinality({j \in S : j < i})

AssignNodeIDs(t, first) ==
  LET written == DOMAIN t \ Pruned(t) IN [i \in written |-> first + Rank(i, written)]

\* The objects that become rows: those of written nodes, under a key that
\* embeds the node.
Taken(item) ==
  LET t == item.tree
      taken[o \in DOMAIN item.objs] ==
        LET i == item.objs[o].node
            p == item.objs[o].parent
        IN /\ i \notin Pruned(t)
           /\ p # 0 => taken[p] /\ i \in t[item.objs[p].node].embeds
  IN {o \in DOMAIN item.objs : taken[o]}

RowOf(item, o, first) == first + Rank(o, Taken(item))

Extractor(item, o) == item.tree[item.objs[o].node].extractors
Supplied(item, o) ==
  {c \in DOMAIN Extractor(item, o) : Extractor(item, o)[c] \in DOMAIN item.objs[o].vals}

\* The mask holds the columns the object supplies.
Fill(item, o) ==
  [c \in Cols(item.tree[item.objs[o].node].rel) |->
     IF c \in Supplied(item, o) THEN item.objs[o].vals[Extractor(item, o)[c]] ELSE Null]

Denormalize(item, ids, first) ==
  [rel \in DOMAIN Tables |->
     {[row |-> RowOf(item, o, first),
       node |-> ids[item.objs[o].node],
       parent |-> IF item.objs[o].parent = 0 THEN Null
                  ELSE RowOf(item, item.objs[o].parent, first),
       mask |-> Supplied(item, o),
       vals |-> Fill(item, o)] :
        o \in {p \in Taken(item) : item.tree[item.objs[p].node].rel = rel}}]

-----------------------------------------------------------------------------
(* The columns a node's statements name.                                   *)

Defaulted(rel) == DOMAIN Tables[rel].dflt

IsIncoming(n) == n.parent # 0 /\ ~n.toOne

ColumnsFor(t, i, allow) ==
  {c \in DOMAIN t[i].extractors : allow = {} \/ c \in allow}
  \cup (IdentityColumns(t[i]) \cap Defaulted(t[i].rel))
  \cup UNION {Distant(t[j]) : j \in t[i].outgoing}
  \cup (IF IsIncoming(t[i]) THEN Local(t[i]) ELSE {})

UpdateAllowed(n) == IF n.upd # {} THEN n.upd ELSE n.ins

KeysColumns(t, i) ==
  IdentityColumns(t[i])
  \cup UNION {Distant(t[j]) : j \in t[i].incoming}
  \cup (IF t[i].toOne THEN Local(t[i]) ELSE {})

\* <<column of the parent or of the child, the node it is read from>>
IncomingKeySource(t, i, c) ==
  IF IsIncoming(t[i]) THEN {p[2] : p \in {q \in t[i].on : q[1] = c}} ELSE {}
OutgoingKeySource(t, i, c) ==
  {<<j, p[1]>> : <<j, p>> \in {<<k, q>> \in t[i].outgoing \X UNION {t[k].on : k \in Kids(t, i)} :
                                q \in t[k].on /\ q[2] = c}}

IsKeyLinked(t, i, c) == IncomingKeySource(t, i, c) # {} \/ OutgoingKeySource(t, i, c) # {}

-----------------------------------------------------------------------------
(* Statements. S is what a statement reads and writes: [db, temp, serial,  *)
(* next, ok, out]. c is the dmlCompiler: [tree, ids, nodes,          *)
(* populated, load, patch, fast].                                          *)

\* A node without an id has Go's zero for one.
IdOf(c, i) == IF i \in DOMAIN c.ids THEN c.ids[i] ELSE 0

\* Mutant of SoleNode: one node of this item is enough.
SoleNodeOfItem(c, i) ==
  c.fast \/ {j \in DOMAIN c.ids : c.tree[j].rel = c.tree[i].rel} = {i}

SoleNode(c, i) == c.fast \/ c.nodes[c.tree[i].rel] = {IdOf(c, i)}

\* A node's temp rows: no filter on the node when it has the table to itself.
NodeRows(S, c, i) ==
  {w \in S.temp[c.tree[i].rel] : SoleNode(c, i) \/ w.node = IdOf(c, i)}

NoRow == [row |-> Null]

\* The left join: the temp row of each outgoing child of w, or none.
ChildRows(S, c, w, j) == {x \in NodeRows(S, c, j) : x.parent = w.row}
LeftJoins(S, c, i, w) ==
  LET out == c.tree[i].outgoing
      rows(j) == IF ChildRows(S, c, w, j) = {} THEN {NoRow} ELSE ChildRows(S, c, w, j)
  IN {f \in [out -> UNION {rows(j) : j \in out}] : \A j \in out : f[j] \in rows(j)}

\* A default stands in for what the row leaves out.
TakesDefault(rel, w, col) ==
  /\ col \in Defaulted(rel)
  /\ \/ col \notin w.mask
     \/ w.vals[col] = Null /\ col \in Tables[rel].notnull

\* Generated values are drawn in the order of the rows.
DefaultFor(S, c, i, w, col) ==
  LET rel == c.tree[i].rel
  IN IF Tables[rel].dflt[col] # Serial THEN Tables[rel].dflt[col]
     ELSE S.serial[rel] + Cardinality({x \in NodeRows(S, c, i) :
                                         x.row < w.row /\ TakesDefault(rel, x, col)})

\* The three-way rule for one column: a key of the parent's row, a key of an
\* outgoing child's row, or the payload's own value or default.
WriteColumnCase(S, c, i, w, join, col) ==
  LET t == c.tree
      par == CHOOSE p \in S.temp[t[t[i].parent].rel] : p.row = w.parent
      src == CHOOSE s \in OutgoingKeySource(t, i, col) : TRUE
  IN CASE IncomingKeySource(t, i, col) # {} ->
            par.vals[CHOOSE d \in IncomingKeySource(t, i, col) : TRUE]
       [] OutgoingKeySource(t, i, col) # {} ->
            IF join[src[1]] = NoRow THEN Null ELSE join[src[1]].vals[src[2]]
       [] TakesDefault(t[i].rel, w, col) -> DefaultFor(S, c, i, w, col)
       [] OTHER -> w.vals[col]

\* "resolved": the rows to write. The parent is found by row id alone.
WriteResolvedCTE(S, c, i, cols) ==
  LET t == c.tree
      hasPar(w) == IsIncoming(t[i]) => \E p \in S.temp[t[t[i].parent].rel] : p.row = w.parent
  IN UNION {{[row |-> w.row, mask |-> w.mask, join |-> join,
              vals |-> [col \in cols |-> WriteColumnCase(S, c, i, w, join, col)]] :
               join \in LeftJoins(S, c, i, w)} : w \in {x \in NodeRows(S, c, i) : hasPar(x)}}

\* A join whose relation has no temp table in this item stops the write.
TempsExist(c, i) ==
  \A j \in c.tree[i].outgoing : \E k \in DOMAIN c.ids : c.tree[k].rel = c.tree[j].rel

NewRow(rel, cols, r) ==
  [col \in Cols(rel) |-> CASE col \in cols -> r.vals[col]
                           [] col \in Defaulted(rel) -> Tables[rel].dflt[col]
                           [] OTHER -> Null]

SameKey(key, a, b) == \A col \in key : a[col] # Null /\ a[col] = b[col]

\* The constraints Postgres holds a statement to.
Consistent(d) ==
  \A rel \in DOMAIN Tables :
    /\ \A x \in d[rel], col \in Tables[rel].notnull : x[col] # Null
    /\ \A key \in {Tables[rel].pk} \cup Tables[rel].uniques :
         \A x, y \in d[rel] : SameKey(key, x, y) => x = y
    /\ \A fk \in Tables[rel].fks, x \in d[rel] :
         \/ \E p \in fk.pairs : x[p[1]] = Null
         \/ \E y \in d[fk.to] : \A p \in fk.pairs : x[p[1]] = y[p[2]]

\* Key columns written back to temp rows, found by row id. keys is a set of
\* <<row id, row>>.
WriteBack(tmp, keys, cols) ==
  {IF \E k \in keys : k[1] = w.row
   THEN LET row == (CHOOSE k \in keys : k[1] = w.row)[2]
        IN [w EXCEPT !.vals = [col \in DOMAIN @ |-> IF col \in cols THEN row[col] ELSE @[col]]]
   ELSE w : w \in tmp}

\* Rows returned with their row ids, in the order of these.
ByRow(out) ==
  LET sorted == SetToSortSeq(out, LAMBDA a, b : a[1] < b[1]) IN [n \in DOMAIN sorted |-> sorted[n][2]]

\* What a statement leaves, or that it failed. Every default it evaluated has
\* used up a generated value.
Settle(S, d, rel, tmp, out, drawn) ==
  IF ~Consistent(d) THEN [S EXCEPT !.ok = FALSE]
  ELSE [S EXCEPT !.db = d, !.temp[rel] = tmp, !.out = out, !.serial[rel] = @ + drawn]

Done(S, c, i, rows, keys, out, drawn) ==
  Settle(S, [S.db EXCEPT ![c.tree[i].rel] = rows], c.tree[i].rel,
         WriteBack(S.temp[c.tree[i].rel], keys, KeysColumns(c.tree, i)), ByRow(out), drawn)

Drawn(S, c, i, cols) ==
  Cardinality({w \in NodeRows(S, c, i) :
     \E col \in cols : /\ TakesDefault(c.tree[i].rel, w, col)
                       /\ ~IsKeyLinked(c.tree, i, col)
                       /\ Tables[c.tree[i].rel].dflt[col] = Serial})

Failed(S) == [S EXCEPT !.ok = FALSE]

InsertCols(t, i) == ColumnsFor(t, i, t[i].ins) \cup KeysColumns(t, i)

\* The insert of rows R, and the keys written back: from the rows themselves,
\* or with "do nothing" from the inserted rows of the same identity.
Insert(S, c, i, doNothing, R, cols, key) ==
  LET rel == c.tree[i].rel
      taken(r) == \/ \E x \in S.db[rel] : SameKey(key, r.vals, x)
                  \/ \E q \in R : q.row < r.row /\ SameKey(key, r.vals, q.vals)
      ins == IF doNothing THEN {r \in R : ~taken(r)} ELSE R
      sources(r) == IF doNothing THEN {q \in ins : SameKey(key, r.vals, q.vals)} ELSE {r}
      rows == {NewRow(rel, cols, r) : r \in ins}
  IN IF Cardinality(rows) # Cardinality(ins) \/ rows \cap S.db[rel] # {}
     THEN Failed(S)
     ELSE Done(S, c, i, S.db[rel] \cup rows,
               {<<r.row, q.vals>> : <<r, q>> \in {rq \in R \X ins : rq[2] \in sources(rq[1])}},
               {<<r.row, NewRow(rel, cols, r)>> : r \in ins}, Drawn(S, c, i, cols))

RunInsert(S, c, i, doNothing) ==
  Insert(S, c, i, doNothing, WriteResolvedCTE(S, c, i, InsertCols(c.tree, i)),
         InsertCols(c.tree, i), IdentityColumns(c.tree[i]))

\* merge-new's rows that were there already.
RecoverKeys(S, c, i) ==
  LET rel == c.tree[i].rel
      found == {wx \in NodeRows(S, c, i) \X S.db[rel] :
                  SameKey(IdentityColumns(c.tree[i]), wx[1].vals, wx[2])}
  IN [S EXCEPT !.temp[rel] = WriteBack(@, {<<w.row, x>> : <<w, x>> \in found}, KeysColumns(c.tree, i))]

\* writeUpdateValue: the stored value stays where the row is silent.
UpdateValue(t, i, r, x, col) ==
  IF IsKeyLinked(t, i, col) \/ col \in r.mask THEN r.vals[col] ELSE x[col]

\* Rows R matched with the table's, and what becomes of each.
Matched(S, rel, key, R) == {rx \in R \X S.db[rel] : SameKey(key, rx[1].vals, rx[2])}

Update(S, c, i, set, hits, drawn) ==
  LET rel == c.tree[i].rel
      new(r, x) == [col \in Cols(rel) |-> IF col \in set THEN UpdateValue(c.tree, i, r, x, col) ELSE x[col]]
      out == {<<rx[1].row, new(rx[1], rx[2])>> : rx \in hits}
  IN Done(S, c, i, (S.db[rel] \ {rx[2] : rx \in hits}) \cup {o[2] : o \in out}, out, out, drawn)

UpdateCols(t, i) == ColumnsFor(t, i, UpdateAllowed(t[i]))

RunUpdate(S, c, i) ==
  LET key == IdentityColumns(c.tree[i])
      cols == UpdateCols(c.tree, i) \cup key
  IN Update(S, c, i, UpdateCols(c.tree, i) \ key,
            Matched(S, c.tree[i].rel, key, WriteResolvedCTE(S, c, i, cols)), Drawn(S, c, i, cols))

\* A row that is there takes the columns of "excluded", the row as it would
\* have been inserted. None may be affected twice, and some column must be left
\* for a no-op update.
Upsert(S, c, i, set, R, cols, key) ==
  LET rel == c.tree[i].rel
      hits == Matched(S, rel, key, R)
      new(r, x) == [col \in Cols(rel) |-> IF col \in set THEN NewRow(rel, cols, r)[col] ELSE x[col]]
      updated == {<<rx[1].row, new(rx[1], rx[2])>> : rx \in hits}
      out == updated \cup {<<r.row, NewRow(rel, cols, r)>> : r \in R \ {rx[1] : rx \in hits}}
  IN IF \/ set = {} /\ Cols(rel) = Tables[rel].pk
        \/ \E q, r \in R : q # r /\ SameKey(key, q.vals, r.vals)
     THEN Failed(S)
     ELSE Done(S, c, i, (S.db[rel] \ {rx[2] : rx \in hits}) \cup {o[2] : o \in out},
               {<<r.row, o[2]>> : <<r, o>> \in {ro \in R \X out : SameKey(key, ro[1].vals, ro[2][2])}},
               out, Drawn(S, c, i, cols))

RunUpsert(S, c, i) ==
  Upsert(S, c, i, UpdateCols(c.tree, i) \ (IdentityColumns(c.tree[i]) \cup Tables[c.tree[i].rel].pk),
         WriteResolvedCTE(S, c, i, InsertCols(c.tree, i)), InsertCols(c.tree, i),
         IdentityColumns(c.tree[i]))

\* Mutant of DeleteScope: the where is forgotten.
DeleteScopeNoWhere(S, c, i, x) ==
  \A p \in c.tree[i].on :
    \E w \in NodeRows(S, c, c.tree[i].parent) : x[p[1]] # Null /\ w.vals[p[2]] = x[p[1]]

\* Each column of the join against the parents' values of its own.
DeleteScope(S, c, i, x) ==
  /\ \A p \in c.tree[i].on :
       \E w \in NodeRows(S, c, c.tree[i].parent) : x[p[1]] # Null /\ w.vals[p[2]] = x[p[1]]
  /\ Holds(c.tree[i].where, x)

RunDelete(S, c, i) ==
  LET rel == c.tree[i].rel
      kept(x) == \E w \in NodeRows(S, c, i) : SameKey(IdentityColumns(c.tree[i]), w.vals, x)
  IN Done(S, c, i, {x \in S.db[rel] : ~DeleteScope(S, c, i, x) \/ kept(x)}, {}, {}, 0)

RunDeleteWhere(S, c) ==
  Done(S, c, 1, {x \in S.db[c.tree[1].rel] : ~Holds(c.tree[1].where, x)}, {}, {}, 0)

\* The patch row goes, and each updated row gets a temp row of its own, past
\* every row id used.
UpdateWhere(S, c, patch, set, hits) ==
  LET rel == c.tree[1].rel
      new(x) == [col \in Cols(rel) |-> IF col \in set THEN patch.vals[col] ELSE x[col]]
      out == InOrder([c.tree[1] EXCEPT !.order = <<>>], {new(x) : x \in hits})
      row(n) == [row |-> S.next + n, node |-> c.ids[1], parent |-> Null, mask |-> {},
                 vals |-> [col \in Cols(rel) |->
                             IF col \in KeysColumns(c.tree, 1) THEN out[n][col] ELSE Null]]
  IN IF set = {} \/ Len(out) # Cardinality(hits) THEN Failed(S)
     ELSE Settle([S EXCEPT !.next = IF hits = {} THEN @ ELSE @ + Len(out) + 1],
                 [S.db EXCEPT ![rel] = (@ \ hits) \cup ToSet(out)], rel,
                 (S.temp[rel] \ {patch}) \cup {row(n) : n \in DOMAIN out}, out, 0)

RunUpdateWhere(S, c) ==
  LET patch == CHOOSE w \in S.temp[c.tree[1].rel] : w.row = c.patch
  IN UpdateWhere(S, c, patch, UpdateCols(c.tree, 1) \cap patch.mask,
                 {x \in S.db[c.tree[1].rel] : Holds(c.tree[1].where, x)})

LoadRows(S, c) == [S EXCEPT !.temp = [rel \in DOMAIN Tables |-> @[rel] \cup c.load[rel]]]

Exec(S, c, stmt) ==
  LET i == stmt.node
  IN CASE stmt.op = "load" -> LoadRows(S, c)
       [] stmt.op = "delete where" -> RunDeleteWhere(S, c)
       [] stmt.op = "delete" -> RunDelete(S, c, i)
       [] stmt.op = "recover" -> RecoverKeys(S, c, i)
       [] stmt.op = "update where" -> RunUpdateWhere(S, c)
       [] ~TempsExist(c, i) -> Failed(S)
       [] stmt.op = "insert" -> RunInsert(S, c, i, FALSE)
       [] stmt.op = "insert new" -> RunInsert(S, c, i, TRUE)
       [] stmt.op = "update" -> RunUpdate(S, c, i)
       [] stmt.op = "upsert" -> RunUpsert(S, c, i)

-----------------------------------------------------------------------------
(* The traversal.                                                          *)

Stmt(op, i) == [op |-> op, node |-> i]

RunPhase1Node(mode, i) ==
  CASE mode \in {"insert"} -> <<Stmt("insert", i)>>
    [] mode = "merge-new" -> <<Stmt("insert new", i), Stmt("recover", i)>>
    [] mode \in {"update-existing", "merge-update"} -> <<Stmt("update", i)>>
    [] mode = "update" -> <<Stmt("update where", i)>>
    [] mode \in {"upsert", "merge"} -> <<Stmt("upsert", i)>>
    [] OTHER -> <<>>

InTurn(S, f) == FlattenSeq([n \in 1..Cardinality(S) |-> f[SetToSortSeq(S, <)[n]]])

\* Mutant of Phase1: a node before the rows it points at.
Phase1SelfFirst(c) ==
  LET phase1[i \in DOMAIN c.tree] ==
        IF i \notin c.populated THEN <<>>
        ELSE RunPhase1Node(c.tree[i].mode, i)
             \o InTurn(c.tree[i].outgoing, phase1)
             \o InTurn(c.tree[i].incoming, phase1)
  IN phase1[1]

Phase1(c) ==
  LET phase1[i \in DOMAIN c.tree] ==
        IF i \notin c.populated THEN <<>>
        ELSE InTurn(c.tree[i].outgoing, phase1)
             \o RunPhase1Node(c.tree[i].mode, i)
             \o InTurn(c.tree[i].incoming, phase1)
  IN phase1[1]

\* Mutant of Phase2: an absent subtree is left alone.
Phase2Populated(c) ==
  LET phase2[i \in DOMAIN c.tree] ==
        IF i \notin c.populated THEN <<>>
        ELSE InTurn(c.tree[i].incoming, phase2)
             \o InTurn(c.tree[i].outgoing, phase2)
             \o IF c.tree[i].mode \in DeleteBearing THEN <<Stmt("delete", i)>> ELSE <<>>
  IN phase2[1]

\* A node's delete depends on its parent having rows, not on its own.
Phase2(c) ==
  LET phase2[i \in DOMAIN c.tree] ==
        IF i \notin DOMAIN c.ids THEN <<>>
        ELSE (IF i \in c.populated
              THEN InTurn(c.tree[i].incoming, phase2)
                   \o InTurn(c.tree[i].outgoing, phase2)
              ELSE <<>>)
             \o IF c.tree[i].mode \in DeleteBearing /\ c.tree[i].parent \in c.populated
                THEN <<Stmt("delete", i)>> ELSE <<>>
  IN phase2[1]

PlainRowExpr(e) == e.kind \in {"id", "col"} /\ e.wrap # "coalesce" /\ e.child = 0

FastWriteEligible(item) ==
  LET t == item.tree
  IN /\ ~item.general
     /\ t[1].mode \in {"insert", "upsert", "update-existing", "update"}
     /\ Len(t) = 1
     /\ \A k \in DOMAIN t[1].fields : PlainRowExpr(t[1].fields[k])

\* What ExecuteWriteNode refuses before any statement.
Refused(item) ==
  LET t == item.tree
      mode == Modes(t)[1]
  IN \/ ~Resolvable(t)
     \/ mode = "readonly"
     \/ Unwritable(t) # {}
     \/ CASE mode = "delete" -> item.data # "none" /\ ~(item.data = "array" /\ item.objs = <<>>)
          [] mode = "update" -> item.data # "object"
          [] OTHER -> item.data # "array"

\* Prepare resolves each item's tree, once.
Accepted == {[item EXCEPT !.tree = Resolve(@)] : item \in {i \in Items : ~Refused(i)}}

\* The item's dmlCompiler, from the state the batch has reached.
Compile(item, st, general) ==
  LET t == item.tree
      fast == ~general /\ FastWriteEligible(item)
      ids == AssignNodeIDs(t, st.node)
      first == IF fast THEN 0 ELSE st.row
      populated == {item.objs[o].node : o \in Taken(item)}
      load == Denormalize(item, ids, first)
  IN [tree |-> t, ids |-> ids, fast |-> fast, load |-> load,
      populated |-> populated, patch |-> first,
      nodes |-> [rel \in DOMAIN Tables |-> st.nodes[rel] \cup {w.node : w \in load[rel]}]]

Statements(c) ==
  CASE c.tree[1].mode = "delete" -> <<Stmt("delete where", 1)>>
    [] c.fast -> Phase1(c)
    [] c.populated = {} -> <<>>
    [] OTHER -> <<Stmt("load", 1)>> \o Phase1(c) \o Phase2(c)

\* A fast write's rows are a parameter of its statement, not a temp table's.
WithRows(S, c) == IF c.fast THEN [S EXCEPT !.temp = c.load] ELSE S

Loaded(item, c) == IF c.fast THEN 0 ELSE Cardinality(Taken(item))

\* Mutants of Advance: the next item's nodes, or its rows, take the same numbers.
AdvanceSameNodes(item, c, st, next) ==
  IF c.tree[1].mode = "delete" THEN st
  ELSE [node |-> st.node,
        row |-> IF c.fast THEN st.row ELSE Max({next, st.row + Loaded(item, c)}),
        nodes |-> IF c.fast THEN st.nodes ELSE c.nodes]

AdvanceSameRows(item, c, st, next) ==
  IF c.tree[1].mode = "delete" THEN st
  ELSE [node |-> st.node + Cardinality(DOMAIN c.ids), row |-> st.row,
        nodes |-> IF c.fast THEN st.nodes ELSE c.nodes]

Advance(item, c, st, next) ==
  IF c.tree[1].mode = "delete" THEN st
  ELSE [node |-> st.node + Cardinality(DOMAIN c.ids),
        row |-> IF c.fast THEN st.row ELSE Max({next, st.row + Loaded(item, c)}),
        nodes |-> IF c.fast THEN st.nodes ELSE c.nodes]

\* The rows an item's answer is made of: the temp rows of its root, joined to
\* the table by identity.
DataNodeRows(t, d, tmp, node) ==
  LET key == IdentityColumns(t[1])
      pairs == {p \in tmp[t[1].rel] \X d[t[1].rel] :
                  /\ p[1].node = node /\ p[1].parent = Null
                  /\ SameKey(key, p[1].vals, p[2])
                  /\ Holds(t[1].where, p[2])}
      byRow == SetToSortSeq(pairs, LAMBDA a, b : a[1].row < b[1].row)
  IN Limited(t[1], IF t[1].order = <<>> THEN [n \in DOMAIN byRow |-> byRow[n][2]]
                   ELSE InOrder(t[1], {p[2] : p \in pairs}))

\* finishFast: the answer is what the statement returned, as it was then.
FinishFast(t, d, out) ==
  LET rows == SelectSeq(out, LAMBDA x : Holds(t[1].where, x))
  IN CompileSelect(t, d, Limited(t[1], IF t[1].order = <<>> THEN rows ELSE InOrder(t[1], ToSet(rows))))

-----------------------------------------------------------------------------

EmptyTemp == [rel \in DOMAIN Tables |-> {}]
Fresh == [node |-> 0, row |-> 0, nodes |-> EmptyTemp]
Idle == [item |-> <<>>, c |-> <<>>, stmts |-> <<>>, next |-> 0, out |-> <<>>, saved |-> EmptyTemp]

Init ==
  /\ db \in Starts
  /\ start = db
  /\ before = db
  /\ temp = EmptyTemp
  /\ serial = [rel \in DOMAIN Tables |-> FirstSerial]
  /\ state = Fresh
  /\ status = "open"
  /\ cur = Idle
  /\ batch = <<>>
  /\ roots = <<>>
  /\ answers = <<>>

Rollback ==
  /\ status' = "failed"
  /\ db' = start
  /\ temp' = EmptyTemp
  /\ UNCHANGED <<serial, state, batch, roots, answers, start, before>>

\* ExecuteWriteNode as far as its first statement.
StartItem(item) ==
  /\ status = "open"
  /\ Len(batch) < MaxItems
  /\ before' = db
  /\ LET c == Compile(item, state, FALSE)
     IN cur' = [item |-> item, c |-> c, stmts |-> Statements(c), out |-> <<>>, saved |-> temp,
                next |-> state.row + Loaded(item, c)]
  /\ status' = "running"
  /\ UNCHANGED <<db, temp, serial, state, batch, roots, answers, start>>

RefuseItem(item) ==
  /\ status = "open"
  /\ Len(batch) < MaxItems
  /\ Refused(item)
  /\ cur' = [Idle EXCEPT !.item = item]
  /\ Rollback

RunStatement ==
  /\ status = "running"
  /\ cur.stmts # <<>>
  /\ \E end \in {Exec(WithRows([db |-> db, temp |-> temp, serial |-> serial, next |-> cur.next,
                                 ok |-> TRUE, out |-> <<>>], cur.c), cur.c, Head(cur.stmts))} :
       \/ /\ end.ok
          /\ db' = end.db
          /\ temp' = IF cur.c.fast THEN temp ELSE end.temp
          /\ serial' = end.serial
          /\ cur' = [cur EXCEPT !.stmts = Tail(@), !.next = end.next, !.out = end.out]
          /\ UNCHANGED <<state, status, batch, roots, answers, start, before>>
       \/ ~end.ok /\ Rollback /\ UNCHANGED cur

\* A rolled back item is answered before its savepoint is; its ids stay used.
FinishItem ==
  /\ status = "running"
  /\ cur.stmts = <<>>
  /\ batch' = Append(batch, cur.item)
  /\ LET t == cur.c.tree
     IN roots' = Append(roots,
          CASE t[1].mode = "delete" -> [node |-> Null, rows |-> <<>>]
            [] cur.c.fast -> [node |-> Null, rows |-> FinishFast(t, db, cur.out)]
            [] cur.item.rollback ->
                 [node |-> Null, rows |-> CompileSelect(t, db, DataNodeRows(t, db, temp, cur.c.ids[1]))]
            [] OTHER -> [node |-> cur.c.ids[1], rows |-> <<>>])
  /\ state' = Advance(cur.item, cur.c, state, cur.next)
  /\ db' = IF cur.item.rollback THEN before ELSE db
  /\ temp' = IF cur.item.rollback THEN cur.saved ELSE temp
  /\ status' = "open"
  /\ cur' = Idle
  /\ UNCHANGED <<serial, answers, start, before>>

\* readPhase and the commit. The temp rows end with the transaction.
ReadBack ==
  /\ status = "open"
  /\ batch # <<>>
  /\ answers' = [n \in DOMAIN batch |->
       IF roots[n].node = Null THEN roots[n].rows
       ELSE CompileSelect(batch[n].tree, db, DataNodeRows(batch[n].tree, db, temp, roots[n].node))]
  /\ status' = "done"
  /\ UNCHANGED <<db, temp, serial, state, cur, batch, roots, start, before>>

Ended == status \in {"done", "failed"} /\ UNCHANGED vars

Next ==
  \/ \E item \in Accepted : StartItem(item)
  \/ \E item \in Items : RefuseItem(item)
  \/ RunStatement
  \/ FinishItem
  \/ ReadBack
  \/ Ended

Spec == Init /\ [][Next]_vars

-----------------------------------------------------------------------------
(* Properties. An item is judged when its last statement has run.          *)

\* Every row of a temp table has the columns of its relation, every row of the
\* database keeps the constraints, and the ids handed out are below the next.
TypeOK ==
  /\ status \in {"open", "running", "done", "failed"}
  /\ Consistent(db)
  /\ \A rel \in DOMAIN Tables :
       /\ \A x \in db[rel] : DOMAIN x = Cols(rel)
       /\ \A w \in temp[rel] : w.mask \subseteq Cols(rel) /\ DOMAIN w.vals = Cols(rel)
       /\ status = "open" => \A w \in temp[rel] : w.row < state.row /\ w.node < state.node

Judged == status = "running" /\ cur.stmts = <<>>
ByObjects == Judged /\ ~cur.c.fast /\ cur.c.tree[1].mode \notin WhereDriven

TempOf(o) ==
  CHOOSE w \in temp[cur.item.tree[cur.item.objs[o].node].rel] : w.row = RowOf(cur.item, o, state.row)
KeyedBy(o, rows) ==
  {x \in rows[cur.item.tree[cur.item.objs[o].node].rel] :
     SameKey(IdentityColumns(cur.item.tree[cur.item.objs[o].node]), TempOf(o).vals, x)}
Objects(i) == {o \in Taken(cur.item) : cur.item.objs[o].node = i}

\* No other object of the payload names the same row.
NamedOnce(o) ==
  \A p \in Taken(cur.item) \ {o} :
    cur.item.tree[cur.item.objs[p].node].rel = cur.item.tree[cur.item.objs[o].node].rel
    => KeyedBy(p, db) \cap KeyedBy(o, db) = {}

\* insert_columns and update_columns narrow what a write touches.
Allowed(n, col) ==
  (n.ins = {} \/ col \in n.ins) /\ (UpdateAllowed(n) = {} \/ col \in UpdateAllowed(n))

\* The row of an object holds what the object supplies, and the keys of the
\* objects it is nested under or that are nested in it.
Stored(o, x) ==
  LET t == cur.item.tree
      i == cur.item.objs[o].node
      obj == cur.item.objs[o]
  IN /\ \A col \in Supplied(cur.item, o) :
          \/ IsKeyLinked(t, i, col) \/ ~Allowed(t[i], col)
          \/ x[col] = Fill(cur.item, o)[col]
          \/ Fill(cur.item, o)[col] = Null /\ TakesDefault(t[i].rel, TempOf(o), col)
     /\ IsIncoming(t[i]) => \E y \in KeyedBy(obj.parent, db) : Joined(t[i], x, y)
     /\ \A q \in Taken(cur.item) :
          (cur.item.objs[q].parent = o /\ t[cur.item.objs[q].node].toOne)
          => \E y \in KeyedBy(q, db) : Joined(t[cur.item.objs[q].node], y, x)

\* runInsert, runUpdate and runUpsert together: once an item has run, each
\* object of the payload has its row, with the values it supplies and linked
\* to the rows of its parent and its children, whatever order and however many
\* statements wrote them; a row only updated keeps what the object leaves out.
PayloadIsStored ==
  ByObjects => \A i \in DOMAIN cur.c.ids : \A o \in Objects(i) :
    LET mode == cur.c.tree[i].mode
        was == KeyedBy(o, before)
        now == KeyedBy(o, db)
    IN NamedOnce(o) =>
       CASE mode \in {"insert", "upsert", "merge"} -> \E x \in now : Stored(o, x)
         [] mode = "merge-new" -> now # {} /\ (was # {} => now = was)
         [] mode \in {"update-existing", "merge-update"} ->
              was # {} => \E x \in now, y \in was :
                /\ Stored(o, x)
                /\ \A col \in Cols(cur.item.tree[i].rel) \ Supplied(cur.item, o) :
                     IsKeyLinked(cur.item.tree, i, col) \/ x[col] = y[col]
         [] OTHER -> TRUE

\* runDelete's "rows absent from the payload, scoped to parent": under each
\* row of the payload, a delete-bearing node leaves only the rows it mentions
\* (and those its where does not select).
MergeIsExact ==
  ByObjects => \A i \in DOMAIN cur.c.ids : cur.c.tree[i].mode \in DeleteBearing =>
    LET n == cur.item.tree[i]
    IN \A q \in Objects(n.parent) : \A up \in KeyedBy(q, db), x \in db[n.rel] :
         (Joined(n, x, up) /\ Holds(n.where, x)) => \E o \in Objects(i) : x \in KeyedBy(o, db)

\* What may happen to a row the request found: an object names it, the where of
\* the root selects it, or it is under a row of the payload and not mentioned.
MayChange(rel, x) ==
  \/ cur.c.tree[1].mode \in WhereDriven /\ rel = cur.item.tree[1].rel /\ Holds(cur.item.tree[1].where, x)
  \/ \E i \in DOMAIN cur.c.ids : cur.item.tree[i].rel = rel /\
       \/ \E o \in Objects(i) : SameKey(IdentityColumns(cur.item.tree[i]), TempOf(o).vals, x)
       \/ /\ cur.c.tree[i].mode \in DeleteBearing
          /\ Holds(cur.item.tree[i].where, x)
          /\ \E q \in Objects(cur.item.tree[i].parent) : Joined(cur.item.tree[i], x, TempOf(q).vals)

\* writing.md: a delete-bearing mode "deletes rows that exist under its parent
\* in the database but weren't mentioned in the payload"; every other row the
\* request found is as it was.
OnlyUnderItsParent ==
  (Judged /\ ~cur.c.fast) => \A rel \in DOMAIN Tables : \A x \in before[rel] \ db[rel] : MayChange(rel, x)

\* writing.md on update-existing and merge-update: "A column the row leaves out
\* keeps its current value".
LeftOutIsKept ==
  ByObjects => \A i \in DOMAIN cur.c.ids : \A o \in Objects(i) :
    cur.c.tree[i].mode \in {"update-existing", "merge-update"} =>
      \A x \in KeyedBy(o, db), y \in KeyedBy(o, before),
         col \in Cols(cur.item.tree[i].rel) \ Supplied(cur.item, o) :
        \/ IsIncoming(cur.item.tree[i]) /\ col \in Local(cur.item.tree[i])
        \/ x[col] = y[col]

\* An item on its own: numbered from zero, through the temp tables.
Through(S, c) ==
  FoldLeft(LAMBDA s, stmt : IF s.ok THEN Exec(s, c, stmt) ELSE s, S, Statements(c))
Undo(S, end, item) == [end EXCEPT !.seen = end.db, !.db = IF item.rollback THEN S.db ELSE @]
Alone(S, item) ==
  IF ~S.ok \/ item \notin Accepted THEN Failed(S)
  ELSE Undo(S, Through([S EXCEPT !.temp = EmptyTemp, !.next = Cardinality(Taken(item))],
                       Compile(item, Fresh, TRUE)), item)

OneByOne(items) ==
  FoldLeft(Alone, [db |-> start, temp |-> EmptyTemp, next |-> 0, ok |-> TRUE, out |-> <<>>, seen |-> start,
                   serial |-> [rel \in DOMAIN Tables |-> FirstSerial]], items)

\* WriteState, soleNode and the fast path are only means: a batch leaves the
\* database its items leave one after the other, each numbered from zero and
\* through the temp tables, and it fails exactly where they fail.
BatchIsSequential ==
  status \in {"done", "failed"} =>
    \E end \in {OneByOne(IF status = "done" THEN batch ELSE Append(batch, cur.item))} :
      end.ok = (status = "done") /\ (end.ok => end.db = db)

\* The answer to item n, from the rows it wrote on its own.
OwnAnswer(t, d, own) ==
  IF t[1].mode = "delete" THEN <<>> ELSE CompileSelect(t, d, DataNodeRows(t, d, own.temp, 0))

\* readPhase: what an item is answered with is made of the rows it wrote and of
\* no other item's, in the order of its payload; they are read when every item
\* has run, except those of the fast path and those about to be rolled back.
AnswersAreTheirOwn ==
  status = "done" => \A n \in DOMAIN batch :
    \E own \in {OneByOne(SubSeq(batch, 1, n))} :
      answers[n] = OwnAnswer(batch[n].tree,
                             IF FastWriteEligible(batch[n]) \/ batch[n].rollback THEN own.seen ELSE db, own)

=============================================================================
