------------------------------ MODULE RelExec ------------------------------
(***************************************************************************)
(* One /rel request: handleRel resolves its items (relexec.Prepare), takes *)
(* a connection and calls Prepared.Execute, which runs the items in one    *)
(* transaction and writes their results through holdWriter; handleRel then *)
(* answers with the error or leaves the response cut short. Every          *)
(* statement may be refused by Postgres or lose its connection, and every  *)
(* write to the client may fail.                                           *)
(*                                                                         *)
(* An item is what Execute branches on: its kind ("read"; "write"; "fast", *)
(* a write that built its own response; "delete"), its rollback flag, and  *)
(* whether it asks for "returns": "none". Its effect on the database is    *)
(* its own index, for a read too: a read may call a function that writes.  *)
(*                                                                         *)
(* The body is a sequence of tokens: what one Write call passes on. A      *)
(* separator goes with what follows it, an envelope's keys with the        *)
(* bracket before them; a scalar function's bare value counts as one row.  *)
(***************************************************************************)
EXTENDS Naturals, Sequences

CONSTANTS MaxItems,  \* bound: items of a request
          MaxRows,   \* bound: rows a result has
          Buffers    \* values of http.response_buffer, in tokens

ASSUME RelExecAssumption == /\ MaxItems \in Nat \ {0}
                            /\ MaxRows \in Nat
                            /\ Buffers \subseteq Nat

VARIABLES
  items, format, buffer,  \* the request and http.response_buffer
  allowRollback,          \* pg.query.allow_rollback
  pc, idx,                \* where Execute is, and the item its loop is at
  begun,                  \* Execute's flag: a rollback is due on failure
  session,                \* of the connection: "idle", "open" or "aborted" transaction, "lost"
  pending,                \* effects the open transaction holds
  mark,                   \* effects it held at the savepoint
  durable,                \* effects that are committed
  buffered,               \* per item, its rows if they were kept aside
  rows,                   \* rows still to be written for the item at idx
  held, released, out,    \* holdWriter's buffer and flag, and what the client was sent
  commitLost,             \* the answer to "commit" never came
  response                \* "none", then "ok", "error" or "cut"

request  == <<items, format, buffer, allowRollback>>
database == <<session, pending, mark, durable, commitLost>>
writer   == <<held, released, out>>

vars == <<request, pc, idx, begun, database, buffered, rows, writer, response>>

Kinds == {"read", "write", "fast", "delete"}
IsWrite(i) == i.kind # "read"

Items == [kind : Kinds, rollback : BOOLEAN, none : BOOLEAN]

\* A row shows the effects that were visible when it was read.
Effects == 1..MaxItems
Rows == UNION {[1..n -> SUBSET Effects] : n \in 0..MaxRows}

NotBuffered == [kept |-> FALSE, rows |-> <<>>]
Kept(rs) == [kept |-> TRUE, rows |-> rs]

Token(t, i, seen) == [t |-> t, item |-> i, seen |-> seen]

\* The empty batch is accepted too.
Requests == UNION {[1..n -> Items] : n \in 0..MaxItems}

Init ==
  /\ items \in Requests
  /\ format \in {"json", "cbor"}
  /\ buffer \in Buffers
  /\ allowRollback \in BOOLEAN
  /\ pc = "parse"
  /\ idx = 1
  /\ begun = FALSE
  /\ session = "idle"
  /\ pending = {}
  /\ mark = {}
  /\ durable = {}
  /\ buffered = [i \in DOMAIN items |-> NotBuffered]
  /\ rows = <<>>
  /\ held = <<>>
  /\ released = FALSE
  /\ out = <<>>
  /\ commitLost = FALSE
  /\ response = "none"

Last == Len(items)
Multi == Last > 1
item == items[idx]

-----------------------------------------------------------------------------
(* The database connection (external: Postgres through pgx).               *)

\* A statement fails: Postgres aborts the transaction, or the connection is
\* lost and the server forgets the transaction.
StatementFails ==
  /\ \/ session' = (IF session = "idle" THEN "idle" ELSE "aborted") /\ UNCHANGED pending
     \/ session' = "lost" /\ pending' = {}
  /\ UNCHANGED <<mark, durable, commitLost>>

\* A statement that ends the loop in an error: Execute's deferred function is next.
Fail == /\ StatementFails
        /\ pc' = "failed"
        /\ UNCHANGED <<idx, begun, buffered, rows, writer, response, request>>

-----------------------------------------------------------------------------
(* holdWriter.                                                             *)

\* Mutant of Fits: the buffer is given up one write too early.
FitsStrictly == ~released /\ Len(held) + 1 < buffer

Fits == ~released /\ Len(held) < buffer

\* Write: kept while it fits, otherwise everything held is passed on first.
Write(tok) ==
  \/ /\ Fits
     /\ held' = Append(held, tok)
     /\ UNCHANGED <<released, out>>
  \/ /\ ~Fits
     /\ released' = TRUE
     /\ out' = Append(out \o held, tok)
     /\ held' = <<>>

\* Mutant of ClientGone: released is set only after a successful write.
ClientGoneUnmarked ==
  /\ out' \in {out, out \o held}
  /\ held' = <<>>
  /\ pc' = "failed"
  /\ UNCHANGED <<request, idx, begun, database, buffered, rows, released, response>>

\* The client is gone: release marks the writer released before it writes.
ClientGone ==
  /\ released' = TRUE
  /\ out' \in {out, out \o held}
  /\ held' = <<>>
  /\ pc' = "failed"
  /\ UNCHANGED <<request, idx, begun, database, buffered, rows, response>>

\* A write that is kept cannot fail.
WriteFails == ~Fits /\ ClientGone

-----------------------------------------------------------------------------
(* handleRel and Execute up to the write phase.                            *)

\* Before Execute an error is answered at once: nothing is open yet.
ProceedOrReject(next) ==
  /\ \/ pc' = next /\ UNCHANGED response
     \/ pc' = "end" /\ response' = "error"
  /\ UNCHANGED <<request, idx, begun, database, buffered, rows, writer>>

\* Authentication, and the body's parsing.
ParseRequest == pc = "parse" /\ ProceedOrReject("prepare")

\* A rollback that is not granted is an error, unlike the other flags, which
\* degrade silently.
RollbackGranted == \A i \in DOMAIN items : items[i].rollback => allowRollback

\* relexec.Prepare: every item is resolved and its flags checked.
Prepare ==
  /\ pc = "prepare"
  /\ ProceedOrReject("acquire")
  /\ pc' = "acquire" => RollbackGranted

AcquireConn == pc = "acquire" /\ ProceedOrReject("bind")

\* BindSession of the CBOR encoders: an unknown time zone is refused.
Bind ==
  /\ pc = "bind"
  /\ \/ pc' = "tables"
     \/ format = "cbor" /\ pc' = "failed"
  /\ UNCHANGED <<request, idx, begun, database, buffered, rows, writer, response>>

\* query.PrepareWrite, outside the transaction, when an item writes.
PrepareWrite ==
  /\ pc = "tables"
  /\ \/ /\ pc' = "begin"
        /\ UNCHANGED <<request, idx, begun, database, buffered, rows, writer, response>>
     \/ /\ \E i \in DOMAIN items : IsWrite(items[i])
        /\ Fail

\* begun is set before begin is called, so that a transaction begin left open
\* is rolled back. Session.Begin refuses an empty role before any statement;
\* after that a failing batch leaves the transaction aborted or not begun.
\* Without items every loop up to the commit is empty.
Begin ==
  /\ pc = "begin"
  /\ begun' = TRUE
  /\ \/ session' = "open" /\ pc' = (IF items = <<>> THEN "commit" ELSE "write")
     \/ session' \in {"idle", "aborted", "lost"} /\ pc' = "failed"
  /\ UNCHANGED <<request, idx, pending, mark, durable, commitLost, buffered, rows, writer, response>>

-----------------------------------------------------------------------------
(* writePhase: the write items in order.                                   *)

\* Mutant of NextItem: the loop runs one item too far.
NextItemInclusive(this, next) ==
  IF idx <= Last THEN idx' = idx + 1 /\ pc' = this ELSE idx' = 1 /\ pc' = next

\* The loop moves to the next item, or to the next phase.
NextItem(this, next) ==
  IF idx < Last THEN idx' = idx + 1 /\ pc' = this ELSE idx' = 1 /\ pc' = next

SkipRead ==
  /\ pc = "write"
  /\ ~IsWrite(item)
  /\ NextItem("write", "read")
  /\ UNCHANGED <<request, begun, database, buffered, rows, writer, response>>

\* Mutant of Savepoint: "rollback to" finds the state at the transaction's start.
SavepointAtBegin ==
  /\ pc = "write"
  /\ IsWrite(item)
  /\ pc' = "execute"
  /\ UNCHANGED <<request, idx, begun, database, buffered, rows, writer, response>>

Savepoint ==
  /\ pc = "write"
  /\ IsWrite(item)
  /\ \/ /\ mark' = IF item.rollback THEN pending ELSE mark
        /\ pc' = "execute"
        /\ UNCHANGED <<request, idx, begun, session, pending, durable, commitLost, buffered, rows, writer, response>>
     \/ item.rollback /\ Fail

\* ExecuteWriteNode: a delete is answered with no rows, the fast path with
\* the rows it built.
ExecuteWriteNode ==
  /\ pc = "execute"
  /\ \/ /\ pending' = pending \cup {idx}
        /\ \E kept \in Rows :
             /\ \A n \in DOMAIN kept : kept[n] = pending'
             /\ buffered' = [buffered EXCEPT ![idx] = CASE item.kind = "delete" -> Kept(<<>>)
                                                        [] item.kind = "fast" -> Kept(kept)
                                                        [] OTHER -> @]
        /\ IF item.rollback THEN pc' = "readback" /\ UNCHANGED idx ELSE NextItem("write", "read")
        /\ UNCHANGED <<request, begun, session, mark, durable, commitLost, rows, writer, response>>
     \/ Fail

\* bufferReadback, unless the response is already there or not wanted. A
\* read-back without rows is a nil slice: as if nothing had been kept.
BufferReadback ==
  /\ pc = "readback"
  /\ \/ /\ IF item.none \/ buffered[idx].kept
           THEN UNCHANGED buffered
           ELSE \E kept \in Rows :
                  /\ \A n \in DOMAIN kept : kept[n] = pending
                  /\ buffered' = [buffered EXCEPT ![idx] = IF kept = <<>> THEN NotBuffered ELSE Kept(kept)]
        /\ pc' = "undo"
        /\ UNCHANGED <<request, idx, begun, database, rows, writer, response>>
     \/ /\ ~item.none /\ ~buffered[idx].kept
        /\ Fail

\* Mutant of RollbackToSavepoint: the savepoint is released instead.
ReleaseSavepoint ==
  /\ pc = "undo"
  /\ NextItem("write", "read")
  /\ UNCHANGED <<request, begun, database, buffered, rows, writer, response>>

RollbackToSavepoint ==
  /\ pc = "undo"
  /\ \/ /\ pending' = mark
        /\ NextItem("write", "read")
        /\ UNCHANGED <<request, begun, session, mark, durable, commitLost, buffered, rows, writer, response>>
     \/ Fail

-----------------------------------------------------------------------------
(* readPhase, and the response of every item.                              *)

\* Everything that can fail before the first byte: compiling, count, explain.
\* The count of a read runs it, with its effects.
ReadPhase ==
  /\ pc = "read"
  /\ \/ /\ \/ UNCHANGED pending
           \/ ~IsWrite(item) /\ pending' = pending \cup {idx}
        /\ NextItem("read", "head")
        /\ UNCHANGED <<request, begun, session, mark, durable, commitLost, buffered, rows, writer, response>>
     \/ Fail

WriteHead ==
  /\ pc = "head"
  /\ \/ /\ IF Multi THEN Write(Token("listOpen", 0, {})) ELSE UNCHANGED writer
        /\ pc' = "query"
        /\ UNCHANGED <<request, idx, begun, database, buffered, rows, response>>
     \/ Multi /\ WriteFails

\* No statement for a kept response, and none for a write with "returns":
\* "none"; a read with it runs and its rows are dropped.
HasStatement == ~buffered[idx].kept /\ ~(IsWrite(item) /\ item.none)

\* writeItemResponse: the statement of the item starts (the read-back of a
\* write finds the rows of that write, none once it is rolled back), ...
RunStatement ==
  /\ pc = "query"
  /\ \/ /\ IF HasStatement
           THEN /\ pending' = IF IsWrite(item) THEN pending ELSE pending \cup {idx}
                /\ \E read \in Rows : /\ \A n \in DOMAIN read : idx \in pending' /\ read[n] = pending'
                                      /\ rows' = IF item.none THEN <<>> ELSE read
           ELSE /\ rows' = IF item.none THEN <<>> ELSE buffered[idx].rows
                /\ UNCHANGED pending
        /\ pc' = "open"
        /\ UNCHANGED <<request, idx, begun, session, mark, durable, commitLost, buffered, writer, response>>
     \/ HasStatement /\ Fail

\* ... the response is opened, ...
OpenItem ==
  /\ pc = "open"
  /\ \/ /\ Write(Token("open", idx, {}))
        /\ pc' = "rows"
        /\ UNCHANGED <<request, idx, begun, database, buffered, rows, response>>
     \/ WriteFails

\* The rows that are still to come from the connection may bring an error.
Streams == HasStatement /\ ~item.none

\* ... its rows follow, ...
WriteRow ==
  /\ pc = "rows"
  /\ rows # <<>>
  /\ \/ /\ Write(Token("row", idx, Head(rows)))
        /\ rows' = Tail(rows)
        /\ UNCHANGED <<request, pc, idx, begun, database, buffered, response>>
     \/ WriteFails
     \/ Streams /\ Fail

\* Mutant of CloseItem: rows.Err is not looked at once the rows are read.
CloseItemUnchecked ==
  /\ pc = "rows"
  /\ rows = <<>>
  /\ UNCHANGED database \/ (Streams /\ StatementFails)
  /\ Write(Token("close", idx, {}))
  /\ NextItem("query", "commit")
  /\ UNCHANGED <<request, begun, buffered, rows, response>>

\* ... and it is closed.
CloseItem ==
  /\ pc = "rows"
  /\ rows = <<>>
  /\ \/ /\ Write(Token("close", idx, {}))
        /\ NextItem("query", "commit")
        /\ UNCHANGED <<request, begun, database, buffered, rows, response>>
     \/ WriteFails
     \/ Streams /\ Fail

-----------------------------------------------------------------------------
(* The end of Execute, and of handleRel.                                   *)

\* Mutant of Commit: the error of "commit" is dropped.
CommitUnchecked ==
  /\ pc = "commit"
  /\ durable' \in {{}, pending}
  /\ session' = "idle"
  /\ pending' = {}
  /\ pc' = "tail"
  /\ UNCHANGED <<request, idx, begun, mark, commitLost, buffered, rows, writer, response>>

\* The single commit. A transaction Postgres aborted "commits" as a rollback
\* without an error. A refused commit rolled back; one whose connection broke
\* may have been executed or not.
Commit ==
  /\ pc = "commit"
  /\ \/ /\ durable' = IF session = "open" THEN pending ELSE {}
        /\ session' = "idle"
        /\ pc' = "tail"
        /\ UNCHANGED commitLost
     \/ /\ session' = "idle"
        /\ pc' = "failed"
        /\ UNCHANGED <<durable, commitLost>>
     \/ /\ session' = "lost"
        /\ commitLost' = TRUE
        /\ durable' \in {{}, pending}
        /\ pc' = "failed"
  /\ pending' = {}
  /\ UNCHANGED <<request, idx, begun, mark, buffered, rows, writer, response>>

\* The closing bracket of a JSON batch is written after the commit.
WriteTail ==
  /\ pc = "tail"
  /\ \/ /\ IF Multi /\ format = "json" THEN Write(Token("listClose", 0, {})) ELSE UNCHANGED writer
        /\ pc' = "flush"
        /\ UNCHANGED <<request, idx, begun, database, buffered, rows, response>>
     \/ Multi /\ format = "json" /\ WriteFails

Flush ==
  /\ pc = "flush"
  /\ \/ /\ released' = TRUE
        /\ out' = out \o held
        /\ held' = <<>>
        /\ response' = "ok"
        /\ pc' = "release"
        /\ UNCHANGED <<request, idx, begun, database, buffered, rows>>
     \/ ~released /\ held # <<>> /\ ClientGone

\* The deferred function rolls back what was begun (a cancelled context
\* keeps the statement from being sent) and reports whether bytes are gone;
\* handleRel answers with the error only when none are.
Deferred ==
  /\ pc = "failed"
  /\ \/ /\ begun /\ session # "lost"
        /\ session' = "idle"
        /\ pending' = {}
     \/ UNCHANGED <<session, pending>>
  /\ response' = IF released THEN "cut" ELSE "error"
  /\ pc' = "release"
  /\ UNCHANGED <<request, idx, begun, mark, durable, commitLost, buffered, rows, writer>>

\* conn.Release (external): a connection that is not idle is destroyed, and
\* the server rolls its transaction back.
Release ==
  /\ pc = "release"
  /\ session' = IF session = "idle" THEN "idle" ELSE "lost"
  /\ pending' = {}
  /\ pc' = "end"
  /\ UNCHANGED <<request, idx, begun, mark, durable, commitLost, buffered, rows, writer, response>>

Done == pc = "end" /\ UNCHANGED vars

Next ==
  \/ ParseRequest \/ Prepare \/ AcquireConn \/ Bind \/ PrepareWrite \/ Begin
  \/ SkipRead \/ Savepoint \/ ExecuteWriteNode \/ BufferReadback \/ RollbackToSavepoint
  \/ ReadPhase \/ WriteHead \/ RunStatement \/ OpenItem \/ WriteRow \/ CloseItem
  \/ Commit \/ WriteTail \/ Flush \/ Deferred \/ Release \/ Done

Spec == Init /\ [][Next]_vars

-----------------------------------------------------------------------------
(* Properties.                                                             *)

Tokens == [t : {"listOpen", "open", "row", "close", "listClose"}, item : 0..MaxItems, seen : SUBSET Effects]

\* Every variable keeps its type: the loops stay within the items, and what
\* is kept aside or sent are rows of this request.
TypeOK ==
  /\ items \in Requests
  /\ format \in {"json", "cbor"}
  /\ buffer \in Buffers
  /\ allowRollback \in BOOLEAN
  /\ pc \in {"parse", "prepare", "acquire", "bind", "tables", "begin", "write", "execute", "readback", "undo", "read", "head", "query",
             "open", "rows", "commit", "tail", "flush", "failed", "release", "end"}
  /\ idx \in 1..(IF items = <<>> THEN 1 ELSE Last)
  /\ begun \in BOOLEAN
  /\ session \in {"idle", "open", "aborted", "lost"}
  /\ pending \subseteq DOMAIN items
  /\ mark \subseteq DOMAIN items
  /\ durable \subseteq DOMAIN items
  /\ buffered \in [DOMAIN items -> [kept : BOOLEAN, rows : Seq(SUBSET Effects)]]
  /\ rows \in Seq(SUBSET Effects)
  /\ held \in Seq(Tokens)
  /\ released \in BOOLEAN
  /\ out \in Seq(Tokens)
  /\ commitLost \in BOOLEAN
  /\ response \in {"none", "ok", "error", "cut"}

\* Nothing partially succeeds: once anything of a request is durable, every
\* item that did not ask for rollback is, and no write that asked for it is
\* (README.md: "Nothing partially succeeds").
AllOrNothing ==
  durable # {} =>
    \A i \in DOMAIN items : /\ ~items[i].rollback => i \in durable
                            /\ IsWrite(items[i]) /\ items[i].rollback => i \notin durable

\* The items that end up durable when the request succeeds.
Lasting == {i \in DOMAIN items : ~(IsWrite(items[i]) /\ items[i].rollback)}

\* A request that is answered with its result was committed, and its whole
\* body was sent: Postgres' silent rollback of an aborted transaction at
\* "commit" is never taken for a success.
SuccessIsCommitted == response = "ok" => durable = Lasting /\ held = <<>>

\* A request that is answered with an error left nothing in the database
\* (batching.md: "is answered with the usual error response, and nothing is
\* written to the database"), unless the answer to the commit was lost.
ErrorIsRolledBack == response = "error" /\ ~commitLost => durable = {}

\* An error response is never appended to a body that has begun, and a body
\* within the buffer reaches the client only once it is committed (relexec.go,
\* Execute: "a response that fits is delivered whole or not at all").
HeldUntilCommitted ==
  /\ response = "error" => out = <<>>
  /\ out # <<>> /\ pc \notin {"tail", "flush", "failed", "release", "end"} => Len(out) > buffer

\* What an item shows never includes a write that was undone by rollback to
\* its savepoint, except in the answer of that very item, which shows it.
RolledBackInvisible ==
  \A n \in DOMAIN out : \A i \in DOMAIN items :
    out[n].t = "row" /\ IsWrite(items[i]) /\ items[i].rollback =>
      (i \in out[n].seen <=> out[n].item = i)

\* The body of a JSON batch is closed only after the commit, so that a client
\* that reads it to the end knows the batch is durable (batching.md: "can tell
\* a complete response from a cut-short one").
ClosedBatchIsCommitted ==
  \A n \in DOMAIN out : out[n].t = "listClose" => durable = Lasting

\* What batching.md says of a response longer than the buffer whose request
\* fails: "the body stops short", so that "a closed JSON array, a CBOR break"
\* means success. A single item's array is closed before the commit.
ClosedBodyIsCommitted ==
  response # "none" /\ ~Multi => \A n \in DOMAIN out : out[n].t = "close" => durable = Lasting

\* What complex-query.md says of rollback: it "runs this query inside its own
\* savepoint, rolled back immediately after it executes", for "a side-effecting
\* function/view (a read)" too. Only writes get a savepoint.
RollbackUndoes == \A i \in DOMAIN items : items[i].rollback => i \notin durable

-----------------------------------------------------------------------------
(* The inductive invariant behind AllOrNothing, SuccessIsCommitted,        *)
(* ErrorIsRolledBack and HeldUntilCommitted.                               *)

Starting == {"parse", "prepare", "acquire", "bind", "tables", "begin"}
Writing == {"write", "execute", "readback", "undo"}
Reading == {"read", "head", "query", "open", "rows"}

\* The writes before item k that are to last, and the reads before it.
Written(k) == {i \in DOMAIN items : i < k /\ IsWrite(items[i]) /\ ~items[i].rollback}
ReadUpTo(k) == {i \in DOMAIN items : i < k /\ ~IsWrite(items[i])}

\* The transaction is open and healthy as long as Execute goes on, and what
\* it holds is known at every point of the two loops.
TransactionInv ==
  /\ pc \in Writing \cup Reading => idx \in DOMAIN items
  /\ pc \in Writing \cup Reading \cup {"commit"} => session = "open"
  /\ pc \in {"execute", "readback", "undo"} => IsWrite(item)
  /\ pc \in {"readback", "undo"} => item.rollback
  /\ pc \in Starting => pending = {}
  /\ pc \in Starting \cup {"head"} => idx = 1
  /\ pc \in {"write", "execute"} => pending = Written(idx)
  /\ pc \in {"execute", "readback", "undo"} /\ item.rollback => mark = Written(idx)
  /\ pc \in Reading => Written(Last + 1) \subseteq pending /\ pending \subseteq Lasting
  /\ pc = "query" => ReadUpTo(idx) \subseteq pending
  /\ pc \in {"open", "rows"} => ReadUpTo(idx + 1) \subseteq pending
  /\ pc = "commit" => pending = Lasting
  /\ \A i \in DOMAIN items : buffered[i].kept => IsWrite(items[i])

\* Nothing is durable before the commit, and everything after it.
DurableInv ==
  /\ pc \in Starting \cup Writing \cup Reading \cup {"commit"} => durable = {} /\ ~commitLost
  /\ pc \in {"tail", "flush"} => durable = Lasting
  /\ durable \in {{}, Lasting}
  /\ pc = "failed" /\ ~released /\ ~commitLost => durable = {}

\* Before its buffer is full holdWriter has sent nothing.
HoldInv ==
  /\ ~released => out = <<>> /\ Len(held) <= buffer
  /\ released => held = <<>>
  /\ pc \in Starting => ~released
  /\ released /\ pc \notin {"tail", "flush", "failed", "release", "end"} => Len(out) > buffer
  /\ response # "none" => pc \in {"release", "end"}
  /\ response = "error" => ~released

IInv == TypeOK /\ TransactionInv /\ DurableInv /\ HoldInv
         /\ SuccessIsCommitted /\ ErrorIsRolledBack
=============================================================================
