--------------------------- MODULE RelExecProofs ---------------------------
(***************************************************************************)
(* Proofs about RelExec for any number of items and rows and any size of   *)
(* the response buffer.                                                    *)
(***************************************************************************)
EXTENDS RelExec, TLAPS

-----------------------------------------------------------------------------
(* What the types say.                                                     *)

\* A request is a sequence of items.
LEMMA RequestType ==
  ASSUME items \in Requests
  PROVE  /\ items \in Seq(Items)
         /\ Last \in 0..MaxItems
         /\ DOMAIN items = 1..Last
  BY RelExecAssumption DEF Requests, Last

\* The rows of a result are a sequence of sets of effects.
LEMMA RowsType == Rows \subseteq Seq(SUBSET Effects)
  BY RelExecAssumption DEF Rows

\* The empty sequence has every sequence type.
LEMMA EmptyType == \A S : <<>> \in Seq(S)
  OBVIOUS

\* What an item contributes to the body are tokens.
LEMMA TokenType ==
  ASSUME NEW t \in {"listOpen", "open", "row", "close", "listClose"},
         NEW i \in 0..MaxItems,
         NEW seen \in SUBSET Effects
  PROVE  Token(t, i, seen) \in Tokens
  BY DEF Token, Tokens

\* holdWriter.Write keeps the types of its state.
LEMMA WriteType ==
  ASSUME TypeOK, NEW tok \in Tokens, Write(tok)
  PROVE  held' \in Seq(Tokens) /\ released' \in BOOLEAN /\ out' \in Seq(Tokens)
  <1>1. held \in Seq(Tokens) /\ out \in Seq(Tokens) /\ released \in BOOLEAN
    BY DEF TypeOK
  <1>2. CASE Fits
    BY <1>1, <1>2 DEF Write
  <1>3. CASE ~Fits
    <2>1. out \o held \in Seq(Tokens)
      BY <1>1
    <2>2. Append(out \o held, tok) \in Seq(Tokens)
      BY <2>1
    <2> QED
      BY <1>3, <2>2, EmptyType DEF Write
  <1> QED
    BY <1>2, <1>3

\* The steps that end the loop leave the request and the loop's variables.
LEMMA FailType ==
  ASSUME TypeOK, Fail
  PROVE  TypeOK'
  BY DEF TypeOK, Fail, StatementFails, request, writer, Last

\* A client that is gone leaves the types alone too.
LEMMA GoneType ==
  ASSUME TypeOK, ClientGone
  PROVE  TypeOK'
  <1>1. held \in Seq(Tokens) /\ out \in Seq(Tokens)
    BY DEF TypeOK
  <1>2. out \o held \in Seq(Tokens)
    BY <1>1
  <1>3. out' \in Seq(Tokens) /\ held' \in Seq(Tokens) /\ released' \in BOOLEAN
    BY <1>1, <1>2, EmptyType DEF ClientGone
  <1> QED
    BY <1>3 DEF TypeOK, ClientGone, request, database, Last

\* The initial states are well-typed.
LEMMA InitType == ASSUME Init PROVE TypeOK
  <1>1. items \in Requests
    BY DEF Init
  <1>2. /\ items \in Seq(Items)
        /\ Last \in 0..MaxItems
        /\ DOMAIN items = 1..Last
    BY <1>1, RequestType
  <1>3. idx \in 1..(IF items = <<>> THEN 1 ELSE Last)
    BY <1>1, <1>2, RelExecAssumption DEF Init, Last
  <1>4. buffered \in [DOMAIN items -> [kept : BOOLEAN, rows : Seq(SUBSET Effects)]]
    <2>1. NotBuffered \in [kept : BOOLEAN, rows : Seq(SUBSET Effects)]
      BY DEF NotBuffered
    <2>2. buffered = [i \in DOMAIN items |-> NotBuffered]
      BY DEF Init
    <2> QED
      BY <2>1, <2>2, Zenon
  <1> QED
    BY <1>1, <1>3, <1>4, EmptyType DEF Init, TypeOK

-----------------------------------------------------------------------------
(* One step of Execute.                                                    *)

\* The position of a loop stays within the items.
LEMMA LoopType ==
  ASSUME TypeOK, idx \in DOMAIN items, NEW this, NEW next, NextItem(this, next), UNCHANGED items
  PROVE  /\ idx' \in 1..(IF items' = <<>> THEN 1 ELSE Last')
         /\ idx' \in DOMAIN items'
         /\ pc' \in {this, next}
  <1>1. /\ items \in Seq(Items)
        /\ Last \in 0..MaxItems
        /\ DOMAIN items = 1..Last
    BY RequestType DEF TypeOK
  <1> QED
    BY <1>1, RelExecAssumption DEF NextItem, Last

\* Every step keeps the types, given that the loops are within the items.
LEMMA TypeStep ==
  ASSUME IInv, [Next]_vars
  PROVE  TypeOK'
  <1> USE DEF IInv
  <1>1. /\ items \in Seq(Items)
        /\ Last \in 0..MaxItems
        /\ DOMAIN items = 1..Last
        /\ DOMAIN items \subseteq 0..MaxItems
        /\ DOMAIN items \subseteq Effects
    <2>1. /\ items \in Seq(Items)
          /\ Last \in 0..MaxItems
          /\ DOMAIN items = 1..Last
      BY RequestType DEF TypeOK
    <2> QED
      BY <2>1, RelExecAssumption DEF Effects
  <1>2. ASSUME pc \in Writing \cup Reading PROVE idx \in DOMAIN items
    BY <1>2 DEF TransactionInv
  <1>a. {} \in SUBSET Effects /\ 0 \in 0..MaxItems
    BY RelExecAssumption
  <1>3. CASE ParseRequest \/ Prepare \/ AcquireConn
    BY <1>3 DEF TypeOK, ParseRequest, Prepare, AcquireConn, ProceedOrReject, request, database, writer, Last
  <1>4. CASE Bind
    BY <1>4 DEF TypeOK, Bind, request, database, writer, Last
  <1>5. CASE PrepareWrite
    <2>1. CASE Fail
      BY <2>1, FailType
    <2>2. CASE ~Fail
      BY <1>5, <2>2 DEF TypeOK, PrepareWrite, request, database, writer, Last
    <2> QED
      BY <2>1, <2>2
  <1>6. CASE Begin
    BY <1>6 DEF TypeOK, Begin, request, writer, Last
  <1>7. CASE SkipRead
    <2>1. /\ idx' \in 1..(IF items' = <<>> THEN 1 ELSE Last')
          /\ pc' \in {"write", "read"}
      BY <1>7, <1>2, LoopType DEF SkipRead, Writing, request
    <2> QED
      BY <1>7, <2>1 DEF TypeOK, SkipRead, request, database, writer
  <1>8. CASE Savepoint
    <2>1. CASE Fail
      BY <2>1, FailType
    <2>2. CASE ~Fail
      BY <1>8, <2>2 DEF TypeOK, Savepoint, request, database, writer, Last
    <2> QED
      BY <2>1, <2>2
  <1>9. CASE ExecuteWriteNode
    <2>1. CASE Fail
      BY <2>1, FailType
    <2>2. CASE ~Fail
      <3>1. idx \in DOMAIN items
        BY <1>9, <1>2 DEF ExecuteWriteNode, Writing
      <3>2. /\ idx' \in 1..(IF items' = <<>> THEN 1 ELSE Last')
            /\ pc' \in {"readback", "write", "read"}
        <4>1. CASE item.rollback
          BY <1>9, <2>2, <4>1 DEF TypeOK, ExecuteWriteNode, request, Last
        <4>2. CASE ~item.rollback
          <5>1. NextItem("write", "read") /\ UNCHANGED items
            BY <1>9, <2>2, <4>2 DEF ExecuteWriteNode, request
          <5> QED
            BY <5>1, <3>1, LoopType
        <4> QED
          BY <4>1, <4>2
      <3>3. buffered' \in [DOMAIN items' -> [kept : BOOLEAN, rows : Seq(SUBSET Effects)]]
        <4>1. PICK kept \in Rows :
                buffered' = [buffered EXCEPT ![idx] = CASE item.kind = "delete" -> Kept(<<>>)
                                                        [] item.kind = "fast" -> Kept(kept)
                                                        [] OTHER -> @]
          BY <1>9, <2>2 DEF ExecuteWriteNode
        <4>2. /\ Kept(<<>>) \in [kept : BOOLEAN, rows : Seq(SUBSET Effects)]
              /\ Kept(kept) \in [kept : BOOLEAN, rows : Seq(SUBSET Effects)]
          BY RowsType, EmptyType DEF Kept
        <4>3. buffered \in [DOMAIN items -> [kept : BOOLEAN, rows : Seq(SUBSET Effects)]]
          BY DEF TypeOK
        <4>4. UNCHANGED items
          BY <1>9, <2>2 DEF ExecuteWriteNode, request
        <4> QED
          BY <3>1, <4>1, <4>2, <4>3, <4>4
      <3> QED
        BY <1>9, <2>2, <3>1, <3>2, <3>3 DEF TypeOK, ExecuteWriteNode, request, writer
    <2> QED
      BY <2>1, <2>2
  <1>10. CASE BufferReadback
    <2>1. CASE Fail
      BY <2>1, FailType
    <2>2. CASE ~Fail
      <3>1. idx \in DOMAIN items
        BY <1>10, <1>2 DEF BufferReadback, Writing
      <3>2. buffered' \in [DOMAIN items' -> [kept : BOOLEAN, rows : Seq(SUBSET Effects)]]
        <4>1. \/ buffered' = buffered
              \/ \E kept \in Rows :
                   buffered' = [buffered EXCEPT ![idx] = IF kept = <<>> THEN NotBuffered ELSE Kept(kept)]
          BY <1>10, <2>2 DEF BufferReadback
        <4>2. /\ NotBuffered \in [kept : BOOLEAN, rows : Seq(SUBSET Effects)]
              /\ \A kept \in Rows : Kept(kept) \in [kept : BOOLEAN, rows : Seq(SUBSET Effects)]
          BY RowsType, EmptyType DEF Kept, NotBuffered
        <4>3. buffered \in [DOMAIN items -> [kept : BOOLEAN, rows : Seq(SUBSET Effects)]]
          BY DEF TypeOK
        <4>4. UNCHANGED items
          BY <1>10, <2>2 DEF BufferReadback, request
        <4> QED
          BY <3>1, <4>1, <4>2, <4>3, <4>4
      <3> QED
        BY <1>10, <2>2, <3>2 DEF TypeOK, BufferReadback, request, database, writer, Last
    <2> QED
      BY <2>1, <2>2
  <1>11. CASE RollbackToSavepoint
    <2>1. CASE Fail
      BY <2>1, FailType
    <2>2. CASE ~Fail
      <3>1. NextItem("write", "read") /\ UNCHANGED items /\ idx \in DOMAIN items
        BY <1>11, <1>2, <2>2 DEF RollbackToSavepoint, request, Writing
      <3>2. /\ idx' \in 1..(IF items' = <<>> THEN 1 ELSE Last')
            /\ pc' \in {"write", "read"}
        BY <3>1, LoopType
      <3> QED
        BY <1>11, <2>2, <3>2 DEF TypeOK, RollbackToSavepoint, request, writer
    <2> QED
      BY <2>1, <2>2
  <1>12. CASE ReadPhase
    <2>1. CASE Fail
      BY <2>1, FailType
    <2>2. CASE ~Fail
      <3>1. NextItem("read", "head") /\ UNCHANGED items /\ idx \in DOMAIN items
        BY <1>12, <1>2, <2>2 DEF ReadPhase, request, Reading
      <3>2. /\ idx' \in 1..(IF items' = <<>> THEN 1 ELSE Last')
            /\ pc' \in {"read", "head"}
        BY <3>1, LoopType
      <3> QED
        BY <1>12, <2>2, <3>1, <3>2 DEF TypeOK, ReadPhase, request, writer
    <2> QED
      BY <2>1, <2>2
  <1>13. CASE WriteHead
    <2>1. CASE ClientGone
      BY <2>1, GoneType
    <2>2. CASE ~ClientGone
      <3>1. held' \in Seq(Tokens) /\ released' \in BOOLEAN /\ out' \in Seq(Tokens)
        <4>1. Token("listOpen", 0, {}) \in Tokens
          BY <1>a, TokenType
        <4>2. Write(Token("listOpen", 0, {})) \/ UNCHANGED writer
          BY <1>13, <2>2 DEF WriteHead, WriteFails
        <4>3. CASE Write(Token("listOpen", 0, {}))
          BY <4>1, <4>3, WriteType
        <4>4. CASE UNCHANGED writer
          BY <4>4 DEF writer, TypeOK
        <4> QED
          BY <4>2, <4>3, <4>4
      <3> QED
        BY <1>13, <2>2, <3>1 DEF TypeOK, WriteHead, WriteFails, request, database, Last
    <2> QED
      BY <2>1, <2>2
  <1>14. CASE RunStatement
    <2>1. CASE Fail
      BY <2>1, FailType
    <2>2. CASE ~Fail
      <3>1. idx \in DOMAIN items
        BY <1>14, <1>2 DEF RunStatement, Reading
      <3>2. pending' \subseteq DOMAIN items
        BY <1>14, <2>2, <3>1 DEF RunStatement, TypeOK
      <3>3. rows' \in Seq(SUBSET Effects)
        <4>1. \/ rows' = <<>>
              \/ rows' \in Rows
              \/ rows' = buffered[idx].rows
          BY <1>14, <2>2 DEF RunStatement
        <4>2. buffered[idx].rows \in Seq(SUBSET Effects)
          BY <3>1 DEF TypeOK
        <4> QED
          BY <4>1, <4>2, RowsType, EmptyType
      <3> QED
        BY <1>14, <2>2, <3>2, <3>3 DEF TypeOK, RunStatement, request, writer, Last
    <2> QED
      BY <2>1, <2>2
  <1>15. CASE OpenItem
    <2>1. CASE ClientGone
      BY <2>1, GoneType
    <2>2. CASE ~ClientGone
      <3>1. idx \in 0..MaxItems
        BY <1>15, <1>1, <1>2 DEF OpenItem, Reading
      <3>2. Token("open", idx, {}) \in Tokens
        BY <3>1, <1>a, TokenType
      <3>3. Write(Token("open", idx, {}))
        BY <1>15, <2>2 DEF OpenItem, WriteFails
      <3>4. held' \in Seq(Tokens) /\ released' \in BOOLEAN /\ out' \in Seq(Tokens)
        BY <3>2, <3>3, WriteType
      <3> QED
        BY <1>15, <2>2, <3>4 DEF TypeOK, OpenItem, WriteFails, request, database, Last
    <2> QED
      BY <2>1, <2>2
  <1>16. CASE WriteRow
    <2>1. CASE ClientGone
      BY <2>1, GoneType
    <2>2. CASE Fail
      BY <2>2, FailType
    <2>3. CASE ~ClientGone /\ ~Fail
      <3>1. idx \in 0..MaxItems
        BY <1>16, <1>1, <1>2 DEF WriteRow, Reading
      <3>2. Head(rows) \in SUBSET Effects /\ Tail(rows) \in Seq(SUBSET Effects)
        BY <1>16 DEF WriteRow, TypeOK
      <3>3. Token("row", idx, Head(rows)) \in Tokens
        BY <3>1, <3>2, TokenType
      <3>4. Write(Token("row", idx, Head(rows)))
        BY <1>16, <2>3 DEF WriteRow, WriteFails
      <3>5. held' \in Seq(Tokens) /\ released' \in BOOLEAN /\ out' \in Seq(Tokens)
        BY <3>3, <3>4, WriteType
      <3> QED
        BY <1>16, <2>3, <3>2, <3>5 DEF TypeOK, WriteRow, WriteFails, request, database, Last
    <2> QED
      BY <2>1, <2>2, <2>3
  <1>17. CASE CloseItem
    <2>1. CASE ClientGone
      BY <2>1, GoneType
    <2>2. CASE Fail
      BY <2>2, FailType
    <2>3. CASE ~ClientGone /\ ~Fail
      <3>1. idx \in DOMAIN items /\ idx \in 0..MaxItems
        BY <1>17, <1>1, <1>2 DEF CloseItem, Reading
      <3>2. Token("close", idx, {}) \in Tokens
        BY <3>1, <1>a, TokenType
      <3>3. /\ Write(Token("close", idx, {}))
            /\ NextItem("query", "commit")
            /\ UNCHANGED items
        BY <1>17, <2>3 DEF CloseItem, WriteFails, request
      <3>4. held' \in Seq(Tokens) /\ released' \in BOOLEAN /\ out' \in Seq(Tokens)
        BY <3>2, <3>3, WriteType
      <3>5. /\ idx' \in 1..(IF items' = <<>> THEN 1 ELSE Last')
            /\ pc' \in {"query", "commit"}
        BY <3>1, <3>3, LoopType
      <3> QED
        BY <1>17, <2>3, <3>4, <3>5, ZenonT(40) DEF TypeOK, CloseItem, WriteFails, request, database
    <2> QED
      BY <2>1, <2>2, <2>3
  <1>18. CASE Commit
    BY <1>18, ZenonT(40) DEF TypeOK, Commit, request, writer, Last
  <1>19. CASE WriteTail
    <2>1. CASE ClientGone
      BY <2>1, GoneType
    <2>2. CASE ~ClientGone
      <3>1. held' \in Seq(Tokens) /\ released' \in BOOLEAN /\ out' \in Seq(Tokens)
        <4>1. Token("listClose", 0, {}) \in Tokens
          BY <1>a, TokenType
        <4>2. Write(Token("listClose", 0, {})) \/ UNCHANGED writer
          BY <1>19, <2>2 DEF WriteTail, WriteFails
        <4>3. CASE Write(Token("listClose", 0, {}))
          BY <4>1, <4>3, WriteType
        <4>4. CASE UNCHANGED writer
          BY <4>4 DEF writer, TypeOK
        <4> QED
          BY <4>2, <4>3, <4>4
      <3> QED
        BY <1>19, <2>2, <3>1 DEF TypeOK, WriteTail, WriteFails, request, database, Last
    <2> QED
      BY <2>1, <2>2
  <1>20. CASE Flush
    <2>1. CASE ClientGone
      BY <2>1, GoneType
    <2>2. CASE ~ClientGone
      <3>1. held \in Seq(Tokens) /\ out \in Seq(Tokens)
        BY DEF TypeOK
      <3>2. out \o held \in Seq(Tokens)
        BY <3>1
      <3>3. out' \in Seq(Tokens) /\ held' \in Seq(Tokens)
        BY <1>20, <2>2, <3>2, EmptyType DEF Flush
      <3> QED
        BY <1>20, <2>2, <3>3 DEF TypeOK, Flush, request, database, Last
    <2> QED
      BY <2>1, <2>2
  <1>21. CASE Deferred
    BY <1>21 DEF TypeOK, Deferred, request, writer, Last
  <1>22. CASE Release
    BY <1>22 DEF TypeOK, Release, request, writer, Last
  <1>23. CASE UNCHANGED vars
    BY <1>23 DEF TypeOK, vars, request, database, writer, Last
  <1> QED
    BY <1>3, <1>4, <1>5, <1>6, <1>7, <1>8, <1>9, <1>10, <1>11, <1>12, <1>13, <1>14, <1>15,
       <1>16, <1>17, <1>18, <1>19, <1>20, <1>21, <1>22, <1>23 DEF Next, Done

-----------------------------------------------------------------------------
(* What the transaction holds.                                             *)

\* How the sets of items before a position grow with the position.
LEMMA Progress ==
  ASSUME TypeOK, idx \in DOMAIN items
  PROVE  /\ Written(1) = {} /\ ReadUpTo(1) = {}
         /\ IsWrite(item) /\ ~item.rollback => Written(idx + 1) = Written(idx) \cup {idx}
         /\ ~IsWrite(item) \/ item.rollback => Written(idx + 1) = Written(idx)
         /\ IsWrite(item) => ReadUpTo(idx + 1) = ReadUpTo(idx)
         /\ ~IsWrite(item) => ReadUpTo(idx + 1) = ReadUpTo(idx) \cup {idx}
  <1>1. DOMAIN items = 1..Last /\ Last \in Nat
    BY RequestType DEF TypeOK
  <1> QED
    BY <1>1 DEF Written, ReadUpTo, item

\* At the end of the loops both sets together are what is to last.
LEMMA Complete ==
  ASSUME TypeOK
  PROVE  /\ Written(Last + 1) \subseteq Lasting
         /\ Lasting \subseteq Written(Last + 1) \cup ReadUpTo(Last + 1)
  <1>1. DOMAIN items = 1..Last /\ Last \in Nat
    BY RequestType DEF TypeOK
  <1> QED
    BY <1>1 DEF Written, ReadUpTo, Lasting

\* Once Execute has left its loops, the transaction's contents are not constrained.
LEMMA Outside ==
  ASSUME IInv, UNCHANGED <<items, buffered>>,
         pc' \in {"tail", "flush", "failed", "release", "end"}
  PROVE  TransactionInv'
  BY DEF IInv, TransactionInv, Starting, Writing, Reading

\* In particular when a statement fails or the client is gone.
LEMMA FailTransaction ==
  ASSUME IInv, Fail \/ ClientGone
  PROVE  TransactionInv'
  BY Outside DEF Fail, ClientGone, request

\* The write phase moves to its next item, or to the read phase.
LEMMA WriteLoop ==
  ASSUME IInv, idx \in DOMAIN items, UNCHANGED items, NextItem("write", "read"),
         session' = "open", pending' = Written(idx + 1),
         \A i \in DOMAIN items : buffered'[i].kept => IsWrite(items[i])
  PROVE  TransactionInv'
  <1>0. TypeOK
    BY DEF IInv
  <1>1. Last \in Nat /\ DOMAIN items = 1..Last
    BY <1>0, RequestType DEF TypeOK
  <1>2. idx' \in DOMAIN items'
    BY <1>0, LoopType
  <1>3. CASE idx < Last
    <2>1. pc' = "write" /\ pending' = Written(idx')
      BY <1>3 DEF NextItem
    <2>2. Written(idx') = Written(idx)'
      BY DEF Written
    <2> QED
      BY <1>2, <2>1, <2>2 DEF TransactionInv, Starting, Writing, Reading
  <1>4. CASE ~(idx < Last)
    <2>1. idx = Last /\ pc' = "read"
      BY <1>1, <1>4 DEF NextItem
    <2>2. Written(Last + 1) \subseteq pending' /\ pending' \subseteq Lasting
      BY <1>0, <2>1, Complete
    <2>3. (Written(Last + 1) \subseteq pending /\ pending \subseteq Lasting)'
      BY <2>2 DEF Written, Lasting, Last
    <2> QED
      BY <1>2, <2>1, <2>3 DEF TransactionInv, Starting, Writing, Reading
  <1> QED
    BY <1>3, <1>4

\* Every step of Execute's loops adds what it should and nothing else.
LEMMA TransactionStep ==
  ASSUME IInv, [Next]_vars
  PROVE  TransactionInv'
  <1>0. TypeOK /\ TransactionInv
    BY DEF IInv
  <1>1. /\ Last \in Nat
        /\ DOMAIN items = 1..Last
    BY <1>0, RequestType DEF TypeOK
  <1>3. CASE ParseRequest \/ Prepare \/ AcquireConn \/ Bind \/ PrepareWrite
    <2>1. CASE Fail
      BY <2>1, FailTransaction
    <2>2. CASE ~Fail
      BY <1>3, <2>2, <1>0 DEF ParseRequest, Prepare, AcquireConn, ProceedOrReject, Bind, PrepareWrite,
         TransactionInv, Starting, Writing, Reading, request, database, writer
    <2> QED
      BY <2>1, <2>2
  <1>6. CASE Begin
    <2>1. UNCHANGED <<items, buffered, pending, idx>>
      BY <1>6 DEF Begin, request
    <2>2. CASE pc' = "failed"
      BY <2>1, <2>2, Outside
    <2>3. CASE pc' = "write"
      <3>1. idx \in DOMAIN items
        BY <1>6, <1>0, <1>1, <2>3 DEF Begin, TypeOK, Last
      <3>2. idx = 1
        BY <1>6, <1>0 DEF Begin, TransactionInv, Starting
      <3> QED
        BY <1>6, <1>0, <2>1, <2>3, <3>1, <3>2, Progress
           DEF Begin, TransactionInv, Starting, Writing, Reading, Written
    <2>4. CASE pc' = "commit"
      BY <1>6, <1>0, <2>1, <2>4 DEF Begin, TransactionInv, Starting, Writing, Reading, Lasting
    <2> QED
      BY <1>6, <2>2, <2>3, <2>4 DEF Begin
  <1>7. CASE SkipRead
    <2>1. /\ idx \in DOMAIN items
          /\ UNCHANGED <<items, buffered, pending, session>>
          /\ NextItem("write", "read")
          /\ pending = Written(idx)
          /\ session = "open"
          /\ ~IsWrite(item)
      BY <1>7, <1>0 DEF SkipRead, request, database, TransactionInv, Writing
    <2>2. pending' = Written(idx + 1)
      BY <1>0, <2>1, Progress
    <2> QED
      BY <1>0, <2>1, <2>2, WriteLoop DEF TransactionInv
  <1>8. CASE Savepoint
    <2>1. CASE Fail
      BY <2>1, FailTransaction
    <2>2. CASE ~Fail
      <3>1. /\ UNCHANGED <<items, idx, buffered, pending, session>>
            /\ pc = "write" /\ pc' = "execute"
            /\ IsWrite(item)
            /\ item.rollback => mark' = pending
        BY <1>8, <2>2 DEF Savepoint, request
      <3> QED
        BY <1>0, <3>1 DEF TransactionInv, Starting, Writing, Reading, Written, item
    <2> QED
      BY <2>1, <2>2
  <1>9. CASE ExecuteWriteNode
    <2>1. CASE Fail
      BY <2>1, FailTransaction
    <2>2. CASE ~Fail
      <3>1. /\ UNCHANGED <<items, mark, session>>
            /\ pc = "execute"
            /\ pending' = pending \cup {idx}
            /\ IF item.rollback THEN pc' = "readback" /\ UNCHANGED idx ELSE NextItem("write", "read")
        BY <1>9, <2>2 DEF ExecuteWriteNode, request
      <3>2. idx \in DOMAIN items /\ IsWrite(item) /\ session = "open" /\ pending = Written(idx)
        BY <1>0, <3>1 DEF TransactionInv, Writing
      <3>3. \A i \in DOMAIN items : buffered'[i].kept => IsWrite(items[i])
        <4>1. \A i \in DOMAIN items : i # idx => buffered'[i] = buffered[i]
          BY <1>0, <1>9, <2>2 DEF ExecuteWriteNode, TypeOK
        <4> QED
          BY <1>0, <3>2, <4>1 DEF TransactionInv, item
      <3>4. CASE item.rollback
        BY <1>0, <3>1, <3>2, <3>3, <3>4 DEF TransactionInv, Starting, Writing, Reading, Written, item
      <3>5. CASE ~item.rollback
        <4>1. pending' = Written(idx + 1)
          BY <1>0, <3>1, <3>2, <3>5, Progress
        <4> QED
          BY <1>0, <3>1, <3>2, <3>3, <3>5, <4>1, WriteLoop
      <3> QED
        BY <3>4, <3>5
    <2> QED
      BY <2>1, <2>2
  <1>10. CASE BufferReadback
    <2>1. CASE Fail
      BY <2>1, FailTransaction
    <2>2. CASE ~Fail
      <3>1. /\ UNCHANGED <<items, idx, mark, pending, session>>
            /\ pc = "readback" /\ pc' = "undo"
        BY <1>10, <2>2 DEF BufferReadback, request, database
      <3>2. idx \in DOMAIN items /\ IsWrite(item) /\ item.rollback /\ session = "open" /\ mark = Written(idx)
        BY <1>0, <3>1 DEF TransactionInv, Writing
      <3>3. \A i \in DOMAIN items : buffered'[i].kept => IsWrite(items[i])
        <4>1. \A i \in DOMAIN items : i # idx => buffered'[i] = buffered[i]
          BY <1>0, <1>10, <2>2 DEF BufferReadback, TypeOK
        <4> QED
          BY <1>0, <3>2, <4>1 DEF TransactionInv, item
      <3> QED
        BY <1>0, <3>1, <3>2, <3>3 DEF TransactionInv, Starting, Writing, Reading, Written, item
    <2> QED
      BY <2>1, <2>2
  <1>11. CASE RollbackToSavepoint
    <2>1. CASE Fail
      BY <2>1, FailTransaction
    <2>2. CASE ~Fail
      <3>1. /\ UNCHANGED <<items, session, buffered>>
            /\ pc = "undo"
            /\ pending' = mark
            /\ NextItem("write", "read")
        BY <1>11, <2>2 DEF RollbackToSavepoint, request
      <3>2. idx \in DOMAIN items /\ item.rollback /\ session = "open" /\ mark = Written(idx)
        BY <1>0, <3>1 DEF TransactionInv, Writing
      <3>3. pending' = Written(idx + 1)
        BY <1>0, <3>1, <3>2, Progress
      <3> QED
        BY <1>0, <3>1, <3>2, <3>3, WriteLoop DEF TransactionInv
    <2> QED
      BY <2>1, <2>2
  <1>12. CASE ReadPhase
    <2>1. CASE Fail
      BY <2>1, FailTransaction
    <2>2. CASE ~Fail
      <3>1. /\ UNCHANGED <<items, session, buffered>>
            /\ pc = "read"
            /\ pending' = pending \/ (~IsWrite(item) /\ pending' = pending \cup {idx})
            /\ NextItem("read", "head")
        BY <1>12, <2>2 DEF ReadPhase, request
      <3>2. /\ idx \in DOMAIN items /\ session = "open"
            /\ Written(Last + 1) \subseteq pending /\ pending \subseteq Lasting
        BY <1>0, <3>1 DEF TransactionInv, Reading
      <3>3. Written(Last + 1) \subseteq pending' /\ pending' \subseteq Lasting
        BY <3>1, <3>2 DEF Lasting, item
      <3>4. (Written(Last + 1) \subseteq pending /\ pending \subseteq Lasting)'
        BY <3>1, <3>3 DEF Written, Lasting, Last
      <3>5. idx' \in DOMAIN items' /\ pc' \in {"read", "head"} /\ (pc' = "head" => idx' = 1)
        BY <1>0, <3>1, <3>2, LoopType DEF NextItem
      <3> QED
        BY <1>0, <3>1, <3>2, <3>4, <3>5 DEF TransactionInv, Starting, Writing, Reading
    <2> QED
      BY <2>1, <2>2
  <1>13. CASE WriteHead
    <2>1. CASE ClientGone
      BY <2>1, FailTransaction
    <2>2. CASE ~ClientGone
      <3>1. /\ UNCHANGED <<items, session, buffered, pending, idx>>
            /\ pc = "head" /\ pc' = "query"
        BY <1>13, <2>2 DEF WriteHead, WriteFails, request, database
      <3>2. /\ idx \in DOMAIN items /\ session = "open" /\ idx = 1
            /\ Written(Last + 1) \subseteq pending /\ pending \subseteq Lasting
        BY <1>0, <3>1 DEF TransactionInv, Reading
      <3>3. ReadUpTo(idx)' \subseteq pending'
        BY <1>0, <3>1, <3>2, Progress DEF ReadUpTo
      <3>4. (Written(Last + 1) \subseteq pending /\ pending \subseteq Lasting)'
        BY <3>1, <3>2 DEF Written, Lasting, Last
      <3> QED
        BY <1>0, <3>1, <3>2, <3>3, <3>4 DEF TransactionInv, Starting, Writing, Reading
    <2> QED
      BY <2>1, <2>2
  <1>14. CASE RunStatement
    <2>1. CASE Fail
      BY <2>1, FailTransaction
    <2>2. CASE ~Fail
      <3>1. /\ UNCHANGED <<items, session, buffered, idx>>
            /\ pc = "query" /\ pc' = "open"
            /\ pending' = IF HasStatement /\ ~IsWrite(item) THEN pending \cup {idx} ELSE pending
        BY <1>14, <2>2 DEF RunStatement, request
      <3>2. /\ idx \in DOMAIN items /\ session = "open"
            /\ Written(Last + 1) \subseteq pending /\ pending \subseteq Lasting
            /\ ReadUpTo(idx) \subseteq pending
            /\ ~IsWrite(item) => HasStatement
        BY <1>0, <3>1 DEF TransactionInv, Reading, HasStatement, item
      <3>3. Written(Last + 1) \subseteq pending' /\ pending' \subseteq Lasting
        BY <3>1, <3>2 DEF Lasting, item
      <3>4. (Written(Last + 1) \subseteq pending /\ pending \subseteq Lasting)'
        BY <3>1, <3>3 DEF Written, Lasting, Last
      <3>5. ReadUpTo(idx + 1) \subseteq pending'
        BY <1>0, <3>1, <3>2, Progress
      <3>6. ReadUpTo(idx + 1)' \subseteq pending'
        BY <3>1, <3>5 DEF ReadUpTo
      <3> QED
        BY <1>0, <3>1, <3>2, <3>4, <3>6 DEF TransactionInv, Starting, Writing, Reading
    <2> QED
      BY <2>1, <2>2
  <1>15. CASE OpenItem \/ WriteRow
    <2>1. CASE Fail \/ ClientGone
      BY <2>1, FailTransaction
    <2>2. CASE ~Fail /\ ~ClientGone
      <3>1. /\ UNCHANGED <<items, session, buffered, pending, idx>>
            /\ pc \in {"open", "rows"} /\ pc' = "rows"
        BY <1>15, <2>2 DEF OpenItem, WriteRow, WriteFails, request, database
      <3> QED
        BY <1>0, <3>1 DEF TransactionInv, Starting, Writing, Reading, Written, ReadUpTo, Lasting, Last
    <2> QED
      BY <2>1, <2>2
  <1>17. CASE CloseItem
    <2>1. CASE Fail \/ ClientGone
      BY <2>1, FailTransaction
    <2>2. CASE ~Fail /\ ~ClientGone
      <3>1. /\ UNCHANGED <<items, session, buffered, pending>>
            /\ pc = "rows"
            /\ NextItem("query", "commit")
        BY <1>17, <2>2 DEF CloseItem, WriteFails, request, database
      <3>2. /\ idx \in DOMAIN items /\ session = "open"
            /\ Written(Last + 1) \subseteq pending /\ pending \subseteq Lasting
            /\ ReadUpTo(idx + 1) \subseteq pending
        BY <1>0, <3>1 DEF TransactionInv, Reading
      <3>3. (Written(Last + 1) \subseteq pending /\ pending \subseteq Lasting)'
        BY <3>1, <3>2 DEF Written, Lasting, Last
      <3>4. idx' \in DOMAIN items'
        BY <1>0, <3>1, <3>2, LoopType
      <3>5. CASE idx < Last
        <4>1. pc' = "query" /\ idx' = idx + 1
          BY <3>1, <3>5 DEF NextItem
        <4>2. ReadUpTo(idx)' \subseteq pending'
          BY <3>1, <3>2, <4>1 DEF ReadUpTo
        <4> QED
          BY <1>0, <3>1, <3>2, <3>3, <3>4, <4>1, <4>2 DEF TransactionInv, Starting, Writing, Reading
      <3>6. CASE ~(idx < Last)
        <4>1. pc' = "commit" /\ idx = Last
          BY <1>1, <3>1, <3>2, <3>6 DEF NextItem
        <4>2. pending = Lasting
          BY <1>0, <3>2, <4>1, Complete
        <4>3. (pending = Lasting)'
          BY <3>1, <4>2 DEF Lasting
        <4> QED
          BY <1>0, <3>1, <3>2, <4>1, <4>3 DEF TransactionInv, Starting, Writing, Reading
      <3> QED
        BY <3>5, <3>6
    <2> QED
      BY <2>1, <2>2
  <1>18. CASE Commit \/ WriteTail \/ Flush \/ Deferred \/ Release
    <2>1. CASE ClientGone
      BY <2>1, FailTransaction
    <2>2. CASE ~ClientGone
      BY <1>18, <2>2, Outside DEF Commit, WriteTail, WriteFails, Flush, Deferred, Release, request
    <2> QED
      BY <2>1, <2>2
  <1>23. CASE UNCHANGED vars
    BY <1>0, <1>23 DEF TransactionInv, vars, request, database, Written, ReadUpTo, Lasting, Last, item
  <1> QED
    BY <1>3, <1>6, <1>7, <1>8, <1>9, <1>10, <1>11, <1>12, <1>13, <1>14, <1>15, <1>17, <1>18, <1>23
       DEF Next, Done

-----------------------------------------------------------------------------
(* What is durable, and what was sent.                                     *)

\* The actions other than the commit leave what is durable alone.
LEMMA OnlyCommit ==
  ASSUME [Next]_vars, ~Commit
  PROVE  UNCHANGED <<items, durable, commitLost>>
  BY DEF Next, vars, request, database, Fail, StatementFails, ClientGone, WriteFails,
     ParseRequest, Prepare, AcquireConn, ProceedOrReject, Bind, PrepareWrite, Begin, SkipRead, Savepoint, ExecuteWriteNode, BufferReadback,
     RollbackToSavepoint, ReadPhase, WriteHead, RunStatement, OpenItem, WriteRow, CloseItem,
     WriteTail, Flush, Deferred, Release, Done

\* A failure before the commit has nothing durable behind it, and one after
\* it finds the writer released.
LEMMA Failures ==
  ASSUME [Next]_vars, ~Commit, pc' = "failed", pc # "failed"
  PROVE  \/ pc \in Starting \cup Writing \cup Reading
         \/ pc \in {"tail", "flush"} /\ released'
  BY DEF Next, vars, Starting, Writing, Reading, NextItem, ClientGone, WriteFails,
     ParseRequest, Prepare, AcquireConn, ProceedOrReject, Bind, PrepareWrite, Begin, SkipRead, Savepoint, ExecuteWriteNode, BufferReadback,
     RollbackToSavepoint, ReadPhase, WriteHead, RunStatement, OpenItem, WriteRow, CloseItem,
     WriteTail, Flush, Deferred, Release, Done

\* The order of the phases: the commit is behind every loop, the tail is
\* reached through the commit only.
LEMMA Phases ==
  ASSUME [Next]_vars, ~Commit
  PROVE  /\ pc' \in Starting \cup Writing \cup Reading \cup {"commit"} =>
              pc \in Starting \cup Writing \cup Reading \cup {"commit"}
         /\ pc' \in {"tail", "flush"} => pc \in {"tail", "flush"}
         /\ pc = "failed" => pc' \in {"failed", "release"}
         /\ pc = "failed" /\ pc' = "failed" => UNCHANGED released
  BY DEF Next, vars, writer, Starting, Writing, Reading, NextItem, Fail, ClientGone, WriteFails,
     ParseRequest, Prepare, AcquireConn, ProceedOrReject, Bind, PrepareWrite, Begin, SkipRead, Savepoint, ExecuteWriteNode, BufferReadback,
     RollbackToSavepoint, ReadPhase, WriteHead, RunStatement, OpenItem, WriteRow, CloseItem,
     WriteTail, Flush, Deferred, Release, Done

\* Nothing becomes durable but by the commit, and by it everything.
LEMMA DurableStep ==
  ASSUME IInv, [Next]_vars
  PROVE  DurableInv'
  <1>0. DurableInv /\ TransactionInv
    BY DEF IInv
  <1>1. CASE Commit
    <2>1. pc = "commit" /\ session = "open" /\ pending = Lasting /\ durable = {} /\ ~commitLost
      BY <1>0, <1>1 DEF Commit, DurableInv, TransactionInv
    <2>2. Lasting' = Lasting
      BY <1>1 DEF Commit, request, Lasting
    <2> QED
      BY <1>1, <2>1, <2>2 DEF Commit, DurableInv, Starting, Writing, Reading
  <1>2. CASE ~Commit
    <2>1. UNCHANGED <<items, durable, commitLost>>
      BY <1>2, OnlyCommit
    <2>2. Lasting' = Lasting
      BY <2>1 DEF Lasting
    <2>3. /\ (pc \in Starting \cup Writing \cup Reading \cup {"commit"} => durable = {} /\ ~commitLost)'
          /\ (pc \in {"tail", "flush"} => durable = Lasting)'
          /\ (durable \in {{}, Lasting})'
      BY <1>0, <1>2, <2>1, <2>2, Phases DEF DurableInv
    <2>4. (pc = "failed" /\ ~released /\ ~commitLost => durable = {})'
      BY <1>0, <1>2, <2>1, Phases, Failures DEF DurableInv
    <2> QED
      BY <2>3, <2>4 DEF DurableInv
  <1> QED
    BY <1>1, <1>2

\* An answer is given once, before Execute, by Flush or by the deferred function.
LEMMA Answers ==
  ASSUME [Next]_vars, response' # response
  PROVE  \/ /\ pc \in Starting /\ response' = "error" /\ pc' = "end"
            /\ UNCHANGED <<released, held>>
         \/ /\ pc = "flush" /\ response' = "ok" /\ pc' = "release"
            /\ held' = <<>>
         \/ /\ pc = "failed" /\ response' = (IF released THEN "cut" ELSE "error") /\ pc' = "release"
            /\ UNCHANGED <<released, held>>
  BY DEF Next, vars, writer, Starting, Fail, ClientGone, WriteFails,
     ParseRequest, Prepare, AcquireConn, ProceedOrReject, Bind, PrepareWrite, Begin, SkipRead, Savepoint, ExecuteWriteNode, BufferReadback,
     RollbackToSavepoint, ReadPhase, WriteHead, RunStatement, OpenItem, WriteRow, CloseItem,
     Commit, WriteTail, Flush, Deferred, Release, Done

\* After the answer only the connection is released.
LEMMA Ending ==
  ASSUME [Next]_vars, pc \in {"release", "end"}
  PROVE  pc' \in {"release", "end"} /\ UNCHANGED <<items, durable, commitLost, released, held, out, response>>
  BY DEF Next, vars, request, database, writer,
     ParseRequest, Prepare, AcquireConn, ProceedOrReject, Bind, PrepareWrite, Begin, SkipRead, Savepoint, ExecuteWriteNode, BufferReadback,
     RollbackToSavepoint, ReadPhase, WriteHead, RunStatement, OpenItem, WriteRow, CloseItem,
     Commit, WriteTail, Flush, Deferred, Release, Done

\* holdWriter as the steps use it: it is left alone, written to, given up
\* because the client is gone, or flushed.
LEMMA WriterSteps ==
  ASSUME [Next]_vars
  PROVE  \/ UNCHANGED writer /\ (pc' \in Starting => pc \in Starting) /\ UNCHANGED buffer
            /\ (pc \in {"tail", "flush", "failed", "release", "end"} =>
                  pc' \in {"tail", "flush", "failed", "release", "end"})
         \/ /\ \E tok : Write(tok)
            /\ pc' \notin Starting
            /\ UNCHANGED buffer
            /\ pc = "tail" => pc' = "flush"
            /\ pc \notin {"flush", "failed", "release", "end"}
         \/ /\ released' /\ held' = <<>>
            /\ pc' \in {"failed", "release"}
            /\ UNCHANGED buffer
  <1>1. CASE WriteHead
    BY <1>1 DEF WriteHead, WriteFails, ClientGone, request, Starting
  <1>2. CASE OpenItem
    BY <1>2 DEF OpenItem, WriteFails, ClientGone, request, Starting
  <1>3. CASE WriteRow
    BY <1>3 DEF WriteRow, WriteFails, ClientGone, Fail, request, Starting
  <1>4. CASE CloseItem
    BY <1>4 DEF CloseItem, WriteFails, ClientGone, Fail, NextItem, request, Starting
  <1>5. CASE WriteTail
    BY <1>5 DEF WriteTail, WriteFails, ClientGone, request, Starting
  <1>6. CASE Flush
    BY <1>6 DEF Flush, ClientGone, request
  <1>7. CASE ~(WriteHead \/ OpenItem \/ WriteRow \/ CloseItem \/ WriteTail \/ Flush)
    BY <1>7 DEF Next, vars, request, writer, Starting, NextItem, Fail,
       ParseRequest, Prepare, AcquireConn, ProceedOrReject, Bind, PrepareWrite, Begin, SkipRead, Savepoint, ExecuteWriteNode, BufferReadback,
       RollbackToSavepoint, ReadPhase, RunStatement, Commit, Deferred, Release, Done
  <1> QED
    BY <1>1, <1>2, <1>3, <1>4, <1>5, <1>6, <1>7

\* A response within the buffer stays in it, and the error is only answered
\* while nothing has left.
LEMMA HoldStep ==
  ASSUME IInv, [Next]_vars
  PROVE  HoldInv'
  <1>0. TypeOK /\ HoldInv
    BY DEF IInv
  <1>1. held \in Seq(Tokens) /\ out \in Seq(Tokens) /\ buffer \in Nat /\ released \in BOOLEAN
    BY <1>0, RelExecAssumption DEF TypeOK
  <1>2. /\ (~released => out = <<>> /\ Len(held) <= buffer)'
        /\ (released => held = <<>>)'
        /\ (pc \in Starting => ~released)'
        /\ (released /\ pc \notin {"tail", "flush", "failed", "release", "end"} => Len(out) > buffer)'
    <2>1. CASE /\ UNCHANGED writer /\ UNCHANGED buffer
               /\ pc' \in Starting => pc \in Starting
               /\ pc \in {"tail", "flush", "failed", "release", "end"} =>
                    pc' \in {"tail", "flush", "failed", "release", "end"}
      BY <1>0, <2>1 DEF HoldInv, writer
    <2>2. CASE /\ \E tok : Write(tok)
               /\ pc' \notin Starting
               /\ UNCHANGED buffer
               /\ pc = "tail" => pc' = "flush"
               /\ pc \notin {"flush", "failed", "release", "end"}
      <3>1. PICK tok : Write(tok)
        BY <2>2
      <3>2. CASE Fits
        <4>1. /\ ~released /\ Len(held) < buffer
              /\ held' = Append(held, tok) /\ UNCHANGED <<released, out>>
          BY <3>1, <3>2 DEF Write, Fits
        <4>2. Len(held') <= buffer
          BY <1>1, <4>1
        <4> QED
          BY <1>0, <2>2, <4>1, <4>2 DEF HoldInv
      <3>3. CASE ~Fits
        <4>1. released' = TRUE /\ out' = Append(out \o held, tok) /\ held' = <<>>
          BY <3>1, <3>3 DEF Write
        <4>2. Len(out') = Len(out) + Len(held) + 1
          BY <1>1, <4>1
        <4>3. CASE released
          BY <1>0, <1>1, <2>2, <4>1, <4>2, <4>3 DEF HoldInv
        <4>4. CASE ~released
          <5>1. Len(out') > buffer
            BY <1>1, <3>3, <4>2, <4>4 DEF Fits
          <5> QED
            BY <2>2, <4>1, <5>1
        <4> QED
          BY <1>1, <4>3, <4>4
      <3> QED
        BY <3>2, <3>3
    <2>3. CASE released' /\ held' = <<>> /\ pc' \in {"failed", "release"} /\ UNCHANGED buffer
      BY <2>3 DEF Starting
    <2> QED
      BY <2>1, <2>2, <2>3, WriterSteps
  <1>3. /\ (response # "none" => pc \in {"release", "end"})'
        /\ (response = "error" => ~released)'
    <2>1. CASE response' # response
      BY <1>0, <2>1, Answers DEF HoldInv, Starting
    <2>2. CASE response' = response
      BY <1>0, <2>2, Ending DEF HoldInv
    <2> QED
      BY <2>1, <2>2
  <1> QED
    BY <1>2, <1>3 DEF HoldInv

\* What is answered agrees with what is durable.
LEMMA AnswerStep ==
  ASSUME IInv, [Next]_vars
  PROVE  SuccessIsCommitted' /\ ErrorIsRolledBack'
  <1>0. DurableInv /\ HoldInv /\ SuccessIsCommitted /\ ErrorIsRolledBack
    BY DEF IInv
  <1>1. CASE response' # response
    <2>1. pc # "commit"
      BY <1>1, Answers DEF Starting
    <2>2. ~Commit
      BY <2>1 DEF Commit
    <2>3. UNCHANGED <<items, durable, commitLost>> /\ Lasting' = Lasting
      BY <2>2, OnlyCommit DEF Lasting
    <2> QED
      BY <1>0, <1>1, <2>3, Answers DEF DurableInv, Starting, SuccessIsCommitted, ErrorIsRolledBack
  <1>2. CASE response' = response /\ response # "none"
    <2>1. pc \in {"release", "end"}
      BY <1>0, <1>2 DEF HoldInv
    <2>2. UNCHANGED <<items, durable, commitLost, held, response>>
      BY <2>1, Ending
    <2> QED
      BY <1>0, <2>2 DEF SuccessIsCommitted, ErrorIsRolledBack, Lasting
  <1>3. CASE response' = response /\ response = "none"
    BY <1>3 DEF SuccessIsCommitted, ErrorIsRolledBack
  <1> QED
    BY <1>1, <1>2, <1>3

-----------------------------------------------------------------------------
(* The theorems.                                                           *)

\* The invariant holds before the request is looked at.
LEMMA InitInv == ASSUME Init PROVE IInv
  <1>1. TypeOK
    BY InitType
  <1>2. TransactionInv
    BY DEF Init, TransactionInv, Starting, Writing, Reading, NotBuffered
  <1>3. buffer \in Nat
    BY RelExecAssumption DEF Init
  <1>4. HoldInv
    BY <1>3 DEF Init, HoldInv, Starting
  <1> QED
    BY <1>1, <1>2, <1>4 DEF Init, IInv, DurableInv, Starting, SuccessIsCommitted, ErrorIsRolledBack

\* The invariant is inductive: Execute's loops fill the transaction item by
\* item, the commit makes it durable whole, and the answer follows it.
THEOREM Invariance == Spec => []IInv
  <1>1. Init => IInv
    BY InitInv
  <1>2. IInv /\ [Next]_vars => IInv'
    BY TypeStep, TransactionStep, DurableStep, HoldStep, AnswerStep DEF IInv
  <1> QED
    BY <1>1, <1>2, PTL DEF Spec

\* Every variable of a request keeps its type.
THEOREM TypeCorrect == Spec => []TypeOK
  <1>1. IInv => TypeOK
    BY DEF IInv
  <1> QED
    BY <1>1, Invariance, PTL

\* Nothing partially succeeds: the durable effects of a request are those of
\* all its items that are not rolled back writes, or none.
THEOREM Atomicity == Spec => []AllOrNothing
  <1>1. IInv => AllOrNothing
    BY DEF IInv, DurableInv, AllOrNothing, Lasting
  <1> QED
    BY <1>1, Invariance, PTL

\* A request answered with its result was committed whole.
THEOREM Success == Spec => []SuccessIsCommitted
  <1>1. IInv => SuccessIsCommitted
    BY DEF IInv
  <1> QED
    BY <1>1, Invariance, PTL

\* A request answered with an error left nothing behind, unless the answer to
\* its commit was lost.
THEOREM Failure == Spec => []ErrorIsRolledBack
  <1>1. IInv => ErrorIsRolledBack
    BY DEF IInv
  <1> QED
    BY <1>1, Invariance, PTL

\* A response within the buffer is delivered whole or not at all, and an error
\* is never appended to a body that has begun.
THEOREM WholeOrNotAtAll == Spec => []HeldUntilCommitted
  <1>1. IInv => HeldUntilCommitted
    BY DEF IInv, HoldInv, HeldUntilCommitted
  <1> QED
    BY <1>1, Invariance, PTL

\* What a row in the answer of item i may show: of the writes that are rolled
\* back, that item alone.
Views(i) == {seen \in SUBSET Effects :
               \A j \in DOMAIN items : IsWrite(items[j]) /\ items[j].rollback => (j \in seen <=> j = i)}

Honest == {tok \in Tokens : tok.t = "row" => tok.seen \in Views(tok.item)}
Unclosed == {tok \in Tokens : tok.t # "listClose"}

\* The rows that were kept aside, those at hand, and the body.
RowsInv ==
  /\ \A i \in DOMAIN items : buffered[i].rows \in Seq(Views(i))
  /\ pc \in {"open", "rows"} => rows \in Seq(Views(idx))
  /\ held \in Seq(Honest) /\ out \in Seq(Honest)

\* Until the commit, and after one that failed, the batch is not closed.
ClosedInv ==
  pc \notin {"flush", "failed", "release", "end"} \/ durable # Lasting =>
    held \in Seq(Unclosed) /\ out \in Seq(Unclosed)

\* The read-back of a write that is to be undone finds it, and those before.
ReadbackInv == pc = "readback" => pending = Written(idx) \cup {idx}

BInv == IInv /\ RowsInv /\ ClosedInv /\ ReadbackInv

-----------------------------------------------------------------------------
(* The writer.                                                             *)

\* The request does not change.
LEMMA RequestKept == ASSUME [Next]_vars PROVE UNCHANGED items
BY DEF Next, vars, request, Fail, ClientGone, WriteFails,
   ParseRequest, Prepare, AcquireConn, ProceedOrReject, Bind, PrepareWrite, Begin, SkipRead, Savepoint,
   ExecuteWriteNode, BufferReadback, RollbackToSavepoint, ReadPhase, WriteHead, RunStatement, OpenItem,
   WriteRow, CloseItem, Commit, WriteTail, Flush, Deferred, Release, Done

\* holdWriter.Write passes on or keeps what it is given.
LEMMA WriteKeeps ==
  ASSUME NEW T, held \in Seq(T), out \in Seq(T), NEW tok \in T, Write(tok)
  PROVE held' \in Seq(T) /\ out' \in Seq(T)
<1>1. CASE Fits
  BY <1>1 DEF Write
<1>2. CASE ~Fits
  <2>1. out \o held \in Seq(T)
    OBVIOUS
  <2>2. Append(out \o held, tok) \in Seq(T)
    BY <2>1
  <2> QED
    BY <1>2, <2>2, EmptyType DEF Write
<1> QED
  BY <1>1, <1>2

\* A flush, whole or cut off, sends nothing else.
LEMMA FlushKeeps ==
  ASSUME NEW T, held \in Seq(T), out \in Seq(T), held' = <<>>, out' \in {out, out \o held}
  PROVE held' \in Seq(T) /\ out' \in Seq(T)
<1>1. out \o held \in Seq(T)
  OBVIOUS
<1> QED
  BY <1>1, EmptyType

\* Who writes what: the bracket of a batch, an item's brackets and rows, and
\* after the commit the closing bracket.
LEMMA WhoWrites ==
  ASSUME [Next]_vars
  PROVE \/ UNCHANGED writer
        \/ held' = <<>> /\ out' \in {out, out \o held}
        \/ pc = "head" /\ Write(Token("listOpen", 0, {}))
        \/ pc = "open" /\ Write(Token("open", idx, {}))
        \/ pc = "rows" /\ rows # <<>> /\ Write(Token("row", idx, Head(rows)))
        \/ pc = "rows" /\ Write(Token("close", idx, {}))
        \/ pc = "tail" /\ pc' = "flush" /\ Write(Token("listClose", 0, {}))
<1>1. CASE WriteHead
  BY <1>1 DEF WriteHead, WriteFails, ClientGone
<1>2. CASE OpenItem
  BY <1>2 DEF OpenItem, WriteFails, ClientGone
<1>3. CASE WriteRow
  BY <1>3 DEF WriteRow, WriteFails, ClientGone, Fail
<1>4. CASE CloseItem
  BY <1>4 DEF CloseItem, WriteFails, ClientGone, Fail
<1>5. CASE WriteTail
  BY <1>5 DEF WriteTail, WriteFails, ClientGone
<1>6. CASE Flush
  BY <1>6 DEF Flush, ClientGone
<1>7. CASE ~(WriteHead \/ OpenItem \/ WriteRow \/ CloseItem \/ WriteTail \/ Flush)
  BY <1>7 DEF Next, vars, writer, Fail,
     ParseRequest, Prepare, AcquireConn, ProceedOrReject, Bind, PrepareWrite, Begin, SkipRead, Savepoint,
     ExecuteWriteNode, BufferReadback, RollbackToSavepoint, ReadPhase, RunStatement, Commit, Deferred, Release, Done
<1> QED
  BY <1>1, <1>2, <1>3, <1>4, <1>5, <1>6, <1>7

\* The phases that end a request are not left for another.
LEMMA LateStaysLate ==
  ASSUME [Next]_vars, pc \in {"flush", "failed", "release", "end"}
  PROVE pc' \in {"flush", "failed", "release", "end"}
BY DEF Next, vars, ClientGone,
   ParseRequest, Prepare, AcquireConn, ProceedOrReject, Bind, PrepareWrite, Begin, SkipRead, Savepoint,
   ExecuteWriteNode, BufferReadback, RollbackToSavepoint, ReadPhase, WriteHead, RunStatement, OpenItem,
   WriteRow, CloseItem, Commit, WriteTail, Flush, Deferred, Release, Done

\* Only the tail closes the batch, when everything is durable.
LEMMA ClosedStep == ASSUME BInv, [Next]_vars PROVE ClosedInv'
<1>1. UNCHANGED items /\ Lasting' = Lasting
  BY RequestKept DEF Lasting
<1>2. TypeOK /\ DurableInv /\ TransactionInv
  BY DEF BInv, IInv
<1>3. SUFFICES ASSUME pc' \notin {"flush", "failed", "release", "end"} \/ durable' # Lasting
               PROVE held' \in Seq(Unclosed) /\ out' \in Seq(Unclosed)
  BY <1>1 DEF ClosedInv, Unclosed
<1>4. CASE Commit
  BY <1>4 DEF BInv, ClosedInv, Commit, writer
<1>5. CASE ~Commit
  <2>1. durable' = durable
    BY <1>5, OnlyCommit
  <2>2. held \in Seq(Unclosed) /\ out \in Seq(Unclosed)
    BY <1>3, <2>1, LateStaysLate DEF BInv, ClosedInv
  <2>3. ~(pc = "tail" /\ pc' = "flush")
    BY <1>2, <1>3, <2>1 DEF DurableInv
  <2>4. idx \in 0..MaxItems
    BY <1>2, RequestType, RelExecAssumption DEF TypeOK
  <2>5. {} \in SUBSET Effects /\ 0 \in 0..MaxItems
    BY RelExecAssumption
  <2>6. ASSUME NEW t \in {"listOpen", "open", "close"}, NEW i \in {0, idx}
        PROVE Token(t, i, {}) \in Unclosed
    <3>1. Token(t, i, {}) \in Tokens
      BY <2>4, <2>5, TokenType
    <3> QED
      BY <3>1 DEF Token, Unclosed
  <2>7. pc = "rows" /\ rows # <<>> => Token("row", idx, Head(rows)) \in Unclosed
    <3>1. rows # <<>> => Head(rows) \in SUBSET Effects
      BY <1>2 DEF TypeOK
    <3>2. rows # <<>> => Token("row", idx, Head(rows)) \in Tokens
      BY <2>4, <3>1, TokenType
    <3> QED
      BY <3>2 DEF Token, Unclosed
  <2> QED
    BY <2>2, <2>3, <2>6, <2>7, WhoWrites, WriteKeeps, FlushKeeps DEF writer
<1> QED
  BY <1>4, <1>5

-----------------------------------------------------------------------------
(* What the rows show.                                                     *)

\* A read's transaction holds no write that is rolled back; the rows of such
\* a write are read before that.
LEMMA ViewOfWritten ==
  ASSUME TypeOK, idx \in DOMAIN items, NEW P, P = Written(idx) \/ P = Written(idx) \cup {idx}, idx \in P
  PROVE P \in Views(idx)
<1>1. DOMAIN items = 1..Last /\ Last \in 0..MaxItems
  BY RequestType DEF TypeOK
<1>2. DOMAIN items \subseteq Effects
  BY <1>1, RelExecAssumption DEF Effects
<1> QED
  BY <1>1, <1>2 DEF Views, Written

\* The same in the read phase, where every write that is to last is there.
LEMMA ViewOfLasting ==
  ASSUME TypeOK, idx \in DOMAIN items, NEW P, P \subseteq Lasting, idx \in P
  PROVE P \in Views(idx)
<1>1. DOMAIN items = 1..Last /\ Last \in 0..MaxItems
  BY RequestType DEF TypeOK
<1>2. DOMAIN items \subseteq Effects
  BY <1>1, RelExecAssumption DEF Effects
<1> QED
  BY <1>2 DEF Views, Lasting

\* Rows that all show the same.
LEMMA SameView ==
  ASSUME NEW V, NEW P \in V, NEW kept \in Rows, \A n \in DOMAIN kept : kept[n] = P
  PROVE kept \in Seq(V)
<1>1. PICK n \in 0..MaxRows : kept \in [1..n -> SUBSET Effects]
  BY DEF Rows
<1>2. n \in Nat /\ kept \in [1..n -> V]
  BY <1>1, RelExecAssumption
<1> QED
  BY <1>2

\* What is kept aside is read while the item's write is there.
LEMMA BufferedStep ==
  ASSUME BInv, [Next]_vars
  PROVE \A i \in DOMAIN items : buffered'[i].rows \in Seq(Views(i))
<1>1. TypeOK /\ TransactionInv /\ \A i \in DOMAIN items : buffered[i].rows \in Seq(Views(i))
  BY DEF BInv, IInv, RowsInv
<1>2. buffered \in [DOMAIN items -> [kept : BOOLEAN, rows : Seq(SUBSET Effects)]]
  BY <1>1 DEF TypeOK
<1>3. ASSUME idx \in DOMAIN items, NEW b, b.rows \in Seq(Views(idx)), buffered' = [buffered EXCEPT ![idx] = b]
      PROVE \A i \in DOMAIN items : buffered'[i].rows \in Seq(Views(i))
  BY <1>1, <1>2, <1>3
<1>4. CASE ExecuteWriteNode
  <2>1. CASE UNCHANGED buffered
    BY <1>1, <2>1
  <2>2. CASE buffered' # buffered
    <3>1. pc = "execute" /\ pending' = pending \cup {idx}
      BY <1>4, <2>2 DEF ExecuteWriteNode, Fail
    <3>2. PICK kept \in Rows :
            /\ \A n \in DOMAIN kept : kept[n] = pending'
            /\ buffered' = [buffered EXCEPT ![idx] = CASE item.kind = "delete" -> Kept(<<>>)
                                                       [] item.kind = "fast" -> Kept(kept)
                                                       [] OTHER -> @]
      BY <1>4, <2>2 DEF ExecuteWriteNode, Fail
    <3>3. idx \in DOMAIN items /\ pending = Written(idx)
      BY <1>1, <3>1 DEF TransactionInv, Writing
    <3>4. pending' \in Views(idx)
      BY <1>1, <3>1, <3>3, ViewOfWritten
    <3>5. kept \in Seq(Views(idx))
      BY <3>2, <3>4, SameView
    <3>6. PICK b : /\ b = (CASE item.kind = "delete" -> Kept(<<>>)
                             [] item.kind = "fast" -> Kept(kept)
                             [] OTHER -> buffered[idx])
      OBVIOUS
    <3>7. b \in {Kept(<<>>), Kept(kept), buffered[idx]}
      BY <3>6
    <3>8. b.rows \in Seq(Views(idx))
      <4>1. Kept(<<>>).rows = <<>> /\ Kept(kept).rows = kept
        BY DEF Kept
      <4>2. <<>> \in Seq(Views(idx))
        BY EmptyType
      <4> QED
        BY <1>1, <3>3, <3>5, <3>7, <4>1, <4>2
    <3>9. buffered' = [buffered EXCEPT ![idx] = b]
      BY <1>2, <3>2, <3>3, <3>6
    <3> QED
      BY <1>3, <3>3, <3>8, <3>9
  <2> QED
    BY <2>1, <2>2
<1>5. CASE BufferReadback
  <2>1. CASE UNCHANGED buffered
    BY <1>1, <2>1
  <2>2. CASE buffered' # buffered
    <3>1. pc = "readback"
      BY <1>5, <2>2 DEF BufferReadback, Fail
    <3>2. PICK kept \in Rows :
            /\ \A n \in DOMAIN kept : kept[n] = pending
            /\ buffered' = [buffered EXCEPT ![idx] = IF kept = <<>> THEN NotBuffered ELSE Kept(kept)]
      BY <1>5, <2>2 DEF BufferReadback, Fail
    <3>3. idx \in DOMAIN items /\ pending = Written(idx) \cup {idx}
      BY <1>1, <3>1 DEF TransactionInv, Writing, BInv, ReadbackInv
    <3>4. pending \in Views(idx)
      BY <1>1, <3>3, ViewOfWritten
    <3>5. kept \in Seq(Views(idx))
      BY <3>2, <3>4, SameView
    <3>6. (IF kept = <<>> THEN NotBuffered ELSE Kept(kept)).rows \in Seq(Views(idx))
      BY <3>5, EmptyType DEF Kept, NotBuffered
    <3> QED
      BY <1>3, <3>2, <3>3, <3>6
  <2> QED
    BY <2>1, <2>2
<1>6. CASE ~ExecuteWriteNode /\ ~BufferReadback
  <2>1. UNCHANGED buffered
    BY <1>6 DEF Next, vars, Fail, ClientGone, WriteFails,
       ParseRequest, Prepare, AcquireConn, ProceedOrReject, Bind, PrepareWrite, Begin, SkipRead, Savepoint,
       RollbackToSavepoint, ReadPhase, WriteHead, RunStatement, OpenItem,
       WriteRow, CloseItem, Commit, WriteTail, Flush, Deferred, Release, Done
  <2> QED
    BY <1>1, <2>1
<1> QED
  BY <1>4, <1>5, <1>6

\* A write that is to be undone is read back right after it ran.
LEMMA ReadbackStep == ASSUME BInv, [Next]_vars PROVE ReadbackInv'
<1>1. UNCHANGED items
  BY RequestKept
<1>2. \A k : Written(k)' = Written(k)
  BY <1>1 DEF Written
<1>3. CASE ExecuteWriteNode
  <2>1. pc = "execute" /\ (pc' = "readback" => pending' = pending \cup {idx} /\ idx' = idx)
    BY <1>3 DEF ExecuteWriteNode, Fail, NextItem
  <2>2. pending = Written(idx)
    BY <2>1 DEF BInv, IInv, TransactionInv
  <2>3. pc' = "readback" => pending' = Written(idx) \cup {idx} /\ idx' = idx
    BY <2>1, <2>2
  <2>4. pc' = "readback" => Written(idx)' = Written(idx)
    BY <1>1, <2>1 DEF Written
  <2> QED
    BY <2>3, <2>4 DEF ReadbackInv
<1>4. CASE UNCHANGED vars
  BY <1>4 DEF vars, request, database, BInv, ReadbackInv, Written
<1>5. CASE Next /\ ~ExecuteWriteNode
  <2>1. pc' # "readback"
    BY <1>5 DEF Next, vars, Fail, ClientGone, WriteFails, NextItem,
       ParseRequest, Prepare, AcquireConn, ProceedOrReject, Bind, PrepareWrite, Begin, SkipRead, Savepoint,
       BufferReadback, RollbackToSavepoint, ReadPhase, WriteHead, RunStatement, OpenItem,
       WriteRow, CloseItem, Commit, WriteTail, Flush, Deferred, Release, Done
  <2> QED
    BY <2>1 DEF ReadbackInv
<1> QED
  BY <1>3, <1>4, <1>5

\* The rows at hand are those kept aside, or read now.
LEMMA RowsStep ==
  ASSUME BInv, [Next]_vars, pc' \in {"open", "rows"}
  PROVE rows' \in Seq(Views(idx'))
<1>1. TypeOK /\ TransactionInv /\ \A i \in DOMAIN items : buffered[i].rows \in Seq(Views(i))
  BY DEF BInv, IInv, RowsInv
<1>2. CASE RunStatement
  <2>1. pc = "query" /\ idx' = idx
    BY <1>2 DEF RunStatement, Fail
  <2>2. idx \in DOMAIN items /\ pending \subseteq Lasting
    BY <1>1, <2>1 DEF TransactionInv, Reading
  <2>3. rows' = <<>> \/ rows' = buffered[idx].rows
        \/ \E read \in Rows :
             /\ pending' = IF IsWrite(item) THEN pending ELSE pending \cup {idx}
             /\ \A n \in DOMAIN read : idx \in pending' /\ read[n] = pending'
             /\ rows' = read
    BY <1>2 DEF RunStatement, Fail
  <2>4. ASSUME NEW read \in Rows, pending' = IF IsWrite(item) THEN pending ELSE pending \cup {idx},
               \A n \in DOMAIN read : idx \in pending' /\ read[n] = pending'
        PROVE read \in Seq(Views(idx))
    <3>1. pending' \subseteq Lasting
      BY <2>2, <2>4 DEF Lasting, item
    <3>2. CASE idx \in pending'
      <4>1. pending' \in Views(idx)
        BY <1>1, <2>2, <3>1, <3>2, ViewOfLasting
      <4> QED
        BY <2>4, <4>1, SameView
    <3>3. CASE idx \notin pending'
      <4>1. read \in Seq(SUBSET Effects) /\ DOMAIN read = {}
        BY <2>4, <3>3, RowsType
      <4>2. read = <<>>
        BY <4>1
      <4> QED
        BY <4>2, EmptyType
    <3> QED
      BY <3>2, <3>3
  <2> QED
    BY <1>1, <2>1, <2>2, <2>3, <2>4, EmptyType
<1>3. CASE OpenItem \/ WriteRow \/ UNCHANGED vars
  <2>1. /\ pc \in {"open", "rows"} /\ idx' = idx
        /\ rows' = rows \/ (rows # <<>> /\ rows' = Tail(rows))
    BY <1>3 DEF OpenItem, WriteRow, WriteFails, ClientGone, Fail, vars
  <2>2. rows \in Seq(Views(idx))
    BY <2>1 DEF BInv, RowsInv
  <2> QED
    BY <2>1, <2>2
<1>4. CASE Next /\ ~(RunStatement \/ OpenItem \/ WriteRow)
  <2>1. pc' \notin {"open", "rows"}
    BY <1>4 DEF Next, vars, Fail, ClientGone, WriteFails, NextItem,
       ParseRequest, Prepare, AcquireConn, ProceedOrReject, Bind, PrepareWrite, Begin, SkipRead, Savepoint,
       ExecuteWriteNode, BufferReadback, RollbackToSavepoint, ReadPhase, WriteHead,
       CloseItem, Commit, WriteTail, Flush, Deferred, Release, Done
  <2> QED
    BY <2>1
<1> QED
  BY <1>2, <1>3, <1>4

\* The body is made of the rows at hand.
LEMMA BodyStep == ASSUME BInv, [Next]_vars PROVE held' \in Seq(Honest) /\ out' \in Seq(Honest)
<1>1. TypeOK /\ held \in Seq(Honest) /\ out \in Seq(Honest)
  BY DEF BInv, IInv, RowsInv
<1>2. idx \in 0..MaxItems
  BY <1>1, RequestType, RelExecAssumption DEF TypeOK
<1>3. {} \in SUBSET Effects /\ 0 \in 0..MaxItems
  BY RelExecAssumption
<1>4. ASSUME NEW t \in {"listOpen", "open", "close", "listClose"}, NEW i \in {0, idx}
      PROVE Token(t, i, {}) \in Honest
  <2>1. Token(t, i, {}) \in Tokens
    BY <1>2, <1>3, TokenType
  <2> QED
    BY <2>1 DEF Token, Honest
<1>5. ASSUME pc = "rows", rows # <<>> PROVE Token("row", idx, Head(rows)) \in Honest
  <2>1. rows \in Seq(Views(idx))
    BY <1>5 DEF BInv, RowsInv
  <2>2. Head(rows) \in Views(idx)
    BY <1>5, <2>1
  <2>3. Token("row", idx, Head(rows)) \in Tokens
    BY <1>2, <2>2, TokenType DEF Views
  <2> QED
    BY <2>2, <2>3 DEF Token, Honest
<1> QED
  BY <1>1, <1>4, <1>5, WhoWrites, WriteKeeps, FlushKeeps DEF writer

-----------------------------------------------------------------------------

\* The invariant is inductive: what is shown was there when it was read, and
\* the batch is closed behind the commit.
THEOREM AnswerInvariance == Spec => []BInv
<1>1. Init => BInv
  <2> SUFFICES ASSUME Init PROVE BInv
    OBVIOUS
  <2>1. IInv
    BY InitInv
  <2>2. RowsInv
    <3>1. \A i \in DOMAIN items : buffered[i].rows = <<>>
      BY DEF Init, NotBuffered
    <3> QED
      BY <3>1, EmptyType DEF Init, RowsInv
  <2>3. ClosedInv /\ ReadbackInv
    BY EmptyType DEF Init, ClosedInv, ReadbackInv
  <2> QED
    BY <2>1, <2>2, <2>3 DEF BInv
<1>2. BInv /\ [Next]_vars => BInv'
  <2> SUFFICES ASSUME BInv, [Next]_vars PROVE BInv'
    OBVIOUS
  <2>1. IInv'
    BY TypeStep, TransactionStep, DurableStep, HoldStep, AnswerStep DEF BInv, IInv
  <2>2. UNCHANGED items
    BY RequestKept
  <2>3. Honest' = Honest /\ \A i : Views(i)' = Views(i)
    BY <2>2 DEF Honest, Views
  <2>4. \A i \in DOMAIN items' : buffered'[i].rows \in Seq(Views(i)')
    BY <2>2, <2>3, BufferedStep
  <2>5. pc' \in {"open", "rows"} => rows' \in Seq(Views(idx)')
    <3>1. Views(idx)' = Views(idx')
      BY <2>2 DEF Views
    <3> QED
      BY <3>1, RowsStep
  <2>6. RowsInv'
    BY <2>3, <2>4, <2>5, BodyStep DEF RowsInv
  <2> QED
    BY <2>1, <2>6, ClosedStep, ReadbackStep DEF BInv
<1> QED
  BY <1>1, <1>2, PTL DEF Spec

\* No row shows a write that was rolled back to its savepoint, but those of
\* that very item, however long the batch is (bufferReadback, writeItemResponse).
THEOREM RolledBackStaysInvisible == Spec => []RolledBackInvisible
<1>1. BInv => RolledBackInvisible
  <2> SUFFICES ASSUME BInv, NEW n \in DOMAIN out, NEW i \in DOMAIN items,
                      out[n].t = "row", IsWrite(items[i]), items[i].rollback
               PROVE i \in out[n].seen <=> out[n].item = i
    BY DEF RolledBackInvisible
  <2>1. out[n] \in Honest
    BY DEF BInv, RowsInv
  <2> QED
    BY <2>1 DEF Honest, Views
<1> QED
  BY <1>1, AnswerInvariance, PTL

\* A JSON batch that is closed is durable, in whatever way it was cut into
\* pieces by the buffer (Execute's tail).
THEOREM ClosedIsCommitted == Spec => []ClosedBatchIsCommitted
<1>1. BInv => ClosedBatchIsCommitted
  <2> SUFFICES ASSUME BInv, NEW n \in DOMAIN out, out[n].t = "listClose", durable # Lasting
               PROVE FALSE
    BY DEF ClosedBatchIsCommitted
  <2>1. out \in Seq(Unclosed)
    BY DEF BInv, ClosedInv
  <2>2. out[n] \in Unclosed
    BY <2>1
  <2> QED
    BY <2>2 DEF Unclosed
<1> QED
  BY <1>1, AnswerInvariance, PTL

=============================================================================
