---------------------------- MODULE ReloadProofs ----------------------------
(***************************************************************************)
(* Proofs about Reload for every set of requests, every pool size and      *)
(* every number of schema and file versions.                               *)
(***************************************************************************)
EXTENDS Reload, TLAPS

USE DEF handlerVars, reqVars, poolVars, localVars, reloadVars, outsideVars, ghostVars

\* Every step of the specification preserves the types.
LEMMA TypeStep == TypeOK /\ [Next]_vars => TypeOK'
<1> SUFFICES ASSUME TypeOK, [Next]_vars PROVE TypeOK'
  OBVIOUS
<1> USE ReloadAssumption DEF TypeOK, Snapshots, Handling
<1>1. ASSUME NEW r \in Requests, ServeHTTP(r) PROVE TypeOK'
  <2>1. CASE Refuse(r)
    BY <2>1 DEF Refuse
  <2>2. CASE Recycle(r)
    BY <2>2 DEF Recycle
  <2>3. CASE Register(r)
    BY <2>3 DEF Register
  <2>4. CASE LoadInner(r)
    BY <2>4 DEF LoadInner
  <2>5. ASSUME NEW c \in Conns, Acquire(r, c) PROVE TypeOK'
    BY <2>5 DEF Acquire
  <2>6. CASE PrepareWrite(r)
    BY <2>6 DEF PrepareWrite
  <2>7. CASE Release(r)
    BY <2>7 DEF Release
  <2>8. CASE Return(r)
    BY <2>8 DEF Return
  <2>9. CASE Deregister(r)
    BY <2>9 DEF Deregister
  <2>10. CASE WgDone(r)
    BY <2>10 DEF WgDone
  <2> QED
    BY <1>1, <2>1, <2>2, <2>3, <2>4, <2>5, <2>6, <2>7, <2>8, <2>9, <2>10 DEF ServeHTTP
<1>2. CASE Reloader
  <2>1. CASE ReceiveSignal
    BY <2>1 DEF ReceiveSignal
  <2>2. CASE ReloaderExit
    BY <2>2 DEF ReloaderExit
  <2>3. CASE BeginMaintenance
    BY <2>3 DEF BeginMaintenance
  <2>4. CASE DrainDone
    BY <2>4 DEF DrainDone
  <2>5. CASE DrainTimeout
    BY <2>5 DEF DrainTimeout
  <2>6. CASE DrainWait
    BY <2>6 DEF DrainWait
  <2>7. CASE RunCmd
    BY <2>7 DEF RunCmd
  <2>8. CASE ReIntrospect
    BY <2>8 DEF ReIntrospect, ResetPool
  <2>9. CASE Build
    BY <2>9 DEF Build
  <2>10. CASE Swap
    BY <2>10 DEF Swap
  <2>11. CASE SetDb
    BY <2>11 DEF SetDb
  <2>12. CASE WriteTypeScriptHelper
    BY <2>12 DEF WriteTypeScriptHelper
  <2>13. CASE EndMaintenance
    BY <2>13 DEF EndMaintenance
  <2> QED
    BY <1>2, <2>1, <2>2, <2>3, <2>4, <2>5, <2>6, <2>7, <2>8, <2>9, <2>10, <2>11, <2>12, <2>13 DEF Reloader
<1>3. CASE Signal
  BY <1>3 DEF Signal
<1>4. CASE EditFiles
  BY <1>4 DEF EditFiles
<1>5. CASE Terminate
  BY <1>5 DEF Terminate
<1>6. CASE ServeError
  BY <1>6 DEF ServeError
<1>8. CASE ShutdownReturns
  BY <1>8 DEF ShutdownReturns
<1>9. CASE StopReloader
  BY <1>9 DEF StopReloader
<1>10. CASE WaitReloader
  BY <1>10 DEF WaitReloader
<1>11. CASE ClosePool
  BY <1>11 DEF ClosePool
<1>12. CASE Exit
  BY <1>12 DEF Exit
<1>7. CASE UNCHANGED vars
  BY <1>7 DEF vars
<1> QED
  BY <1>1, <1>2, <1>3, <1>4, <1>5, <1>6, <1>7, <1>8, <1>9, <1>10, <1>11, <1>12 DEF Next, Stopping, Stopped

\* boot.Start leaves a state of the right types.
LEMMA InitType == Init => TypeOK
<1> SUFFICES ASSUME Init PROVE TypeOK
  OBVIOUS
<1>1. inner \in Snapshots
  BY ReloadAssumption DEF Init, Snapshots
<1>2. /\ view \in [Requests -> Snapshots]
      /\ newSnap \in Snapshots
      /\ helper \in Snapshots
  BY <1>1 DEF Init
<1>3. /\ maintenance \in BOOLEAN
      /\ poolClosed \in BOOLEAN
      /\ sigPending \in BOOLEAN
      /\ sigClosed \in BOOLEAN
  BY DEF Init
<1> QED
  BY <1>1, <1>2, <1>3, ReloadAssumption DEF Init, TypeOK

\* Reload keeps its types, for every value of the constants.
THEOREM TypeCorrect == Spec => []TypeOK
  BY InitType, TypeStep, PTL DEF Spec

-----------------------------------------------------------------------------
(* Who changes what.                                                       *)

\* The steps of the main goroutine, the operator and nobody.
Outside == Signal \/ EditFiles \/ Terminate \/ ServeError \/ Stopping \/ UNCHANGED vars

\* Every step is one of a request, of the SIGUSR1 goroutine, or of the rest.
LEMMA Actors == [Next]_vars => (\E r \in Requests : ServeHTTP(r)) \/ Reloader \/ Outside
  BY DEF Next, Stopped, Outside

\* A request never touches the switch, the served snapshot, the Reload or the
\* files: ServeHTTP only registers itself and uses the pool.
LEMMA RequestFrame ==
  ASSUME NEW r \in Requests, ServeHTTP(r)
  PROVE  UNCHANGED <<maintenance, inner, poolClosed, reloadVars, mainPc, outsideVars, ghostVars>>
  BY DEF ServeHTTP, Refuse, Recycle, Register, LoadInner, Acquire, PrepareWrite, Release, Return, Deregister, WgDone

\* The SIGUSR1 goroutine cancels requests, but moves none of them and never
\* changes the WaitGroup.
LEMMA ReloaderFrame ==
  ASSUME Reloader
  PROVE  UNCHANGED <<inflight, wg, reqPc, view, held, poolClosed, sigClosed, mainPc, files>>
  BY DEF Reloader, ReceiveSignal, ReloaderExit, BeginMaintenance, DrainDone, DrainTimeout, DrainWait, RunCmd,
         ReIntrospect, ResetPool, Build, Swap, SetDb, WriteTypeScriptHelper, EndMaintenance

\* Signals and the main goroutine leave the handler, the requests and the
\* running Reload alone.
LEMMA OutsideFrame ==
  ASSUME Outside
  PROVE  UNCHANGED <<handlerVars, reqVars, rlPc, localVars, schema, helper, doomed>>
  BY DEF Outside, Signal, EditFiles, Terminate, ServeError, Stopping, ShutdownReturns, StopReloader,
         WaitReloader, ClosePool, Exit, vars

\* Files are edited, never taken back.
LEMMA OutsideFiles ==
  ASSUME Outside, files \in Nat
  PROVE  files' \in Nat /\ files <= files'
<1>1. CASE EditFiles
  BY <1>1 DEF EditFiles
<1>2. CASE ~EditFiles
  <2>1. UNCHANGED files
    BY <1>2 DEF Outside, Signal, Terminate, ServeError, Stopping, ShutdownReturns, StopReloader,
                WaitReloader, ClosePool, Exit, vars, outsideVars
  <2> QED
    BY <2>1
<1> QED
  BY <1>1, <1>2

-----------------------------------------------------------------------------
(* The inductive invariant, one lemma for each part.                       *)

\* wg.Add and wg.Done bracket the handler of every request.
LEMMA WgStep == IInv /\ [Next]_vars => WgInv'
<1> SUFFICES ASSUME IInv, [Next]_vars PROVE WgInv'
  OBVIOUS
<1> USE DEF IInv, TypeOK, WgInv
<1>1. ASSUME NEW r \in Requests, ServeHTTP(r) PROVE WgInv'
  <2>1. CASE Refuse(r) \/ Recycle(r) \/ LoadInner(r) \/ PrepareWrite(r) \/ Return(r) \/ Deregister(r)
    BY <2>1 DEF Refuse, Recycle, LoadInner, PrepareWrite, Return, Deregister
  <2>2. CASE Register(r)
    BY <2>2 DEF Register
  <2>3. ASSUME NEW c \in Conns, Acquire(r, c) PROVE WgInv'
    BY <2>3 DEF Acquire
  <2>4. CASE Release(r)
    BY <2>4 DEF Release, Handling
  <2>5. CASE WgDone(r)
    BY <2>5 DEF WgDone
  <2> QED
    BY <1>1, <2>1, <2>2, <2>3, <2>4, <2>5 DEF ServeHTTP
<1>2. CASE Reloader
  BY <1>2, ReloaderFrame
<1>3. CASE Outside
  BY <1>3, OutsideFrame
<1> QED
  BY <1>1, <1>2, <1>3, Actors

\* After BeginMaintenance the WaitGroup only shrinks, so what Drain saw stays.
LEMMA DrainStep == IInv /\ [Next]_vars => DrainInv'
<1> SUFFICES ASSUME IInv, [Next]_vars PROVE DrainInv'
  OBVIOUS
<1> USE DEF IInv, DrainInv, Drained
<1>1. ASSUME NEW r \in Requests, ServeHTTP(r) PROVE DrainInv'
  <2>1. wg' \subseteq wg \/ ~maintenance
    BY <1>1 DEF ServeHTTP, Refuse, Recycle, Register, LoadInner, Acquire, PrepareWrite, Release, Return, Deregister, WgDone
  <2> QED
    BY <1>1, <2>1, RequestFrame
<1>2. CASE Reloader
  BY <1>2 DEF Reloader, ReceiveSignal, ReloaderExit, BeginMaintenance, DrainDone, DrainTimeout, DrainWait, RunCmd,
              ReIntrospect, Build, Swap, SetDb, WriteTypeScriptHelper, EndMaintenance
<1>3. CASE Outside
  BY <1>3, OutsideFrame
<1> QED
  BY <1>1, <1>2, <1>3, Actors

\* Acquire and Release keep connections and their holders in step.
LEMMA HeldStep == IInv /\ [Next]_vars => HeldInv'
<1> SUFFICES ASSUME IInv, [Next]_vars PROVE HeldInv'
  OBVIOUS
<1> USE ReloadAssumption DEF IInv, TypeOK, HeldInv, Handling
<1>1. ASSUME NEW r \in Requests, ServeHTTP(r) PROVE HeldInv'
  <2>1. CASE Refuse(r) \/ Recycle(r) \/ Register(r)
    BY <2>1 DEF Refuse, Recycle, Register
  <2>2. CASE PrepareWrite(r)
    BY <2>2 DEF PrepareWrite
  <2>3. ASSUME NEW c \in Conns, Acquire(r, c) PROVE HeldInv'
    BY <2>3 DEF Acquire
  <2>4. CASE Release(r)
    BY <2>4 DEF Release
  <2>5. CASE LoadInner(r)
    BY <2>5 DEF LoadInner
  <2>6. CASE Return(r)
    BY <2>6 DEF Return
  <2>7. CASE Deregister(r) \/ WgDone(r)
    BY <2>7 DEF Deregister, WgDone
  <2> QED
    BY <1>1, <2>1, <2>2, <2>3, <2>4, <2>5, <2>6, <2>7 DEF ServeHTTP
<1>2. CASE Reloader
  <2>1. CASE ReIntrospect
    BY <1>2, <2>1, ReloaderFrame DEF ReIntrospect, ResetPool
  <2>2. CASE ~ReIntrospect
    <3>1. UNCHANGED connState
      BY <1>2, <2>2 DEF Reloader, ReceiveSignal, ReloaderExit, BeginMaintenance, DrainDone, DrainTimeout, DrainWait, RunCmd,
                        Build, Swap, SetDb, WriteTypeScriptHelper, EndMaintenance
    <3> QED
      BY <1>2, <3>1, ReloaderFrame
  <2> QED
    BY <2>1, <2>2
<1>3. CASE Outside
  <2>1. CASE ClosePool
    BY <2>1 DEF ClosePool
  <2>2. CASE ~ClosePool
    <3>1. UNCHANGED connState
      BY <1>3, <2>2 DEF Outside, Signal, EditFiles, Terminate, ServeError, Stopping, ShutdownReturns, StopReloader,
                        WaitReloader, Exit, vars
    <3> QED
      BY <1>3, <3>1, OutsideFrame
  <2> QED
    BY <2>1, <2>2
<1> QED
  BY <1>1, <1>2, <1>3, Actors

\* Swap meets no running handler, so the running ones stay current.
LEMMA ViewStep == IInv /\ [Next]_vars => ViewInv'
<1> SUFFICES ASSUME IInv, [Next]_vars PROVE ViewInv'
  OBVIOUS
<1> USE DEF IInv, TypeOK, ViewInv, Handling
<1>1. ASSUME NEW r \in Requests, ServeHTTP(r) PROVE ViewInv'
  BY <1>1 DEF ServeHTTP, Refuse, Recycle, Register, LoadInner, Acquire, PrepareWrite, Release, Return, Deregister, WgDone
<1>2. CASE Reloader
  <2>1. CASE Swap
    BY <1>2, <2>1, ReloaderFrame DEF Swap, WgInv, DrainInv, Drained
  <2>2. CASE ~Swap
    <3>1. UNCHANGED inner
      BY <1>2, <2>2 DEF Reloader, ReceiveSignal, ReloaderExit, BeginMaintenance, DrainDone, DrainTimeout, DrainWait, RunCmd,
                        ReIntrospect, Build, SetDb, WriteTypeScriptHelper, EndMaintenance
    <3> QED
      BY <1>2, <3>1, ReloaderFrame
  <2> QED
    BY <2>1, <2>2
<1>3. CASE Outside
  BY <1>3, OutsideFrame
<1> QED
  BY <1>1, <1>2, <1>3, Actors

\* Reloader.db is the db of the served snapshot, except between Swap and the
\* assignment that follows it.
LEMMA DbStep == IInv /\ [Next]_vars => DbInv'
<1> SUFFICES ASSUME IInv, [Next]_vars PROVE DbInv'
  OBVIOUS
<1> USE DEF IInv, TypeOK, DbInv
<1>1. ASSUME NEW r \in Requests, ServeHTTP(r) PROVE DbInv'
  BY <1>1, RequestFrame
<1>2. CASE Reloader
  <2>1. CASE RunCmd
    BY <2>1 DEF RunCmd
  <2>2. CASE ReIntrospect
    BY <2>2 DEF ReIntrospect
  <2>3. CASE Build
    BY <2>3 DEF Build
  <2>4. CASE Swap
    BY <2>4 DEF Swap
  <2>5. CASE SetDb
    BY <2>5 DEF SetDb
  <2>6. CASE WriteTypeScriptHelper
    BY <2>6 DEF WriteTypeScriptHelper
  <2>7. CASE ReceiveSignal \/ ReloaderExit \/ BeginMaintenance \/ EndMaintenance
    BY <2>7 DEF ReceiveSignal, ReloaderExit, BeginMaintenance, EndMaintenance
  <2>8. CASE DrainDone \/ DrainTimeout \/ DrainWait
    BY <2>8 DEF DrainDone, DrainTimeout, DrainWait
  <2> QED
    BY <1>2, <2>1, <2>2, <2>3, <2>4, <2>5, <2>6, <2>7, <2>8 DEF Reloader
<1>3. CASE Outside
  BY <1>3, OutsideFrame
<1> QED
  BY <1>1, <1>2, <1>3, Actors

\* The first PrepareWrite after a Reset or on a new connection shapes its
\* temp tables by the served schema, and a snapshot of another schema is only
\* swapped in after a Reset that found every connection free.
LEMMA ScratchStep == IInv /\ [Next]_vars => ScratchInv'
<1> SUFFICES ASSUME IInv, [Next]_vars PROVE ScratchInv'
  OBVIOUS
<1> USE ReloadAssumption DEF IInv, TypeOK, ScratchInv
<1>1. ASSUME NEW r \in Requests, ServeHTTP(r) PROVE ScratchInv'
  <2>1. CASE Refuse(r) \/ Recycle(r) \/ LoadInner(r) \/ Return(r) \/ Deregister(r) \/ WgDone(r) \/ Register(r)
    BY <2>1 DEF Refuse, Recycle, LoadInner, Return, Deregister, WgDone, Register
  <2>2. CASE PrepareWrite(r)
    <3>1. held[r] \in Conns /\ view[r] = inner /\ inner.db # 0 /\ inner.db \in 0..MaxSchema
      BY <2>2 DEF PrepareWrite, ViewInv, Handling, Snapshots
    <3>2. \A q \in Requests : reqPc[q] = "writing" => held[q] # held[r]
      BY <2>2 DEF PrepareWrite, HeldInv
    <3>3. reqPc'[r] = "writing" /\ r \in wg /\ wg # {}
      BY <2>2 DEF PrepareWrite, WgInv
    <3>4. rlPc \notin Drained
      BY <3>3 DEF DrainInv
    <3> QED
      BY <2>2, <3>1, <3>2, <3>4 DEF PrepareWrite, Drained, HeldInv
  <2>3. ASSUME NEW c \in Conns, Acquire(r, c) PROVE ScratchInv'
    BY <2>3 DEF Acquire
  <2>4. CASE Release(r)
    BY <2>4 DEF Release, HeldInv
  <2> QED
    BY <1>1, <2>1, <2>2, <2>3, <2>4 DEF ServeHTTP
<1>2. CASE Reloader
  <2>1. rlPc \in Drained => \A c \in Conns : connState[c] # "busy"
    BY DEF DrainInv, WgInv, HeldInv, Handling
  <2>2. CASE ReIntrospect
    <3>1. /\ \A c \in Conns : connState[c] # "busy"
          /\ \A r \in Requests : reqPc[r] # "writing"
      BY <2>1, <2>2 DEF ReIntrospect, Drained, HeldInv
    <3>2. UNCHANGED <<inner, reqPc, held>>
      BY <2>2 DEF ReIntrospect
    <3>3. CASE newDb' = schema /\ ResetPool
      BY <3>1, <3>2, <3>3 DEF ResetPool
    <3>4. CASE UNCHANGED <<newDb, poolVars>>
      BY <2>2, <3>1, <3>2, <3>4 DEF ReIntrospect, DbInv
    <3> QED
      BY <2>2, <3>3, <3>4 DEF ReIntrospect
  <2>3. CASE Swap
    BY <2>3 DEF Swap, DbInv
  <2>4. CASE RunCmd
    BY <2>4 DEF RunCmd, DbInv
  <2>5. CASE Build
    BY <2>5 DEF Build
  <2>6. CASE ReceiveSignal \/ ReloaderExit \/ BeginMaintenance \/ DrainDone \/ DrainTimeout \/ DrainWait
             \/ SetDb \/ WriteTypeScriptHelper \/ EndMaintenance
    BY <2>6 DEF ReceiveSignal, ReloaderExit, BeginMaintenance, DrainDone, DrainTimeout, DrainWait, SetDb,
                WriteTypeScriptHelper, EndMaintenance
  <2> QED
    BY <1>2, <2>2, <2>3, <2>4, <2>5, <2>6 DEF Reloader
<1>3. CASE Outside
  <2>1. CASE ClosePool
    BY <2>1 DEF ClosePool, HeldInv
  <2>2. CASE ~ClosePool
    <3>1. UNCHANGED scratch
      BY <1>3, <2>2 DEF Outside, Signal, EditFiles, Terminate, ServeError, Stopping, ShutdownReturns, StopReloader,
                        WaitReloader, Exit, vars
    <3> QED
      BY <1>3, <3>1, OutsideFrame
  <2> QED
    BY <2>1, <2>2
<1> QED
  BY <1>1, <1>2, <1>3, Actors

\* The main goroutine passes stopReloader only when the reloader is gone.
LEMMA PoolStep == IInv /\ [Next]_vars => PoolInv'
<1> SUFFICES ASSUME IInv, [Next]_vars PROVE PoolInv'
  OBVIOUS
<1> USE DEF IInv, TypeOK, PoolInv
<1>1. ASSUME NEW r \in Requests, ServeHTTP(r) PROVE PoolInv'
  BY <1>1, RequestFrame
<1>2. CASE Reloader
  <2>1. rlPc # "exited"
    BY <1>2 DEF Reloader, ReceiveSignal, ReloaderExit, BeginMaintenance, DrainDone, DrainTimeout, DrainWait, RunCmd,
                ReIntrospect, Build, Swap, SetDb, WriteTypeScriptHelper, EndMaintenance
  <2> QED
    BY <1>2, <2>1, ReloaderFrame
<1>3. CASE Outside
  <2>1. CASE WaitReloader
    BY <2>1 DEF WaitReloader, poolVars, reloadVars
  <2>2. CASE ClosePool
    BY <2>2 DEF ClosePool, reloadVars
  <2>3. CASE Exit
    BY <2>3 DEF Exit, poolVars, reloadVars
  <2>4. CASE Terminate \/ ServeError \/ ShutdownReturns \/ StopReloader
    BY <2>4 DEF Terminate, ServeError, ShutdownReturns, StopReloader, poolVars, reloadVars
  <2>5. CASE Signal \/ EditFiles \/ UNCHANGED vars
    BY <2>5 DEF Signal, EditFiles, poolVars, reloadVars, vars
  <2> QED
    BY <1>3, <2>1, <2>2, <2>3, <2>4, <2>5 DEF Outside, Stopping
<1> QED
  BY <1>1, <1>2, <1>3, Actors

\* Build reads the newest files, reintrospection the newest schema, and the
\* helper is written from what Swap has just put in place.
LEMMA VersionStep == IInv /\ [Next]_vars => VersionInv'
<1> SUFFICES ASSUME IInv, [Next]_vars PROVE VersionInv'
  OBVIOUS
<1> USE ReloadAssumption DEF IInv, TypeOK, Snapshots, VersionInv
<1>1. ASSUME NEW r \in Requests, ServeHTTP(r) PROVE VersionInv'
  BY <1>1, RequestFrame
<1>2. CASE Reloader
  <2>1. CASE RunCmd
    BY <2>1 DEF RunCmd, DbInv
  <2>2. CASE ReIntrospect
    BY <2>2, SMTT(30) DEF ReIntrospect
  <2>3. CASE Build
    BY <2>3 DEF Build
  <2>4. CASE Swap
    BY <2>4 DEF Swap
  <2>5. CASE WriteTypeScriptHelper
    BY <2>5 DEF WriteTypeScriptHelper, DbInv
  <2>6. CASE ReceiveSignal \/ ReloaderExit \/ BeginMaintenance \/ DrainDone \/ DrainTimeout \/ DrainWait
             \/ SetDb \/ EndMaintenance
    BY <2>6 DEF ReceiveSignal, ReloaderExit, BeginMaintenance, DrainDone, DrainTimeout, DrainWait, SetDb, EndMaintenance
  <2> QED
    BY <1>2, <2>1, <2>2, <2>3, <2>4, <2>5, <2>6 DEF Reloader
<1>3. CASE Outside
  <2>1. files' \in Nat /\ files <= files'
    BY <1>3, OutsideFiles
  <2> QED
    BY <1>3, <2>1, OutsideFrame
<1> QED
  BY <1>1, <1>2, <1>3, Actors

\* The invariant holds in every reachable state.
THEOREM Invariance == Spec => []IInv
<1>1. Init => IInv
  <2> SUFFICES ASSUME Init PROVE IInv
    OBVIOUS
  <2>1. TypeOK
    BY InitType
  <2>2. WgInv /\ DrainInv /\ HeldInv /\ ViewInv
    BY DEF Init, WgInv, DrainInv, Drained, HeldInv, Handling, ViewInv
  <2>3. DbInv /\ ScratchInv /\ PoolInv
    BY DEF Init, DbInv, ScratchInv, PoolInv
  <2>4. VersionInv
    BY DEF Init, VersionInv
  <2> QED
    BY <2>1, <2>2, <2>3, <2>4 DEF IInv
<1>2. IInv /\ [Next]_vars => IInv'
  BY TypeStep, WgStep, DrainStep, HeldStep, ViewStep, DbStep, ScratchStep, PoolStep, VersionStep DEF IInv
<1> QED
  BY <1>1, <1>2, PTL DEF Spec

\* Drain is a barrier: from its return to EndMaintenance no handler runs and
\* no connection of the pool is in use, for any number of requests, any pool
\* size, and any sequence of reloads, cancellations and shutdowns.
THEOREM DrainIsABarrier == Spec => []DrainedDuringMigration
<1>1. IInv => DrainedDuringMigration
  <2> SUFFICES ASSUME IInv, rlPc \in Drained PROVE DrainedDuringMigration
    BY DEF DrainedDuringMigration
  <2>1. \A r \in Requests : reqPc[r] \notin Handling
    BY DEF IInv, WgInv, DrainInv, Handling
  <2>2. \A c \in Conns : connState[c] # "busy"
    BY <2>1, ReloadAssumption DEF IInv, HeldInv
  <2> QED
    BY <2>1, <2>2 DEF DrainedDuringMigration
<1> QED
  BY <1>1, Invariance, PTL

\* A write never runs over temp tables of another schema than its snapshot's.
THEOREM ScratchIsCurrent == Spec => []ScratchMatches
<1>1. IInv => ScratchMatches
  <2> SUFFICES ASSUME IInv, NEW r \in Requests, reqPc[r] = "writing"
               PROVE  scratch[held[r]] = view[r].db
    BY DEF ScratchMatches
  <2>1. held[r] \in Conns
    BY DEF IInv, TypeOK, HeldInv
  <2>2. view[r] = inner
    BY DEF IInv, ViewInv, Handling
  <2> QED
    BY <2>1, <2>2 DEF IInv, ScratchInv
<1> QED
  BY <1>1, Invariance, PTL

\* No Reload runs on a closed pool.
THEOREM PoolOutlivesReloader == Spec => []PoolClosedLast
<1>1. IInv => PoolClosedLast
  BY DEF IInv, PoolInv, PoolClosedLast
<1> QED
  BY <1>1, Invariance, PTL

\* The generated TypeScript helper never runs ahead of what is served.
THEOREM HelperFollows == Spec => []HelperNeverAhead
<1>1. IInv => HelperNeverAhead
  BY DEF IInv, VersionInv, HelperNeverAhead
<1> QED
  BY <1>1, Invariance, PTL

-----------------------------------------------------------------------------
(* Reload implements Serving.                                              *)

\* A request's step starts its handler, ends it, or is no step of Serving.
LEMMA RequestServes ==
  ASSUME IInv, NEW r \in Requests, ServeHTTP(r)
  PROVE  S!Begin(r) \/ S!End(r) \/ UNCHANGED S!vars
<1> USE DEF IInv, TypeOK, Handling, S!Begin, S!End, S!vars
<1>1. CASE LoadInner(r)
  BY <1>1 DEF LoadInner
<1>2. CASE Return(r)
  BY <1>2 DEF Return
<1>3. CASE Refuse(r) \/ Recycle(r) \/ Register(r) \/ Deregister(r) \/ WgDone(r)
  BY <1>3 DEF Refuse, Recycle, Register, Deregister, WgDone
<1>4. CASE PrepareWrite(r) \/ Release(r)
  BY <1>4 DEF PrepareWrite, Release
<1>5. CASE \E c \in Conns : Acquire(r, c)
  BY <1>5 DEF Acquire
<1> QED
  BY <1>1, <1>2, <1>3, <1>4, <1>5 DEF ServeHTTP

\* Swap replaces the snapshot while no handler runs; nothing else of the
\* reloader is visible to a request.
LEMMA ReloaderServes == IInv /\ Reloader => S!Replace \/ UNCHANGED S!vars
<1> SUFFICES ASSUME IInv, Reloader PROVE S!Replace \/ UNCHANGED S!vars
  OBVIOUS
<1>1. UNCHANGED <<reqPc, view>>
  BY ReloaderFrame
<1>2. CASE Swap
  <2>1. \A r \in Requests : reqPc[r] \notin Handling
    BY <1>2 DEF Swap, IInv, WgInv, DrainInv, Drained, Handling
  <2>2. inner' \in S!Snapshots
    BY <1>2, ReloadAssumption DEF Swap, IInv, TypeOK, Snapshots, S!Snapshots
  <2> QED
    BY <1>1, <2>1, <2>2 DEF S!Replace
<1>3. CASE ~Swap
  <2>1. UNCHANGED inner
    BY <1>3 DEF Reloader, ReceiveSignal, ReloaderExit, BeginMaintenance, DrainDone, DrainTimeout, DrainWait, RunCmd,
                ReIntrospect, Build, SetDb, WriteTypeScriptHelper, EndMaintenance
  <2> QED
    BY <1>1, <2>1 DEF S!vars
<1> QED
  BY <1>2, <1>3

\* The wrapper, the reloader and the shutdown together implement Serving: a
\* request never sees half of two snapshots.
THEOREM Refinement == Spec => RefinesServing
<1>1. Init => S!Init
  BY ReloadAssumption DEF Init, Handling, S!Init, S!Snapshots
<1>2. IInv /\ [Next]_vars => [S!Next]_(S!vars)
  <2> SUFFICES ASSUME IInv, [Next]_vars PROVE [S!Next]_(S!vars)
    OBVIOUS
  <2>1. CASE \E r \in Requests : ServeHTTP(r)
    BY <2>1, RequestServes DEF S!Next
  <2>2. CASE Reloader
    BY <2>2, ReloaderServes DEF S!Next
  <2>3. CASE Outside
    BY <2>3, OutsideFrame DEF S!vars
  <2> QED
    BY <2>1, <2>2, <2>3, Actors
<1> QED
  BY <1>1, <1>2, Invariance, PTL DEF Spec, RefinesServing, S!Spec
=============================================================================
