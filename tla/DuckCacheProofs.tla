-------------------------- MODULE DuckCacheProofs --------------------------
(***************************************************************************)
(* Proofs about DuckCache for any number of processes, keys and results.   *)
(* Types, and that a process which writes has the file alone, hold of      *)
(* every configuration.  That a hit is exactly the result its entry        *)
(* describes is proved for commands, one request per process, whose DELETE *)
(* and SELECT statements do not fail: with goroutines of one server, or    *)
(* without that assumption, it does not hold.  Each later theorem names    *)
(* what else it needs; README.md names the run that breaks it without.     *)
(***************************************************************************)
EXTENDS DuckCache, SequenceTheorems, TLAPS

----------------------------------------------------------------------------
(* Types                                                                   *)

QueryPcs == {"open", "meta", "scan", "unlock", "fetch"}
PutPcs == {"putopen", "drop", "delete", "create", "insert"}

\* The request fields each stage of a request relies on.
RequestOK ==
    \A w \in Worker :
      /\ pc[w] \in QueryPcs \union PutPcs => key[w] \in Key
      /\ pc[w] \in PutPcs => res[w] \in Result
      /\ pc[w] = "scan" => got[w] \in [entry : Result, table : {None}]

TypeInv == TypeOK /\ RequestOK

LEMMA GrowTable ==
    ASSUME NEW t \in Tables, NEW r \in Result, NEW n \in Nat
    PROVE  [t EXCEPT !.rows = Append(@, <<r, n>>)] \in Tables
<1>1. t.rows \in Seq(Result \X Nat) /\ <<r, n>> \in Result \X Nat
  BY DEF Tables
<1>2. Append(t.rows, <<r, n>>) \in Seq(Result \X Nat)
  BY <1>1, AppendProperties
<1> QED
  BY <1>2 DEF Tables

LEMMA CutTable ==
    ASSUME NEW t \in Tables, NEW n \in 0..Len(t.rows)
    PROVE  [t EXCEPT !.rows = SubSeq(@, 1, n)] \in Tables
<1>1. t.rows \in Seq(Result \X Nat)
  BY DEF Tables
<1>2. SubSeq(t.rows, 1, n) \in Seq(Result \X Nat)
  <2>1. \A i \in 1..n : i \in 1..Len(t.rows)
    BY <1>1, LenProperties
  <2> QED
    BY <1>1, <2>1, SubSeqProperties
<1> QED
  BY <1>2 DEF Tables

LEMMA TypeInit == Init => TypeInv
BY DEF Init, TypeInv, TypeOK, RequestOK, Tables, Pcs, RestPcs, QueryPcs, PutPcs

LEMMA TypeStep == TypeInv /\ [Next]_vars => TypeInv'
<1> SUFFICES ASSUME TypeInv, [Next]_vars PROVE TypeInv'
  OBVIOUS
<1> USE ResultAssumption, NoneAssumption
    DEF TypeInv, TypeOK, RequestOK, disk, request, touching, Goto, Finish, RestPc,
        Pcs, RestPcs, ReadPcs, WritePcs, QueryPcs, PutPcs
<1>1. ASSUME NEW p \in Proc, Launch(p) PROVE TypeInv'
  BY <1>1 DEF Launch
<1>2. ASSUME NEW p \in Proc, InitSchema(p) PROVE TypeInv'
  BY <1>2 DEF InitSchema
<1>3. ASSUME NEW p \in Proc, Gone(p) PROVE TypeInv'
  BY <1>3 DEF Gone
<1>4. ASSUME NEW w \in Worker, NEW k \in Key,
             NEW o \in {"query", "refresh", "clear", "read"}, Begin(w, o, k)
      PROVE TypeInv'
  BY <1>4 DEF Begin, FirstPc
<1>5. ASSUME NEW w \in Worker, GetStep(w) PROVE TypeInv'
  <2>1. CASE GetOpen(w) BY <2>1 DEF GetOpen
  <2>2. CASE GetMeta(w)
    <3>1. CASE UNCHANGED got
      <4>1. pc' \in [Worker -> Pcs] /\ UNCHANGED <<disk, cache, request, touching>>
        BY <2>2 DEF GetMeta
      <4>2. pc'[w] \in {"fetch", "scan"} /\ \A v \in Worker : v # w => pc'[v] = pc[v]
        BY <2>2 DEF GetMeta
      <4> QED
        BY <2>2, <3>1, <4>1, <4>2 DEF GetMeta
    <3>2. CASE /\ meta[key[w]] \in Result /\ key[w] \in Key
               /\ got' = [got EXCEPT ![w] = [entry |-> meta[key[w]], table |-> None]]
      <4>1. got' \in [Worker -> [entry : Result, table : Tables \union {None}] \union {None}]
        BY <3>2
      <4> QED
        BY <2>2, <3>2, <4>1 DEF GetMeta
    <3> QED
      BY <2>2, <3>1, <3>2 DEF GetMeta
  <2>3. CASE GetScan(w) BY <2>3 DEF GetScan
  <2>4. CASE GetScanCut(w)
    <3>1. PICK n \in 0..Len(table[key[w]].rows) :
            got' = [got EXCEPT ![w].table =
                      [table[key[w]] EXCEPT !.rows = SubSeq(@, 1, n)]]
      BY <2>4 DEF GetScanCut
    <3>2. key[w] \in Key /\ table[key[w]] \in Tables
      BY <2>4 DEF GetScanCut
    <3>3. [table[key[w]] EXCEPT !.rows = SubSeq(@, 1, n)] \in Tables
      BY <3>2, CutTable
    <3>4. got' \in [Worker -> [entry : Result, table : Tables \union {None}] \union {None}]
      <4> DEFINE cut == [table[key[w]] EXCEPT !.rows = SubSeq(@, 1, n)]
      <4>1. got[w] \in [entry : Result, table : {None}]
        BY <2>4 DEF GetScanCut
      <4>2. cut \in Tables
        BY <3>3
      <4>3. got' = [got EXCEPT ![w].table = cut]
        BY <3>1
      <4> HIDE DEF cut
      <4> QED
        BY <4>1, <4>2, <4>3
    <3>5. \A v \in Worker : v # w => got'[v] = got[v] /\ pc'[v] = pc[v]
      BY <2>4, <3>1 DEF GetScanCut
    <3>6. /\ pc'[w] = "unlock"
          /\ pc' \in [Worker -> Pcs]
          /\ UNCHANGED <<table, meta, stale, cache, op, key, res, batch, names>>
          /\ touch' \in [Worker -> {"none", "spawned", "update"}]
          /\ touched' \in [Worker -> Key \union {None}]
      BY <2>4, <3>2 DEF GetScanCut
    <3> QED
      BY <2>4, <3>2, <3>4, <3>5, <3>6
  <2>5. CASE GetScanFail(w) BY <2>5 DEF GetScanFail
  <2>6. CASE GetReturn(w) BY <2>6 DEF GetReturn
  <2> QED BY <1>5, <2>1, <2>2, <2>3, <2>4, <2>5, <2>6 DEF GetStep
<1>6. ASSUME NEW w \in Worker, FetchStep(w) PROVE TypeInv'
  BY <1>6 DEF FetchStep, Fetch, FetchFail
<1>7. ASSUME NEW w \in Worker, PutStep(w) PROVE TypeInv'
  <2>1. CASE PutOpen(w) BY <2>1 DEF PutOpen
  <2>2. CASE PutDrop(w) BY <2>2 DEF PutDrop
  <2>3. CASE PutDelete(w)
    <3>1. meta' \in [Key -> Result \union {None}] /\ stale' \in [Key -> BOOLEAN]
      BY <2>3 DEF PutDelete
    <3> QED
      BY <2>3, <3>1 DEF PutDelete
  <2>4. CASE PutCreate(w) BY <2>4 DEF PutCreate, Tables
  <2>5. CASE PutCreateFail(w) BY <2>5 DEF PutCreateFail
  <2>6. CASE PutInsert(w)
    <3>1. key[w] \in Key /\ table[key[w]] \in Tables
      BY <2>6 DEF PutInsert, Fits
    <3>2. [table[key[w]] EXCEPT !.rows = Append(@, <<res[w], batch[w]>>)] \in Tables
      BY <2>6, <3>1, GrowTable DEF PutInsert
    <3>3. table' \in [Key -> Tables \union {None}]
      BY <2>6, <3>1, <3>2 DEF PutInsert
    <3> QED
      BY <2>6, <3>3 DEF PutInsert
  <2>7. CASE PutInsertFail(w) BY <2>7 DEF PutInsertFail
  <2>8. CASE PutRecord(w) BY <2>8 DEF PutRecord
  <2> QED BY <1>7, <2>1, <2>2, <2>3, <2>4, <2>5, <2>6, <2>7, <2>8 DEF PutStep
<1>8. ASSUME NEW w \in Worker, ClearStep(w) PROVE TypeInv'
  <2>1. CASE ClearOpen(w) BY <2>1 DEF ClearOpen
  <2>2. CASE ClearNames(w)
    <3>1. PICK ks \in SUBSET Key : names' = [names EXCEPT ![w] = ks]
      BY <2>2 DEF ClearNames
    <3>2. names' \in [Worker -> SUBSET Key]
      BY <3>1
    <3> QED BY <2>2, <3>2 DEF ClearNames
  <2>3. CASE ClearNamesFail(w) BY <2>3 DEF ClearNamesFail
  <2>4. ASSUME NEW k \in Key, ClearDrop(w, k) PROVE TypeInv'
    <3>1. names' \in [Worker -> SUBSET Key]
      BY <2>4 DEF ClearDrop
    <3>2. table' \in [Key -> Tables \union {None}]
      BY <2>4 DEF ClearDrop
    <3> QED BY <2>4, <3>1, <3>2 DEF ClearDrop
  <2>5. CASE ClearPurge(w)
    <3>1. stale' = [k \in Key |-> FALSE] \/ stale' = stale
      BY <2>5 DEF ClearPurge
    <3>2. stale' \in [Key -> BOOLEAN]
      BY <3>1, Zenon
    <3>3. meta' \in [Key -> Result \union {None}]
      BY <2>5 DEF ClearPurge
    <3> QED BY <2>5, <3>2, <3>3 DEF ClearPurge
  <2> QED BY <1>8, <2>1, <2>2, <2>3, <2>4, <2>5 DEF ClearStep
<1>9. ASSUME NEW w \in Worker, ReadStep(w) \/ TouchStep(w) PROVE TypeInv'
  <2>1. CASE ReadOpen(w) BY <2>1 DEF ReadOpen
  <2>2. CASE ReadRows(w) BY <2>2 DEF ReadRows
  <2>3. CASE TouchOpen(w) BY <2>3 DEF TouchOpen
  <2>4. CASE TouchUpdate(w) BY <2>4 DEF TouchUpdate
  <2> QED BY <1>9, <2>1, <2>2, <2>3, <2>4 DEF ReadStep, TouchStep
<1>10. CASE UNCHANGED vars
  BY <1>10 DEF vars
<1> QED
  BY <1>1, <1>2, <1>3, <1>4, <1>5, <1>6, <1>7, <1>8, <1>9, <1>10
  DEF Next, Exit, Crash, WorkerStep

\* Every variable keeps its type, for commands and servers, whatever fails.
THEOREM TypeCorrect == Spec => []TypeOK
<1>1. TypeInv => TypeOK
  BY DEF TypeInv
<1> QED
  BY <1>1, TypeInit, TypeStep, PTL DEF Spec

----------------------------------------------------------------------------
(* Exclusion                                                               *)

\* A step after which nobody has the file open who had not before.
LEMMA NothingOpened ==
    ASSUME WriterAlone,
           \A p \in Proc : HoldsWrite(p)' => HoldsWrite(p),
           \A p \in Proc : HoldsRead(p)' => HoldsRead(p)
    PROVE  WriterAlone'
BY DEF WriterAlone

\* A step by which process p opens the file read-write.
LEMMA OpenedRW ==
    ASSUME WriterAlone, NEW p \in Proc, CanOpenRW(p),
           \A q \in Proc \ {p} : HoldsWrite(q)' => HoldsWrite(q),
           \A q \in Proc : HoldsRead(q)' => HoldsRead(q)
    PROVE  WriterAlone'
BY DEF WriterAlone, CanOpenRW

\* A step by which process p opens the file read-only.
LEMMA OpenedRO ==
    ASSUME WriterAlone, NEW p \in Proc, CanOpenRO,
           \A q \in Proc : HoldsWrite(q)' => HoldsWrite(q)
    PROVE  WriterAlone'
BY DEF WriterAlone, CanOpenRO

LEMMA RestIsRest == ASSUME NEW w \in Worker PROVE RestPc(w) \in RestPcs
BY DEF RestPc, RestPcs

\* Exclusion between processes is DuckDB's own: it does not depend on what fails,
\* nor on how many requests a process serves.
LEMMA AloneStep ==
    ASSUME TypeInv, WriterAlone, [Next]_vars
    PROVE  WriterAlone'
<1> USE ProcOfAssumption, RestIsRest, NoneAssumption
    DEF TypeInv, TypeOK, disk, request, touching, Goto, Finish,
        WorkersOf, RestPcs, ReadPcs, WritePcs
<1>1. ASSUME NEW p \in Proc, Launch(p) PROVE WriterAlone'
  <2>1. \A q \in Proc \ {p} : HoldsWrite(q)' => HoldsWrite(q)
    BY <1>1 DEF Launch, HoldsWrite
  <2>2. \A q \in Proc : HoldsRead(q)' => HoldsRead(q)
    BY <1>1 DEF Launch, HoldsRead
  <2>3. CASE CanOpenRW(p)
    BY <2>1, <2>2, <2>3, OpenedRW
  <2>4. CASE ~ CanOpenRW(p)
    <3>1. HoldsWrite(p)' => HoldsWrite(p)
      BY <1>1, <2>4 DEF Launch, HoldsWrite
    <3> QED BY <2>1, <2>2, <3>1, NothingOpened
  <2> QED BY <2>3, <2>4
<1>2. ASSUME NEW p \in Proc, InitSchema(p) PROVE WriterAlone'
  BY <1>2, NothingOpened DEF InitSchema, HoldsWrite, HoldsRead
<1>3. ASSUME NEW p \in Proc, Gone(p) PROVE WriterAlone'
  <2>1. /\ cache' = [cache EXCEPT ![p] = "down"]
        /\ pc' = [w \in Worker |-> IF ProcOf[w] = p THEN "idle" ELSE pc[w]]
        /\ touch' = [w \in Worker |-> IF ProcOf[w] = p THEN "none" ELSE touch[w]]
    BY <1>3 DEF Gone
  <2>2. \A q \in Proc : HoldsWrite(q)' => HoldsWrite(q)
    BY <2>1 DEF HoldsWrite
  <2>3. \A q \in Proc : HoldsRead(q)' => HoldsRead(q)
    BY <2>1 DEF HoldsRead
  <2> QED BY <2>2, <2>3, NothingOpened
<1>4. ASSUME NEW w \in Worker, NEW k \in Key,
             NEW o \in {"query", "refresh", "clear", "read"}, Begin(w, o, k)
      PROVE WriterAlone'
  <2>1. pc' = [pc EXCEPT ![w] = FirstPc(w, o)]
        /\ FirstPc(w, o) \notin ReadPcs \union WritePcs
    BY <1>4 DEF Begin, FirstPc
  <2>2. \A q \in Proc : HoldsWrite(q)' => HoldsWrite(q)
    BY <1>4, <2>1 DEF Begin, HoldsWrite
  <2>3. \A q \in Proc : HoldsRead(q)' => HoldsRead(q)
    BY <1>4, <2>1 DEF Begin, HoldsRead
  <2> QED BY <2>2, <2>3, NothingOpened
<1>5. ASSUME NEW w \in Worker, GetOpen(w) \/ ReadOpen(w)
      PROVE WriterAlone'
  <2>1. \A q \in Proc : HoldsWrite(q)' => HoldsWrite(q)
    BY <1>5 DEF GetOpen, ReadOpen, HoldsWrite
  <2>2. CASE CanOpenRO
    BY <2>1, <2>2, OpenedRO
  <2>3. CASE ~ CanOpenRO
    BY <1>5, <2>1, <2>3, NothingOpened DEF GetOpen, ReadOpen, HoldsRead
  <2> QED BY <2>2, <2>3
<1>6. ASSUME NEW w \in Worker, PutOpen(w) \/ ClearOpen(w)
      PROVE WriterAlone'
  <2>1. \A q \in Proc \ {ProcOf[w]} : HoldsWrite(q)' => HoldsWrite(q)
    BY <1>6 DEF PutOpen, ClearOpen, HoldsWrite
  <2>2. \A q \in Proc : HoldsRead(q)' => HoldsRead(q)
    BY <1>6 DEF PutOpen, ClearOpen, HoldsRead
  <2>3. CASE CanOpenRW(ProcOf[w])
    BY <2>1, <2>2, <2>3, OpenedRW
  <2>4. CASE ~ CanOpenRW(ProcOf[w])
    BY <1>6, <2>2, <2>4, NothingOpened DEF PutOpen, ClearOpen, HoldsWrite
  <2> QED BY <2>3, <2>4
<1>7. ASSUME NEW w \in Worker, TouchOpen(w) PROVE WriterAlone'
  <2>1. \A q \in Proc \ {ProcOf[w]} : HoldsWrite(q)' => HoldsWrite(q)
    BY <1>7 DEF TouchOpen, HoldsWrite
  <2>2. \A q \in Proc : HoldsRead(q)' => HoldsRead(q)
    BY <1>7 DEF TouchOpen, HoldsRead
  <2>3. CASE CanOpenRW(ProcOf[w])
    BY <2>1, <2>2, <2>3, OpenedRW
  <2>4. CASE ~ CanOpenRW(ProcOf[w])
    <3>1. \A q \in Proc : HoldsWrite(q)' => HoldsWrite(q)
      BY <1>7, <2>4 DEF TouchOpen, HoldsWrite
    <3> QED BY <2>2, <3>1, NothingOpened
  <2> QED BY <2>3, <2>4
<1>8. ASSUME NEW w \in Worker, TouchUpdate(w) PROVE WriterAlone'
  BY <1>8, NothingOpened DEF TouchUpdate, HoldsWrite, HoldsRead
<1>9. ASSUME NEW w \in Worker,
             \/ GetMeta(w) \/ GetScan(w) \/ GetScanCut(w) \/ GetScanFail(w)
             \/ GetReturn(w) \/ ReadRows(w)
      PROVE WriterAlone'
  <2>1. pc[w] \in ReadPcs /\ cache' = cache
        /\ \E l \in Pcs \ WritePcs : pc' = [pc EXCEPT ![w] = l]
    BY <1>9 DEF Pcs, GetMeta, GetScan, GetScanCut, GetScanFail, GetReturn, ReadRows
  <2>2. \A v \in Worker : touch'[v] = "update" => touch[v] = "update"
    <3>1. touch' \in {touch, [touch EXCEPT ![w] = "spawned"]}
      BY <1>9 DEF GetMeta, GetScan, GetScanCut, GetScanFail, GetReturn, ReadRows
    <3> QED BY <3>1
  <2>3. \A q \in Proc : HoldsWrite(q)' => HoldsWrite(q)
    BY <2>1, <2>2 DEF HoldsWrite
  <2>4. \A q \in Proc : HoldsRead(q)' => HoldsRead(q)
    BY <2>1 DEF HoldsRead
  <2> QED BY <2>3, <2>4, NothingOpened
<1>10. ASSUME NEW w \in Worker,
              \/ FetchStep(w) \/ PutDrop(w) \/ PutDelete(w) \/ PutCreate(w)
              \/ PutCreateFail(w) \/ PutInsert(w) \/ PutInsertFail(w) \/ PutRecord(w)
              \/ ClearNames(w) \/ ClearNamesFail(w) \/ ClearPurge(w)
             \/ \E k \in Key : ClearDrop(w, k)
       PROVE WriterAlone'
  <2>1. /\ UNCHANGED <<cache, touch>>
        /\ \E l \in Pcs \ ReadPcs :
              /\ pc' = [pc EXCEPT ![w] = l]
              /\ l \in WritePcs => pc[w] \in WritePcs
    BY <1>10 DEF Pcs, FetchStep, Fetch, FetchFail, PutDrop, PutDelete, PutCreate,
       PutCreateFail, PutInsert, PutInsertFail, PutRecord,
       ClearNames, ClearNamesFail, ClearPurge, ClearDrop
  <2>2. \A q \in Proc : HoldsWrite(q)' => HoldsWrite(q)
    BY <2>1 DEF HoldsWrite
  <2>3. \A q \in Proc : HoldsRead(q)' => HoldsRead(q)
    BY <2>1 DEF HoldsRead
  <2> QED BY <2>2, <2>3, NothingOpened
<1>11. CASE UNCHANGED vars
  BY <1>11 DEF vars, WriterAlone, HoldsWrite, HoldsRead
<1> QED
  BY <1>1, <1>2, <1>3, <1>4, <1>5, <1>6, <1>7, <1>8, <1>9, <1>10, <1>11
  DEF Next, Exit, Crash, WorkerStep, GetStep, PutStep, ClearStep, ReadStep, TouchStep

LEMMA AloneInit == Init => WriterAlone
BY DEF Init, WriterAlone, HoldsRead, HoldsWrite, WorkersOf, ReadPcs, WritePcs

\* A process that has the file open read-write has it alone: commands and
\* servers, whatever fails and whoever crashes.
THEOREM OneWriter == Spec => []WriterAlone
<1>1. TypeInv /\ WriterAlone /\ [Next]_vars => WriterAlone'
  BY AloneStep
<1> QED
  BY <1>1, AloneInit, TypeInit, TypeStep, PTL DEF Spec

----------------------------------------------------------------------------
(* Commands: exclusion                                                     *)

\* jacques run from the command line, the cache file healthy for DELETE and
\* SELECT.  DROP, CREATE, INSERT and the entry itself may fail, and any
\* process may crash between two statements.
CommandsOnly == Server = {} /\ "delete" \notin Faults /\ "scan" \notin Faults

\* A command serves one request.
LEMMA OneWorker ==
    ASSUME CommandsOnly, NEW v \in Worker, NEW w \in Worker, ProcOf[v] = ProcOf[w]
    PROVE  v = w
BY OneRequestPerCommand DEF CommandsOnly

LEMMA RestIsEnd == ASSUME CommandsOnly, NEW w \in Worker PROVE RestPc(w) = "end"
BY DEF CommandsOnly, RestPc

\* The accessed_at goroutine of a command comes last.
LEMMA TouchLastStep ==
    ASSUME CommandsOnly, TypeInv, TouchLast, [Next]_vars
    PROVE  TouchLast'
<1> USE ProcOfAssumption, RestIsEnd, NoneAssumption
    DEF TypeInv, TypeOK, TouchLast, disk, request, touching, Goto, Finish,
        WorkersOf, ReadPcs, WritePcs
<1>1. ASSUME NEW p \in Proc, Launch(p) \/ InitSchema(p) PROVE TouchLast'
  BY <1>1 DEF Launch, InitSchema
<1>2. ASSUME NEW p \in Proc, Gone(p) PROVE TouchLast'
  BY <1>2 DEF Gone
<1>3. ASSUME NEW w \in Worker, NEW k \in Key,
             NEW o \in {"query", "refresh", "clear", "read"}, Begin(w, o, k)
      PROVE TouchLast'
  BY <1>3 DEF Begin, FirstPc
<1>4. ASSUME NEW w \in Worker,
             \/ GetOpen(w) \/ ReadOpen(w) \/ PutOpen(w) \/ ClearOpen(w)
             \/ GetMeta(w) \/ GetScan(w) \/ GetScanFail(w) \/ GetReturn(w) \/ ReadRows(w)
      PROVE TouchLast'
  BY <1>4 DEF GetOpen, ReadOpen, PutOpen, ClearOpen, GetMeta, GetScan, GetScanFail,
     GetReturn, ReadRows
<1>5. ASSUME NEW w \in Worker, TouchOpen(w) PROVE TouchLast'
  <2>1. ASSUME CanOpenRW(ProcOf[w]) PROVE pc[w] # "unlock"
    BY <2>1 DEF CanOpenRW, HoldsRead
  <2> QED BY <1>5, <2>1 DEF TouchOpen
<1>6. ASSUME NEW w \in Worker, TouchUpdate(w) PROVE TouchLast'
  BY <1>6 DEF TouchUpdate
<1>7. ASSUME NEW w \in Worker,
             \/ FetchStep(w) \/ PutDrop(w) \/ PutDelete(w) \/ PutCreate(w)
             \/ PutCreateFail(w) \/ PutInsert(w) \/ PutInsertFail(w) \/ PutRecord(w)
             \/ ClearNames(w) \/ ClearNamesFail(w) \/ ClearPurge(w)
             \/ \E k \in Key : ClearDrop(w, k)
      PROVE TouchLast'
  <2>1. /\ UNCHANGED <<cache, touch>>
        /\ pc[w] \notin {"idle", "unlock", "end"}
        /\ \E l \in Pcs : pc' = [pc EXCEPT ![w] = l]
    BY <1>7 DEF Pcs, RestPcs, FetchStep, Fetch, FetchFail, PutDrop, PutDelete, PutCreate,
       PutCreateFail, PutInsert, PutInsertFail, PutRecord,
       ClearNames, ClearNamesFail, ClearPurge, ClearDrop
  <2> QED BY <2>1
<1>8. CASE UNCHANGED vars
  <2>1. UNCHANGED <<pc, cache, touch>>
    BY <1>8 DEF vars
  <2> QED BY <2>1
<1> HIDE DEF TypeInv, TypeOK, TouchLast, disk, request, touching, Goto, Finish,
             WorkersOf, ReadPcs, WritePcs
<1> QED
  BY <1>1, <1>2, <1>3, <1>4, <1>5, <1>6, <1>7, <1>8
  DEF Next, Exit, Crash, WorkerStep, GetStep, GetScanCut, PutStep, ClearStep,
      ReadStep, TouchStep, CommandsOnly

----------------------------------------------------------------------------
(* Commands: what is on disk                                               *)

\* While a command writes, nobody else reads or writes, and its statements
\* meet no other goroutine's.
LEMMA WriterExcludes ==
    ASSUME CommandsOnly, TypeInv, WriterAlone, TouchLast,
           NEW w \in Worker, pc[w] \in WritePcs
    PROVE  /\ \A v \in Worker : v # w => pc[v] \notin ReadPcs \union WritePcs
           /\ \A stmt \in Statement : ~ Conflict(w, stmt)
<1>1. ProcOf[w] \in Proc /\ HoldsWrite(ProcOf[w])
  BY ProcOfAssumption DEF HoldsWrite, WorkersOf
<1>2. \A v \in Worker : v # w => ProcOf[v] \in Proc /\ ProcOf[v] # ProcOf[w]
  BY OneWorker, ProcOfAssumption
<1>3. \A v \in Worker : v # w => ~ HoldsRead(ProcOf[v]) /\ ~ HoldsWrite(ProcOf[v])
  BY <1>1, <1>2 DEF WriterAlone
<1>4. \A v \in Worker :
        v # w => pc[v] \notin ReadPcs \union WritePcs /\ touch[v] # "update"
  BY <1>3 DEF HoldsRead, HoldsWrite, WorkersOf
<1>5. touch[w] # "update"
  BY DEF TouchLast, WritePcs
<1> QED
  BY <1>4, <1>5 DEF Conflict

DataInv ==
    /\ EntryDescribesTable
    /\ \A w \in Worker : GetProgress(w) /\ PutProgress(w)
    /\ HitMatchesEntry

\* Inserting batch n after the first n - 1 gives the first n.
LEMMA NextBatch ==
    ASSUME NEW r \in Result, NEW n \in Nat \ {0}
    PROVE  Append([i \in 1..(n - 1) |-> <<r, i>>], <<r, n>>)
             = [i \in 1..((n + 1) - 1) |-> <<r, i>>]
<1> DEFINE s == [i \in 1..(n - 1) |-> <<r, i>>]
<1>1. s \in Seq(Result \X Nat) /\ Len(s) = n - 1
  <2>1. n - 1 \in Nat /\ \A i \in 1..(n - 1) : <<r, i>> \in Result \X Nat
    OBVIOUS
  <2> QED
    BY <2>1, IsASeq DEF s
<1>2. /\ Append(s, <<r, n>>) \in Seq(Result \X Nat)
      /\ Len(Append(s, <<r, n>>)) = n
      /\ \A i \in 1..(n - 1) : Append(s, <<r, n>>)[i] = s[i]
      /\ Append(s, <<r, n>>)[n] = <<r, n>>
  BY <1>1, AppendProperties
<1>3. \A i \in 1..n : Append(s, <<r, n>>)[i] = <<r, i>>
  BY <1>2
<1>4. DOMAIN Append(s, <<r, n>>) = 1..n
      /\ Append(s, <<r, n>>) = [i \in 1..n |-> Append(s, <<r, n>>)[i]]
  BY <1>2, LenProperties
<1> QED
  BY <1>3, <1>4

\* The part of a result that n - 1 INSERTs leave is a table.
LEMMA PartIsTable ==
    ASSUME NEW r \in Result, NEW n \in Nat \ {0}
    PROVE  [cols |-> Cols[r], rows |-> [i \in 1..(n - 1) |-> <<r, i>>]] \in Tables
<1>1. n - 1 \in Nat /\ \A i \in 1..(n - 1) : <<r, i>> \in Result \X Nat
  OBVIOUS
<1>2. [i \in 1..(n - 1) |-> <<r, i>>] \in Seq(Result \X Nat)
  BY <1>1, IsASeq
<1> QED
  BY <1>2, ResultAssumption DEF Tables

\* A step that leaves the disk alone, keeps what Get and Put remember, and
\* brings nobody into the middle of a Get or a Put.
LEMMA DiskUntouched ==
    ASSUME TypeInv, DataInv, UNCHANGED <<table, meta>>,
           \A w \in Worker :
             /\ pc'[w] \in {"scan", "create", "insert"} =>
                  /\ pc'[w] = pc[w] /\ key'[w] = key[w] /\ res'[w] = res[w]
                  /\ batch'[w] = batch[w] /\ got'[w] = got[w]
             /\ got'[w] \in {got[w], None}
    PROVE  DataInv'
BY DEF DataInv, EntryDescribesTable, GetProgress, PutProgress, HitMatchesEntry, Hit

\* A Put that comes to its cache_meta row has written the whole table.
LEMMA RecordedTable ==
    ASSUME TypeInv, DataInv, NEW w \in Worker, PutRecord(w)
    PROVE  table[key[w]] = TableOf(res[w])
<1>1. /\ pc[w] = "insert" /\ key[w] \in Key /\ res[w] \in Result
      /\ batch[w] > Batches[res[w]] /\ Batches[res[w]] \in Nat
  BY ResultAssumption DEF PutRecord, TypeInv, RequestOK, PutPcs
<1>2. PutProgress(w)
  BY DEF DataInv
<1>3. /\ batch[w] \in 1..Batches[res[w]] + 1
      /\ table[key[w]] = [cols |-> Cols[res[w]],
                          rows |-> [i \in 1..(batch[w] - 1) |-> <<res[w], i>>]]
  BY <1>1, <1>2 DEF PutProgress
<1>4. batch[w] - 1 = Batches[res[w]]
  <2>1. batch[w] \in 1..Batches[res[w]] + 1
    BY <1>3
  <2> QED BY <1>1, <2>1
<1> QED
  BY <1>3, <1>4 DEF TableOf

LEMMA DataStep ==
    ASSUME CommandsOnly, TypeInv, WriterAlone, TouchLast, DataInv, [Next]_vars
    PROVE  DataInv'
<1> USE RestIsEnd, NoneAssumption, ResultAssumption
    DEF TypeInv, TypeOK, RequestOK, disk, request, touching, Goto, Finish
<1>1. ASSUME NEW p \in Proc, Launch(p) \/ InitSchema(p) PROVE DataInv'
  BY <1>1, DiskUntouched DEF Launch, InitSchema
<1>2. ASSUME NEW p \in Proc, Gone(p) PROVE DataInv'
  <2>1. /\ UNCHANGED <<table, meta>>
        /\ \A w \in Worker :
             \/ /\ pc'[w] = pc[w] /\ key'[w] = key[w] /\ res'[w] = res[w]
                /\ batch'[w] = batch[w] /\ got'[w] = got[w]
             \/ pc'[w] = "idle" /\ got'[w] = None
    BY <1>2 DEF Gone
  <2> QED BY <2>1, DiskUntouched
<1>3. ASSUME NEW w \in Worker, NEW k \in Key,
             NEW o \in {"query", "refresh", "clear", "read"}, Begin(w, o, k)
      PROVE DataInv'
  <2>1. FirstPc(w, o) \notin {"scan", "create", "insert"}
    BY DEF FirstPc
  <2> QED BY <1>3, <2>1, DiskUntouched DEF Begin
<1>4. ASSUME NEW w \in Worker,
             \/ GetOpen(w) \/ GetScanFail(w) \/ GetReturn(w) \/ FetchStep(w)
             \/ PutOpen(w) \/ PutCreateFail(w) \/ PutInsertFail(w)
             \/ ClearOpen(w) \/ ClearNames(w) \/ ClearNamesFail(w)
             \/ ReadStep(w) \/ TouchStep(w)
      PROVE DataInv'
  BY <1>4, DiskUntouched
  DEF GetOpen, GetScanFail, GetReturn, FetchStep, Fetch, FetchFail, PutOpen,
      PutCreateFail, PutInsertFail, ClearOpen, ClearNames, ClearNamesFail, ReadStep, ReadOpen,
      ReadRows, TouchStep, TouchOpen, TouchUpdate
<1>5. ASSUME NEW w \in Worker, GetMeta(w) PROVE DataInv'
  <2>1. CASE pc' = [pc EXCEPT ![w] = "fetch"] /\ UNCHANGED got
    BY <1>5, <2>1, DiskUntouched DEF GetMeta
  <2>2. CASE ~ (pc' = [pc EXCEPT ![w] = "fetch"] /\ UNCHANGED got)
    <3>1. /\ got' = [got EXCEPT ![w] = [entry |-> meta[key[w]], table |-> None]]
          /\ pc' = [pc EXCEPT ![w] = "scan"]
          /\ UNCHANGED <<table, meta, key, res, batch>>
      BY <1>5, <2>2 DEF GetMeta
    <3>2. EntryDescribesTable'
      BY <3>1 DEF DataInv, EntryDescribesTable
    <3>3. ASSUME NEW v \in Worker PROVE GetProgress(v)' /\ PutProgress(v)'
      <4>1. CASE v = w
        <5>1. pc'[v] = "scan" /\ got'[v].entry = meta'[key'[v]]
          BY <3>1, <4>1
        <5> QED BY <5>1 DEF GetProgress, PutProgress
      <4>2. CASE v # w
        <5>1. /\ pc'[v] = pc[v] /\ got'[v] = got[v]
              /\ UNCHANGED <<table, meta, key, res, batch>>
          BY <3>1, <4>2
        <5>2. GetProgress(v) /\ PutProgress(v)
          BY DEF DataInv
        <5> QED BY <5>1, <5>2 DEF GetProgress, PutProgress
      <4> QED BY <4>1, <4>2
    <3>4. HitMatchesEntry'
      BY <3>1 DEF DataInv, HitMatchesEntry, Hit
    <3> QED BY <3>2, <3>3, <3>4 DEF DataInv
  <2> QED BY <2>1, <2>2
<1>6. ASSUME NEW w \in Worker, GetScan(w) PROVE DataInv'
  <2>1. /\ pc[w] = "scan" /\ key[w] \in Key /\ table[key[w]] # None
        /\ got[w] \in [entry : Result, table : {None}]
        /\ meta[key[w]] = got[w].entry
    BY <1>6 DEF GetScan, DataInv, GetProgress, QueryPcs
  <2>2. table[key[w]] = TableOf(got[w].entry)
    BY <2>1 DEF DataInv, EntryDescribesTable
  <2>3. /\ got' = [got EXCEPT ![w].table = table[key[w]]]
        /\ pc' = [pc EXCEPT ![w] = "unlock"]
        /\ UNCHANGED <<table, meta, key, res, batch>>
    BY <1>6 DEF GetScan
  <2>4. EntryDescribesTable'
    BY <2>3 DEF DataInv, EntryDescribesTable
  <2>5. ASSUME NEW v \in Worker PROVE GetProgress(v)' /\ PutProgress(v)'
    BY <2>3 DEF DataInv, GetProgress, PutProgress
  <2>6. ASSUME NEW v \in Worker PROVE Hit(v)' => got'[v].table = TableOf(got'[v].entry)
    <3>1. CASE v = w
      BY <2>1, <2>2, <2>3, <3>1
    <3>2. CASE v # w
      BY <2>3, <3>2 DEF DataInv, HitMatchesEntry, Hit
    <3> QED BY <3>1, <3>2
  <2> QED BY <2>4, <2>5, <2>6 DEF DataInv, HitMatchesEntry
<1> DEFINE W(w) == \A v \in Worker : v # w => pc[v] \notin ReadPcs \union WritePcs
<1>7. \A w \in Worker : pc[w] \in WritePcs =>
        W(w) /\ \A stmt \in Statement : ~ Conflict(w, stmt)
  BY WriterExcludes
<1>8. ASSUME NEW w \in Worker, PutDrop(w) PROVE DataInv'
  BY <1>7, <1>8 DEF PutDrop, DataInv, EntryDescribesTable, GetProgress,
     PutProgress, HitMatchesEntry, Hit, ReadPcs, WritePcs
<1>9. ASSUME NEW w \in Worker, PutDelete(w) PROVE DataInv'
  <2>1. meta' = [meta EXCEPT ![key[w]] = None]
    BY <1>7, <1>9 DEF PutDelete, MayFail, CommandsOnly, Statement, WritePcs
  <2>2. /\ pc[w] = "delete" /\ key[w] \in Key
        /\ pc' = [pc EXCEPT ![w] = "create"]
        /\ UNCHANGED <<table, key, res, batch, got>>
    BY <1>9 DEF PutDelete, PutPcs
  <2>3. W(w)
    BY <1>7, <2>2 DEF WritePcs
  <2>4. EntryDescribesTable' /\ HitMatchesEntry'
    BY <2>1, <2>2 DEF DataInv, EntryDescribesTable, HitMatchesEntry, Hit
  <2>5. ASSUME NEW v \in Worker PROVE GetProgress(v)' /\ PutProgress(v)'
    <3>1. CASE v = w
      BY <2>1, <2>2, <3>1 DEF GetProgress, PutProgress
    <3>2. CASE v # w
      BY <2>2, <2>3, <3>2 DEF GetProgress, PutProgress, ReadPcs, WritePcs
    <3> QED BY <3>1, <3>2
  <2> QED BY <2>4, <2>5 DEF DataInv
<1>10. ASSUME NEW w \in Worker, PutCreate(w) PROVE DataInv'
  <2>1. /\ pc[w] = "create" /\ key[w] \in Key /\ res[w] \in Result
        /\ meta[key[w]] = None
        /\ table' = [table EXCEPT ![key[w]] = [cols |-> Cols[res[w]], rows |-> <<>>]]
        /\ batch' = [batch EXCEPT ![w] = 1]
        /\ pc' = [pc EXCEPT ![w] = "insert"]
        /\ UNCHANGED <<meta, key, res, got>>
    BY <1>10 DEF PutCreate, PutPcs, DataInv, PutProgress
  <2>2. W(w)
    BY <1>7, <2>1 DEF WritePcs
  <2>3. EntryDescribesTable' /\ HitMatchesEntry'
    BY <2>1 DEF DataInv, EntryDescribesTable, HitMatchesEntry, Hit
  <2>4. ASSUME NEW v \in Worker PROVE GetProgress(v)' /\ PutProgress(v)'
    <3>1. CASE v = w
      <4>1. [i \in 1..(1 - 1) |-> <<res[w], i>>] = <<>>
        OBVIOUS
      <4> QED BY <2>1, <3>1, <4>1 DEF GetProgress, PutProgress
    <3>2. CASE v # w
      BY <2>1, <2>2, <3>2 DEF GetProgress, PutProgress, ReadPcs, WritePcs
    <3> QED BY <3>1, <3>2
  <2> QED BY <2>3, <2>4 DEF DataInv
<1>11. ASSUME NEW w \in Worker, PutInsert(w) PROVE DataInv'
  <2> DEFINE n == batch[w]
             rows == [i \in 1..(n - 1) |-> <<res[w], i>>]
  <2>1. /\ pc[w] = "insert" /\ key[w] \in Key /\ res[w] \in Result
        /\ meta[key[w]] = None
        /\ n \in Nat \ {0} /\ n <= Batches[res[w]] /\ Batches[res[w]] \in Nat
        /\ table[key[w]] = [cols |-> Cols[res[w]], rows |-> rows]
    <3>1. pc[w] = "insert" /\ key[w] \in Key /\ res[w] \in Result /\ n <= Batches[res[w]]
      BY <1>11 DEF PutInsert, PutPcs
    <3>2. PutProgress(w)
      BY DEF DataInv
    <3>3. Batches[res[w]] \in Nat /\ n \in 1..Batches[res[w]] + 1
      BY <3>1, <3>2 DEF PutProgress
    <3> QED BY <3>1, <3>2, <3>3 DEF PutProgress
  <2>2. /\ table' = [table EXCEPT ![key[w]].rows = Append(@, <<res[w], n>>)]
        /\ batch' = [batch EXCEPT ![w] = n + 1]
        /\ UNCHANGED <<pc, meta, key, res, got>>
    BY <1>11 DEF PutInsert
  <2>3. W(w)
    BY <1>7, <2>1 DEF WritePcs
  <2>4. Append(rows, <<res[w], n>>) = [i \in 1..((n + 1) - 1) |-> <<res[w], i>>]
    BY <2>1, NextBatch
  <2>5. table'[key[w]] = [cols |-> Cols[res[w]], rows |-> Append(rows, <<res[w], n>>)]
    <3> DEFINE t == table[key[w]]
    <3>1. table'[key[w]] = [t EXCEPT !.rows = Append(t.rows, <<res[w], n>>)]
      BY <2>1, <2>2
    <3>2. t = [cols |-> Cols[res[w]], rows |-> rows]
      BY <2>1
    <3> HIDE DEF t, rows
    <3> QED BY <3>1, <3>2
  <2>6. EntryDescribesTable' /\ HitMatchesEntry'
    BY <2>1, <2>2 DEF DataInv, EntryDescribesTable, HitMatchesEntry, Hit
  <2>7. ASSUME NEW v \in Worker PROVE GetProgress(v)' /\ PutProgress(v)'
    <3>1. CASE v = w
      <4>1. batch'[w] = n + 1 /\ n + 1 \in 1..Batches[res[w]] + 1
        BY <2>1, <2>2
      <4>2. table'[key[w]] = [cols |-> Cols[res[w]],
                              rows |-> [i \in 1..(batch'[w] - 1) |-> <<res[w], i>>]]
        BY <2>4, <2>5, <4>1
      <4> HIDE DEF n, rows
      <4> QED BY <2>1, <2>2, <3>1, <4>1, <4>2 DEF GetProgress, PutProgress
    <3>2. CASE v # w
      BY <2>2, <2>3, <3>2 DEF GetProgress, PutProgress, ReadPcs, WritePcs
    <3> QED BY <3>1, <3>2
  <2> QED BY <2>6, <2>7 DEF DataInv
<1>12. ASSUME NEW w \in Worker, PutRecord(w) PROVE DataInv'
  <2>1. /\ pc[w] = "insert" /\ key[w] \in Key /\ res[w] \in Result
        /\ table[key[w]] = TableOf(res[w])
    BY <1>12, RecordedTable DEF PutRecord, PutPcs
  <2>2. /\ meta' \in {meta, [meta EXCEPT ![key[w]] = res[w]]}
        /\ pc' = [pc EXCEPT ![w] = "end"]
        /\ UNCHANGED <<table, key, res, batch, got>>
    BY <1>12 DEF PutRecord
  <2>3. W(w)
    BY <1>7, <2>1 DEF WritePcs
  <2>4. EntryDescribesTable' /\ HitMatchesEntry'
    BY <2>1, <2>2 DEF DataInv, EntryDescribesTable, HitMatchesEntry, Hit
  <2>5. ASSUME NEW v \in Worker PROVE GetProgress(v)' /\ PutProgress(v)'
    <3>1. CASE v = w
      BY <2>2, <3>1 DEF GetProgress, PutProgress
    <3>2. CASE v # w
      BY <2>2, <2>3, <3>2 DEF GetProgress, PutProgress, ReadPcs, WritePcs
    <3> QED BY <3>1, <3>2
  <2> QED BY <2>4, <2>5 DEF DataInv
<1>13. ASSUME NEW w \in Worker, NEW k \in Key, ClearDrop(w, k) PROVE DataInv'
  BY <1>7, <1>13 DEF ClearDrop, DataInv, EntryDescribesTable, GetProgress,
     PutProgress, HitMatchesEntry, Hit, ReadPcs, WritePcs
<1>14. ASSUME NEW w \in Worker, ClearPurge(w) PROVE DataInv'
  BY <1>7, <1>14 DEF ClearPurge, DataInv, EntryDescribesTable, GetProgress,
     PutProgress, HitMatchesEntry, Hit, ReadPcs, WritePcs
<1>15. CASE UNCHANGED vars
  BY <1>15, DiskUntouched DEF vars
<1> QED
  BY <1>1, <1>2, <1>3, <1>4, <1>5, <1>6, <1>8, <1>9, <1>10, <1>11, <1>12,
     <1>13, <1>14, <1>15
  DEF Next, Exit, Crash, WorkerStep, GetStep, GetScanCut, PutStep, ClearStep,
      CommandsOnly

Ind == TypeInv /\ WriterAlone /\ TouchLast /\ DataInv

LEMMA IndInductive == ASSUME CommandsOnly PROVE Spec => []Ind
<1> USE DEF Ind
<1>1. Init => Ind
  BY TypeInit, AloneInit, NoneAssumption DEF Init, TouchLast, DataInv,
     EntryDescribesTable, GetProgress, PutProgress, HitMatchesEntry, Hit
<1>2. Ind /\ [Next]_vars => Ind'
  BY TypeStep, AloneStep, TouchLastStep, DataStep
<1> QED
  BY <1>1, <1>2, PTL DEF Spec

\* The invariant that makes the command-line cache correct: a writer is alone,
\* and what is on disk under a key is nothing, an entry without a table, a
\* table without an entry, or a complete result with its own entry.
THEOREM CommandInvariant == ASSUME CommandsOnly PROVE Spec => []CommandInv
<1>1. Ind => CommandInv
  BY DEF Ind, CommandInv, DataInv
<1> QED
  BY <1>1, IndInductive, PTL

\* Whatever commands run at the same time, fail or are killed, a cache hit is
\* the complete result its cache_meta row describes.
THEOREM CommandHits == ASSUME CommandsOnly PROVE Spec => []HitMatchesEntry
<1>1. CommandInv => HitMatchesEntry
  BY DEF CommandInv
<1> QED
  BY <1>1, CommandInvariant, PTL

\* The steps that write to the disk are those of a worker that holds the file.
LEMMA DiskStep ==
    ASSUME [Next]_vars, <<table, meta>>' # <<table, meta>>
    PROVE  \E w \in Worker : pc[w] \in WritePcs
<1> USE DEF WritePcs
<1>1. ASSUME NEW p \in Proc, Launch(p) \/ InitSchema(p) \/ Exit(p) \/ Crash(p)
      PROVE UNCHANGED <<table, meta>>
  BY <1>1 DEF Launch, InitSchema, Exit, Crash, Gone, disk
<1>2. ASSUME NEW w \in Worker, NEW k \in Key,
             NEW o \in {"query", "refresh", "clear", "read"}, Begin(w, o, k)
      PROVE UNCHANGED <<table, meta>>
  BY <1>2 DEF Begin, disk
<1>3. ASSUME NEW w \in Worker, GetStep(w) \/ FetchStep(w) \/ ReadStep(w) \/ TouchStep(w)
      PROVE UNCHANGED <<table, meta>>
  BY <1>3 DEF GetStep, GetOpen, GetMeta, GetScan, GetScanCut, GetScanFail, GetReturn,
     FetchStep, Fetch, FetchFail, ReadStep, ReadOpen, ReadRows, TouchStep, TouchOpen,
     TouchUpdate, disk
<1>4. ASSUME NEW w \in Worker, PutStep(w)
      PROVE UNCHANGED <<table, meta>> \/ pc[w] \in WritePcs
  BY <1>4 DEF PutStep, PutOpen, PutDrop, PutDelete, PutCreate, PutCreateFail, PutInsert,
     PutInsertFail, PutRecord, disk
<1>5. ASSUME NEW w \in Worker, ClearStep(w)
      PROVE UNCHANGED <<table, meta>> \/ pc[w] \in WritePcs
  BY <1>5 DEF ClearStep, ClearOpen, ClearNames, ClearNamesFail, ClearDrop, ClearPurge, disk
<1>6. CASE UNCHANGED vars
  BY <1>6 DEF vars, disk
<1> QED
  BY <1>1, <1>2, <1>3, <1>4, <1>5, <1>6 DEF Next, WorkerStep

\* Between the two reads of a Get no other command changes anything on disk.
THEOREM CommandSnapshot == ASSUME CommandsOnly PROVE Spec => SnapshotStable
<1>1. ASSUME Ind, [Next]_vars, NEW w \in Worker, pc[w] = "scan"
      PROVE  table'[key[w]] = table[key[w]] /\ meta'[key[w]] = meta[key[w]]
  <2>1. ASSUME NEW v \in Worker, pc[v] \in WritePcs PROVE FALSE
    <3>1. v # w
      BY <1>1, <2>1 DEF WritePcs
    <3> QED BY <1>1, <2>1, <3>1, WriterExcludes DEF Ind, ReadPcs
  <2> QED BY <1>1, <2>1, DiskStep
<1>2. Ind /\ [Next]_vars =>
        [\A w \in Worker :
           pc[w] = "scan" => /\ table'[key[w]] = table[key[w]]
                             /\ meta'[key[w]] = meta[key[w]]]_vars
  BY <1>1
<1> QED
  BY <1>2, IndInductive, PTL DEF Spec, SnapshotStable

\* A refresh that got the file open leaves its own answer or nothing: between
\* its DELETE and its end the key has no entry, whatever else fails.
THEOREM CommandRefresh == ASSUME CommandsOnly PROVE Spec => RefreshReplaces
<1>1. ASSUME Ind, [Next]_vars, NEW w \in Worker,
             pc[w] \in {"create", "insert"}, pc'[w] = "end"
      PROVE  PutCreateFail(w) \/ PutInsertFail(w) \/ PutRecord(w)
  <2>1. pc \in [Worker -> Pcs]
    BY <1>1 DEF Ind, TypeInv, TypeOK
  <2> USE <1>1, <2>1 DEF Goto, Finish
  <2>2. ASSUME NEW p \in Proc, Launch(p) \/ InitSchema(p) \/ Exit(p) \/ Crash(p)
        PROVE FALSE
    BY <2>2 DEF Launch, InitSchema, Exit, Crash, Gone
  <2>3. ASSUME NEW v \in Worker, NEW k \in Key,
               NEW o \in {"query", "refresh", "clear", "read"}, Begin(v, o, k)
        PROVE FALSE
    BY <2>3 DEF Begin
  <2>4. ASSUME NEW v \in Worker, GetStep(v) \/ FetchStep(v) \/ ReadStep(v) \/ TouchStep(v)
        PROVE FALSE
    BY <2>4 DEF GetStep, GetOpen, GetMeta, GetScan, GetScanCut, GetScanFail, GetReturn,
       FetchStep, Fetch, FetchFail, ReadStep, ReadOpen, ReadRows, TouchStep, TouchOpen,
       TouchUpdate
  <2>5. ASSUME NEW v \in Worker, PutStep(v)
        PROVE v = w /\ (PutCreateFail(w) \/ PutInsertFail(w) \/ PutRecord(w))
    BY <2>5 DEF PutStep, PutOpen, PutDrop, PutDelete, PutCreate, PutInsert,
       PutCreateFail, PutInsertFail, PutRecord
  <2>6. ASSUME NEW v \in Worker, ClearStep(v) PROVE FALSE
    BY <2>6 DEF ClearStep, ClearOpen, ClearNames, ClearNamesFail, ClearDrop, ClearPurge
  <2>7. CASE UNCHANGED vars
    BY <2>7 DEF vars
  <2> QED BY <2>2, <2>3, <2>4, <2>5, <2>6, <2>7 DEF Next, WorkerStep
<1>2. ASSUME Ind, [Next]_vars, NEW w \in Worker,
             op[w] = "refresh", pc[w] \in {"create", "insert"}, pc'[w] = "end"
      PROVE  meta'[key[w]] \in {None, res[w]}
  <2>1. CASE PutCreateFail(w) \/ PutInsertFail(w)
    BY <1>2, <2>1 DEF PutCreateFail, PutInsertFail, disk, Ind, DataInv, PutProgress
  <2>2. CASE PutRecord(w)
    <3>1. key[w] \in Key /\ meta \in [Key -> Result \union {None}] /\ meta[key[w]] = None
      BY <1>2, <2>2 DEF PutRecord, Ind, DataInv, PutProgress, TypeInv, TypeOK, RequestOK,
         PutPcs
    <3> QED BY <2>2, <3>1 DEF PutRecord
  <2> QED BY <1>1, <1>2, <2>1, <2>2
<1>3. Ind /\ [Next]_vars =>
        [\A w \in Worker :
           op[w] = "refresh" /\ pc[w] \in {"create", "insert"} /\ pc'[w] = "end" =>
             meta'[key[w]] \in {None, res[w]}]_vars
  BY <1>2
<1> QED
  BY <1>3, IndInductive, PTL DEF Spec, RefreshReplaces

----------------------------------------------------------------------------
(* Commands that complete: tables without a row, and Clear                 *)

\* Commands whose statements succeed and that nobody kills.  A refused CREATE,
\* which the code meets with a result that has no columns, is still there.
NothingFails ==
    CommandsOnly /\ Faults \intersect {"drop", "insert", "record", "crash"} = {}

\* What a Put has dropped stays dropped until its CREATE, and a Clear still has
\* to drop every table there is.
OrphanInv ==
    /\ NoOrphans
    /\ \A w \in Worker :
         /\ pc[w] \in {"delete", "create"} => table[key[w]] = None
         /\ pc[w] = "cleardrop" => \A k \in Key : table[k] # None => k \in names[w]

\* A step that leaves the disk alone and brings nobody into or out of the
\* middle of a Put or a Clear.
LEMMA OrphansUntouched ==
    ASSUME OrphanInv, UNCHANGED <<table, meta>>,
           \A w \in Worker :
             /\ pc'[w] \in {"delete", "create", "cleardrop"} =>
                  pc'[w] = pc[w] /\ key'[w] = key[w] /\ names'[w] = names[w]
             /\ pc[w] = "insert" => pc'[w] = "insert" /\ key'[w] = key[w]
    PROVE  OrphanInv'
BY DEF OrphanInv, NoOrphans

LEMMA OrphanStep ==
    ASSUME NothingFails, Ind, OrphanInv, [Next]_vars
    PROVE  OrphanInv'
<1> USE DEF disk, request, touching, Goto, Finish
<1>0. CommandsOnly /\ TypeInv /\ WriterAlone /\ TouchLast /\ DataInv
  BY DEF NothingFails, Ind
<1>1. /\ pc \in [Worker -> Pcs] /\ key \in [Worker -> Key \union {None}]
      /\ names \in [Worker -> SUBSET Key] /\ table \in [Key -> Tables \union {None}]
      /\ meta \in [Key -> Result \union {None}]
      /\ \A w \in Worker : pc[w] \in QueryPcs \union PutPcs => key[w] \in Key
      /\ \A w \in Worker : pc[w] \in PutPcs => res[w] \in Result
  BY <1>0 DEF TypeInv, TypeOK, RequestOK
<1>2. \A w \in Worker : pc[w] \in WritePcs =>
        /\ \A v \in Worker : v # w => pc[v] \notin WritePcs
        /\ \A stmt \in Statement : ~ Conflict(w, stmt)
  BY <1>0, WriterExcludes
<1>3. ASSUME NEW p \in Proc, Launch(p) \/ InitSchema(p) PROVE OrphanInv'
  BY <1>3, OrphansUntouched DEF Launch, InitSchema
<1>4. ASSUME NEW p \in Proc, Exit(p) PROVE OrphanInv'
  <2>1. PICK w \in Worker : ProcOf[w] = p /\ pc[w] = "end"
    BY <1>4 DEF Exit, WorkersOf
  <2>2. \A v \in Worker : ProcOf[v] = p => pc[v] = "end"
    BY <1>0, <2>1, OneWorker
  <2>3. /\ UNCHANGED <<table, meta>>
        /\ pc' = [v \in Worker |-> IF ProcOf[v] = p THEN "idle" ELSE pc[v]]
        /\ key' = [v \in Worker |-> IF ProcOf[v] = p THEN None ELSE key[v]]
        /\ names' = [v \in Worker |-> IF ProcOf[v] = p THEN {} ELSE names[v]]
    BY <1>4 DEF Exit, Gone
  <2> QED BY <2>2, <2>3, OrphansUntouched
<1>5. ASSUME NEW p \in Proc PROVE ~ Crash(p)
  BY DEF Crash, NothingFails
<1>6. ASSUME NEW w \in Worker, NEW k \in Key,
             NEW o \in {"query", "refresh", "clear", "read"}, Begin(w, o, k)
      PROVE OrphanInv'
  <2>1. FirstPc(w, o) \notin {"delete", "create", "cleardrop", "insert"}
    BY <1>0, RestIsEnd DEF FirstPc
  <2> QED BY <1>1, <1>6, <2>1, OrphansUntouched DEF Begin
<1>7. ASSUME NEW w \in Worker,
             \/ GetOpen(w) \/ GetMeta(w) \/ GetScan(w) \/ GetScanFail(w) \/ GetReturn(w)
             \/ FetchStep(w) \/ PutOpen(w) \/ PutCreateFail(w) \/ ClearOpen(w)
             \/ ClearNamesFail(w) \/ ReadStep(w) \/ TouchStep(w)
      PROVE OrphanInv'
  BY <1>0, <1>1, <1>7, RestIsEnd, OrphansUntouched
  DEF GetOpen, GetMeta, GetScan, GetScanFail, GetReturn, FetchStep, Fetch, FetchFail,
      PutOpen, PutCreateFail, ClearOpen, ClearNamesFail, ReadStep, ReadOpen, ReadRows,
      TouchStep, TouchOpen, TouchUpdate
<1>8. ASSUME NEW w \in Worker PROVE ~ PutInsertFail(w)
  <2>1. CASE pc[w] = "insert"
    <3>1. table[key[w]] = [cols |-> Cols[res[w]],
                           rows |-> [i \in 1..(batch[w] - 1) |-> <<res[w], i>>]]
      BY <1>0, <2>1 DEF DataInv, PutProgress
    <3>2. res[w] \in Result /\ batch[w] \in 1..Batches[res[w]] + 1
      BY <1>0, <1>1, <2>1 DEF PutPcs, DataInv, PutProgress
    <3>3. batch[w] \in Nat \ {0}
      BY <3>2, ResultAssumption
    <3>4. table[key[w]] # None
      BY <3>1, <3>2, <3>3, PartIsTable, NoneAssumption
    <3>5. Fits(w)
      BY <3>1, <3>4 DEF Fits
    <3>6. ~ MayFail(w, "insert")
      BY <1>2, <2>1 DEF MayFail, NothingFails, WritePcs, Statement
    <3> QED BY <3>5, <3>6 DEF PutInsertFail
  <2> QED BY <2>1 DEF PutInsertFail
<1>9. ASSUME NEW w \in Worker, PutDrop(w) PROVE OrphanInv'
  <2>1. /\ pc[w] = "drop" /\ key[w] \in Key /\ UNCHANGED <<meta, key, names>>
        /\ pc' = [pc EXCEPT ![w] = "delete"]
    BY <1>1, <1>9 DEF PutDrop, PutPcs
  <2>2. table' = [table EXCEPT ![key[w]] = None]
    BY <1>2, <1>9, <2>1 DEF PutDrop, MayFail, NothingFails, WritePcs, Statement
  <2>3. \A v \in Worker : v # w => pc'[v] = pc[v] /\ pc[v] \notin WritePcs
    BY <1>2, <2>1 DEF WritePcs
  <2>4. table'[key'[w]] = None /\ pc'[w] = "delete"
    BY <1>1, <2>1, <2>2
  <2>5. NoOrphans'
    BY <1>1, <2>1, <2>2, <2>3 DEF OrphanInv, NoOrphans, WritePcs
  <2> QED BY <2>1, <2>3, <2>4, <2>5 DEF OrphanInv, WritePcs
<1>10. ASSUME NEW w \in Worker, PutDelete(w) PROVE OrphanInv'
  <2>1. /\ pc[w] = "delete" /\ key[w] \in Key /\ UNCHANGED <<table, key, names>>
        /\ pc' = [pc EXCEPT ![w] = "create"]
    BY <1>1, <1>10 DEF PutDelete, PutPcs
  <2>2. meta' = [meta EXCEPT ![key[w]] = None]
    BY <1>0, <1>2, <1>10, <2>1 DEF PutDelete, MayFail, CommandsOnly, WritePcs, Statement
  <2>3. \A v \in Worker : v # w => pc'[v] = pc[v] /\ pc[v] \notin WritePcs
    BY <1>2, <2>1 DEF WritePcs
  <2>4. table'[key'[w]] = None /\ pc'[w] = "create"
    BY <1>1, <2>1 DEF OrphanInv
  <2>5. NoOrphans'
    BY <1>1, <2>1, <2>2, <2>3, <2>4 DEF OrphanInv, NoOrphans, WritePcs
  <2> QED BY <2>1, <2>3, <2>4, <2>5 DEF OrphanInv, WritePcs
<1>11. ASSUME NEW w \in Worker, PutCreate(w) PROVE OrphanInv'
  <2>1. /\ pc[w] = "create" /\ key[w] \in Key /\ UNCHANGED <<meta, key, names>>
        /\ pc' = [pc EXCEPT ![w] = "insert"]
        /\ \A k \in Key \ {key[w]} : table'[k] = table[k]
    BY <1>1, <1>11 DEF PutCreate, PutPcs
  <2>2. \A v \in Worker : v # w => pc'[v] = pc[v] /\ pc[v] \notin WritePcs
    BY <1>2, <2>1 DEF WritePcs
  <2>3. NoOrphans'
    BY <1>1, <2>1, <2>2 DEF OrphanInv, NoOrphans, WritePcs
  <2> QED BY <1>1, <2>1, <2>2, <2>3 DEF OrphanInv, WritePcs
<1>12. ASSUME NEW w \in Worker, PutInsert(w) PROVE OrphanInv'
  <2>1. /\ pc[w] = "insert" /\ key[w] \in Key /\ UNCHANGED <<meta, key, names, pc>>
        /\ \A k \in Key \ {key[w]} : table'[k] = table[k]
    BY <1>1, <1>12 DEF PutInsert, PutPcs
  <2>2. \A v \in Worker : v # w => pc[v] \notin WritePcs
    BY <1>2, <2>1 DEF WritePcs
  <2>3. NoOrphans'
    BY <1>1, <2>1, <2>2 DEF OrphanInv, NoOrphans
  <2> QED BY <1>1, <2>1, <2>2, <2>3 DEF OrphanInv, WritePcs
<1>13. ASSUME NEW w \in Worker, PutRecord(w) PROVE OrphanInv'
  <2>1. /\ pc[w] = "insert" /\ key[w] \in Key /\ res[w] \in Result
        /\ UNCHANGED <<table, key, names>> /\ pc' = [pc EXCEPT ![w] = "end"]
    BY <1>0, <1>1, <1>13, RestIsEnd DEF PutRecord, PutPcs
  <2>2. meta' = [meta EXCEPT ![key[w]] = res[w]]
    BY <1>2, <1>13, <2>1 DEF PutRecord, MayFail, NothingFails, WritePcs, Statement
  <2>3. \A v \in Worker : v # w => pc'[v] = pc[v] /\ pc[v] \notin WritePcs
    BY <1>2, <2>1 DEF WritePcs
  <2>4. meta'[key[w]] # None
    BY <1>1, <2>1, <2>2, NoneAssumption
  <2>5. NoOrphans'
    BY <1>1, <2>1, <2>2, <2>3, <2>4 DEF OrphanInv, NoOrphans
  <2> QED BY <1>1, <2>1, <2>3, <2>5 DEF OrphanInv, WritePcs
<1>14. ASSUME NEW w \in Worker, ClearNames(w) PROVE OrphanInv'
  <2>1. /\ pc[w] = "names" /\ UNCHANGED <<table, meta, key>>
        /\ pc' = [pc EXCEPT ![w] = "cleardrop"]
        /\ names' = [names EXCEPT ![w] = {k \in Key : meta[k] # None}]
    BY <1>0, <1>14 DEF ClearNames, CommandsOnly
  <2>2. \A v \in Worker : v # w => pc'[v] = pc[v] /\ pc[v] \notin WritePcs
    BY <1>1, <1>2, <2>1 DEF WritePcs
  <2>3. \A v \in Worker : pc[v] # "insert" /\ pc'[v] # "insert"
    BY <1>1, <2>1, <2>2 DEF WritePcs
  <2>4. \A k \in Key : table[k] # None => meta[k] # None
    BY <2>3 DEF OrphanInv, NoOrphans
  <2>5. NoOrphans'
    BY <2>1, <2>4 DEF NoOrphans
  <2> QED BY <1>1, <2>1, <2>2, <2>4, <2>5 DEF OrphanInv, WritePcs
<1>15. ASSUME NEW w \in Worker, NEW k \in Key, ClearDrop(w, k) PROVE OrphanInv'
  <2>1. /\ pc[w] = "cleardrop" /\ UNCHANGED <<meta, key, pc>>
        /\ names' = [names EXCEPT ![w] = @ \ {k}]
    BY <1>15 DEF ClearDrop
  <2>2. table' = [table EXCEPT ![k] = None]
    BY <1>2, <1>15, <2>1 DEF ClearDrop, MayFail, NothingFails, WritePcs, Statement
  <2>3. \A v \in Worker : v # w => pc[v] \notin WritePcs
    BY <1>2, <2>1 DEF WritePcs
  <2>4. NoOrphans'
    BY <1>1, <2>1, <2>2 DEF OrphanInv, NoOrphans
  <2> QED BY <1>1, <2>1, <2>2, <2>3, <2>4 DEF OrphanInv, WritePcs
<1>16. ASSUME NEW w \in Worker, ClearPurge(w) PROVE OrphanInv'
  <2>1. /\ pc[w] = "cleardrop" /\ names[w] = {} /\ UNCHANGED <<table, key, names>>
        /\ pc' = [pc EXCEPT ![w] = "end"]
    BY <1>0, <1>16, RestIsEnd DEF ClearPurge
  <2>2. \A v \in Worker : v # w => pc'[v] = pc[v] /\ pc[v] \notin WritePcs
    BY <1>1, <1>2, <2>1 DEF WritePcs
  <2>3. \A k \in Key : table[k] = None
    BY <2>1 DEF OrphanInv
  <2> QED BY <1>1, <2>1, <2>2, <2>3 DEF OrphanInv, NoOrphans, WritePcs
<1>17. CASE UNCHANGED vars
  BY <1>17, OrphansUntouched DEF vars
<1>18. ASSUME NEW w \in Worker, WorkerStep(w) \/ TouchStep(w) PROVE OrphanInv'
  <2>1. ~ GetScanCut(w)
    BY <1>0 DEF GetScanCut, CommandsOnly
  <2>2. CASE GetStep(w) \/ FetchStep(w) \/ ReadStep(w) \/ TouchStep(w)
    BY <1>7, <2>1, <2>2 DEF GetStep
  <2>3. CASE PutStep(w)
    BY <1>7, <1>8, <1>9, <1>10, <1>11, <1>12, <1>13, <2>3 DEF PutStep
  <2>4. CASE ClearStep(w)
    BY <1>7, <1>14, <1>15, <1>16, <2>4 DEF ClearStep
  <2> QED BY <1>18, <2>2, <2>3, <2>4 DEF WorkerStep
<1> QED
  BY <1>3, <1>4, <1>5, <1>6, <1>17, <1>18 DEF Next

LEMMA OrphanInductive == ASSUME NothingFails PROVE Spec => [](Ind /\ OrphanInv)
<1>1. Init => OrphanInv
  BY DEF Init, OrphanInv, NoOrphans
<1>2. Ind /\ OrphanInv /\ [Next]_vars => OrphanInv'
  BY OrphanStep
<1>3. CommandsOnly
  BY DEF NothingFails
<1>4. Spec => []Ind
  BY <1>3, IndInductive
<1> QED
  BY <1>1, <1>2, <1>4, PTL DEF Spec

\* However many commands refresh, read and clear at the same time, a data table
\* has its cache_meta row, but for the one a Put is filling.
THEOREM TablesHaveRows == ASSUME NothingFails PROVE Spec => []NoOrphans
<1>1. OrphanInv => NoOrphans
  BY DEF OrphanInv
<1> QED
  BY <1>1, OrphanInductive, PTL

\* `jacques cache clear` leaves no data table, although it drops only those that
\* had a row when it began: no Put comes in between.
THEOREM ClearIsComplete == ASSUME NothingFails PROVE Spec => ClearWipes
<1>1. ASSUME Ind, OrphanInv, [Next]_vars, NEW w \in Worker,
             pc[w] = "cleardrop", pc'[w] = "end"
      PROVE  \A k \in Key : table'[k] = None
  <2>1. ClearPurge(w)
    <3>1. pc \in [Worker -> Pcs]
      BY <1>1 DEF Ind, TypeInv, TypeOK
    <3> USE <1>1, <3>1 DEF Goto, Finish
    <3>2. ASSUME NEW p \in Proc, Launch(p) \/ InitSchema(p) \/ Exit(p) \/ Crash(p)
          PROVE FALSE
      BY <3>2 DEF Launch, InitSchema, Exit, Crash, Gone
    <3>3. ASSUME NEW v \in Worker, NEW k \in Key,
                 NEW o \in {"query", "refresh", "clear", "read"}, Begin(v, o, k)
          PROVE FALSE
      BY <3>3 DEF Begin
    <3>4. ASSUME NEW v \in Worker,
                 GetStep(v) \/ FetchStep(v) \/ ReadStep(v) \/ TouchStep(v)
          PROVE FALSE
      BY <3>4 DEF GetStep, GetOpen, GetMeta, GetScan, GetScanCut, GetScanFail, GetReturn,
         FetchStep, Fetch, FetchFail, ReadStep, ReadOpen, ReadRows, TouchStep, TouchOpen,
         TouchUpdate
    <3>5. ASSUME NEW v \in Worker, PutStep(v) PROVE FALSE
      BY <3>5 DEF PutStep, PutOpen, PutDrop, PutDelete, PutCreate, PutInsert,
         PutCreateFail, PutInsertFail, PutRecord
    <3>6. ASSUME NEW v \in Worker, ClearStep(v) PROVE ClearPurge(w)
      BY <3>6 DEF ClearStep, ClearOpen, ClearNames, ClearNamesFail, ClearDrop, ClearPurge
    <3>7. CASE UNCHANGED vars
      BY <3>7 DEF vars
    <3> QED BY <3>2, <3>3, <3>4, <3>5, <3>6, <3>7 DEF Next, WorkerStep
  <2> QED BY <1>1, <2>1 DEF ClearPurge, OrphanInv
<1>2. Ind /\ OrphanInv /\ [Next]_vars =>
        [\A w \in Worker :
           pc[w] = "cleardrop" /\ pc'[w] = "end" =>
             \A k \in Key : table'[k] = None]_vars
  BY <1>1
<1> QED
  BY <1>2, OrphanInductive, PTL DEF Spec, ClearWipes

----------------------------------------------------------------------------
(* One request at a time in each process: no part of a result is visible   *)

\* Every process serves one request at a time.  The accessed_at goroutine of a
\* server may run beside its next request.
OneRequestEach == \A v, w \in Worker : ProcOf[v] = ProcOf[w] => v = w

\* The part that a Put has written so far.
Part(w) ==
    /\ res[w] \in Result /\ batch[w] \in 1..Batches[res[w]] + 1
    /\ table[key[w]] = [cols |-> Cols[res[w]],
                        rows |-> [i \in 1..(batch[w] - 1) |-> <<res[w], i>>]]

Whole(k) ==
    \/ table[k] = None
    \/ meta[k] = None
    \/ stale[k]
    \/ \E r \in Result : table[k] = TableOf(r)

\* A Put fills a table only where its DELETE has removed the row, or has failed.
WholeInv ==
    /\ \A w \in Worker : pc[w] = "insert" => Part(w)
    /\ \A w \in Worker :
         pc[w] \in {"create", "insert"} => meta[key[w]] = None \/ stale[key[w]]
    /\ \A k \in Key : Whole(k)

\* A writer is alone, but for accessed_at goroutines.
LEMMA OneWriting ==
    ASSUME OneRequestEach, WriterAlone, NEW w \in Worker, pc[w] \in WritePcs,
           NEW v \in Worker, v # w
    PROVE  pc[v] \notin WritePcs
<1>1. /\ ProcOf[w] \in Proc /\ HoldsWrite(ProcOf[w])
      /\ ProcOf[v] \in Proc /\ ProcOf[v] # ProcOf[w]
  BY ProcOfAssumption DEF HoldsWrite, WorkersOf, OneRequestEach
<1>2. ~ HoldsWrite(ProcOf[v])
  BY <1>1 DEF WriterAlone
<1> QED
  BY <1>2 DEF HoldsWrite, WorkersOf

\* A step that leaves the disk alone and brings nobody into the middle of a Put.
LEMMA WholeUntouched ==
    ASSUME WholeInv, UNCHANGED <<table, meta, stale>>,
           \A w \in Worker :
             pc'[w] \in {"create", "insert"} =>
               /\ pc'[w] = pc[w] /\ key'[w] = key[w]
               /\ res'[w] = res[w] /\ batch'[w] = batch[w]
    PROVE  WholeInv'
BY DEF WholeInv, Whole, Part

\* A statement of worker w about key k, while nobody else writes.
LEMMA WholeWritten ==
    ASSUME WholeInv, NEW w \in Worker, NEW k \in Key,
           \A v \in Worker : v # w => pc'[v] \notin {"create", "insert"},
           \A j \in Key \ {k} : table'[j] = table[j] /\ meta'[j] = meta[j]
                                /\ stale'[j] = stale[j],
           pc'[w] = "insert" => Part(w)',
           pc'[w] \in {"create", "insert"} => key'[w] = k /\ (meta'[k] = None \/ stale'[k]),
           Whole(k)'
    PROVE  WholeInv'
<1>1. ASSUME NEW j \in Key PROVE Whole(j)'
  <2>1. CASE j # k
    <3>1. Whole(j)
      BY DEF WholeInv
    <3> QED BY <2>1, <3>1 DEF Whole
  <2> QED BY <2>1
<1> QED
  BY <1>1 DEF WholeInv

LEMMA WholeStep ==
    ASSUME OneRequestEach, TypeInv, WriterAlone, WholeInv, [Next]_vars
    PROVE  WholeInv'
<1> USE DEF disk, request, touching, Goto, Finish
<1>1. /\ pc \in [Worker -> Pcs] /\ key \in [Worker -> Key \union {None}]
      /\ table \in [Key -> Tables \union {None}] /\ batch \in [Worker -> Nat]
      /\ meta \in [Key -> Result \union {None}] /\ stale \in [Key -> BOOLEAN]
      /\ res \in [Worker -> Result \union {None}]
      /\ \A w \in Worker : pc[w] \in QueryPcs \union PutPcs => key[w] \in Key
      /\ \A w \in Worker : pc[w] \in PutPcs => res[w] \in Result
  BY DEF TypeInv, TypeOK, RequestOK
<1>2. \A w \in Worker : pc[w] \in WritePcs =>
        \A v \in Worker : v # w => pc[v] \notin WritePcs
  BY OneWriting
<1>3. \A w \in Worker : RestPc(w) \notin {"create", "insert"}
  BY DEF RestPc
<1>4. ASSUME NEW p \in Proc, Launch(p) \/ InitSchema(p) PROVE WholeInv'
  BY <1>4, WholeUntouched DEF Launch, InitSchema
<1>5. ASSUME NEW p \in Proc, Gone(p) PROVE WholeInv'
  <2>1. /\ UNCHANGED <<table, meta, stale>>
        /\ \A v \in Worker :
             \/ /\ pc'[v] = pc[v] /\ key'[v] = key[v]
                /\ res'[v] = res[v] /\ batch'[v] = batch[v]
             \/ pc'[v] = "idle"
    BY <1>5 DEF Gone
  <2> QED BY <2>1, WholeUntouched
<1>6. ASSUME NEW w \in Worker, NEW k \in Key,
             NEW o \in {"query", "refresh", "clear", "read"}, Begin(w, o, k)
      PROVE WholeInv'
  <2>1. FirstPc(w, o) \notin {"create", "insert"}
    BY <1>3 DEF FirstPc
  <2> QED BY <1>1, <1>6, <2>1, WholeUntouched DEF Begin
<1>7. ASSUME NEW w \in Worker,
             \/ GetStep(w) \/ FetchStep(w) \/ PutOpen(w) \/ PutCreateFail(w)
             \/ PutInsertFail(w) \/ ClearOpen(w) \/ ClearNames(w) \/ ClearNamesFail(w)
             \/ ReadStep(w)
      PROVE WholeInv'
  <2>1. /\ UNCHANGED <<table, meta, stale, key, batch>>
        /\ \A v \in Worker \ {w} : pc'[v] = pc[v] /\ res'[v] = res[v]
    <3>1. CASE GetStep(w)
      BY <1>1, <3>1 DEF GetStep, GetOpen, GetMeta, GetScan, GetScanCut, GetScanFail,
         GetReturn
    <3>2. CASE FetchStep(w)
      BY <1>1, <3>2 DEF FetchStep, Fetch, FetchFail
    <3>3. CASE PutOpen(w) \/ PutCreateFail(w) \/ PutInsertFail(w)
      BY <1>1, <3>3 DEF PutOpen, PutCreateFail, PutInsertFail
    <3>4. CASE ClearOpen(w) \/ ClearNames(w) \/ ClearNamesFail(w) \/ ReadStep(w)
      BY <1>1, <3>4 DEF ClearOpen, ClearNames, ClearNamesFail, ReadStep, ReadOpen, ReadRows
    <3> QED BY <1>7, <3>1, <3>2, <3>3, <3>4
  <2>2. pc'[w] \notin {"create", "insert"}
    <3>1. CASE GetStep(w)
      BY <1>1, <1>3, <3>1 DEF GetStep, GetOpen, GetMeta, GetScan, GetScanCut, GetScanFail,
         GetReturn
    <3>2. CASE FetchStep(w)
      BY <1>1, <1>3, <3>2 DEF FetchStep, Fetch, FetchFail
    <3>3. CASE PutOpen(w) \/ PutCreateFail(w) \/ PutInsertFail(w)
      BY <1>1, <1>3, <3>3 DEF PutOpen, PutCreateFail, PutInsertFail
    <3>4. CASE ClearOpen(w) \/ ClearNames(w) \/ ClearNamesFail(w) \/ ReadStep(w)
      BY <1>1, <1>3, <3>4
      DEF ClearOpen, ClearNames, ClearNamesFail, ReadStep, ReadOpen, ReadRows
    <3> QED BY <1>7, <3>1, <3>2, <3>3, <3>4
  <2> QED BY <2>1, <2>2, WholeUntouched
<1>8. ASSUME NEW w \in Worker, TouchStep(w) PROVE WholeInv'
  BY <1>8, WholeUntouched DEF TouchStep, TouchOpen, TouchUpdate
<1>9. ASSUME NEW w \in Worker, PutDrop(w) PROVE WholeInv'
  <2>1. /\ pc[w] = "drop" /\ key[w] \in Key /\ pc' = [pc EXCEPT ![w] = "delete"]
        /\ UNCHANGED <<meta, stale, key>>
        /\ table' \in {table, [table EXCEPT ![key[w]] = None]}
    BY <1>1, <1>9 DEF PutDrop, PutPcs
  <2>2. \A v \in Worker : pc'[v] \notin {"create", "insert"}
    BY <1>1, <1>2, <2>1 DEF WritePcs
  <2>3. Whole(key[w])'
    BY <1>1, <2>1 DEF WholeInv, Whole
  <2> QED BY <1>1, <2>1, <2>2, <2>3, WholeWritten
<1>10. ASSUME NEW w \in Worker, PutDelete(w) PROVE WholeInv'
  <2>1. /\ pc[w] = "delete" /\ key[w] \in Key /\ pc' = [pc EXCEPT ![w] = "create"]
        /\ UNCHANGED <<table, key>>
        /\ \/ /\ meta' = [meta EXCEPT ![key[w]] = None]
              /\ stale' = [stale EXCEPT ![key[w]] = FALSE]
           \/ meta' = meta /\ stale' = [stale EXCEPT ![key[w]] = TRUE]
    BY <1>1, <1>10 DEF PutDelete, PutPcs
  <2>2. \A v \in Worker : v # w => pc'[v] \notin {"create", "insert"}
    BY <1>1, <1>2, <2>1 DEF WritePcs
  <2>3. pc'[w] = "create" /\ key'[w] = key[w]
        /\ (meta'[key[w]] = None \/ stale'[key[w]])
    BY <1>1, <2>1
  <2>4. Whole(key[w])'
    BY <2>3, <2>1 DEF Whole
  <2>5. \A j \in Key \ {key[w]} :
          table'[j] = table[j] /\ meta'[j] = meta[j] /\ stale'[j] = stale[j]
    BY <1>1, <2>1
  <2> QED BY <2>1, <2>2, <2>3, <2>4, <2>5, WholeWritten
<1>11. ASSUME NEW w \in Worker, PutCreate(w) PROVE WholeInv'
  <2>1. /\ pc[w] = "create" /\ key[w] \in Key /\ res[w] \in Result
        /\ table' = [table EXCEPT ![key[w]] = [cols |-> Cols[res[w]], rows |-> <<>>]]
        /\ batch' = [batch EXCEPT ![w] = 1]
        /\ pc' = [pc EXCEPT ![w] = "insert"]
        /\ UNCHANGED <<meta, stale, key, res>>
    BY <1>1, <1>11 DEF PutCreate, PutPcs
  <2>2. \A v \in Worker : v # w => pc'[v] \notin {"create", "insert"}
    BY <1>1, <1>2, <2>1 DEF WritePcs
  <2>3. Part(w)'
    <3>1. [i \in 1..(1 - 1) |-> <<res[w], i>>] = <<>>
      OBVIOUS
    <3>2. Batches[res[w]] \in Nat
      BY <2>1, ResultAssumption
    <3>3. batch'[w] = 1 /\ 1 \in 1..Batches[res[w]] + 1
      BY <1>1, <2>1, <3>2
    <3>4. table'[key[w]] = [cols |-> Cols[res[w]], rows |-> <<>>]
      BY <1>1, <2>1
    <3> QED BY <2>1, <3>1, <3>3, <3>4 DEF Part
  <2>4. meta[key[w]] = None \/ stale[key[w]]
    BY <2>1 DEF WholeInv
  <2>5. Whole(key[w])'
    BY <2>1, <2>4 DEF Whole
  <2>6. \A j \in Key \ {key[w]} :
          table'[j] = table[j] /\ meta'[j] = meta[j] /\ stale'[j] = stale[j]
    BY <1>1, <2>1
  <2> QED BY <2>1, <2>2, <2>3, <2>4, <2>5, <2>6, WholeWritten
<1>12. ASSUME NEW w \in Worker, PutInsert(w) PROVE WholeInv'
  <2> DEFINE n == batch[w]
             rows == [i \in 1..(n - 1) |-> <<res[w], i>>]
  <2>1. /\ pc[w] = "insert" /\ key[w] \in Key /\ res[w] \in Result
        /\ n <= Batches[res[w]]
        /\ table' = [table EXCEPT ![key[w]].rows = Append(@, <<res[w], n>>)]
        /\ batch' = [batch EXCEPT ![w] = n + 1]
        /\ UNCHANGED <<pc, key, res, meta, stale>>
    BY <1>1, <1>12 DEF PutInsert, PutPcs
  <2>2. /\ n \in 1..Batches[res[w]] + 1
        /\ table[key[w]] = [cols |-> Cols[res[w]], rows |-> rows]
    BY <2>1 DEF WholeInv, Part
  <2>3. n \in Nat \ {0} /\ Batches[res[w]] \in Nat
    BY <2>1, <2>2, ResultAssumption
  <2>4. \A v \in Worker : v # w => pc'[v] \notin {"create", "insert"}
    BY <1>2, <2>1 DEF WritePcs
  <2>5. Append(rows, <<res[w], n>>) = [i \in 1..((n + 1) - 1) |-> <<res[w], i>>]
    BY <2>1, <2>3, NextBatch
  <2>6. table'[key[w]] = [cols |-> Cols[res[w]], rows |-> Append(rows, <<res[w], n>>)]
    <3> DEFINE t == table[key[w]]
    <3>1. table'[key[w]] = [t EXCEPT !.rows = Append(t.rows, <<res[w], n>>)]
      BY <1>1, <2>1
    <3>2. t = [cols |-> Cols[res[w]], rows |-> rows]
      BY <2>2
    <3> HIDE DEF t, rows
    <3> QED BY <3>1, <3>2
  <2>7. Part(w)'
    <3>1. batch'[w] = n + 1 /\ n + 1 \in 1..Batches[res[w]] + 1
      BY <1>1, <2>1, <2>3
    <3>2. table'[key[w]] = [cols |-> Cols[res[w]],
                            rows |-> [i \in 1..(batch'[w] - 1) |-> <<res[w], i>>]]
      BY <2>5, <2>6, <3>1
    <3> HIDE DEF n, rows
    <3> QED BY <2>1, <3>1, <3>2 DEF Part
  <2>8. \A j \in Key \ {key[w]} :
          table'[j] = table[j] /\ meta'[j] = meta[j] /\ stale'[j] = stale[j]
    BY <1>1, <2>1
  <2>9. meta[key[w]] = None \/ stale[key[w]]
    BY <2>1 DEF WholeInv
  <2>10. Whole(key[w])'
    BY <2>1, <2>9 DEF Whole
  <2> HIDE DEF n, rows
  <2> QED BY <2>1, <2>4, <2>7, <2>8, <2>9, <2>10, WholeWritten
<1>13. ASSUME NEW w \in Worker, PutRecord(w) PROVE WholeInv'
  <2>1. /\ pc[w] = "insert" /\ key[w] \in Key /\ res[w] \in Result
        /\ batch[w] > Batches[res[w]]
        /\ UNCHANGED <<table, key, res, batch>>
        /\ pc' = [pc EXCEPT ![w] = RestPc(w)]
        /\ \A j \in Key \ {key[w]} : meta'[j] = meta[j] /\ stale'[j] = stale[j]
    BY <1>1, <1>13 DEF PutRecord, PutPcs
  <2>2. \A v \in Worker : pc'[v] \notin {"create", "insert"}
    BY <1>1, <1>2, <1>3, <2>1 DEF WritePcs
  <2>3. Part(w)
    BY <2>1 DEF WholeInv
  <2>4. batch[w] - 1 = Batches[res[w]]
    <3>1. batch[w] \in 1..Batches[res[w]] + 1 /\ Batches[res[w]] \in Nat
      BY <2>1, <2>3, ResultAssumption DEF Part
    <3> QED BY <2>1, <3>1
  <2>5. table[key[w]] = TableOf(res[w])
    BY <2>3, <2>4 DEF Part, TableOf
  <2>6. Whole(key[w])'
    BY <2>1, <2>5 DEF Whole
  <2> QED BY <2>1, <2>2, <2>6, WholeWritten
<1>14. ASSUME NEW w \in Worker, NEW k \in Key, ClearDrop(w, k) PROVE WholeInv'
  <2>1. /\ pc[w] = "cleardrop" /\ UNCHANGED <<pc, key, meta, stale>>
        /\ table' \in {table, [table EXCEPT ![k] = None]}
    BY <1>14 DEF ClearDrop
  <2>2. \A v \in Worker : pc'[v] \notin {"create", "insert"}
    BY <1>2, <2>1 DEF WritePcs
  <2>3. Whole(k)'
    BY <1>1, <2>1 DEF WholeInv, Whole
  <2> QED BY <1>1, <2>1, <2>2, <2>3, WholeWritten
<1>15. ASSUME NEW w \in Worker, ClearPurge(w) PROVE WholeInv'
  <2>1. /\ pc[w] = "cleardrop" /\ UNCHANGED <<table, key>>
        /\ pc' = [pc EXCEPT ![w] = RestPc(w)]
        /\ meta' = [k \in Key |-> None] \/ UNCHANGED <<meta, stale>>
    BY <1>15 DEF ClearPurge
  <2>2. \A v \in Worker : pc'[v] \notin {"create", "insert"}
    BY <1>1, <1>2, <1>3, <2>1 DEF WritePcs
  <2>3. \A k \in Key : Whole(k)'
    BY <2>1 DEF WholeInv, Whole
  <2> QED BY <2>2, <2>3 DEF WholeInv
<1>16. CASE UNCHANGED vars
  BY <1>16, WholeUntouched DEF vars
<1>17. ASSUME NEW w \in Worker, WorkerStep(w) \/ TouchStep(w) PROVE WholeInv'
  BY <1>7, <1>8, <1>9, <1>10, <1>11, <1>12, <1>13, <1>14, <1>15, <1>17
  DEF WorkerStep, PutStep, ClearStep
<1> QED
  BY <1>4, <1>5, <1>6, <1>16, <1>17 DEF Next, Exit, Crash

\* Every entry in the file is a complete result, whatever fails and whoever is
\* killed, as long as no DELETE of its row has failed since it was written: Put
\* removes the row before it fills the table.  With two requests at a time in
\* one process the run of duck_two_puts.cfg shows a mixture.
THEOREM EntriesAreWhole == ASSUME OneRequestEach PROVE Spec => []VisibleIsWhole
<1>1. Init => WholeInv
  BY DEF Init, WholeInv, Whole
<1>2. TypeInv /\ WriterAlone /\ WholeInv /\ [Next]_vars => WholeInv'
  BY WholeStep
<1>3. WholeInv => VisibleIsWhole
  BY DEF WholeInv, Whole, VisibleIsWhole
<1>4. TypeInv /\ WriterAlone /\ [Next]_vars => (TypeInv /\ WriterAlone)'
  BY TypeStep, AloneStep
<1> QED
  BY <1>1, <1>2, <1>3, <1>4, AloneInit, TypeInit, PTL DEF Spec

----------------------------------------------------------------------------
(* Commands: the cache implements ResultCache                              *)

LEMMA RefineInit == Init => Abstract!Init
BY DEF Init, Abstract!Init, Visible, Given, Hit

\* A step that touches neither the disk nor an answer.
LEMMA Stutter ==
    ASSUME UNCHANGED <<table, meta, got>>
    PROVE  UNCHANGED Abstract!vars
BY DEF Abstract!vars, Visible, Given, Hit

\* A step after which worker w has no answer.
LEMMA ForgetStep ==
    ASSUME NEW w \in Worker, UNCHANGED <<table, meta>>,
           \A v \in Worker \ {w} : got'[v] = got[v],
           Given'[w] = None
    PROVE  Abstract!Next
<1>1. Visible' = Visible
  BY DEF Visible
<1>2. Given' = [Given EXCEPT ![w] = None]
  BY DEF Given, Hit
<1> QED
  BY <1>1, <1>2 DEF Abstract!Forget, Abstract!Next

\* A step after which some keys are empty and the others as they were.
LEMMA EvictStep ==
    ASSUME NEW ks \in SUBSET Key, UNCHANGED got,
           \A k \in Key : Visible'[k] = IF k \in ks THEN None ELSE Visible[k]
    PROVE  Abstract!Next
<1>1. Given' = Given
  BY DEF Given, Hit
<1>2. Visible' = [k \in Key |-> IF k \in ks THEN None ELSE Visible[k]]
  BY DEF Visible
<1> QED
  BY <1>1, <1>2 DEF Abstract!Evict, Abstract!Next

LEMMA RefineStep ==
    ASSUME CommandsOnly, Ind, [Next]_vars
    PROVE  [Abstract!Next]_(Abstract!vars)
<1> USE NoneAssumption DEF Ind, TypeInv, TypeOK, disk, request, touching
<1>1. ASSUME NEW p \in Proc, Launch(p) \/ InitSchema(p) PROVE UNCHANGED Abstract!vars
  BY <1>1, Stutter DEF Launch, InitSchema
<1>2. ASSUME NEW p \in Proc, Gone(p) PROVE [Abstract!Next]_(Abstract!vars)
  <2>1. /\ UNCHANGED <<table, meta>>
        /\ got' = [w \in Worker |-> IF ProcOf[w] = p THEN None ELSE got[w]]
    BY <1>2 DEF Gone
  <2>2. ASSUME NEW w \in Worker, ProcOf[w] = p PROVE Abstract!Next
    <3>1. \A v \in Worker \ {w} : got'[v] = got[v]
      BY <2>1, <2>2, OneWorker
    <3>2. Given'[w] = None
      BY <2>1, <2>2 DEF Given, Hit
    <3> QED BY <2>1, <3>1, <3>2, ForgetStep
  <2>3. ASSUME \A w \in Worker : ProcOf[w] # p PROVE UNCHANGED Abstract!vars
    <3>1. got' = got
      BY <2>1, <2>3
    <3> QED BY <2>1, <3>1, Stutter
  <2> QED BY <2>2, <2>3
<1>3. ASSUME NEW w \in Worker, NEW k \in Key,
             NEW o \in {"query", "refresh", "clear", "read"}, Begin(w, o, k)
      PROVE Abstract!Next
  BY <1>3, ForgetStep DEF Begin, Given, Hit
<1>4. ASSUME NEW w \in Worker,
             \/ GetOpen(w) \/ GetReturn(w) \/ FetchStep(w)
             \/ PutOpen(w) \/ PutCreateFail(w) \/ PutInsertFail(w)
             \/ ClearOpen(w) \/ ClearNames(w) \/ ClearNamesFail(w)
             \/ ReadStep(w) \/ TouchStep(w)
      PROVE UNCHANGED Abstract!vars
  BY <1>4, Stutter
  DEF GetOpen, GetReturn, FetchStep, Fetch, FetchFail, PutOpen, PutCreateFail,
      PutInsertFail, ClearOpen, ClearNames, ClearNamesFail, ReadStep, ReadOpen, ReadRows,
      TouchStep, TouchOpen, TouchUpdate
<1>5. ASSUME NEW w \in Worker, GetMeta(w)
      PROVE [Abstract!Next]_(Abstract!vars)
  <2>1. CASE UNCHANGED got
    BY <1>5, <2>1, Stutter DEF GetMeta
  <2>2. CASE ~ UNCHANGED got
    <3>1. got' = [got EXCEPT ![w] = [entry |-> meta[key[w]], table |-> None]]
          /\ UNCHANGED <<table, meta>>
      BY <1>5, <2>2 DEF GetMeta
    <3>2. Given'[w] = None
      BY <3>1 DEF Given, Hit
    <3> QED BY <3>1, <3>2, ForgetStep
  <2> QED BY <2>1, <2>2
<1>6. ASSUME NEW w \in Worker, GetScan(w)
      PROVE [Abstract!Next]_(Abstract!vars)
  <2>1. /\ pc[w] = "scan" /\ key[w] \in Key /\ table[key[w]] # None
        /\ got[w] \in [entry : Result, table : {None}]
        /\ meta[key[w]] = got[w].entry
        /\ got' = [got EXCEPT ![w].table = table[key[w]]]
        /\ UNCHANGED <<table, meta>>
    BY <1>6 DEF GetScan, RequestOK, DataInv, GetProgress, QueryPcs
  <2>2. Visible[key[w]] = table[key[w]] /\ Visible' = Visible
    BY <2>1 DEF Visible
  <2>3. got'[w].table = table[key[w]]
    BY <2>1
  <2>4. CASE Hit(w)'
    <3>1. Given' = [Given EXCEPT ![w] = table[key[w]]]
      BY <2>1, <2>3, <2>4 DEF Given, Hit
    <3> QED BY <2>1, <2>2, <3>1 DEF Abstract!Lookup, Abstract!Next
  <2>5. CASE ~ Hit(w)'
    <3>1. Given'[w] = None
      BY <2>5 DEF Given
    <3> QED BY <2>1, <3>1, ForgetStep
  <2> QED BY <2>4, <2>5
<1>7. ASSUME NEW w \in Worker, GetScanFail(w) PROVE Abstract!Next
  BY <1>7, ForgetStep DEF GetScanFail, Given, Hit
<1>8. ASSUME NEW w \in Worker, PutDrop(w)
      PROVE [Abstract!Next]_(Abstract!vars)
  <2>1. key[w] \in Key /\ UNCHANGED <<meta, got>>
    BY <1>8 DEF PutDrop, RequestOK, PutPcs
  <2>2. CASE table' = [table EXCEPT ![key[w]] = None]
    <3>1. {key[w]} \in SUBSET Key
          /\ \A k \in Key : Visible'[k] = IF k \in {key[w]} THEN None ELSE Visible[k]
      BY <2>1, <2>2 DEF Visible
    <3> QED BY <2>1, <3>1, EvictStep
  <2>3. CASE UNCHANGED table
    BY <2>1, <2>3, Stutter
  <2> QED BY <1>8, <2>2, <2>3 DEF PutDrop
<1>9. ASSUME NEW w \in Worker, PutDelete(w)
      PROVE [Abstract!Next]_(Abstract!vars)
  <2>1. key[w] \in Key /\ UNCHANGED <<table, got>>
    BY <1>9 DEF PutDelete, RequestOK, PutPcs
  <2>2. CASE meta' = [meta EXCEPT ![key[w]] = None]
    <3>1. {key[w]} \in SUBSET Key
          /\ \A k \in Key : Visible'[k] = IF k \in {key[w]} THEN None ELSE Visible[k]
      BY <2>1, <2>2 DEF Visible
    <3> QED BY <2>1, <3>1, EvictStep
  <2>3. CASE UNCHANGED meta
    BY <2>1, <2>3, Stutter
  <2> QED BY <1>9, <2>2, <2>3 DEF PutDelete
<1>10. ASSUME NEW w \in Worker, PutCreate(w) \/ PutInsert(w)
       PROVE UNCHANGED Abstract!vars
  <2>1. /\ key[w] \in Key /\ meta[key[w]] = None /\ UNCHANGED <<meta, got>>
        /\ \A k \in Key \ {key[w]} : table'[k] = table[k]
    BY <1>10 DEF PutCreate, PutInsert, RequestOK, PutPcs, DataInv, PutProgress
  <2> QED
    BY <2>1 DEF Abstract!vars, Visible, Given, Hit
<1>11. ASSUME NEW w \in Worker, PutRecord(w)
       PROVE [Abstract!Next]_(Abstract!vars)
  <2>1. /\ key[w] \in Key /\ res[w] \in Result
        /\ UNCHANGED <<table, got>>
    BY <1>11 DEF PutRecord, RequestOK, PutPcs
  <2>2. CASE meta' = [meta EXCEPT ![key[w]] = res[w]]
    <3>1. meta'[key[w]] # None
      BY <2>1, <2>2
    <3>2. table'[key[w]] = TableOf(res[w])
      BY <1>11, <2>1, RecordedTable
    <3>3. Visible' = [Visible EXCEPT ![key[w]] = TableOf(res[w])]
      BY <2>1, <2>2, <3>1, <3>2 DEF Visible
    <3>4. Given' = Given
      BY <2>1 DEF Given, Hit
    <3>5. Abstract!Store(key[w], TableOf(res[w]))
      BY <3>3, <3>4 DEF Abstract!Store
    <3>6. TableOf(res[w]) \in {TableOf(r) : r \in Result}
      BY <2>1
    <3> QED BY <2>1, <3>5, <3>6 DEF Abstract!Next
  <2>3. CASE UNCHANGED meta
    BY <2>1, <2>3, Stutter
  <2> QED BY <1>11, <2>2, <2>3 DEF PutRecord
<1>12. ASSUME NEW w \in Worker, NEW k \in Key, ClearDrop(w, k)
       PROVE [Abstract!Next]_(Abstract!vars)
  <2>1. CASE table' = [table EXCEPT ![k] = None]
    <3>1. {k} \in SUBSET Key
          /\ \A j \in Key : Visible'[j] = IF j \in {k} THEN None ELSE Visible[j]
      BY <1>12, <2>1 DEF ClearDrop, Visible
    <3> QED BY <1>12, <3>1, EvictStep DEF ClearDrop
  <2>2. CASE UNCHANGED table
    BY <1>12, <2>2, Stutter DEF ClearDrop
  <2> QED BY <1>12, <2>1, <2>2 DEF ClearDrop
<1>13. ASSUME NEW w \in Worker, ClearPurge(w)
       PROVE [Abstract!Next]_(Abstract!vars)
  <2>1. CASE meta' = [k \in Key |-> None]
    BY <1>13, <2>1, EvictStep DEF ClearPurge, Visible
  <2>2. CASE UNCHANGED meta
    BY <1>13, <2>2, Stutter DEF ClearPurge
  <2> QED BY <1>13, <2>1, <2>2 DEF ClearPurge
<1>14. CASE UNCHANGED vars
  BY <1>14, Stutter DEF vars
<1>15. ASSUME NEW w \in Worker, WorkerStep(w) \/ TouchStep(w)
       PROVE [Abstract!Next]_(Abstract!vars)
  <2>1. CASE GetStep(w)
    BY <1>4, <1>5, <1>6, <1>7, <2>1 DEF GetStep, GetScanCut, CommandsOnly
  <2>2. CASE PutStep(w)
    BY <1>4, <1>8, <1>9, <1>10, <1>11, <2>2 DEF PutStep
  <2>3. CASE ClearStep(w)
    BY <1>4, <1>12, <1>13, <2>3 DEF ClearStep
  <2> QED BY <1>4, <1>15, <2>1, <2>2, <2>3 DEF WorkerStep
<1> QED
  BY <1>1, <1>2, <1>3, <1>14, <1>15 DEF Next, Exit, Crash

\* Commands see the cache as a map from keys to complete results that changes
\* in single steps, whichever of their statements fail and whoever crashes.
THEOREM CommandRefines == ASSUME CommandsOnly PROVE Spec => Refines
<1>1. Ind /\ [Next]_vars => [Abstract!Next]_(Abstract!vars)
  BY RefineStep
<1> QED
  BY <1>1, RefineInit, IndInductive, PTL DEF Spec, Refines, Abstract!Spec
=============================================================================
