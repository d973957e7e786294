------------------------ MODULE SyncSession_proofs ------------------------
(***************************************************************************)
(* Proofs about SyncSession, for any updates, sockets, actors, handlers    *)
(* and faults.  The types hold in every deployment; that acknowledged      *)
(* updates stay durable and that peers hear of them is proved for          *)
(* SqlDeployment, where the gate is shut from load to clear.               *)
(***************************************************************************)
EXTENDS SyncSession, TLAPS

USE DEF durable, memory, frame, handlers, conns, bounds

\* The initial state has the types.
LEMMA InitTypeInv == Init => TypeInv
<1> SUFFICES ASSUME Init PROVE TypeInv
  OBVIOUS
<1>1. inits \in 0..MaxInit /\ faults \in 0..MaxFaults
  BY SessionAssumption DEF Init
<1>2. (CHOOSE s \in Socket : TRUE) \in Socket
  BY SessionAssumption
<1>3. sock \in [Handler -> Socket]
  BY <1>2 DEF Init
<1>4. hasKv \in BOOLEAN
  BY SessionAssumption DEF Init
<1>5. TypeOK
  BY <1>1, <1>3, <1>4, Zenon DEF Init, TypeOK, Job, Pc
<1>6. HasState
  BY DEF Init, HasState
<1> QED
  BY <1>5, <1>6 DEF TypeInv

\* Connect keeps the types.
LEMMA ConnectType ==
    ASSUME TypeInv, NEW h \in Handler, NEW s \in Socket,
           Connect(h, s)
    PROVE  TypeInv'
BY SessionAssumption DEF TypeInv, HasState, TypeOK, Job, Pc, Connect, Deliver

\* PeerUpdate keeps the types.
LEMMA PeerUpdateType ==
    ASSUME TypeInv, NEW h \in Handler, NEW s \in Socket,
           NEW B \in SUBSET Op, PeerUpdate(h, s, B)
    PROVE  TypeInv'
BY SessionAssumption DEF TypeInv, HasState, TypeOK, Job, Pc, PeerUpdate, Deliver

\* PeerRead keeps the types.
LEMMA PeerReadType ==
    ASSUME TypeInv, NEW h \in Handler, NEW s \in Socket,
           PeerRead(h, s)
    PROVE  TypeInv'
BY SessionAssumption DEF TypeInv, HasState, TypeOK, Job, Pc, PeerRead, Deliver

\* ApplyUpdate keeps the types.
LEMMA ApplyUpdateType ==
    ASSUME TypeInv, NEW h \in Handler, NEW B \in SUBSET Op,
           ApplyUpdate(h, B)
    PROVE  TypeInv'
BY SessionAssumption DEF TypeInv, HasState, TypeOK, Job, Pc, ApplyUpdate,
       Deliver

\* ApplyUpdateBody keeps the types.
LEMMA ApplyUpdateBodyType ==
    ASSUME TypeInv, NEW h \in Handler, ApplyUpdateBody(h)
    PROVE  TypeInv'
BY SessionAssumption DEF TypeInv, HasState, TypeOK, Job, Pc, ApplyUpdateBody,
       Goto

\* Initialize keeps the types.
LEMMA InitializeType ==
    ASSUME TypeInv, NEW h \in Handler, Initialize(h)
    PROVE  TypeInv'
<1>1. inits' \in 0..MaxInit
  BY SessionAssumption DEF TypeInv, TypeOK, Initialize
<1> QED
  BY <1>1 DEF TypeInv, HasState, TypeOK, Job, Pc, Initialize, Deliver

\* InitializeBody keeps the types.
LEMMA InitializeBodyType ==
    ASSUME TypeInv, NEW h \in Handler, InitializeBody(h)
    PROVE  TypeInv'
BY SessionAssumption DEF TypeInv, HasState, TypeOK, Job, Pc, InitializeBody

\* InitializeReset keeps the types.
LEMMA InitializeResetType ==
    ASSUME TypeInv, NEW h \in Handler, InitializeReset(h)
    PROVE  TypeInv'
BY SessionAssumption DEF TypeInv, HasState, TypeOK, Job, Pc, InitializeReset,
       Goto

\* Alarm keeps the types.
LEMMA AlarmType ==
    ASSUME TypeInv, NEW h \in Handler, Alarm(h)
    PROVE  TypeInv'
BY SessionAssumption DEF TypeInv, HasState, TypeOK, Job, Pc, Alarm, Deliver

\* SocketClose keeps the types.
LEMMA SocketCloseType ==
    ASSUME TypeInv, NEW h \in Handler, NEW s \in Socket,
           SocketClose(h, s)
    PROVE  TypeInv'
BY SessionAssumption DEF TypeInv, HasState, TypeOK, Job, Pc, SocketClose,
       Deliver

\* LoadCached keeps the types.
LEMMA LoadCachedType ==
    ASSUME TypeInv, NEW h \in Handler, LoadCached(h)
    PROVE  TypeInv'
BY SessionAssumption DEF TypeInv, HasState, TypeOK, Job, Pc, LoadCached, Goto

\* LoadSql keeps the types.
LEMMA LoadSqlType ==
    ASSUME TypeInv, NEW h \in Handler, LoadSql(h)
    PROVE  TypeInv'
BY SessionAssumption DEF TypeInv, HasState, TypeOK, Job, Pc, LoadSql, Loaded,
       Goto

\* LoadAsksKv keeps the types.
LEMMA LoadAsksKvType ==
    ASSUME TypeInv, NEW h \in Handler, LoadAsksKv(h)
    PROVE  TypeInv'
BY SessionAssumption DEF TypeInv, HasState, TypeOK, Job, Pc, LoadAsksKv

\* KvRead keeps the types.
LEMMA KvReadType ==
    ASSUME TypeInv, NEW h \in Handler, KvRead(h)
    PROVE  TypeInv'
BY SessionAssumption DEF TypeInv, HasState, TypeOK, Job, Pc, KvRead

\* LoadKv keeps the types.
LEMMA LoadKvType ==
    ASSUME TypeInv, NEW h \in Handler, LoadKv(h)
    PROVE  TypeInv'
BY SessionAssumption DEF TypeInv, HasState, TypeOK, Job, Pc, LoadKv, Loaded,
       Goto

\* LoadNothing keeps the types.
LEMMA LoadNothingType ==
    ASSUME TypeInv, NEW h \in Handler, LoadNothing(h)
    PROVE  TypeInv'
BY SessionAssumption DEF TypeInv, HasState, TypeOK, Job, Pc, LoadNothing, Drop,
       Finish

\* LoadTimesOut keeps the types.
LEMMA LoadTimesOutType ==
    ASSUME TypeInv, NEW h \in Handler, LoadTimesOut(h)
    PROVE  TypeInv'
<1>1. faults' \in 0..MaxFaults
  BY SessionAssumption DEF TypeInv, TypeOK, LoadTimesOut, Fault
<1> QED
  BY <1>1 DEF TypeInv, HasState, TypeOK, Job, Pc, LoadTimesOut, Drop, Finish

\* SendInitialSync keeps the types.
LEMMA SendInitialSyncType ==
    ASSUME TypeInv, NEW h \in Handler, SendInitialSync(h)
    PROVE  TypeInv'
BY SessionAssumption DEF TypeInv, HasState, TypeOK, Job, Pc, SendInitialSync,
       Finish, Runs

\* AppendPendingOperation keeps the types.
LEMMA AppendPendingOperationType ==
    ASSUME TypeInv, NEW h \in Handler, NEW o \in Op,
           AppendPendingOperation(h, o)
    PROVE  TypeInv'
BY SessionAssumption DEF TypeInv, HasState, TypeOK, Job, Pc,
       AppendPendingOperation

\* AckAndBroadcast keeps the types.
LEMMA AckAndBroadcastType ==
    ASSUME TypeInv, NEW h \in Handler, AckAndBroadcast(h)
    PROVE  TypeInv'
BY SessionAssumption DEF TypeInv, HasState, TypeOK, Job, Pc, AckAndBroadcast,
       Goto, Runs

\* AppendFails keeps the types.
LEMMA AppendFailsType ==
    ASSUME TypeInv, NEW h \in Handler, NEW o \in Op,
           AppendFails(h, o)
    PROVE  TypeInv'
<1>1. faults' \in 0..MaxFaults
  BY SessionAssumption DEF TypeInv, TypeOK, AppendFails, Fault
<1>2. inst[h] \in Handler
  BY DEF TypeInv, HasState, AppendFails
<1>3. content' \in [Handler -> SUBSET Op]
  BY <1>2 DEF TypeInv, TypeOK, AppendFails
<1>4. dirty' \in [Handler -> BOOLEAN]
  BY <1>2 DEF TypeInv, TypeOK, AppendFails
<1>5. Finish(h) /\ UNCHANGED <<durable, alarm, cur, justExported, keys, sock,
                                conns, acked, inits>>
  BY DEF AppendFails
<1> QED
  BY <1>1, <1>3, <1>4, <1>5 DEF TypeInv, HasState, TypeOK, Job, Pc, Finish

\* SendToClosed keeps the types.
LEMMA SendToClosedType ==
    ASSUME TypeInv, NEW h \in Handler, SendToClosed(h)
    PROVE  TypeInv'
BY SessionAssumption DEF TypeInv, HasState, TypeOK, Job, Pc, SendToClosed,
       Unsent, Finish

\* SendFails keeps the types.
LEMMA SendFailsType ==
    ASSUME TypeInv, NEW h \in Handler, SendFails(h)
    PROVE  TypeInv'
<1>1. faults' \in 0..MaxFaults
  BY SessionAssumption DEF TypeInv, TypeOK, SendFails, Fault
<1> QED
  BY <1>1 DEF TypeInv, HasState, TypeOK, Job, Pc, SendFails, Unsent, Finish

\* AnswerRead keeps the types.
LEMMA AnswerReadType ==
    ASSUME TypeInv, NEW h \in Handler, AnswerRead(h)
    PROVE  TypeInv'
BY SessionAssumption DEF TypeInv, HasState, TypeOK, Job, Pc, AnswerRead, Goto,
       Runs

\* BumpAlarm keeps the types.
LEMMA BumpAlarmType ==
    ASSUME TypeInv, NEW h \in Handler, BumpAlarm(h)
    PROVE  TypeInv'
BY SessionAssumption DEF TypeInv, HasState, TypeOK, Job, Pc, BumpAlarm, Finish

\* ApplyUpdateDone keeps the types.
LEMMA ApplyUpdateDoneType ==
    ASSUME TypeInv, NEW h \in Handler, ApplyUpdateDone(h)
    PROVE  TypeInv'
BY SessionAssumption DEF TypeInv, HasState, TypeOK, Job, Pc, ApplyUpdateDone,
       Finish, Runs

\* InitializeSync keeps the types.
LEMMA InitializeSyncType ==
    ASSUME TypeInv, NEW h \in Handler, InitializeSync(h)
    PROVE  TypeInv'
BY SessionAssumption DEF TypeInv, HasState, TypeOK, Job, Pc, InitializeSync,
       Finish, Runs

\* AlarmIdle keeps the types.
LEMMA AlarmIdleType ==
    ASSUME TypeInv, NEW h \in Handler, AlarmIdle(h)
    PROVE  TypeInv'
BY SessionAssumption DEF TypeInv, HasState, TypeOK, Job, Pc, AlarmIdle, Finish,
       Runs

\* AlarmStoreSql keeps the types.
LEMMA AlarmStoreSqlType ==
    ASSUME TypeInv, NEW h \in Handler, AlarmStoreSql(h)
    PROVE  TypeInv'
BY SessionAssumption DEF TypeInv, HasState, TypeOK, Job, Pc, AlarmStoreSql,
       Goto, Runs

\* AlarmStoreKv keeps the types.
LEMMA AlarmStoreKvType ==
    ASSUME TypeInv, NEW h \in Handler, AlarmStoreKv(h)
    PROVE  TypeInv'
BY SessionAssumption DEF TypeInv, HasState, TypeOK, Job, Pc, AlarmStoreKv, Runs

\* AlarmStoredKv keeps the types.
LEMMA AlarmStoredKvType ==
    ASSUME TypeInv, NEW h \in Handler, AlarmStoredKv(h)
    PROVE  TypeInv'
BY SessionAssumption DEF TypeInv, HasState, TypeOK, Job, Pc, AlarmStoredKv, Goto

\* AlarmTimesOut keeps the types.
LEMMA AlarmTimesOutType ==
    ASSUME TypeInv, NEW h \in Handler, AlarmTimesOut(h)
    PROVE  TypeInv'
<1>1. faults' \in 0..MaxFaults
  BY SessionAssumption DEF TypeInv, TypeOK, AlarmTimesOut, Fault
<1> QED
  BY <1>1 DEF TypeInv, HasState, TypeOK, Job, Pc, AlarmTimesOut, Finish

\* AlarmClear keeps the types.
LEMMA AlarmClearType ==
    ASSUME TypeInv, NEW h \in Handler, AlarmClear(h)
    PROVE  TypeInv'
BY SessionAssumption DEF TypeInv, HasState, TypeOK, Job, Pc, AlarmClear, Finish,
       Runs

\* CloseLoaded keeps the types.
LEMMA CloseLoadedType ==
    ASSUME TypeInv, NEW h \in Handler, CloseLoaded(h)
    PROVE  TypeInv'
BY SessionAssumption DEF TypeInv, HasState, TypeOK, Job, Pc, CloseLoaded,
       Finish, Runs

\* Tick keeps the types.
LEMMA TickType ==
    ASSUME TypeInv, Tick
    PROVE  TypeInv'
BY SessionAssumption DEF TypeInv, HasState, TypeOK, Job, Pc, Tick

\* Evict keeps the types.
LEMMA EvictType ==
    ASSUME TypeInv, Evict
    PROVE  TypeInv'
BY SessionAssumption DEF TypeInv, HasState, TypeOK, Job, Pc, Evict

\* Crash keeps the types.
LEMMA CrashType ==
    ASSUME TypeInv, Crash
    PROVE  TypeInv'
<1>1. faults' \in 0..MaxFaults
  BY SessionAssumption DEF TypeInv, TypeOK, Crash, Fault
<1> QED
  BY <1>1 DEF TypeInv, HasState, TypeOK, Job, Pc, Crash

\* A step keeps the types.
LEMMA NextTypeInv == TypeInv /\ [Next]_vars => TypeInv'
<1> SUFFICES ASSUME TypeInv, [Next]_vars PROVE TypeInv'
  OBVIOUS
<1>1. ASSUME NEW h \in Handler, Event(h) PROVE TypeInv'
  BY <1>1, ConnectType, PeerReadType, SocketCloseType, PeerUpdateType,
     ApplyUpdateType, InitializeType, AlarmType
     DEF Event
<1>2. ASSUME NEW h \in Handler, Progress(h) PROVE TypeInv'
  BY <1>2, ApplyUpdateBodyType, InitializeBodyType, InitializeResetType,
     LoadCachedType, LoadSqlType, LoadAsksKvType, KvReadType, LoadKvType,
     LoadNothingType, SendInitialSyncType, AppendPendingOperationType,
     AckAndBroadcastType, SendToClosedType, AnswerReadType, BumpAlarmType,
     ApplyUpdateDoneType, InitializeSyncType, AlarmIdleType, AlarmStoreSqlType,
     AlarmStoreKvType, AlarmStoredKvType, AlarmClearType, CloseLoadedType
     DEF Progress
<1>3. ASSUME NEW h \in Handler, Failure(h) PROVE TypeInv'
  BY <1>3, AppendFailsType, SendFailsType, LoadTimesOutType, AlarmTimesOutType
     DEF Failure
<1>4. CASE UNCHANGED vars
  BY <1>4 DEF vars, TypeInv, TypeOK, HasState
<1> QED
  BY <1>1, <1>2, <1>3, <1>4, TickType, EvictType, CrashType DEF Next

\* Every variable has its type in every reachable state, in every deployment.
THEOREM SessionTypeCorrect == Spec => []TypeOK
<1>1. Spec => []TypeInv
  BY InitTypeInv, NextTypeInv, PTL DEF Spec
<1>2. TypeInv => TypeOK
  BY DEF TypeInv
<1> QED
  BY <1>1, <1>2, PTL

-----------------------------------------------------------------------------
\* The initial state satisfies the invariant.
LEMMA InitSessionInv == SqlDeployment /\ Init => SessionInv
BY InitTypeInv DEF SqlDeployment, Init, SessionInv, OnlySql, Gated, OneInit,
   DocHasAll, KeysApplied, AckedKept, BatchKept, SocketsTold, SocketsWait

\* Connect keeps the invariant.
LEMMA ConnectInv ==
    ASSUME SqlDeployment, SessionInv, NEW h \in Handler, NEW s \in Socket,
           Connect(h, s)
    PROVE  SessionInv'
<1>1. TypeInv'
  BY ConnectType DEF SessionInv
<1>2. /\ OnlySql' /\ OneInit' /\ DocHasAll' /\ KeysApplied'
      /\ AckedKept' /\ BatchKept' /\ SocketsTold' /\ SocketsWait'
  BY DEF SessionInv, TypeInv, TypeOK, OnlySql, OneInit, DocHasAll, KeysApplied,
         AckedKept, BatchKept, SocketsTold, SocketsWait, Connect, Deliver
<1>3. Gated'
  BY SessionAssumption DEF SessionInv, TypeInv, TypeOK, Gated, Connect, Deliver
<1> QED
  BY <1>1, <1>2, <1>3 DEF SessionInv

\* PeerUpdate keeps the invariant.
LEMMA PeerUpdateInv ==
    ASSUME SqlDeployment, SessionInv, NEW h \in Handler, NEW s \in Socket,
           NEW B \in SUBSET Op, PeerUpdate(h, s, B)
    PROVE  SessionInv'
<1>1. TypeInv'
  BY PeerUpdateType DEF SessionInv
<1>2. OnlySql' /\ OneInit' /\ DocHasAll' /\ KeysApplied' /\ AckedKept'
  BY DEF SessionInv, TypeInv, TypeOK, OnlySql, OneInit, DocHasAll, KeysApplied,
         AckedKept, PeerUpdate, Deliver
<1>4. BatchKept' /\ SocketsTold' /\ SocketsWait'
  BY DEF SessionInv, TypeInv, TypeOK, OnlySql, BatchKept, SocketsTold, SocketsWait,
         PeerUpdate, Deliver
<1>3. Gated'
  BY SessionAssumption DEF SessionInv, TypeInv, TypeOK, Gated, PeerUpdate,
         Deliver
<1> QED
  BY <1>1, <1>2, <1>3, <1>4 DEF SessionInv

\* PeerRead keeps the invariant.
LEMMA PeerReadInv ==
    ASSUME SqlDeployment, SessionInv, NEW h \in Handler, NEW s \in Socket,
           PeerRead(h, s)
    PROVE  SessionInv'
<1>1. TypeInv'
  BY PeerReadType DEF SessionInv
<1>2. /\ OnlySql' /\ OneInit' /\ DocHasAll' /\ KeysApplied'
      /\ AckedKept' /\ BatchKept' /\ SocketsTold' /\ SocketsWait'
  BY DEF SessionInv, TypeInv, TypeOK, OnlySql, OneInit, DocHasAll, KeysApplied,
         AckedKept, BatchKept, SocketsTold, SocketsWait, PeerRead, Deliver
<1>3. Gated'
  BY SessionAssumption DEF SessionInv, TypeInv, TypeOK, Gated, PeerRead, Deliver
<1> QED
  BY <1>1, <1>2, <1>3 DEF SessionInv

\* ApplyUpdate keeps the invariant.
LEMMA ApplyUpdateInv ==
    ASSUME SqlDeployment, SessionInv, NEW h \in Handler, NEW B \in SUBSET Op,
           ApplyUpdate(h, B)
    PROVE  SessionInv'
<1>1. TypeInv'
  BY ApplyUpdateType DEF SessionInv
<1>2. /\ OnlySql' /\ OneInit' /\ DocHasAll' /\ KeysApplied'
      /\ AckedKept' /\ BatchKept' /\ SocketsTold' /\ SocketsWait'
  BY DEF SessionInv, TypeInv, TypeOK, OnlySql, OneInit, DocHasAll, KeysApplied,
         AckedKept, BatchKept, SocketsTold, SocketsWait, ApplyUpdate, Deliver
<1>3. Gated'
  BY SessionAssumption DEF SessionInv, TypeInv, TypeOK, Gated, ApplyUpdate,
         Deliver
<1> QED
  BY <1>1, <1>2, <1>3 DEF SessionInv

\* ApplyUpdateBody keeps the invariant.
LEMMA ApplyUpdateBodyInv ==
    ASSUME SqlDeployment, SessionInv, NEW h \in Handler, ApplyUpdateBody(h)
    PROVE  SessionInv'
<1>1. TypeInv'
  BY ApplyUpdateBodyType DEF SessionInv
<1>2. /\ OnlySql' /\ OneInit' /\ DocHasAll' /\ KeysApplied'
      /\ AckedKept' /\ BatchKept' /\ SocketsTold' /\ SocketsWait'
  BY DEF SessionInv, TypeInv, TypeOK, OnlySql, OneInit, DocHasAll, KeysApplied,
         AckedKept, BatchKept, SocketsTold, SocketsWait, ApplyUpdateBody, Goto
<1>3. Gated'
  BY SessionAssumption DEF SessionInv, TypeInv, TypeOK, Gated, ApplyUpdateBody,
         Goto
<1> QED
  BY <1>1, <1>2, <1>3 DEF SessionInv

\* Initialize keeps the invariant.
LEMMA InitializeInv ==
    ASSUME SqlDeployment, SessionInv, NEW h \in Handler, Initialize(h)
    PROVE  SessionInv'
<1>1. TypeInv'
  BY InitializeType DEF SessionInv
<1>2. /\ OnlySql' /\ DocHasAll' /\ KeysApplied' /\ AckedKept'
      /\ BatchKept' /\ SocketsTold' /\ SocketsWait'
  BY DEF SessionInv, TypeInv, TypeOK, OnlySql, DocHasAll, KeysApplied,
         AckedKept, BatchKept, SocketsTold, SocketsWait, Initialize, Deliver,
         hasSnapshot
<1>3. Gated'
  BY SessionAssumption DEF SessionInv, TypeInv, TypeOK, Gated, Initialize,
         Deliver, hasSnapshot
<1>4. OneInit'
  BY SessionAssumption DEF SessionInv, TypeInv, TypeOK, OneInit, SqlDeployment,
         Initialize, Deliver, hasSnapshot
<1> QED
  BY <1>1, <1>2, <1>3, <1>4 DEF SessionInv

\* InitializeBody keeps the invariant.
LEMMA InitializeBodyInv ==
    ASSUME SqlDeployment, SessionInv, NEW h \in Handler, InitializeBody(h)
    PROVE  SessionInv'
<1>1. TypeInv'
  BY InitializeBodyType DEF SessionInv
<1>2. OneInit' /\ DocHasAll' /\ BatchKept' /\ SocketsTold' /\ SocketsWait'
  BY DEF SessionInv, TypeInv, TypeOK, OneInit, DocHasAll, BatchKept,
         SocketsTold, SocketsWait, InitializeBody
<1>3. OnlySql'
  BY DEF SessionInv, TypeInv, TypeOK, OnlySql, SqlDeployment, InitializeBody
<1>4. Gated'
  BY SessionAssumption DEF SessionInv, TypeInv, TypeOK, Gated, SqlDeployment,
         InitializeBody
<1>5. KeysApplied'
  BY DEF SessionInv, TypeInv, TypeOK, KeysApplied, OneInit, Gated,
         InitializeBody
<1>6. AckedKept'
  BY DEF SessionInv, TypeInv, TypeOK, AckedKept, OneInit, InitializeBody
<1> QED
  BY <1>1, <1>2, <1>3, <1>4, <1>5, <1>6 DEF SessionInv

\* InitializeReset keeps the invariant.
LEMMA InitializeResetInv ==
    ASSUME SqlDeployment, SessionInv, NEW h \in Handler, InitializeReset(h)
    PROVE  SessionInv'
<1>1. TypeInv'
  BY InitializeResetType DEF SessionInv
<1>2. /\ OnlySql' /\ OneInit' /\ DocHasAll' /\ KeysApplied'
      /\ AckedKept' /\ BatchKept' /\ SocketsTold' /\ SocketsWait'
  BY DEF SessionInv, TypeInv, TypeOK, OnlySql, OneInit, DocHasAll, KeysApplied,
         AckedKept, BatchKept, SocketsTold, SocketsWait, InitializeReset, Goto
<1>3. Gated'
  BY SessionAssumption DEF SessionInv, TypeInv, TypeOK, Gated, SqlDeployment,
         InitializeReset, Goto
<1> QED
  BY <1>1, <1>2, <1>3 DEF SessionInv

\* Alarm keeps the invariant.
LEMMA AlarmInv ==
    ASSUME SqlDeployment, SessionInv, NEW h \in Handler, Alarm(h)
    PROVE  SessionInv'
<1>1. TypeInv'
  BY AlarmType DEF SessionInv
<1>2. /\ OnlySql' /\ OneInit' /\ DocHasAll' /\ KeysApplied'
      /\ AckedKept' /\ BatchKept' /\ SocketsTold' /\ SocketsWait'
  BY DEF SessionInv, TypeInv, TypeOK, OnlySql, OneInit, DocHasAll, KeysApplied,
         AckedKept, BatchKept, SocketsTold, SocketsWait, Alarm, Deliver
<1>3. Gated'
  BY SessionAssumption DEF SessionInv, TypeInv, TypeOK, Gated, Alarm, Deliver
<1> QED
  BY <1>1, <1>2, <1>3 DEF SessionInv

\* SocketClose keeps the invariant.
LEMMA SocketCloseInv ==
    ASSUME SqlDeployment, SessionInv, NEW h \in Handler, NEW s \in Socket,
           SocketClose(h, s)
    PROVE  SessionInv'
<1>1. TypeInv'
  BY SocketCloseType DEF SessionInv
<1>2. /\ OnlySql' /\ OneInit' /\ DocHasAll' /\ KeysApplied'
      /\ AckedKept' /\ BatchKept' /\ SocketsTold' /\ SocketsWait'
  BY DEF SessionInv, TypeInv, TypeOK, OnlySql, OneInit, DocHasAll, KeysApplied,
         AckedKept, BatchKept, SocketsTold, SocketsWait, SocketClose, Deliver
<1>3. Gated'
  BY SessionAssumption DEF SessionInv, TypeInv, TypeOK, Gated, SocketClose,
         Deliver
<1> QED
  BY <1>1, <1>2, <1>3 DEF SessionInv

\* LoadCached keeps the invariant.
LEMMA LoadCachedInv ==
    ASSUME SqlDeployment, SessionInv, NEW h \in Handler, LoadCached(h)
    PROVE  SessionInv'
<1>1. TypeInv'
  BY LoadCachedType DEF SessionInv
<1>2. /\ OnlySql' /\ OneInit' /\ DocHasAll' /\ KeysApplied'
      /\ AckedKept' /\ BatchKept' /\ SocketsTold' /\ SocketsWait'
  BY DEF SessionInv, TypeInv, TypeOK, OnlySql, OneInit, DocHasAll, KeysApplied,
         AckedKept, BatchKept, SocketsTold, SocketsWait, LoadCached, Goto
<1>3. Gated'
  BY SessionAssumption DEF SessionInv, TypeInv, TypeOK, Gated, LoadCached, Goto
<1> QED
  BY <1>1, <1>2, <1>3 DEF SessionInv

\* LoadSql keeps the invariant.
LEMMA LoadSqlInv ==
    ASSUME SqlDeployment, SessionInv, NEW h \in Handler, LoadSql(h)
    PROVE  SessionInv'
<1>1. TypeInv'
  BY LoadSqlType DEF SessionInv
<1>2. /\ OnlySql' /\ OneInit' /\ AckedKept' /\ BatchKept'
      /\ SocketsTold' /\ SocketsWait'
  BY DEF SessionInv, TypeInv, TypeOK, OnlySql, OneInit, AckedKept, BatchKept,
         SocketsTold, SocketsWait, LoadSql, Loaded, Goto
<1>3. Gated'
  BY SessionAssumption DEF SessionInv, TypeInv, TypeOK, Gated, LoadSql, Loaded,
         Goto
<1>4. DocHasAll'
  BY SessionAssumption DEF SessionInv, TypeInv, TypeOK, DocHasAll, KeysApplied,
         Gated, LoadSql, Loaded, Goto
<1>5. KeysApplied'
  BY SessionAssumption DEF SessionInv, TypeInv, TypeOK, KeysApplied, Gated,
         LoadSql, Loaded, Goto
<1> QED
  BY <1>1, <1>2, <1>3, <1>4, <1>5 DEF SessionInv

\* LoadAsksKv keeps the invariant.
LEMMA LoadAsksKvInv ==
    ASSUME SqlDeployment, SessionInv, NEW h \in Handler, LoadAsksKv(h)
    PROVE  SessionInv'
<1>1. TypeInv'
  BY LoadAsksKvType DEF SessionInv
<1>2. /\ OnlySql' /\ OneInit' /\ DocHasAll' /\ KeysApplied'
      /\ AckedKept' /\ BatchKept' /\ SocketsTold' /\ SocketsWait'
  BY DEF SessionInv, TypeInv, TypeOK, OnlySql, OneInit, DocHasAll, KeysApplied,
         AckedKept, BatchKept, SocketsTold, SocketsWait, LoadAsksKv
<1>3. Gated'
  BY SessionAssumption DEF SessionInv, TypeInv, TypeOK, Gated, LoadAsksKv
<1> QED
  BY <1>1, <1>2, <1>3 DEF SessionInv

\* KvRead does not happen with SQLite alone.
LEMMA KvReadInv ==
    ASSUME SqlDeployment, SessionInv, NEW h \in Handler, KvRead(h)
    PROVE  FALSE
BY DEF SqlDeployment, SessionInv, OnlySql, KvRead

\* LoadKv does not happen with SQLite alone.
LEMMA LoadKvInv ==
    ASSUME SqlDeployment, SessionInv, NEW h \in Handler, LoadKv(h)
    PROVE  FALSE
BY DEF SqlDeployment, SessionInv, OnlySql, LoadKv

\* LoadNothing keeps the invariant.
LEMMA LoadNothingInv ==
    ASSUME SqlDeployment, SessionInv, NEW h \in Handler, LoadNothing(h)
    PROVE  SessionInv'
<1>1. TypeInv'
  BY LoadNothingType DEF SessionInv
<1>2. /\ OnlySql' /\ OneInit' /\ DocHasAll' /\ KeysApplied'
      /\ AckedKept' /\ BatchKept' /\ SocketsTold' /\ SocketsWait'
  BY DEF SessionInv, TypeInv, TypeOK, OnlySql, OneInit, DocHasAll, KeysApplied,
         AckedKept, BatchKept, SocketsTold, SocketsWait, LoadNothing, Drop,
         Finish
<1>3. Gated'
  BY SessionAssumption DEF SessionInv, TypeInv, TypeOK, Gated, LoadNothing,
         Drop, Finish
<1> QED
  BY <1>1, <1>2, <1>3 DEF SessionInv

\* LoadTimesOut keeps the invariant.
LEMMA LoadTimesOutInv ==
    ASSUME SqlDeployment, SessionInv, NEW h \in Handler, LoadTimesOut(h)
    PROVE  SessionInv'
<1>1. TypeInv'
  BY LoadTimesOutType DEF SessionInv
<1>2. /\ OnlySql' /\ OneInit' /\ DocHasAll' /\ KeysApplied'
      /\ AckedKept' /\ BatchKept' /\ SocketsTold' /\ SocketsWait'
  BY DEF SessionInv, TypeInv, TypeOK, OnlySql, OneInit, DocHasAll, KeysApplied,
         AckedKept, BatchKept, SocketsTold, SocketsWait, LoadTimesOut, Drop,
         Fault, Finish
<1>3. Gated'
  BY SessionAssumption DEF SessionInv, TypeInv, TypeOK, Gated, LoadTimesOut,
         Drop, Fault, Finish
<1> QED
  BY <1>1, <1>2, <1>3 DEF SessionInv

\* SendInitialSync keeps the invariant.
LEMMA SendInitialSyncInv ==
    ASSUME SqlDeployment, SessionInv, NEW h \in Handler, SendInitialSync(h)
    PROVE  SessionInv'
<1>1. TypeInv'
  BY SendInitialSyncType DEF SessionInv
<1>2. /\ OnlySql' /\ OneInit' /\ DocHasAll' /\ KeysApplied'
      /\ AckedKept' /\ BatchKept' /\ SocketsWait'
  BY DEF SessionInv, TypeInv, TypeOK, OnlySql, OneInit, DocHasAll, KeysApplied,
         AckedKept, BatchKept, SocketsWait, SendInitialSync, Finish, Runs
<1>3. Gated'
  BY SessionAssumption DEF SessionInv, TypeInv, TypeOK, Gated, SendInitialSync,
         Finish, Runs
<1>4. SocketsTold'
  BY SessionAssumption DEF SessionInv, TypeInv, TypeOK, SocketsTold, AckedKept,
         DocHasAll, Gated, HasState, SendInitialSync, Finish, Runs
<1> QED
  BY <1>1, <1>2, <1>3, <1>4 DEF SessionInv

\* AppendPendingOperation keeps the invariant.
LEMMA AppendPendingOperationInv ==
    ASSUME SqlDeployment, SessionInv, NEW h \in Handler, NEW o \in Op,
           AppendPendingOperation(h, o)
    PROVE  SessionInv'
<1>1. TypeInv'
  BY AppendPendingOperationType DEF SessionInv
<1>2. OnlySql' /\ AckedKept' /\ BatchKept' /\ SocketsTold' /\ SocketsWait'
  BY DEF SessionInv, TypeInv, TypeOK, OnlySql, AckedKept, BatchKept,
         SocketsTold, SocketsWait, AppendPendingOperation
<1>3. Gated'
  BY SessionAssumption DEF SessionInv, TypeInv, TypeOK, Gated,
         AppendPendingOperation
<1>4. OneInit'
  BY SessionAssumption DEF SessionInv, TypeInv, TypeOK, OneInit, Gated,
         HasState, AppendPendingOperation
<1>5. DocHasAll'
  BY SessionAssumption DEF SessionInv, TypeInv, TypeOK, DocHasAll, Gated,
         HasState, AppendPendingOperation
<1>6. KeysApplied'
  BY SessionAssumption DEF SessionInv, TypeInv, TypeOK, KeysApplied, Gated,
         HasState, AppendPendingOperation
<1> QED
  BY <1>1, <1>2, <1>3, <1>4, <1>5, <1>6 DEF SessionInv

\* AckAndBroadcast keeps the invariant.
LEMMA AckAndBroadcastInv ==
    ASSUME SqlDeployment, SessionInv, NEW h \in Handler, AckAndBroadcast(h)
    PROVE  SessionInv'
<1>1. TypeInv'
  BY AckAndBroadcastType DEF SessionInv
<1>2. /\ OnlySql' /\ DocHasAll' /\ KeysApplied' /\ BatchKept'
      /\ SocketsTold' /\ SocketsWait'
  BY DEF SessionInv, TypeInv, TypeOK, OnlySql, DocHasAll, KeysApplied,
         BatchKept, SocketsTold, SocketsWait, AckAndBroadcast, Goto, Runs
<1>3. Gated'
  BY SessionAssumption DEF SessionInv, TypeInv, TypeOK, Gated, AckAndBroadcast,
         Goto, Runs
<1>4. OneInit'
  BY SessionAssumption DEF SessionInv, TypeInv, TypeOK, OneInit, Gated,
         HasState, AckAndBroadcast, Goto, Runs
<1>5. AckedKept'
  BY DEF SessionInv, TypeInv, TypeOK, AckedKept, BatchKept, AckAndBroadcast,
         Goto, Runs
<1> QED
  BY <1>1, <1>2, <1>3, <1>4, <1>5 DEF SessionInv

\* AppendFails keeps the invariant.
LEMMA AppendFailsInv ==
    ASSUME SqlDeployment, SessionInv, NEW h \in Handler, NEW o \in Op,
           AppendFails(h, o)
    PROVE  SessionInv'
<1>1. TypeInv'
  BY AppendFailsType DEF SessionInv
<1>2. /\ OnlySql' /\ OneInit' /\ KeysApplied' /\ AckedKept'
      /\ BatchKept' /\ SocketsTold' /\ SocketsWait'
  BY DEF SessionInv, TypeInv, TypeOK, OnlySql, OneInit, KeysApplied, AckedKept,
         BatchKept, SocketsTold, SocketsWait, AppendFails, Finish, Fault
<1>3. Gated'
  BY SessionAssumption DEF SessionInv, TypeInv, TypeOK, Gated, AppendFails,
         Finish, Fault
<1>4. DocHasAll'
  BY SessionAssumption DEF SessionInv, TypeInv, TypeOK, DocHasAll, Gated,
         HasState, AppendFails, Finish, Fault
<1> QED
  BY <1>1, <1>2, <1>3, <1>4 DEF SessionInv

\* SendToClosed keeps the invariant.
LEMMA SendToClosedInv ==
    ASSUME SqlDeployment, SessionInv, NEW h \in Handler, SendToClosed(h)
    PROVE  SessionInv'
<1>1. TypeInv'
  BY SendToClosedType DEF SessionInv
<1>2. /\ OnlySql' /\ OneInit' /\ DocHasAll' /\ KeysApplied'
      /\ AckedKept' /\ BatchKept' /\ SocketsTold' /\ SocketsWait'
  BY DEF SessionInv, TypeInv, TypeOK, OnlySql, OneInit, DocHasAll, KeysApplied,
         AckedKept, BatchKept, SocketsTold, SocketsWait, SendToClosed, Unsent,
         Finish
<1>3. Gated'
  BY SessionAssumption DEF SessionInv, TypeInv, TypeOK, Gated, SendToClosed,
         Unsent, Finish
<1> QED
  BY <1>1, <1>2, <1>3 DEF SessionInv

\* SendFails keeps the invariant.
LEMMA SendFailsInv ==
    ASSUME SqlDeployment, SessionInv, NEW h \in Handler, SendFails(h)
    PROVE  SessionInv'
<1>1. TypeInv'
  BY SendFailsType DEF SessionInv
<1>2. /\ OnlySql' /\ OneInit' /\ DocHasAll' /\ KeysApplied'
      /\ AckedKept' /\ BatchKept' /\ SocketsTold' /\ SocketsWait'
  BY DEF SessionInv, TypeInv, TypeOK, OnlySql, OneInit, DocHasAll, KeysApplied,
         AckedKept, BatchKept, SocketsTold, SocketsWait, SendFails, Unsent,
         Fault, Finish
<1>3. Gated'
  BY SessionAssumption DEF SessionInv, TypeInv, TypeOK, Gated, SendFails,
         Unsent, Fault, Finish
<1> QED
  BY <1>1, <1>2, <1>3 DEF SessionInv

\* AnswerRead keeps the invariant.
LEMMA AnswerReadInv ==
    ASSUME SqlDeployment, SessionInv, NEW h \in Handler, AnswerRead(h)
    PROVE  SessionInv'
<1>1. TypeInv'
  BY AnswerReadType DEF SessionInv
<1>2. /\ OnlySql' /\ OneInit' /\ DocHasAll' /\ KeysApplied'
      /\ AckedKept' /\ BatchKept' /\ SocketsTold' /\ SocketsWait'
  BY DEF SessionInv, TypeInv, TypeOK, OnlySql, OneInit, DocHasAll, KeysApplied,
         AckedKept, BatchKept, SocketsTold, SocketsWait, AnswerRead, Goto, Runs
<1>3. Gated'
  BY SessionAssumption DEF SessionInv, TypeInv, TypeOK, Gated, AnswerRead, Goto,
         Runs
<1> QED
  BY <1>1, <1>2, <1>3 DEF SessionInv

\* BumpAlarm keeps the invariant.
LEMMA BumpAlarmInv ==
    ASSUME SqlDeployment, SessionInv, NEW h \in Handler, BumpAlarm(h)
    PROVE  SessionInv'
<1>1. TypeInv'
  BY BumpAlarmType DEF SessionInv
<1>2. /\ OnlySql' /\ OneInit' /\ DocHasAll' /\ KeysApplied'
      /\ AckedKept' /\ BatchKept' /\ SocketsTold' /\ SocketsWait'
  BY DEF SessionInv, TypeInv, TypeOK, OnlySql, OneInit, DocHasAll, KeysApplied,
         AckedKept, BatchKept, SocketsTold, SocketsWait, BumpAlarm, Finish
<1>3. Gated'
  BY SessionAssumption DEF SessionInv, TypeInv, TypeOK, Gated, BumpAlarm, Finish
<1> QED
  BY <1>1, <1>2, <1>3 DEF SessionInv

\* ApplyUpdateDone keeps the invariant.
LEMMA ApplyUpdateDoneInv ==
    ASSUME SqlDeployment, SessionInv, NEW h \in Handler, ApplyUpdateDone(h)
    PROVE  SessionInv'
<1>1. TypeInv'
  BY ApplyUpdateDoneType DEF SessionInv
<1>2. /\ OnlySql' /\ DocHasAll' /\ KeysApplied' /\ BatchKept'
      /\ SocketsTold' /\ SocketsWait'
  BY DEF SessionInv, TypeInv, TypeOK, OnlySql, DocHasAll, KeysApplied,
         BatchKept, SocketsTold, SocketsWait, ApplyUpdateDone, Finish, Runs
<1>3. Gated'
  BY SessionAssumption DEF SessionInv, TypeInv, TypeOK, Gated, ApplyUpdateDone,
         Finish, Runs
<1>4. OneInit'
  BY SessionAssumption DEF SessionInv, TypeInv, TypeOK, OneInit, Gated,
         HasState, ApplyUpdateDone, Finish, Runs
<1>5. AckedKept'
  BY DEF SessionInv, TypeInv, TypeOK, AckedKept, BatchKept, ApplyUpdateDone,
         Finish, Runs
<1> QED
  BY <1>1, <1>2, <1>3, <1>4, <1>5 DEF SessionInv

\* InitializeSync keeps the invariant.
LEMMA InitializeSyncInv ==
    ASSUME SqlDeployment, SessionInv, NEW h \in Handler, InitializeSync(h)
    PROVE  SessionInv'
<1>1. TypeInv'
  BY InitializeSyncType DEF SessionInv
<1>2. /\ OnlySql' /\ OneInit' /\ DocHasAll' /\ KeysApplied'
      /\ AckedKept' /\ BatchKept' /\ SocketsWait'
  BY DEF SessionInv, TypeInv, TypeOK, OnlySql, OneInit, DocHasAll, KeysApplied,
         AckedKept, BatchKept, SocketsWait, InitializeSync, Finish, Runs
<1>3. Gated'
  BY SessionAssumption DEF SessionInv, TypeInv, TypeOK, Gated, InitializeSync,
         Finish, Runs
<1>4. SocketsTold'
  BY SessionAssumption DEF SessionInv, TypeInv, TypeOK, SocketsTold, AckedKept,
         DocHasAll, Gated, HasState, InitializeSync, Finish, Runs
<1> QED
  BY <1>1, <1>2, <1>3, <1>4 DEF SessionInv

\* AlarmIdle keeps the invariant.
LEMMA AlarmIdleInv ==
    ASSUME SqlDeployment, SessionInv, NEW h \in Handler, AlarmIdle(h)
    PROVE  SessionInv'
<1>1. TypeInv'
  BY AlarmIdleType DEF SessionInv
<1>2. /\ OnlySql' /\ OneInit' /\ DocHasAll' /\ KeysApplied'
      /\ AckedKept' /\ BatchKept' /\ SocketsTold' /\ SocketsWait'
  BY DEF SessionInv, TypeInv, TypeOK, OnlySql, OneInit, DocHasAll, KeysApplied,
         AckedKept, BatchKept, SocketsTold, SocketsWait, AlarmIdle, Finish, Runs
<1>3. Gated'
  BY SessionAssumption DEF SessionInv, TypeInv, TypeOK, Gated, AlarmIdle,
         Finish, Runs
<1> QED
  BY <1>1, <1>2, <1>3 DEF SessionInv

\* AlarmStoreSql keeps the invariant.
LEMMA AlarmStoreSqlInv ==
    ASSUME SqlDeployment, SessionInv, NEW h \in Handler, AlarmStoreSql(h)
    PROVE  SessionInv'
<1>1. TypeInv'
  BY AlarmStoreSqlType DEF SessionInv
<1>2. OnlySql' /\ BatchKept' /\ SocketsTold'
  BY DEF SessionInv, TypeInv, TypeOK, OnlySql, BatchKept, SocketsTold,
         AlarmStoreSql, Goto, Runs
<1>3. Gated'
  BY SessionAssumption DEF SessionInv, TypeInv, TypeOK, Gated, AlarmStoreSql,
         Goto, Runs
<1>4. OneInit'
  BY SessionAssumption DEF SessionInv, TypeInv, TypeOK, OneInit, Gated,
         HasState, AlarmStoreSql, Goto, Runs
<1>5. DocHasAll'
  BY SessionAssumption DEF SessionInv, TypeInv, TypeOK, DocHasAll, Gated,
         HasState, AlarmStoreSql, Goto, Runs
<1>6. KeysApplied'
  BY SessionAssumption DEF SessionInv, TypeInv, TypeOK, KeysApplied, Gated,
         HasState, DocHasAll, AlarmStoreSql, Goto, Runs
<1>7. AckedKept'
  BY SessionAssumption DEF SessionInv, TypeInv, TypeOK, AckedKept, Gated,
         HasState, DocHasAll, AlarmStoreSql, Goto, Runs
<1>8. SocketsWait'
  BY SessionAssumption DEF SessionInv, TypeInv, TypeOK, SocketsWait, Gated,
         HasState, OneInit, AlarmStoreSql, Goto, Runs
<1> QED
  BY <1>1, <1>2, <1>3, <1>4, <1>5, <1>6, <1>7, <1>8 DEF SessionInv

\* AlarmStoreKv does not happen with SQLite alone.
LEMMA AlarmStoreKvInv ==
    ASSUME SqlDeployment, SessionInv, NEW h \in Handler, AlarmStoreKv(h)
    PROVE  FALSE
BY DEF SqlDeployment, SessionInv, OnlySql, AlarmStoreKv

\* AlarmStoredKv does not happen with SQLite alone.
LEMMA AlarmStoredKvInv ==
    ASSUME SqlDeployment, SessionInv, NEW h \in Handler, AlarmStoredKv(h)
    PROVE  FALSE
BY DEF SqlDeployment, SessionInv, OnlySql, AlarmStoredKv

\* AlarmTimesOut does not happen with SQLite alone.
LEMMA AlarmTimesOutInv ==
    ASSUME SqlDeployment, SessionInv, NEW h \in Handler, AlarmTimesOut(h)
    PROVE  FALSE
BY DEF SqlDeployment, SessionInv, OnlySql, AlarmTimesOut

\* AlarmClear keeps the invariant.
LEMMA AlarmClearInv ==
    ASSUME SqlDeployment, SessionInv, NEW h \in Handler, AlarmClear(h)
    PROVE  SessionInv'
<1>1. TypeInv'
  BY AlarmClearType DEF SessionInv
<1>2. /\ OnlySql' /\ OneInit' /\ DocHasAll' /\ KeysApplied'
      /\ SocketsTold' /\ SocketsWait'
  BY DEF SessionInv, TypeInv, TypeOK, OnlySql, OneInit, DocHasAll, KeysApplied,
         SocketsTold, SocketsWait, AlarmClear, Finish, Runs
<1>3. Gated'
  BY SessionAssumption DEF SessionInv, TypeInv, TypeOK, Gated, AlarmClear,
         Finish, Runs
<1>4. AckedKept'
  BY DEF SessionInv, TypeInv, TypeOK, AckedKept, KeysApplied, AlarmClear,
         Finish, Runs
<1>5. BatchKept'
  BY DEF SessionInv, TypeInv, TypeOK, BatchKept, Gated, AlarmClear, Finish, Runs
<1> QED
  BY <1>1, <1>2, <1>3, <1>4, <1>5 DEF SessionInv

\* CloseLoaded keeps the invariant.
LEMMA CloseLoadedInv ==
    ASSUME SqlDeployment, SessionInv, NEW h \in Handler, CloseLoaded(h)
    PROVE  SessionInv'
<1>1. TypeInv'
  BY CloseLoadedType DEF SessionInv
<1>2. /\ OnlySql' /\ OneInit' /\ DocHasAll' /\ KeysApplied'
      /\ AckedKept' /\ BatchKept' /\ SocketsTold' /\ SocketsWait'
  BY DEF SessionInv, TypeInv, TypeOK, OnlySql, OneInit, DocHasAll, KeysApplied,
         AckedKept, BatchKept, SocketsTold, SocketsWait, CloseLoaded, Finish,
         Runs
<1>3. Gated'
  BY SessionAssumption DEF SessionInv, TypeInv, TypeOK, Gated, CloseLoaded,
         Finish, Runs
<1> QED
  BY <1>1, <1>2, <1>3 DEF SessionInv

\* Tick keeps the invariant.
LEMMA TickInv ==
    ASSUME SqlDeployment, SessionInv, Tick
    PROVE  SessionInv'
<1>1. TypeInv'
  BY TickType DEF SessionInv
<1>2. /\ OnlySql' /\ Gated' /\ OneInit' /\ DocHasAll'
      /\ KeysApplied' /\ AckedKept' /\ BatchKept' /\ SocketsTold' /\ SocketsWait'
  BY DEF SessionInv, TypeInv, TypeOK, OnlySql, Gated, OneInit, DocHasAll,
         KeysApplied, AckedKept, BatchKept, SocketsTold, SocketsWait, Tick
<1> QED
  BY <1>1, <1>2 DEF SessionInv

\* Evict keeps the invariant.
LEMMA EvictInv ==
    ASSUME SqlDeployment, SessionInv, Evict
    PROVE  SessionInv'
<1>1. TypeInv'
  BY EvictType DEF SessionInv
<1>2. /\ OnlySql' /\ Gated' /\ OneInit' /\ DocHasAll'
      /\ KeysApplied' /\ AckedKept' /\ BatchKept' /\ SocketsTold' /\ SocketsWait'
  BY DEF SessionInv, TypeInv, TypeOK, OnlySql, Gated, OneInit, DocHasAll,
         KeysApplied, AckedKept, BatchKept, SocketsTold, SocketsWait, Evict
<1> QED
  BY <1>1, <1>2 DEF SessionInv

\* Crash keeps the invariant.
LEMMA CrashInv ==
    ASSUME SqlDeployment, SessionInv, Crash
    PROVE  SessionInv'
<1>1. TypeInv'
  BY CrashType DEF SessionInv
<1>2. /\ OnlySql' /\ OneInit' /\ DocHasAll' /\ KeysApplied'
      /\ AckedKept' /\ BatchKept' /\ SocketsTold' /\ SocketsWait'
  BY DEF SessionInv, TypeInv, TypeOK, OnlySql, OneInit, DocHasAll, KeysApplied,
         AckedKept, BatchKept, SocketsTold, SocketsWait, Crash, Fault
<1>3. Gated'
  BY SessionAssumption DEF SessionInv, TypeInv, TypeOK, Gated, Crash, Fault
<1> QED
  BY <1>1, <1>2, <1>3 DEF SessionInv

\* A step keeps the invariant.
LEMMA NextSessionInv == SqlDeployment /\ SessionInv /\ [Next]_vars => SessionInv'
<1> SUFFICES ASSUME SqlDeployment, SessionInv, [Next]_vars PROVE SessionInv'
  OBVIOUS
<1>1. ASSUME NEW h \in Handler, Event(h) PROVE SessionInv'
  BY <1>1, ConnectInv, PeerReadInv, SocketCloseInv, PeerUpdateInv,
     ApplyUpdateInv, InitializeInv, AlarmInv
     DEF Event
<1>2. ASSUME NEW h \in Handler, Progress(h) PROVE SessionInv'
  BY <1>2, ApplyUpdateBodyInv, InitializeBodyInv, InitializeResetInv,
     LoadCachedInv, LoadSqlInv, LoadAsksKvInv, KvReadInv, LoadKvInv,
     LoadNothingInv, SendInitialSyncInv, AppendPendingOperationInv,
     AckAndBroadcastInv, SendToClosedInv, AnswerReadInv, BumpAlarmInv,
     ApplyUpdateDoneInv, InitializeSyncInv, AlarmIdleInv, AlarmStoreSqlInv,
     AlarmStoreKvInv, AlarmStoredKvInv, AlarmClearInv, CloseLoadedInv
     DEF Progress
<1>3. ASSUME NEW h \in Handler, Failure(h) PROVE SessionInv'
  BY <1>3, AppendFailsInv, SendFailsInv, LoadTimesOutInv, AlarmTimesOutInv
     DEF Failure
<1>4. CASE UNCHANGED vars
  BY <1>4 DEF vars, SessionInv, TypeInv, TypeOK, HasState,
         OnlySql, Gated, OneInit, DocHasAll, KeysApplied,
         AckedKept, BatchKept, SocketsTold, SocketsWait
<1> QED
  BY <1>1, <1>2, <1>3, <1>4, TickInv, EvictInv, CrashInv DEF Next

\* The invariant holds in every reachable state.
THEOREM SessionInvariant == SqlDeployment /\ Spec => []SessionInv
<1> SUFFICES ASSUME SqlDeployment PROVE Spec => []SessionInv
  OBVIOUS
<1>1. Init => SessionInv
  BY InitSessionInv
<1>2. SessionInv /\ [Next]_vars => SessionInv'
  BY NextSessionInv
<1> QED
  BY <1>1, <1>2, PTL DEF Spec

\* What the service acknowledged it keeps: in every reachable state every
\* acknowledged update is in the stored snapshot or in the pending log, for any
\* number of sockets, updates, concurrent handlers, evictions and crashes.
THEOREM AcksAreDurable == SqlDeployment /\ Spec => []AckedDurable
<1>1. SessionInv => AckedDurable
  BY DEF SessionInv, OneInit, AckedKept, AckedDurable, Snapshot
<1> QED
  BY <1>1, SessionInvariant, PTL

\* Whoever is connected and synced has been told of every acknowledged update.
THEOREM PeersAreTold == SqlDeployment /\ Spec => []PeersSeeAcked
<1>1. SessionInv => PeersSeeAcked
  BY DEF SessionInv, SocketsTold, PeersSeeAcked
<1> QED
  BY <1>1, SessionInvariant, PTL

\* Once the document exists and nothing is under way, no socket waits for its
\* initial sync.
THEOREM SocketsAreSynced == SqlDeployment /\ Spec => []SocketsSynced
<1>1. SessionInv => SocketsSynced
  BY DEF SessionInv, OnlySql, SocketsWait, SocketsSynced, Quiet, hasSnapshot
<1> QED
  BY <1>1, SessionInvariant, PTL
-----------------------------------------------------------------------------
(* The session implements DurableDoc *)

\* A step that leaves storage, acks and sockets alone is no step of DurableDoc.
LEMMA DocStutter ==
    ASSUME UNCHANGED <<hasSql, sql, log, acked, synced, sees>>
    PROVE  UNCHANGED Doc!vars
BY DEF Doc!vars, Stored, MemberView

\* The initial states are initial states of DurableDoc.
LEMMA DocInit == Init => Doc!Init
BY DEF Init, Doc!Init, Stored, MemberView

\* A new connection is no member yet, and forgets no member's view.
LEMMA DocConnect ==
    ASSUME SessionInv, NEW h \in Handler, NEW s \in Socket, Connect(h, s)
    PROVE  UNCHANGED Doc!vars
<1>1. \A r \in Socket : r \in synced => sees'[r] = sees[r]
  BY DEF SessionInv, TypeInv, TypeOK, SocketsTold, Connect
<1>2. UNCHANGED <<hasSql, sql, log, acked, synced>>
  BY DEF Connect
<1>3. MemberView' = MemberView
  BY <1>1, <1>2 DEF MemberView
<1> QED
  BY <1>2, <1>3 DEF Doc!vars, Stored

\* An event that starts is no step of DurableDoc.
LEMMA DocEvent ==
    ASSUME SessionInv, NEW h \in Handler, Event(h)
    PROVE  UNCHANGED Doc!vars
<1>1. CASE \E s \in Socket : Connect(h, s)
  BY <1>1, DocConnect
<1>2. CASE ~ \E s \in Socket : Connect(h, s)
  <2>1. UNCHANGED <<hasSql, sql, log, acked, synced, sees>>
    BY <1>2 DEF Event, PeerRead, SocketClose, PeerUpdate, ApplyUpdate,
           Initialize, Alarm
  <2> QED
    BY <2>1, DocStutter
<1> QED
  BY <1>1, <1>2

\* The first snapshot of a document has nothing and loses nothing.
LEMMA DocInitialize ==
    ASSUME SqlDeployment, SessionInv, NEW h \in Handler, InitializeBody(h)
    PROVE  UNCHANGED Doc!vars
<1>1. ~hasSql /\ sql' = {} /\ hasSql'
  BY DEF SqlDeployment, SessionInv, OneInit, InitializeBody
<1>2. UNCHANGED <<log, acked, synced, sees>>
  BY DEF InitializeBody
<1>3. Stored' = Stored
  BY <1>1, <1>2 DEF Stored
<1>4. MemberView' = MemberView
  BY <1>2 DEF MemberView
<1> QED
  BY <1>2, <1>3, <1>4 DEF Doc!vars

\* What is not about the document or a socket's view of it.
LEMMA DocQuiet ==
    ASSUME NEW h \in Handler,
           \/ ApplyUpdateBody(h) \/ InitializeReset(h)
           \/ LoadCached(h) \/ LoadSql(h) \/ LoadAsksKv(h) \/ SendToClosed(h)
           \/ BumpAlarm(h) \/ AlarmIdle(h) \/ SendFails(h)
           \/ \E o \in Op : AppendFails(h, o)
    PROVE  UNCHANGED Doc!vars
<1>1. UNCHANGED <<hasSql, sql, log, acked, synced, sees>>
  BY DEF ApplyUpdateBody, InitializeReset, LoadCached, LoadSql, LoadAsksKv,
         SendToClosed, SendFails, Unsent, BumpAlarm, AlarmIdle, AppendFails
<1> QED
  BY <1>1, DocStutter

\* An update that is put into the log is stored.
LEMMA DocAppend ==
    ASSUME SqlDeployment, SessionInv, NEW h \in Handler, NEW o \in Op,
           AppendPendingOperation(h, o)
    PROVE  Doc!Store
<1>1. Stored \subseteq Stored' /\ Stored' \subseteq Op
  BY DEF SessionInv, TypeInv, TypeOK, AppendPendingOperation, Stored
<1>2. UNCHANGED <<acked, synced, MemberView>>
  BY DEF AppendPendingOperation, MemberView
<1> QED
  BY <1>1, <1>2 DEF Doc!Store

\* The exported document has all that was stored.
LEMMA DocStore ==
    ASSUME SqlDeployment, SessionInv, NEW h \in Handler, AlarmStoreSql(h)
    PROVE  Doc!Store
<1>1. inst[h] = cur /\ cur \in Handler
  BY DEF SessionInv, TypeInv, HasState, Gated, AlarmStoreSql, Runs
<1>2. sql \cup log \subseteq content[cur] /\ content[cur] \in SUBSET Op
  BY <1>1, SessionAssumption DEF SessionInv, TypeInv, TypeOK, DocHasAll
<1>3. hasSql' /\ sql' = content[cur] /\ log' = log
  BY <1>1 DEF AlarmStoreSql
<1>4. Stored \subseteq Stored' /\ Stored' \subseteq Op
  BY <1>2, <1>3 DEF Stored, SessionInv, TypeInv, TypeOK
<1>5. UNCHANGED <<acked, synced, MemberView>>
  BY DEF AlarmStoreSql, MemberView
<1> QED
  BY <1>4, <1>5 DEF Doc!Store

\* What the clear removes from the log is in the stored snapshot.
LEMMA DocClear ==
    ASSUME SqlDeployment, SessionInv, NEW h \in Handler, AlarmClear(h)
    PROVE  UNCHANGED Doc!vars
<1>1. keys \subseteq sql /\ log' = log \ keys
  BY DEF SessionInv, KeysApplied, AlarmClear, Runs
<1>2. hasSql \/ log = {}
  BY DEF SessionInv, OneInit
<1>3. UNCHANGED <<hasSql, sql, acked, synced, sees>>
  BY DEF AlarmClear
<1>4. Stored' = Stored
  BY <1>1, <1>2, <1>3 DEF Stored
<1>5. MemberView' = MemberView
  BY <1>3 DEF MemberView
<1> QED
  BY <1>3, <1>4, <1>5 DEF Doc!vars

\* A batch that was broadcast, to members and to sockets still waiting.
LEMMA DocBroadcast ==
    ASSUME SessionInv, NEW h \in Handler, work[h] = {}, pc[h] = "loaded",
           acked' = acked \cup batch[h],
           sees' = [s \in Socket |->
                        IF s \in open THEN sees[s] \cup batch[h] ELSE sees[s]],
           UNCHANGED <<durable, synced>>
    PROVE  Doc!Acknowledge
<1>1. batch[h] \in SUBSET Stored
  BY DEF SessionInv, BatchKept, Stored
<1>2. MemberView' = [s \in Socket |-> IF s \in synced
                                      THEN MemberView[s] \cup batch[h]
                                      ELSE MemberView[s]]
  BY DEF SessionInv, TypeInv, TypeOK, SocketsTold, MemberView
<1>3. UNCHANGED <<Stored, synced>>
  BY DEF Stored
<1> QED
  BY <1>1, <1>2, <1>3 DEF Doc!Acknowledge

\* The document of a handler past its load has all that is stored.
LEMMA LoadedHasStored ==
    ASSUME SessionInv, NEW h \in Handler, pc[h] = "loaded"
    PROVE  content[inst[h]] \in SUBSET Op /\ Stored \subseteq content[inst[h]]
<1>1. inst[h] = cur /\ cur \in Handler
  BY DEF SessionInv, TypeInv, HasState, Gated
<1>2. sql \cup log \subseteq content[cur] /\ content[cur] \in SUBSET Op
  BY <1>1, SessionAssumption DEF SessionInv, TypeInv, TypeOK, DocHasAll
<1> QED
  BY <1>1, <1>2 DEF Stored

\* Sockets C are sent a document R that has all that is stored: those of them
\* that are members from then on have joined, the others are told in vain.
LEMMA DocTold ==
    ASSUME SessionInv, NEW R \in SUBSET Op, Stored \subseteq R,
           NEW C \in SUBSET Socket, synced \subseteq synced',
           synced' \subseteq synced \cup C,
           sees' = [s \in Socket |-> IF s \in C THEN sees[s] \cup R ELSE sees[s]],
           UNCHANGED <<durable, acked>>
    PROVE  Doc!Join
<1> DEFINE D == C \cap synced'
<1>1. D \in SUBSET Socket /\ synced' = synced \cup D
  OBVIOUS
<1>2. MemberView' \in [Socket -> SUBSET Op]
  BY DEF SessionInv, TypeInv, TypeOK, MemberView
<1>3. \A s \in D : MemberView[s] \cup Stored \subseteq MemberView'[s]
  BY DEF SessionInv, TypeInv, TypeOK, MemberView
<1>4. \A s \in Socket \ D : MemberView'[s] = MemberView[s]
  BY <1>1 DEF SessionInv, TypeInv, TypeOK, MemberView
<1>5. UNCHANGED <<Stored, acked>>
  BY DEF Stored
<1> HIDE DEF D
<1> QED
  BY <1>1, <1>2, <1>3, <1>4, <1>5 DEF Doc!Join

\* The initial sync of one socket; it is no member when it closed meanwhile.
LEMMA DocInitialSync ==
    ASSUME SessionInv, NEW h \in Handler, SendInitialSync(h)
    PROVE  Doc!Join
<1> DEFINE R == content[inst[h]]
           C == {sock[h]}
<1>1. pc[h] = "loaded" /\ sock[h] \in Socket
  BY DEF SessionInv, TypeInv, TypeOK, SendInitialSync, Runs
<1>2. R \in SUBSET Op /\ Stored \subseteq R
  BY <1>1, LoadedHasStored
<1>3. synced \subseteq synced' /\ synced' \subseteq synced \cup C
  BY DEF SendInitialSync
<1>4. sees' = [s \in Socket |-> IF s \in C THEN sees[s] \cup R ELSE sees[s]]
  BY <1>1 DEF SessionInv, TypeInv, TypeOK, SendInitialSync
<1>5. C \in SUBSET Socket /\ UNCHANGED <<durable, acked>>
  BY <1>1 DEF SendInitialSync
<1> HIDE DEF R, C
<1> QED
  BY <1>2, <1>3, <1>4, <1>5, DocTold

\* The delayed initial sync of every waiting socket.
LEMMA DocDelayedSync ==
    ASSUME SessionInv, NEW h \in Handler, InitializeSync(h)
    PROVE  Doc!Join
<1> DEFINE R == content[inst[h]]
<1>1. pc[h] = "loaded"
  BY DEF InitializeSync, Runs
<1>2. R \in SUBSET Op /\ Stored \subseteq R
  BY <1>1, LoadedHasStored
<1>3. open \in SUBSET Socket /\ synced \subseteq synced'
      /\ synced' \subseteq synced \cup open
  BY DEF SessionInv, TypeInv, TypeOK, SocketsTold, InitializeSync
<1>4. sees' = [s \in Socket |-> IF s \in open THEN sees[s] \cup R ELSE sees[s]]
  BY DEF InitializeSync
<1>5. UNCHANGED <<durable, acked>>
  BY DEF InitializeSync
<1> HIDE DEF R
<1> QED
  BY <1>2, <1>3, <1>4, <1>5, DocTold

\* An answer is told to one socket, or nobody is told.
LEMMA DocAnswer ==
    ASSUME SessionInv, NEW h \in Handler, AnswerRead(h)
    PROVE  Doc!Join \/ UNCHANGED Doc!vars
<1> DEFINE R == content[inst[h]]
           C == {sock[h]}
<1>1. pc[h] = "loaded" /\ sock[h] \in Socket
  BY DEF SessionInv, TypeInv, TypeOK, AnswerRead, Runs
<1>2. R \in SUBSET Op /\ Stored \subseteq R
  BY <1>1, LoadedHasStored
<1>3. UNCHANGED <<durable, acked, synced>> /\ C \in SUBSET Socket
  BY <1>1 DEF AnswerRead
<1>4. CASE UNCHANGED sees
  BY <1>3, <1>4, DocStutter
<1>5. CASE sees' = [sees EXCEPT ![sock[h]] = @ \cup R]
  <2>1. sees' = [s \in Socket |-> IF s \in C THEN sees[s] \cup R ELSE sees[s]]
    BY <1>1, <1>5 DEF SessionInv, TypeInv, TypeOK
  <2>2. synced \subseteq synced' /\ synced' \subseteq synced \cup C
    BY <1>3
  <2> HIDE DEF R, C
  <2> QED
    BY <1>2, <1>3, <2>1, <2>2, DocTold
<1> QED
  BY <1>4, <1>5 DEF AnswerRead

\* Sockets that close, or all of them in a crash, leave.
LEMMA DocClosed ==
    ASSUME SessionInv, synced' \subseteq synced,
           UNCHANGED <<durable, acked, sees>>
    PROVE  Doc!Leave
<1> DEFINE D == synced \ synced'
<1>1. D \in SUBSET synced /\ synced' = synced \ D
  OBVIOUS
<1>2. MemberView' = [s \in Socket |-> IF s \in D THEN {} ELSE MemberView[s]]
  BY DEF SessionInv, TypeInv, TypeOK, MemberView
<1>3. UNCHANGED <<Stored, acked>>
  BY DEF Stored
<1> HIDE DEF D
<1> QED
  BY <1>1, <1>2, <1>3 DEF Doc!Leave

\* Dropped events and closes.
LEMMA DocDropped ==
    ASSUME SessionInv, NEW h \in Handler,
           CloseLoaded(h) \/ LoadNothing(h) \/ LoadTimesOut(h)
    PROVE  Doc!Leave
<1>1. synced' \subseteq synced /\ UNCHANGED <<durable, acked, sees>>
  BY DEF CloseLoaded, LoadNothing, LoadTimesOut, Drop
<1> QED
  BY <1>1, DocClosed

\* Every step of the session is a step of DurableDoc or none.
LEMMA DocNext ==
    SqlDeployment /\ SessionInv /\ [Next]_vars => [Doc!Next]_Doc!vars
<1> SUFFICES ASSUME SqlDeployment, SessionInv, [Next]_vars
             PROVE  Doc!Next \/ UNCHANGED Doc!vars
  OBVIOUS
<1>1. ASSUME NEW h \in Handler, Progress(h)
      PROVE  Doc!Next \/ UNCHANGED Doc!vars
  <2>1. CASE AckAndBroadcast(h) \/ ApplyUpdateDone(h)
    <3>1. work[h] = {} /\ pc[h] = "loaded" /\ UNCHANGED <<durable, synced>>
      BY <2>1 DEF AckAndBroadcast, ApplyUpdateDone, Runs
    <3>2. /\ acked' = acked \cup batch[h]
          /\ sees' = [s \in Socket |->
                        IF s \in open THEN sees[s] \cup batch[h] ELSE sees[s]]
      BY <2>1 DEF AckAndBroadcast, ApplyUpdateDone
    <3> QED
      BY <3>1, <3>2, DocBroadcast DEF Doc!Next
  <2>2. CASE \/ ApplyUpdateBody(h) \/ InitializeReset(h)
             \/ LoadCached(h) \/ LoadSql(h) \/ LoadAsksKv(h) \/ SendToClosed(h)
             \/ BumpAlarm(h) \/ AlarmIdle(h)
    BY <2>2, DocQuiet
  <2>3. CASE InitializeBody(h) \/ AlarmClear(h)
    BY <2>3, DocInitialize, DocClear
  <2>4. CASE (\E o \in Op : AppendPendingOperation(h, o)) \/ AlarmStoreSql(h)
    BY <2>4, DocAppend, DocStore DEF Doc!Next
  <2>5. CASE SendInitialSync(h) \/ InitializeSync(h) \/ AnswerRead(h)
    BY <2>5, DocInitialSync, DocDelayedSync, DocAnswer DEF Doc!Next
  <2>6. CASE CloseLoaded(h) \/ LoadNothing(h)
    BY <2>6, DocDropped DEF Doc!Next
  <2>7. CASE KvRead(h) \/ LoadKv(h) \/ AlarmStoreKv(h) \/ AlarmStoredKv(h)
    BY <2>7, KvReadInv, LoadKvInv, AlarmStoreKvInv, AlarmStoredKvInv
  <2> QED
    BY <1>1, <2>1, <2>2, <2>3, <2>4, <2>5, <2>6, <2>7 DEF Progress
<1>2. ASSUME NEW h \in Handler, Failure(h)
      PROVE  Doc!Next \/ UNCHANGED Doc!vars
  <2>1. CASE (\E o \in Op : AppendFails(h, o)) \/ SendFails(h)
    BY <2>1, DocQuiet
  <2>2. CASE LoadTimesOut(h)
    BY <2>2, DocDropped DEF Doc!Next
  <2>3. CASE AlarmTimesOut(h)
    BY <2>3, AlarmTimesOutInv
  <2> QED
    BY <1>2, <2>1, <2>2, <2>3 DEF Failure
<1>3. CASE Tick \/ Evict \/ UNCHANGED vars
  <2>1. UNCHANGED <<hasSql, sql, log, acked, synced, sees>>
    BY <1>3 DEF Tick, Evict, vars
  <2> QED
    BY <2>1, DocStutter
<1>4. CASE Crash
  <2>1. synced' \subseteq synced /\ UNCHANGED <<durable, acked, sees>>
    BY <1>4 DEF Crash
  <2> QED
    BY <2>1, DocClosed DEF Doc!Next
<1> QED
  BY <1>1, <1>2, <1>3, <1>4, DocEvent DEF Next

\* With snapshots in SQLite the session implements DurableDoc, for any updates,
\* sockets and handlers and any number of crashes: every step of it stores,
\* acknowledges what is stored, tells a joining client all that is stored, lets
\* one leave, or changes nothing its clients can rely on.
THEOREM SessionImplementsDurableDoc ==
    SqlDeployment /\ Spec => ImplementsDurableDoc
<1> SUFFICES ASSUME SqlDeployment PROVE Spec => Doc!Spec
  BY DEF ImplementsDurableDoc
<1>1. Spec => []SessionInv
  BY SessionInvariant
<1>2. Init => Doc!Init
  BY DocInit
<1>3. SessionInv /\ [Next]_vars => [Doc!Next]_Doc!vars
  BY DocNext
<1> QED
  BY <1>1, <1>2, <1>3, PTL DEF Spec, Doc!Spec
=============================================================================
