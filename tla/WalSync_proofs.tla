--------------------------- MODULE WalSync_proofs ---------------------------
(***************************************************************************)
(* Proofs about WalSync, for any sets of tabs, edits and flush calls and   *)
(* any number of faults.                                                   *)
(***************************************************************************)
EXTENDS WalSync, TLAPS

\* What the operators on rows return.
LEMMA RowOperators ==
    ASSUME TypeOK, NEW S \in SUBSET Edit
    PROVE  /\ markDelivered(S) \in [Edit -> RowState]
           /\ DeleteRows(S) \in [Edit -> RowState]
           /\ Undelivered \in SUBSET Edit
           /\ Delivered \in SUBSET Edit
BY DEF TypeOK, markDelivered, DeleteRows, Undelivered, Delivered, Rows, RowState

\* A visible part is a part.
LEMMA VisibleType ==
    ASSUME NEW S \in SUBSET Edit
    PROVE  Visible(S) \in SUBSET Edit
BY DEF Visible

\* Setting one program counter or one batch keeps the types.
LEMMA FlushUpdate ==
    ASSUME TypeOK, NEW t \in Tab, NEW k \in Task, NEW pc \in FlushPc,
           NEW S \in SUBSET Edit
    PROVE  /\ [flush EXCEPT ![t][k] = pc] \in [Tab -> [Task -> FlushPc]]
           /\ [batch EXCEPT ![t][k] = S] \in [Tab -> [Task -> SUBSET Edit]]
<1>1. flush \in [Tab -> [Task -> FlushPc]] /\ batch \in [Tab -> [Task -> SUBSET Edit]]
  BY DEF TypeOK
<1>2. [flush[t] EXCEPT ![k] = pc] \in [Task -> FlushPc]
  BY <1>1
<1>3. [batch[t] EXCEPT ![k] = S] \in [Task -> SUBSET Edit]
  BY <1>1
<1> QED
  BY <1>1, <1>2, <1>3

\* flush() starts at most one doFlush() call.
LEMMA CallFlushType ==
    ASSUME TypeOK, NEW t \in Tab, CallFlush(t)
    PROVE  flush' \in [Tab -> [Task -> FlushPc]]
<1>1. CASE isFlushing[t] /\ UNCHANGED flush
  BY <1>1 DEF TypeOK
<1>2. CASE \E k \in Task : flush' = [flush EXCEPT ![t][k] = "await"]
  <2>1. PICK k \in Task : flush' = [flush EXCEPT ![t][k] = "await"]
    BY <1>2
  <2>2. "await" \in FlushPc
    BY DEF FlushPc
  <2> QED
    BY <2>1, <2>2, FlushUpdate
<1> QED
  BY <1>1, <1>2 DEF CallFlush

\* The initial state has the types.
LEMMA InitTypeOK == Init => TypeOK
<1> SUFFICES ASSUME Init PROVE TypeOK
  OBVIOUS
<1>1. faults \in 0..MaxFaults
  BY MaxFaultsAssumption DEF Init
<1>2. flush \in [Tab -> [Task -> FlushPc]] /\ batch \in [Tab -> [Task -> SUBSET Edit]]
  BY DEF Init, FlushPc
<1> QED
  BY <1>1, <1>2, Zenon DEF Init, TypeOK, RowState, WalState, SyncState

USE DEF disk, net, walVars, docVars, appVars, flVars, perVars, hist

\* OpenTab keeps the types.
LEMMA OpenTabType ==
    ASSUME TypeOK, NEW t \in Tab, OpenTab(t) PROVE TypeOK'
BY DEF TypeOK, OpenTab, WalState

\* The initial sync and its timeout keep the types.
LEMMA InitialSyncType ==
    ASSUME TypeOK, NEW t \in Tab, InitialSync(t) \/ InitialSyncMissed(t) PROVE TypeOK'
BY DEF TypeOK, InitialSync, InitialSyncMissed, SyncState

\* SetupRead keeps the types.
LEMMA SetupReadType ==
    ASSUME TypeOK, NEW t \in Tab, SetupRead(t) PROVE TypeOK'
BY RowOperators DEF TypeOK, SetupRead, WalState

\* SetupDelete keeps the types.
LEMMA SetupDeleteType ==
    ASSUME TypeOK, NEW t \in Tab, SetupDelete(t) PROVE TypeOK'
<1>1. row' \in [Edit -> RowState]
  BY RowOperators DEF TypeOK, SetupDelete
<1> QED
  BY <1>1 DEF TypeOK, SetupDelete, WalState

\* SetupFails keeps the types.
LEMMA SetupFailsType ==
    ASSUME TypeOK, NEW t \in Tab, SetupFails(t) PROVE TypeOK'
<1>1. faults' \in 0..MaxFaults
  BY MaxFaultsAssumption DEF TypeOK, SetupFails, Fault
<1> QED
  BY <1>1 DEF TypeOK, SetupFails, WalState

\* SeedRead keeps the types.
LEMMA SeedReadType ==
    ASSUME TypeOK, NEW t \in Tab, SeedRead(t) PROVE TypeOK'
BY DEF TypeOK, SeedRead

\* SeedLocal keeps the types.
LEMMA SeedLocalType ==
    ASSUME TypeOK, NEW t \in Tab, SeedLocal(t) PROVE TypeOK'
<1>1. doc' \in [Tab -> SUBSET Edit]
  BY RowOperators DEF TypeOK, SeedLocal, Delivered, Undelivered, Rows
<1>2. Visible(doc'[t]) \in SUBSET Edit
  BY <1>1, VisibleType
<1>3. loaded' \in [Tab -> SUBSET Edit]
  BY <1>2 DEF TypeOK, SeedLocal
<1>4. seed' \in [Tab -> {"none", "read", "saving", "done"}]
  BY DEF TypeOK, SeedLocal
<1> QED
  BY <1>1, <1>3, <1>4 DEF TypeOK, SeedLocal

\* SeedSave keeps the types.
LEMMA SeedSaveType ==
    ASSUME TypeOK, NEW t \in Tab, SeedSave(t) PROVE TypeOK'
BY DEF TypeOK, SeedSave

\* SeedRemote keeps the types.
LEMMA SeedRemoteType ==
    ASSUME TypeOK, NEW t \in Tab, SeedRemote(t) PROVE TypeOK'
BY DEF TypeOK, SeedRemote

\* LocalUpdate keeps the types.
LEMMA LocalUpdateType ==
    ASSUME TypeOK, NEW t \in Tab, NEW e \in Edit, LocalUpdate(t, e) PROVE TypeOK'
<1>1. Visible(doc[t]) \in SUBSET Edit
  BY VisibleType DEF TypeOK
<1>2. deps' \in [Edit -> SUBSET Edit]
  BY <1>1 DEF TypeOK, LocalUpdate
<1>3. chat' \in SUBSET (Tab \X Edit)
  BY DEF TypeOK, LocalUpdate
<1> QED
  BY <1>2, <1>3 DEF TypeOK, LocalUpdate

\* AppendStored keeps the types.
LEMMA AppendStoredType ==
    ASSUME TypeOK, NEW t \in Tab, NEW e \in Edit, AppendStored(t, e) PROVE TypeOK'
BY DEF TypeOK, AppendStored, RowState

\* AppendDone keeps the types.
LEMMA AppendDoneType ==
    ASSUME TypeOK, NEW t \in Tab, NEW e \in Edit, AppendDone(t, e) PROVE TypeOK'
<1>1. flush' \in [Tab -> [Task -> FlushPc]]
  BY CallFlushType DEF AppendDone
<1> QED
  BY <1>1 DEF TypeOK, AppendDone

\* AppendFails keeps the types.
LEMMA AppendFailsType ==
    ASSUME TypeOK, NEW t \in Tab, NEW e \in Edit, AppendFails(t, e) PROVE TypeOK'
<1>1. faults' \in 0..MaxFaults
  BY MaxFaultsAssumption DEF TypeOK, AppendFails, Fault
<1> QED
  BY <1>1 DEF TypeOK, AppendFails

\* Reconnect keeps the types.
LEMMA ReconnectType ==
    ASSUME TypeOK, NEW t \in Tab, Reconnect(t) PROVE TypeOK'
<1>1. flush' \in [Tab -> [Task -> FlushPc]]
  BY CallFlushType DEF Reconnect
<1> QED
  BY <1>1 DEF TypeOK, Reconnect

\* FlushBegin keeps the types.
LEMMA FlushBeginType ==
    ASSUME TypeOK, NEW t \in Tab, NEW k \in Task, FlushBegin(t, k) PROVE TypeOK'
<1>1. "reading" \in FlushPc
  BY DEF FlushPc
<1>2. flush' \in [Tab -> [Task -> FlushPc]]
  BY <1>1, FlushUpdate DEF FlushBegin
<1> QED
  BY <1>2 DEF TypeOK, FlushBegin

\* FlushNotReady keeps the types.
LEMMA FlushNotReadyType ==
    ASSUME TypeOK, NEW t \in Tab, NEW k \in Task, FlushNotReady(t, k) PROVE TypeOK'
<1>1. "idle" \in FlushPc
  BY DEF FlushPc
<1>2. flush' \in [Tab -> [Task -> FlushPc]]
  BY <1>1, FlushUpdate DEF FlushNotReady
<1> QED
  BY <1>2 DEF TypeOK, FlushNotReady

\* FlushEmpty keeps the types.
LEMMA FlushEmptyType ==
    ASSUME TypeOK, NEW t \in Tab, NEW k \in Task, FlushEmpty(t, k) PROVE TypeOK'
<1>1. "idle" \in FlushPc
  BY DEF FlushPc
<1>2. flush' \in [Tab -> [Task -> FlushPc]]
  BY <1>1, FlushUpdate DEF FlushEmpty
<1> QED
  BY <1>2 DEF TypeOK, FlushEmpty

\* FlushPush keeps the types.
LEMMA FlushPushType ==
    ASSUME TypeOK, NEW t \in Tab, NEW k \in Task, FlushPush(t, k) PROVE TypeOK'
<1>1. "pushing" \in FlushPc
  BY DEF FlushPc
<1>2. flush' \in [Tab -> [Task -> FlushPc]]
  BY <1>1, FlushUpdate DEF FlushPush
<1>3. Undelivered \in SUBSET Edit
  BY RowOperators
<1>4. batch' \in [Tab -> [Task -> SUBSET Edit]]
  BY <1>3, FlushUpdate DEF FlushPush, TypeOK
<1> QED
  BY <1>2, <1>3, <1>4 DEF TypeOK, FlushPush

\* FlushRefused keeps the types.
LEMMA FlushRefusedType ==
    ASSUME TypeOK, NEW t \in Tab, NEW k \in Task, FlushRefused(t, k) PROVE TypeOK'
<1>1. "idle" \in FlushPc
  BY DEF FlushPc
<1>2. flush' \in [Tab -> [Task -> FlushPc]]
  BY <1>1, FlushUpdate DEF FlushRefused
<1> QED
  BY <1>2 DEF TypeOK, FlushRefused

\* FlushAcked keeps the types.
LEMMA FlushAckedType ==
    ASSUME TypeOK, NEW t \in Tab, NEW k \in Task, FlushAcked(t, k) PROVE TypeOK'
<1>1. "marking" \in FlushPc
  BY DEF FlushPc
<1>2. flush' \in [Tab -> [Task -> FlushPc]]
  BY <1>1, FlushUpdate DEF FlushAcked
<1> QED
  BY <1>2 DEF TypeOK, FlushAcked

\* FlushMark keeps the types.
LEMMA FlushMarkType ==
    ASSUME TypeOK, NEW t \in Tab, NEW k \in Task, FlushMark(t, k) PROVE TypeOK'
<1>1. "closing" \in FlushPc
  BY DEF FlushPc
<1>2. flush' \in [Tab -> [Task -> FlushPc]]
  BY <1>1, FlushUpdate DEF FlushMark
<1>3. batch' \in [Tab -> [Task -> SUBSET Edit]]
  BY <1>1, FlushUpdate DEF FlushMark
<1>4. row' \in [Edit -> RowState]
  BY RowOperators DEF TypeOK, FlushMark
<1> QED
  BY <1>2, <1>3, <1>4 DEF TypeOK, FlushMark

\* FlushDone keeps the types.
LEMMA FlushDoneType ==
    ASSUME TypeOK, NEW t \in Tab, NEW k \in Task, FlushDone(t, k) PROVE TypeOK'
<1>1. (IF hasNewPending[t] THEN "await" ELSE "idle") \in FlushPc
  BY DEF FlushPc
<1>2. flush' \in [Tab -> [Task -> FlushPc]]
  BY <1>1, FlushUpdate DEF FlushDone
<1> QED
  BY <1>2 DEF TypeOK, FlushDone

\* FlushNotAcked keeps the types.
LEMMA FlushNotAckedType ==
    ASSUME TypeOK, NEW t \in Tab, NEW k \in Task, FlushNotAcked(t, k) PROVE TypeOK'
<1>1. "idle" \in FlushPc
  BY DEF FlushPc
<1>2. flush' \in [Tab -> [Task -> FlushPc]]
  BY <1>1, FlushUpdate DEF FlushNotAcked
<1>3. batch' \in [Tab -> [Task -> SUBSET Edit]]
  BY <1>1, FlushUpdate DEF FlushNotAcked
<1> QED
  BY <1>2, <1>3 DEF TypeOK, FlushNotAcked

\* FlushThrows keeps the types.
LEMMA FlushThrowsType ==
    ASSUME TypeOK, NEW t \in Tab, NEW k \in Task, FlushThrows(t, k) PROVE TypeOK'
<1>1. "idle" \in FlushPc
  BY DEF FlushPc
<1>2. flush' \in [Tab -> [Task -> FlushPc]]
  BY <1>1, FlushUpdate DEF FlushThrows
<1>3. batch' \in [Tab -> [Task -> SUBSET Edit]]
  BY <1>1, FlushUpdate DEF FlushThrows
<1>4. faults' \in 0..MaxFaults
  BY MaxFaultsAssumption DEF TypeOK, FlushThrows, Fault
<1> QED
  BY <1>2, <1>3, <1>4 DEF TypeOK, FlushThrows

\* PersistTick keeps the types.
LEMMA PersistTickType ==
    ASSUME TypeOK, NEW t \in Tab, PersistTick(t) PROVE TypeOK'
<1>1. flush' \in [Tab -> [Task -> FlushPc]]
  BY CallFlushType DEF PersistTick
<1>2. Visible(doc[t]) \in SUBSET Edit
  BY VisibleType DEF TypeOK
<1> QED
  BY <1>1, <1>2 DEF TypeOK, PersistTick

\* PersistSave keeps the types.
LEMMA PersistSaveType ==
    ASSUME TypeOK, NEW t \in Tab, PersistSave(t) PROVE TypeOK'
BY DEF TypeOK, PersistSave

\* PruneRead keeps the types.
LEMMA PruneReadType ==
    ASSUME TypeOK, NEW t \in Tab, PruneRead(t) PROVE TypeOK'
BY RowOperators DEF TypeOK, PruneRead

\* PruneDelete keeps the types.
LEMMA PruneDeleteType ==
    ASSUME TypeOK, NEW t \in Tab, PruneDelete(t) PROVE TypeOK'
<1>1. row' \in [Edit -> RowState]
  BY RowOperators DEF TypeOK, PruneDelete
<1> QED
  BY <1>1 DEF TypeOK, PruneDelete

\* PersistFails keeps the types.
LEMMA PersistFailsType ==
    ASSUME TypeOK, NEW t \in Tab, PersistFails(t) PROVE TypeOK'
<1>1. faults' \in 0..MaxFaults
  BY MaxFaultsAssumption DEF TypeOK, PersistFails, Fault
<1> QED
  BY <1>1 DEF TypeOK, PersistFails

\* ServerStores keeps the types.
LEMMA ServerStoresType ==
    ASSUME TypeOK, NEW e \in Edit, ServerStores(e) PROVE TypeOK'
BY DEF TypeOK, ServerStores

\* ServerMisses keeps the types.
LEMMA ServerMissesType ==
    ASSUME TypeOK, NEW e \in Edit, ServerMisses(e) PROVE TypeOK'
<1>1. faults' \in 0..MaxFaults
  BY MaxFaultsAssumption DEF TypeOK, ServerMisses, Fault
<1> QED
  BY <1>1 DEF TypeOK, ServerMisses

\* Converge keeps the types.
LEMMA ConvergeType ==
    ASSUME TypeOK, NEW t \in Tab, Converge(t) PROVE TypeOK'
<1>1. Visible(server) \in SUBSET Edit
  BY VisibleType DEF TypeOK
<1> QED
  BY <1>1 DEF TypeOK, Converge

\* Reset keeps the types.
LEMMA ResetType ==
    ASSUME TypeOK, NEW t \in Tab, Reset(t) PROVE TypeOK'
<1>1. Visible(server) \in SUBSET Edit
  BY VisibleType DEF TypeOK
<1>2. faults' \in 0..MaxFaults
  BY MaxFaultsAssumption DEF TypeOK, Reset, Fault
<1> QED
  BY <1>1, <1>2 DEF TypeOK, Reset

\* ChatArrives keeps the types.
LEMMA ChatArrivesType ==
    ASSUME TypeOK, NEW t \in Tab, NEW e \in Edit, ChatArrives(t, e) PROVE TypeOK'
BY DEF TypeOK, ChatArrives

\* Age keeps the types.
LEMMA AgeType ==
    ASSUME TypeOK, NEW e \in Edit, Age(e) PROVE TypeOK'
<1>1. faults' \in 0..MaxFaults
  BY MaxFaultsAssumption DEF TypeOK, Age, Fault
<1> QED
  BY <1>1 DEF TypeOK, Age

\* CloseTab keeps the types.
LEMMA CloseTabType ==
    ASSUME TypeOK, NEW t \in Tab, CloseTab(t) PROVE TypeOK'
<1>1. flush' \in [Tab -> [Task -> FlushPc]] /\ batch' \in [Tab -> [Task -> SUBSET Edit]]
  BY DEF TypeOK, CloseTab, FlushPc
<1>2. chat' \in SUBSET (Tab \X Edit)
  BY DEF TypeOK, CloseTab
<1>3. faults' \in 0..MaxFaults
  BY MaxFaultsAssumption DEF TypeOK, CloseTab, Fault
<1> QED
  BY <1>1, <1>2, <1>3 DEF TypeOK, CloseTab, WalState, SyncState

\* Every step keeps the types.
LEMMA NextTypeOK == TypeOK /\ [Next]_vars => TypeOK'
<1> SUFFICES ASSUME TypeOK, [Next]_vars PROVE TypeOK'
  OBVIOUS
<1>1. ASSUME NEW t \in Tab, TabStep(t) PROVE TypeOK'
  BY <1>1, OpenTabType, InitialSyncType, SetupReadType, SetupDeleteType, SetupFailsType,
     SeedReadType, SeedLocalType, SeedSaveType, SeedRemoteType, ReconnectType,
     PersistTickType, PersistSaveType, PruneReadType, PruneDeleteType,
     PersistFailsType, ConvergeType, ResetType, CloseTabType DEF TabStep
<1>2. ASSUME NEW t \in Tab, NEW e \in Edit, EditStep(t, e) PROVE TypeOK'
  BY <1>2, LocalUpdateType, AppendStoredType, AppendDoneType, AppendFailsType,
     ChatArrivesType DEF EditStep
<1>3. ASSUME NEW t \in Tab, NEW k \in Task, FlushStep(t, k) PROVE TypeOK'
  BY <1>3, FlushBeginType, FlushNotReadyType, FlushEmptyType, FlushPushType,
     FlushRefusedType, FlushAckedType, FlushMarkType, FlushDoneType, FlushNotAckedType,
     FlushThrowsType DEF FlushStep
<1>4. CASE \E e \in Edit : ServerStores(e) \/ ServerMisses(e) \/ Age(e)
  BY <1>4, ServerStoresType, ServerMissesType, AgeType
<1>5. CASE UNCHANGED vars
  BY <1>5 DEF TypeOK, vars
<1> QED
  BY <1>1, <1>2, <1>3, <1>4, <1>5 DEF Next

\* TypeOK holds in every reachable state, for any tabs, edits and flush calls.
THEOREM TypeCorrect == Spec => []TypeOK
BY InitTypeOK, NextTypeOK, PTL DEF Spec

-----------------------------------------------------------------------------
(* No logged edit is lost.  WalInv speaks of the following variables only. *)

walInvVars == <<row, server, logged, dropped, flush, batch, persist, victims>>

\* A step that leaves these variables alone keeps WalInv.
LEMMA WalInvFrame == ASSUME WalInv, UNCHANGED walInvVars PROVE WalInv'
BY DEF WalInv, NoEditLost, DeliveredIsStored, AckedIsStored, VictimsAreStored,
       walInvVars

\* Moving flush calls to any place but "marking" keeps WalInv.
LEMMA FlushMoveInv ==
    ASSUME TypeOK, WalInv, NEW t \in Tab, NEW k \in Task, NEW pc, pc # "marking",
           flush' = [flush EXCEPT ![t][k] = pc],
           \/ batch' = batch
           \/ \E S : batch' = [batch EXCEPT ![t][k] = S],
           UNCHANGED <<row, server, logged, dropped, persist, victims>>
    PROVE  WalInv'
<1>1. ASSUME NEW u \in Tab, NEW j \in Task, flush'[u][j] = "marking"
      PROVE  flush[u][j] = "marking" /\ batch'[u][j] = batch[u][j]
  <2>1. flush \in [Tab -> [Task -> FlushPc]] /\ batch \in [Tab -> [Task -> SUBSET Edit]]
    BY DEF TypeOK
  <2>2. <<u, j>> # <<t, k>>
    BY <1>1, <2>1
  <2> QED
    BY <1>1, <2>1, <2>2
<1>2. AckedIsStored'
  BY <1>1 DEF WalInv, AckedIsStored
<1> QED
  BY <1>2 DEF WalInv, NoEditLost, DeliveredIsStored, VictimsAreStored

\* flush() keeps WalInv: the new call waits for ready().
LEMMA CallFlushInv ==
    ASSUME TypeOK, WalInv, NEW t \in Tab, CallFlush(t), batch' = batch,
           UNCHANGED <<row, server, logged, dropped, persist, victims>>
    PROVE  WalInv'
<1>1. CASE UNCHANGED flush
  BY <1>1, WalInvFrame DEF walInvVars
<1>2. ASSUME NEW k \in Task, flush' = [flush EXCEPT ![t][k] = "await"]
      PROVE  WalInv'
  BY <1>2, FlushMoveInv
<1> QED
  BY <1>1, <1>2 DEF CallFlush

\* pruneExpired() deletes rows: the undelivered ones count as dropped, the ones
\* delivered meanwhile are stored.
LEMMA SetupDeleteInv ==
    ASSUME TypeOK, WalInv, NEW t \in Tab, SetupDelete(t) PROVE WalInv'
BY DEF TypeOK, WalInv, NoEditLost, DeliveredIsStored, AckedIsStored,
       VictimsAreStored, SetupDelete, DeleteRows, Undelivered, Rows, RowState

\* append() adds an undelivered row.
LEMMA AppendStoredInv ==
    ASSUME TypeOK, WalInv, NEW t \in Tab, NEW e \in Edit, AppendStored(t, e)
    PROVE  WalInv'
BY DEF TypeOK, WalInv, NoEditLost, DeliveredIsStored, AckedIsStored,
       VictimsAreStored, AppendStored

\* An ack means that the batch is stored.
LEMMA FlushAckedInv ==
    ASSUME TypeOK, WalInv, NEW t \in Tab, NEW k \in Task, FlushAcked(t, k)
    PROVE  WalInv'
<1>1. ASSUME NEW u \in Tab, NEW j \in Task, flush'[u][j] = "marking"
      PROVE  batch'[u][j] \subseteq server'
  <2>1. CASE u = t /\ j = k
    BY <2>1 DEF FlushAcked
  <2>2. CASE ~(u = t /\ j = k)
    <3>1. flush[u][j] = "marking"
      BY <1>1, <2>2 DEF TypeOK, FlushAcked
    <3> QED
      BY <3>1 DEF WalInv, AckedIsStored, FlushAcked
  <2> QED
    BY <2>1, <2>2
<1> QED
  BY <1>1 DEF WalInv, NoEditLost, DeliveredIsStored, AckedIsStored,
              VictimsAreStored, FlushAcked

\* markDelivered() marks stored edits only and brings no row back.
LEMMA FlushMarkInv ==
    ASSUME TypeOK, WalInv, NEW t \in Tab, NEW k \in Task, FlushMark(t, k)
    PROVE  WalInv'
<1>1. batch[t][k] \subseteq server
  BY DEF WalInv, AckedIsStored, FlushMark
<1>2. DeliveredIsStored' /\ NoEditLost'
  BY <1>1 DEF TypeOK, WalInv, DeliveredIsStored, NoEditLost, FlushMark,
              markDelivered
<1>3. ASSUME NEW u \in Tab, NEW j \in Task, flush'[u][j] = "marking"
      PROVE  batch'[u][j] \subseteq server'
  <2>1. flush \in [Tab -> [Task -> FlushPc]] /\ batch \in [Tab -> [Task -> SUBSET Edit]]
    BY DEF TypeOK
  <2>2. ~(u = t /\ j = k)
    BY <1>3, <2>1 DEF FlushMark
  <2>3. flush[u][j] = "marking" /\ batch'[u][j] = batch[u][j]
    BY <1>3, <2>1, <2>2 DEF FlushMark
  <2> QED
    BY <2>3 DEF WalInv, AckedIsStored, FlushMark
<1>4. VictimsAreStored'
  BY DEF WalInv, VictimsAreStored, FlushMark
<1> QED
  BY <1>2, <1>3, <1>4 DEF WalInv, AckedIsStored

\* pruneDelivered() picks delivered rows, which are stored ...
LEMMA PruneReadInv ==
    ASSUME TypeOK, WalInv, NEW t \in Tab, PruneRead(t) PROVE WalInv'
BY DEF TypeOK, WalInv, NoEditLost, DeliveredIsStored, AckedIsStored,
       VictimsAreStored, PruneRead, Delivered, Rows

\* ... and deletes them.
LEMMA PruneDeleteInv ==
    ASSUME TypeOK, WalInv, NEW t \in Tab, PruneDelete(t) PROVE WalInv'
BY DEF TypeOK, WalInv, NoEditLost, DeliveredIsStored, AckedIsStored,
       VictimsAreStored, PruneDelete, DeleteRows

\* The other steps of persistSnapshot() only move away from "pruning".
LEMMA PersistMoveInv ==
    ASSUME TypeOK, WalInv, NEW t \in Tab, PersistSave(t) \/ PersistFails(t)
    PROVE  WalInv'
<1>1. UNCHANGED <<row, logged, server, dropped, flush, batch>>
  BY DEF PersistSave, PersistFails
<1>2. NoEditLost' /\ DeliveredIsStored' /\ AckedIsStored'
  BY <1>1 DEF WalInv, NoEditLost, DeliveredIsStored, AckedIsStored
<1>3. ASSUME NEW u \in Tab, persist'[u] = "pruning"
      PROVE  persist[u] = "pruning" /\ victims'[u] = victims[u]
  <2>1. persist \in [Tab -> {"idle", "saving", "pruneRead", "pruning"}]
        /\ victims \in [Tab -> SUBSET Edit]
    BY DEF TypeOK
  <2>2. CASE PersistSave(t)
    BY <1>3, <2>1, <2>2 DEF PersistSave
  <2>3. CASE PersistFails(t)
    BY <1>3, <2>1, <2>3 DEF PersistFails
  <2> QED BY <2>2, <2>3
<1>4. VictimsAreStored'
  BY <1>1, <1>3 DEF WalInv, VictimsAreStored
<1> QED BY <1>2, <1>4 DEF WalInv

\* Closing a tab drops its flush calls and its victims.
LEMMA CloseTabInv ==
    ASSUME TypeOK, WalInv, NEW t \in Tab, CloseTab(t) PROVE WalInv'
<1>1. ASSUME NEW u \in Tab, NEW j \in Task, flush'[u][j] = "marking"
      PROVE  flush[u][j] = "marking" /\ batch'[u][j] = batch[u][j]
  <2>1. flush \in [Tab -> [Task -> FlushPc]] /\ batch \in [Tab -> [Task -> SUBSET Edit]]
    BY DEF TypeOK
  <2>2. u # t
    BY <1>1, <2>1 DEF CloseTab
  <2> QED
    BY <1>1, <2>1, <2>2 DEF CloseTab
<1>2. VictimsAreStored'
  BY DEF TypeOK, WalInv, VictimsAreStored, CloseTab
<1> QED
  BY <1>1, <1>2 DEF WalInv, NoEditLost, DeliveredIsStored, AckedIsStored, CloseTab

\* The tick starts a flush and a save.
LEMMA PersistTickInv ==
    ASSUME TypeOK, WalInv, NEW t \in Tab, PersistTick(t) PROVE WalInv'
<1>1. VictimsAreStored'
  BY DEF TypeOK, WalInv, VictimsAreStored, PersistTick
<1>2. ASSUME NEW u \in Tab, NEW j \in Task, flush'[u][j] = "marking"
      PROVE  flush[u][j] = "marking"
  <2>1. CASE UNCHANGED flush
    BY <1>2, <2>1
  <2>2. ASSUME NEW k \in Task, flush' = [flush EXCEPT ![t][k] = "await"]
        PROVE  flush[u][j] = "marking"
    BY <1>2, <2>2 DEF TypeOK
  <2> QED
    BY <2>1, <2>2 DEF PersistTick, CallFlush
<1>3. AckedIsStored'
  BY <1>2 DEF WalInv, AckedIsStored, PersistTick
<1> QED
  BY <1>1, <1>3 DEF WalInv, NoEditLost, DeliveredIsStored, PersistTick

\* The sync service forgets nothing.
LEMMA ServerStoresInv ==
    ASSUME TypeOK, WalInv, NEW e \in Edit, ServerStores(e) PROVE WalInv'
BY DEF TypeOK, WalInv, NoEditLost, DeliveredIsStored, AckedIsStored,
       VictimsAreStored, ServerStores

\* Nothing is logged or under way at the start.
LEMMA InitWalInv == Init => WalInv
BY DEF Init, WalInv, NoEditLost, DeliveredIsStored, AckedIsStored,
       VictimsAreStored

\* Every step keeps WalInv.
LEMMA NextWalInv == TypeOK /\ WalInv /\ [Next]_vars => WalInv'
<1> SUFFICES ASSUME TypeOK, WalInv, [Next]_vars PROVE WalInv'
  OBVIOUS
<1>1. ASSUME NEW t \in Tab, TabStep(t) PROVE WalInv'
  <2>1. CASE \/ OpenTab(t) \/ InitialSync(t) \/ InitialSyncMissed(t)
             \/ SetupRead(t) \/ SetupFails(t) \/ SeedRead(t)
             \/ SeedLocal(t) \/ SeedSave(t) \/ SeedRemote(t) \/ Converge(t)
             \/ Reset(t)
    BY <2>1, WalInvFrame DEF walInvVars, OpenTab, InitialSync, InitialSyncMissed,
       SetupRead, SetupFails, SeedRead, SeedLocal, SeedSave, SeedRemote, Converge, Reset
  <2>2. CASE Reconnect(t)
    BY <2>2, CallFlushInv DEF Reconnect
  <2> QED
    BY <1>1, <2>1, <2>2, SetupDeleteInv, PersistTickInv, PersistMoveInv,
       PruneReadInv, PruneDeleteInv, CloseTabInv DEF TabStep
<1>2. ASSUME NEW t \in Tab, NEW e \in Edit, EditStep(t, e) PROVE WalInv'
  <2>1. CASE LocalUpdate(t, e) \/ AppendFails(t, e) \/ ChatArrives(t, e)
    BY <2>1, WalInvFrame DEF walInvVars, LocalUpdate, AppendFails, ChatArrives
  <2>2. CASE AppendDone(t, e)
    BY <2>2, CallFlushInv DEF AppendDone
  <2> QED
    BY <1>2, <2>1, <2>2, AppendStoredInv DEF EditStep
<1>3. ASSUME NEW t \in Tab, NEW k \in Task, FlushStep(t, k) PROVE WalInv'
  <2>1. CASE FlushBegin(t, k)
    BY <2>1, FlushMoveInv DEF FlushBegin
  <2>2. CASE FlushNotReady(t, k)
    BY <2>2, FlushMoveInv DEF FlushNotReady
  <2>3. CASE FlushEmpty(t, k)
    BY <2>3, FlushMoveInv DEF FlushEmpty
  <2>4. CASE FlushPush(t, k)
    BY <2>4, FlushMoveInv DEF FlushPush
  <2>5. CASE FlushDone(t, k)
    <3>1. (IF hasNewPending[t] THEN "await" ELSE "idle") # "marking"
      OBVIOUS
    <3> QED
      BY <2>5, <3>1, FlushMoveInv DEF FlushDone
  <2>6. CASE FlushNotAcked(t, k)
    BY <2>6, FlushMoveInv DEF FlushNotAcked
  <2>7. CASE FlushThrows(t, k)
    BY <2>7, FlushMoveInv DEF FlushThrows
  <2>8. CASE FlushRefused(t, k)
    BY <2>8, FlushMoveInv DEF FlushRefused
  <2> QED
    BY <1>3, <2>1, <2>2, <2>3, <2>4, <2>5, <2>6, <2>7, <2>8, FlushAckedInv,
       FlushMarkInv DEF FlushStep
<1>4. ASSUME NEW e \in Edit, ServerMisses(e) \/ Age(e) PROVE WalInv'
  BY <1>4, WalInvFrame DEF walInvVars, ServerMisses, Age
<1>5. CASE UNCHANGED vars
  BY <1>5, WalInvFrame DEF walInvVars, vars
<1> QED
  BY <1>1, <1>2, <1>3, <1>4, <1>5, ServerStoresInv DEF Next

\* The log's invariant holds in every reachable state: what is marked delivered,
\* acked or picked by pruneDelivered() is stored.
THEOREM LogInvariant == Spec => []WalInv
<1>1. Spec => [](TypeOK /\ WalInv)
  BY InitTypeOK, InitWalInv, NextTypeOK, NextWalInv, PTL DEF Spec
<1> QED
  BY <1>1, PTL

\* The log loses nothing: in every reachable state an edit that append() wrote
\* still has its row, or is stored by the sync service, or had expired.
THEOREM NothingLost == Spec => []NoEditLost
<1>1. WalInv => NoEditLost
  BY DEF WalInv
<1> QED
  BY <1>1, LogInvariant, PTL

-----------------------------------------------------------------------------
(* No edit is stranded.  NothingForgotten(t) speaks of row and of the tab's *)
(* own part of the following variables.                                     *)

SameTab(t) ==
    /\ wal'[t] = wal[t] /\ own'[t] = own[t] /\ excused'[t] = excused[t]
    /\ stored'[t] = stored[t] /\ isFlushing'[t] = isFlushing[t]
    /\ hasNewPending'[t] = hasNewPending[t] /\ flush'[t] = flush[t]
    /\ batch'[t] = batch[t]

\* No row of S becomes undelivered (again).
NoneRevived(S) == \A e \in S \cap Edit : row'[e] = "undelivered" => row[e] = "undelivered"

\* What a tab has not forgotten it has not forgotten after steps of others.
LEMMA SameTabForgetsNothing ==
    ASSUME NEW t \in Tab, NothingForgotten(t), SameTab(t), NoneRevived(own[t])
    PROVE  NothingForgotten(t)'
BY DEF NothingForgotten, SameTab, NoneRevived, Undelivered, Rows, Covers

\* LoggedOnce is about calls of append() and the history of the log.
LEMMA LoggedOnceFrame ==
    ASSUME LoggedOnce, UNCHANGED <<called, logged, own, made>> PROVE LoggedOnce'
BY DEF LoggedOnce

\* A step that leaves append() and all of the flush state alone, and revives
\* no row.
LEMMA PendingFrame ==
    ASSUME PendingInv, UNCHANGED <<called, logged, own, made>>,
           \A t \in Tab : SameTab(t), NoneRevived(Edit)
    PROVE  PendingInv'
<1>1. ASSUME NEW t \in Tab PROVE NothingForgotten(t)'
  BY SameTabForgetsNothing DEF PendingInv, NoneRevived
<1> QED BY <1>1, LoggedOnceFrame DEF PendingInv

\* One tab's step: the others keep what they have.
LEMMA PendingStep ==
    ASSUME PendingInv, LoggedOnce', NEW t \in Tab, NothingForgotten(t)',
           \A u \in Tab \ {t} : SameTab(u) /\ NoneRevived(own[u])
    PROVE  PendingInv'
<1>1. ASSUME NEW u \in Tab \ {t} PROVE NothingForgotten(u)'
  BY <1>1, SameTabForgetsNothing DEF PendingInv
<1> QED BY <1>1 DEF PendingInv

\* Opening, seeding and importing.
LEMMA DocumentPending ==
    ASSUME TypeOK, PendingInv, NEW t \in Tab,
           \/ SeedRead(t) \/ SeedLocal(t) \/ SeedSave(t) \/ SeedRemote(t)
           \/ Converge(t) \/ Reset(t) \/ PersistSave(t) \/ PruneRead(t)
           \/ PersistFails(t) \/ InitialSync(t) \/ InitialSyncMissed(t)
    PROVE  PendingInv'
<1>1. UNCHANGED <<row, called, logged, own, made, wal, excused, stored, isFlushing,
                  hasNewPending, flush, batch>>
  BY DEF SeedRead, SeedLocal, SeedSave, SeedRemote, Converge, Reset, PersistSave,
         PruneRead, PersistFails, InitialSync, InitialSyncMissed
<1> QED BY <1>1, PendingFrame DEF SameTab, NoneRevived

\* pruneDelivered() only deletes rows.
LEMMA PruneDeletePending ==
    ASSUME TypeOK, PendingInv, NEW t \in Tab, PruneDelete(t) PROVE PendingInv'
<1>1. UNCHANGED <<called, logged, own, made, wal, excused, stored, isFlushing,
                  hasNewPending, flush, batch>>
  BY DEF PruneDelete
<1>2. NoneRevived(Edit)
  BY DEF PruneDelete, DeleteRows, NoneRevived
<1> QED BY <1>1, <1>2, PendingFrame DEF SameTab

\* setup(): the tab has logged nothing yet.
LEMMA SetupPending ==
    ASSUME TypeOK, PendingInv, NEW t \in Tab,
           OpenTab(t) \/ SetupRead(t) \/ SetupDelete(t) \/ SetupFails(t)
    PROVE  PendingInv'
<1>1. UNCHANGED <<called, logged, own, made, excused, stored, isFlushing,
                  hasNewPending, flush, batch>>
  BY DEF OpenTab, SetupRead, SetupDelete, SetupFails
<1>2. wal[t] # "ready" /\ \A u \in Tab \ {t} : wal'[u] = wal[u]
  BY DEF OpenTab, SetupRead, SetupDelete, SetupFails, TypeOK
<1>3. NoneRevived(Edit)
  BY DEF OpenTab, SetupRead, SetupDelete, SetupFails, DeleteRows, NoneRevived
<1>4. own'[t] = {}
  BY <1>1, <1>2 DEF PendingInv, NothingForgotten
<1>5. NothingForgotten(t)'
  BY <1>1, <1>4 DEF PendingInv, NothingForgotten
<1>6. \A u \in Tab \ {t} : SameTab(u) /\ NoneRevived(own[u])
  BY <1>1, <1>2, <1>3 DEF SameTab, NoneRevived
<1> QED BY <1>1, <1>5, <1>6, LoggedOnceFrame, PendingStep DEF PendingInv

\* An edit is made once: its append() is new.
LEMMA LocalUpdatePending ==
    ASSUME TypeOK, PendingInv, NEW t \in Tab, NEW e \in Edit, LocalUpdate(t, e)
    PROVE  PendingInv'
<1>1. UNCHANGED <<row, logged, own, wal, excused, stored, isFlushing, hasNewPending,
                  flush, batch>>
  BY DEF LocalUpdate
<1>2. e \notin made /\ made' = made \cup {e}
      /\ called' = [called EXCEPT ![t] = @ \cup {e}]
  BY DEF LocalUpdate
<1>3. LoggedOnce'
  BY <1>1, <1>2 DEF PendingInv, LoggedOnce, TypeOK
<1>4. ASSUME NEW u \in Tab PROVE NothingForgotten(u)'
  BY <1>1, SameTabForgetsNothing DEF PendingInv, SameTab, NoneRevived
<1> QED BY <1>3, <1>4 DEF PendingInv

\* store.append(): the row is one that no tab has logged; its append() goes on.
LEMMA AppendStoredPending ==
    ASSUME TypeOK, PendingInv, NEW t \in Tab, NEW e \in Edit, AppendStored(t, e)
    PROVE  PendingInv'
<1>1. UNCHANGED <<made, wal, excused, isFlushing, hasNewPending, flush, batch>>
  BY DEF AppendStored
<1>2. /\ e \in called[t] /\ logged' = logged \cup {e} /\ wal[t] = "ready"
      /\ row' = [row EXCEPT ![e] = "undelivered"]
      /\ called' = [called EXCEPT ![t] = @ \ {e}]
      /\ own' = [own EXCEPT ![t] = @ \cup {e}]
      /\ stored' = [stored EXCEPT ![t] = @ \cup {e}]
  BY DEF AppendStored
<1>3. e \notin logged /\ \A u \in Tab : own[u] \subseteq logged
  BY <1>2 DEF PendingInv, LoggedOnce
<1>4. LoggedOnce'
  BY <1>1, <1>2 DEF PendingInv, LoggedOnce, TypeOK
<1>5. ASSUME NEW u \in Tab \ {t} PROVE SameTab(u) /\ NoneRevived(own[u])
  BY <1>1, <1>2, <1>3 DEF SameTab, NoneRevived, TypeOK
<1>6. NothingForgotten(t)'
  <2>1. ASSUME NEW f \in own'[t] \cap Undelivered', f # e
        PROVE  excused'[t] \/ f \in stored'[t] \/ \E k \in Task : Covers(t, k, f)'
    <3>1. f \in own[t] \cap Undelivered /\ stored[t] \subseteq stored'[t]
      BY <1>2, <2>1 DEF TypeOK, Undelivered, Rows
    <3>2. \A k \in Task : Covers(t, k, f)' <=> Covers(t, k, f)
      BY <1>1 DEF Covers
    <3> QED BY <1>1, <3>1, <3>2 DEF PendingInv, NothingForgotten
  <2>2. e \in stored'[t]
    BY <1>2 DEF TypeOK
  <2> QED BY <1>1, <1>2, <2>1, <2>2 DEF PendingInv, NothingForgotten
<1> QED BY <1>4, <1>5, <1>6, PendingStep

\* flush() of a tab: a call is added or the one under way is left alone.
LEMMA CallFlushKeeps ==
    ASSUME TypeOK, NEW t \in Tab, CallFlush(t), batch' = batch
    PROVE  /\ \A u \in Tab \ {t} : flush'[u] = flush[u]
           /\ \A k \in Task : \/ flush'[t][k] = flush[t][k]
                              \/ flush[t][k] = "idle" /\ flush'[t][k] = "await"
           /\ isFlushing[t] \/ \E k \in Task : flush'[t][k] = "await"
BY DEF CallFlush, TypeOK

\* A reconnect or a tick flushes.
LEMMA CallFlushPending ==
    ASSUME TypeOK, PendingInv, NEW t \in Tab, Reconnect(t) \/ PersistTick(t)
    PROVE  PendingInv'
<1>1. UNCHANGED <<row, called, logged, own, made, wal, excused, stored, isFlushing,
                  hasNewPending, batch>> /\ CallFlush(t)
  BY DEF Reconnect, PersistTick
<1>2. \A k \in Task : \/ flush'[t][k] = flush[t][k]
                      \/ flush[t][k] = "idle" /\ flush'[t][k] = "await"
  BY <1>1, CallFlushKeeps
<1>3. \A u \in Tab \ {t} : SameTab(u) /\ NoneRevived(own[u])
  BY <1>1, CallFlushKeeps DEF SameTab, NoneRevived
<1>4. \A k \in Task, e \in Edit : Covers(t, k, e) => Covers(t, k, e)'
  BY <1>1, <1>2 DEF Covers
<1>5. NothingForgotten(t)'
  BY <1>1, <1>2, <1>4 DEF PendingInv, NothingForgotten, Undelivered, Rows
<1> QED BY <1>1, <1>3, <1>5, LoggedOnceFrame, PendingStep DEF PendingInv

\* append() ends: whoever flushes will see hasNewPending, or a flush is called.
LEMMA AppendDonePending ==
    ASSUME TypeOK, PendingInv, NEW t \in Tab, NEW e \in Edit, AppendDone(t, e)
    PROVE  PendingInv'
<1>1. UNCHANGED <<row, called, logged, own, made, wal, excused, isFlushing, batch>>
      /\ CallFlush(t)
  BY DEF AppendDone
<1>2. /\ stored' = [stored EXCEPT ![t] = @ \ {e}]
      /\ hasNewPending' = [hasNewPending EXCEPT ![t] = TRUE]
  BY DEF AppendDone
<1>3. \A k \in Task : \/ flush'[t][k] = flush[t][k]
                      \/ flush[t][k] = "idle" /\ flush'[t][k] = "await"
  BY <1>1, CallFlushKeeps
<1>4. \A u \in Tab \ {t} : SameTab(u) /\ NoneRevived(own[u])
  BY <1>1, <1>2, CallFlushKeeps DEF SameTab, NoneRevived, TypeOK
<1>5. hasNewPending'[t]
  BY <1>2 DEF TypeOK
<1>6. ASSUME NEW f \in Edit PROVE \E k \in Task : Covers(t, k, f)'
  <2>1. CASE isFlushing[t]
    <3>1. PICK k \in Task : flush[t][k] \in {"reading", "pushing", "marking", "closing"}
      BY <2>1 DEF PendingInv, NothingForgotten
    <3> QED BY <1>3, <1>5, <3>1 DEF Covers
  <2>2. CASE ~isFlushing[t]
    BY <1>1, <2>2, CallFlushKeeps DEF Covers
  <2> QED BY <2>1, <2>2
<1>7. NothingForgotten(t)'
  BY <1>1, <1>3, <1>6 DEF PendingInv, NothingForgotten, Undelivered, Rows
<1> QED BY <1>1, <1>4, <1>7, LoggedOnceFrame, PendingStep DEF PendingInv

\* An append() that fails excuses the tab ...
LEMMA AppendFailsPending ==
    ASSUME TypeOK, PendingInv, NEW t \in Tab, NEW e \in Edit, AppendFails(t, e)
    PROVE  PendingInv'
<1>1. UNCHANGED <<row, logged, own, made, wal, isFlushing, hasNewPending, flush, batch>>
  BY DEF AppendFails
<1>2. /\ called' = [called EXCEPT ![t] = @ \ {e}] /\ stored' = [stored EXCEPT ![t] = @ \ {e}]
      /\ excused' = [excused EXCEPT ![t] = TRUE]
  BY DEF AppendFails
<1>3. LoggedOnce'
  BY <1>1, <1>2 DEF PendingInv, LoggedOnce, TypeOK
<1>4. \A u \in Tab \ {t} : SameTab(u) /\ NoneRevived(own[u])
  BY <1>1, <1>2 DEF SameTab, NoneRevived, TypeOK
<1>5. NothingForgotten(t)'
  BY <1>1, <1>2 DEF PendingInv, NothingForgotten, TypeOK
<1> QED BY <1>3, <1>4, <1>5, PendingStep

\* ... and closing it forgets what it logged.
LEMMA CloseTabPending ==
    ASSUME TypeOK, PendingInv, NEW t \in Tab, CloseTab(t) PROVE PendingInv'
<1>1. UNCHANGED <<row, logged, made>>
  BY DEF CloseTab
<1>2. /\ called' = [called EXCEPT ![t] = {}] /\ own' = [own EXCEPT ![t] = {}]
      /\ isFlushing' = [isFlushing EXCEPT ![t] = FALSE]
  BY DEF CloseTab
<1>3. LoggedOnce'
  BY <1>1, <1>2 DEF PendingInv, LoggedOnce, TypeOK
<1>4. \A u \in Tab \ {t} : SameTab(u) /\ NoneRevived(own[u])
  BY <1>1 DEF CloseTab, SameTab, NoneRevived, TypeOK
<1>5. NothingForgotten(t)'
  BY <1>2 DEF PendingInv, NothingForgotten, TypeOK
<1> QED BY <1>3, <1>4, <1>5, PendingStep

\* What a step of the call k of doFlush() leaves alone.
FlushFrame(t, k) ==
    /\ UNCHANGED <<called, stored, logged, own, made, wal>>
    /\ \A u \in Tab \ {t} : /\ flush'[u] = flush[u] /\ batch'[u] = batch[u]
                            /\ isFlushing'[u] = isFlushing[u]
                            /\ hasNewPending'[u] = hasNewPending[u]
                            /\ excused'[u] = excused[u]
    /\ \A j \in Task \ {k} : flush'[t][j] = flush[t][j] /\ batch'[t][j] = batch[t][j]
    /\ NoneRevived(Edit)

\* It is enough to look at the tab itself.
LEMMA FlushStepPending ==
    ASSUME PendingInv, NEW t \in Tab, NEW k \in Task, FlushFrame(t, k),
           NothingForgotten(t)'
    PROVE  PendingInv'
BY LoggedOnceFrame, PendingStep DEF PendingInv, FlushFrame, SameTab, NoneRevived

\* Every step of doFlush() is such a step.
LEMMA FlushStepFrame ==
    ASSUME TypeOK, NEW t \in Tab, NEW k \in Task, FlushStep(t, k)
    PROVE  FlushFrame(t, k)
<1>1. UNCHANGED <<called, stored, logged, own, made, wal>>
  BY DEF FlushStep, FlushBegin, FlushNotReady, FlushEmpty, FlushPush, FlushRefused,
         FlushAcked, FlushMark, FlushDone, FlushNotAcked, FlushThrows
<1>2. NoneRevived(Edit)
  BY DEF FlushStep, FlushBegin, FlushNotReady, FlushEmpty, FlushPush, FlushRefused,
         FlushAcked, FlushMark, FlushDone, FlushNotAcked, FlushThrows, NoneRevived, markDelivered
<1>3. /\ flush \in [Tab -> [Task -> FlushPc]] /\ batch \in [Tab -> [Task -> SUBSET Edit]]
      /\ isFlushing \in [Tab -> BOOLEAN] /\ hasNewPending \in [Tab -> BOOLEAN]
      /\ excused \in [Tab -> BOOLEAN]
  BY DEF TypeOK
<1>4. \A u \in Tab \ {t} : /\ flush'[u] = flush[u] /\ batch'[u] = batch[u]
                           /\ isFlushing'[u] = isFlushing[u]
                           /\ hasNewPending'[u] = hasNewPending[u]
                           /\ excused'[u] = excused[u]
  BY <1>3 DEF FlushStep, FlushBegin, FlushNotReady, FlushEmpty, FlushPush, FlushRefused,
         FlushAcked, FlushMark, FlushDone, FlushNotAcked, FlushThrows
<1>5. \A j \in Task \ {k} : flush'[t][j] = flush[t][j] /\ batch'[t][j] = batch[t][j]
  BY <1>3 DEF FlushStep, FlushBegin, FlushNotReady, FlushEmpty, FlushPush, FlushRefused,
         FlushAcked, FlushMark, FlushDone, FlushNotAcked, FlushThrows
<1> QED BY <1>1, <1>2, <1>4, <1>5 DEF FlushFrame

\* After ready(): the call clears hasNewPending and is about to read everything.
LEMMA FlushBeginPending ==
    ASSUME TypeOK, PendingInv, NEW t \in Tab, NEW k \in Task, FlushBegin(t, k),
           FlushFrame(t, k)
    PROVE  NothingForgotten(t)'
<1>1. flush'[t][k] = "reading"
  BY DEF FlushBegin, TypeOK
<1> QED BY <1>1 DEF PendingInv, NothingForgotten, FlushFrame, Covers

\* A call that ends without success excuses the tab; without ready() it has
\* logged nothing, and with nothing undelivered there is nothing to forget.
LEMMA FlushEndsPending ==
    ASSUME TypeOK, PendingInv, NEW t \in Tab, NEW k \in Task, FlushFrame(t, k),
           \/ FlushNotReady(t, k) \/ FlushEmpty(t, k) \/ FlushRefused(t, k)
           \/ FlushNotAcked(t, k) \/ FlushThrows(t, k)
    PROVE  NothingForgotten(t)'
<1>1. CASE FlushNotReady(t, k)
  <2>1. own'[t] = {} /\ isFlushing' = isFlushing /\ flush[t][k] = "await"
    BY <1>1 DEF FlushNotReady, FlushFrame, PendingInv, NothingForgotten
  <2> QED BY <2>1 DEF PendingInv, NothingForgotten, FlushFrame
<1>2. CASE FlushEmpty(t, k)
  <2>1. Undelivered' = {} /\ ~isFlushing'[t]
    BY <1>2 DEF FlushEmpty, Undelivered, Rows, TypeOK
  <2> QED BY <2>1 DEF PendingInv, NothingForgotten, FlushFrame
<1>3. CASE FlushRefused(t, k) \/ FlushNotAcked(t, k) \/ FlushThrows(t, k)
  <2>1. excused'[t] /\ ~isFlushing'[t]
    BY <1>3 DEF FlushRefused, FlushNotAcked, FlushThrows, TypeOK
  <2> QED BY <2>1 DEF PendingInv, NothingForgotten, FlushFrame
<1> QED BY <1>1, <1>2, <1>3

\* The call reads everything undelivered into its batch.
LEMMA FlushPushPending ==
    ASSUME TypeOK, PendingInv, NEW t \in Tab, NEW k \in Task, FlushPush(t, k),
           FlushFrame(t, k)
    PROVE  NothingForgotten(t)'
<1>1. /\ flush'[t][k] = "pushing" /\ batch'[t][k] = Undelivered /\ Undelivered' = Undelivered
  BY DEF FlushPush, TypeOK, Undelivered, Rows
<1> QED BY <1>1 DEF PendingInv, NothingForgotten, FlushFrame, Covers

\* The ack; the batch is marked and nobody needs to care for it any more.
LEMMA FlushAckedPending ==
    ASSUME TypeOK, PendingInv, NEW t \in Tab, NEW k \in Task, FlushFrame(t, k),
           FlushAcked(t, k) \/ FlushMark(t, k)
    PROVE  NothingForgotten(t)'
<1>1. isFlushing' = isFlushing /\ hasNewPending' = hasNewPending /\ excused' = excused
  BY DEF FlushAcked, FlushMark
<1>2. ASSUME NEW e \in Edit, row'[e] = "undelivered", NEW j \in Task, Covers(t, j, e)
      PROVE  Covers(t, j, e)'
  <2>1. CASE j # k
    BY <1>1, <1>2, <2>1 DEF FlushFrame, Covers
  <2>2. CASE j = k /\ FlushAcked(t, k)
    BY <1>1, <1>2, <2>2 DEF FlushAcked, Covers, TypeOK
  <2>3. CASE j = k /\ FlushMark(t, k)
    <3>1. flush[t][k] = "marking" /\ flush'[t][k] = "closing" /\ e \notin batch[t][k]
      BY <1>2, <2>3 DEF FlushMark, markDelivered, TypeOK
    <3> QED BY <1>1, <1>2, <2>3, <3>1 DEF Covers
  <2> QED BY <2>1, <2>2, <2>3
<1>3. flush'[t][k] \in {"marking", "closing"} 
  BY DEF FlushAcked, FlushMark, TypeOK
<1>4. isFlushing'[t] =>
        \E j \in Task : flush'[t][j] \in {"reading", "pushing", "marking", "closing"}
  BY <1>3
<1>5. \A e \in Edit : row'[e] = "undelivered" => row[e] = "undelivered"
  BY DEF FlushFrame, NoneRevived
<1> QED
  BY <1>1, <1>2, <1>4, <1>5 DEF PendingInv, NothingForgotten, FlushFrame, Undelivered, Rows

\* The end of a successful call: it runs again when append() asked for it.
LEMMA FlushDonePending ==
    ASSUME TypeOK, PendingInv, NEW t \in Tab, NEW k \in Task, FlushDone(t, k),
           FlushFrame(t, k)
    PROVE  NothingForgotten(t)'
<1>1. /\ ~isFlushing'[t] /\ UNCHANGED <<hasNewPending, excused, row>> /\ flush[t][k] = "closing"
      /\ hasNewPending[t] => flush'[t][k] = "await"
  BY DEF FlushDone, TypeOK
<1>2. ASSUME NEW e \in Edit, NEW j \in Task, Covers(t, j, e)
      PROVE  \E i \in Task : Covers(t, i, e)'
  <2>1. CASE j # k
    BY <1>1, <1>2, <2>1 DEF FlushFrame, Covers
  <2>2. CASE j = k
    BY <1>1, <1>2, <2>2 DEF Covers
  <2> QED BY <2>1, <2>2
<1> QED
  BY <1>1, <1>2 DEF PendingInv, NothingForgotten, FlushFrame, Undelivered, Rows

\* Every step keeps PendingInv.
LEMMA NextPending == TypeOK /\ PendingInv /\ [Next]_vars => PendingInv'
<1> SUFFICES ASSUME TypeOK, PendingInv, [Next]_vars PROVE PendingInv'
  OBVIOUS
<1>1. ASSUME NEW t \in Tab, TabStep(t) PROVE PendingInv'
  BY <1>1, DocumentPending, PruneDeletePending, SetupPending, CallFlushPending,
     CloseTabPending DEF TabStep
<1>2. ASSUME NEW t \in Tab, NEW e \in Edit, EditStep(t, e) PROVE PendingInv'
  <2>1. CASE ChatArrives(t, e)
    BY <2>1, PendingFrame DEF ChatArrives, SameTab, NoneRevived
  <2> QED
    BY <1>2, <2>1, LocalUpdatePending, AppendStoredPending, AppendDonePending,
       AppendFailsPending DEF EditStep
<1>3. ASSUME NEW t \in Tab, NEW k \in Task, FlushStep(t, k) PROVE PendingInv'
  <2>1. FlushFrame(t, k)
    BY <1>3, FlushStepFrame
  <2>2. NothingForgotten(t)'
    BY <1>3, <2>1, FlushBeginPending, FlushEndsPending, FlushPushPending,
       FlushAckedPending, FlushDonePending DEF FlushStep
  <2> QED BY <2>1, <2>2, FlushStepPending
<1>4. ASSUME NEW e \in Edit, ServerStores(e) \/ ServerMisses(e) \/ Age(e)
      PROVE  PendingInv'
  BY <1>4, PendingFrame DEF ServerStores, ServerMisses, Age, SameTab, NoneRevived
<1>5. CASE UNCHANGED vars
  BY <1>5, PendingFrame DEF vars, disk, walVars, docVars, appVars, flVars, hist, SameTab,
     NoneRevived
<1> QED BY <1>1, <1>2, <1>3, <1>4, <1>5 DEF Next

\* The invariant of the flush calls: every undelivered edit a tab has logged is in
\* somebody's hands, or an append() or a flush of the tab has failed.
THEOREM PendingIsCared == Spec => []PendingInv
<1>1. Init => PendingInv
  BY DEF Init, PendingInv, LoggedOnce, NothingForgotten
<1> QED
  BY <1>1, InitTypeOK, NextTypeOK, NextPending, PTL DEF Spec

\* hasNewPending does its job (wal.ts: append(), doFlush()): a tab that has nothing
\* under way and has met no failure has left none of its edits undelivered.
THEOREM NothingStranded == Spec => []NoStranded
<1>1. PendingInv => NoStranded
  BY DEF PendingInv, NothingForgotten, NoStranded, Settled, Covers
<1> QED BY <1>1, PendingIsCared, PTL

\* A row only advances (wal.ts: markDelivered(), pruneDelivered(), append()): no
\* step of any tab makes a pruned edit reappear or a delivered one undelivered.
THEOREM RowsAdvance == Spec => RowsOnlyAdvance
<1>1. TypeOK /\ PendingInv /\ [Next]_vars =>
        [\A e \in logged :
          /\ row[e] = "absent" => row'[e] = "absent"
          /\ row[e] = "delivered" => row'[e] # "undelivered"]_vars
  <2> SUFFICES ASSUME TypeOK, PendingInv, Next, NEW e \in logged
               PROVE  /\ row[e] = "absent" => row'[e] = "absent"
                      /\ row[e] = "delivered" => row'[e] # "undelivered"
    OBVIOUS
  <2>0. e \in Edit
    BY DEF TypeOK
  <2>1. ASSUME NEW t \in Tab, TabStep(t)
        PROVE  row'[e] = row[e] \/ row'[e] = "absent"
    BY <2>0, <2>1 DEF TabStep, OpenTab, InitialSync, InitialSyncMissed, SetupRead,
       SetupDelete, SetupFails, SeedRead, SeedLocal, SeedSave, SeedRemote, Reconnect, PersistTick, PersistSave, PruneRead,
       PruneDelete, PersistFails, Converge, Reset, CloseTab, DeleteRows, disk
  <2>2. ASSUME NEW t \in Tab, NEW f \in Edit, EditStep(t, f) PROVE row'[e] = row[e]
    <3>1. CASE AppendStored(t, f)
      <4>1. f # e
        BY <3>1 DEF AppendStored, PendingInv, LoggedOnce
      <4> QED BY <2>0, <3>1, <4>1 DEF AppendStored, TypeOK
    <3> QED
      BY <2>2, <3>1 DEF EditStep, LocalUpdate, AppendDone, AppendFails, ChatArrives, disk
  <2>3. ASSUME NEW t \in Tab, NEW k \in Task, FlushStep(t, k)
        PROVE  row'[e] = row[e] \/ (row[e] # "absent" /\ row'[e] = "delivered")
    BY <2>0, <2>3 DEF FlushStep, FlushBegin, FlushNotReady, FlushEmpty, FlushPush,
       FlushRefused, FlushAcked, FlushMark, FlushDone, FlushNotAcked, FlushThrows, markDelivered, disk
  <2>4. ASSUME NEW f \in Edit, ServerStores(f) \/ ServerMisses(f) \/ Age(f)
        PROVE  row' = row
    BY <2>4 DEF ServerStores, ServerMisses, Age, disk
  <2> QED BY <2>1, <2>2, <2>3, <2>4 DEF Next
<1> QED BY <1>1, TypeCorrect, PendingIsCared, PTL DEF Spec, RowsOnlyAdvance
=============================================================================
