----------------------- MODULE DurableCollectionProofs -----------------------
(***************************************************************************)
(* DurableCollection for every set of documents, handlers and goroutines,  *)
(* every bound, and both kinds of snapshot: type correctness, the life of  *)
(* a document (refinement of DocLife), and that nothing in memory is left  *)
(* without a row once everything in flight has ended.                      *)
(***************************************************************************)
EXTENDS DurableCollection, TLAPS

Removing == {"removeSync", "removeAsync", "deleteSync", "deleteAsync"}
Snapshotting == {"persist", "removeSync", "removeAsync"}

\* The document a goroutine is writing is one it has not written yet, at a
\* version some handler gave it.
WritingKnown == \A j \in Jobs : job[j].doc # NoDoc =>
                    job[j].doc \in job[j].todo /\ job[j].raw > 0

\* What goroutines still have to write was in memory.
TodoKnown == \A j \in Jobs : \A d \in job[j].todo :
                 d \in minted /\ obj[d] > 0 /\ (Copied => job[j].val[d] > 0)

LiveKnown == \A d \in live : d \in minted /\ obj[d] > 0

RowsKnown == \A d \in Docs : rows[d] > 0 => d \in minted

\* What is being deleted left memory; only another document has its id there.
Departed == {d \in minted : d \in live => d \in twice}
DeletingGone == /\ \A h \in Handlers :
                       pc[h] \in Removing => arg[h] \in Departed
                /\ purge \subseteq Departed

\* A document in memory is never forgotten: it has a row, or a goroutine
\* holds it, or a handler is about to take a snapshot.
NotForgotten == faults = 0 =>
    \A d \in live \ twice : \/ rows[d] > 0
                            \/ Held(d)
                            \/ \E h \in Handlers : pc[h] \in Snapshotting

\* What goroutine j is to write of document d is what memory holds.
Fresh(j, d) == /\ Copied => job[j].val[d] = obj[d]
               /\ job[j].doc = d => job[j].raw = obj[d]

\* While no goroutine overlapped another and no snapshot is due, a document in
\* memory is stored as it is or will be by a goroutine, and no goroutine holds
\* an older version of it.
Converging ==
    clean /\ (\A h \in Handlers : pc[h] \notin Snapshotting) =>
        \A d \in live \ twice :
            /\ \A j \in Jobs : d \in job[j].todo => Fresh(j, d)
            /\ rows[d] = obj[d] \/ Held(d)

IInv == /\ TypeOK
        /\ WritingKnown
        /\ TodoKnown
        /\ LiveKnown
        /\ RowsKnown
        /\ DeletingGone
        /\ NotForgotten
        /\ Converging

-----------------------------------------------------------------------------
USE BoundsAssumption DEF BoundsAssumption, Versions, ids, minted, twice

\* The empty goroutine and the snapshots are well formed.
LEMMA IdleType == Idle \in JobType
  BY DEF Idle, JobType, NoVersion

LEMMA SnapshotType == TypeOK => Snapshot \in JobType
  BY DEF Snapshot, JobType, TypeOK

LEMMA MarshalledType ==
    ASSUME TypeOK, NEW g \in JobType, NEW d \in Docs
    PROVE  Marshalled(g, d) \in JobType
<1>1. (IF Copied THEN g.val[d] ELSE obj[d]) \in Versions
  BY DEF JobType, TypeOK
<1> QED BY <1>1 DEF Marshalled, JobType

LEMMA WrittenType == ASSUME NEW g \in JobType PROVE Written(g) \in JobType
  BY IdleType DEF Written, JobType

\* The initial states satisfy the inductive invariant.
LEMMA InitIInv == Init => IInv
<1> SUFFICES ASSUME Init PROVE IInv
  OBVIOUS
<1>1. TypeOK
  BY IdleType DEF Init, TypeOK, NoVersion
<1>2. WritingKnown /\ TodoKnown /\ LiveKnown /\ RowsKnown
  BY DEF Init, WritingKnown, TodoKnown, LiveKnown, RowsKnown, Idle, NoVersion
<1>3. DeletingGone /\ NotForgotten /\ Converging
  BY DEF Init, DeletingGone, NotForgotten, Converging, Removing
<1> QED BY <1>1, <1>2, <1>3 DEF IInv

-----------------------------------------------------------------------------
\* Every operation of the collection keeps the types (Create, Update, Remove,
\* Persist, the goroutine's steps, the deletes and Restart).
LEMMA TypeStep == TypeOK /\ DeletingGone /\ [Next]_vars => TypeOK'
<1> SUFFICES ASSUME TypeOK, DeletingGone, [Next]_vars PROVE TypeOK'
  OBVIOUS
<1> USE DEF TypeOK
<1>1. ASSUME NEW h \in Handlers, NEW d \in Docs, Create(h, d) PROVE TypeOK'
  BY <1>1 DEF Create, HandOut, Add
<1>2. ASSUME NEW h \in Handlers, NEW d \in Docs, Update(h, d) PROVE TypeOK'
  BY <1>2 DEF Update
<1>3. ASSUME NEW h \in Handlers, NEW d \in Docs,
             NEW how \in {"removeSync", "removeAsync"}, Remove(h, d, how)
      PROVE  TypeOK'
  BY <1>3 DEF Remove
<1>4. ASSUME NEW h \in Handlers, NEW j \in Jobs, Persist(h, j) PROVE TypeOK'
  <2>1. job' \in [Jobs -> JobType]
    BY <1>4, SnapshotType DEF Persist
  <2>2. AfterPersist(h) \in {"idle", "deleteSync", "deleteAsync"}
    BY <1>4 DEF Persist, AfterPersist
  <2>3. pc' \in [Handlers -> {"idle", "persist", "removeSync", "removeAsync",
                              "deleteSync", "deleteAsync"}]
    BY <1>4, <2>2 DEF Persist
  <2>4. clean' \in BOOLEAN
    BY <1>4 DEF Persist
  <2> QED BY <1>4, <2>1, <2>3, <2>4 DEF Persist
<1>5. ASSUME NEW j \in Jobs, NEW d \in Docs, Marshal(j, d) PROVE TypeOK'
  <2>1. Marshalled(job[j], d) \in JobType
    BY <1>5, MarshalledType
  <2> QED BY <1>5, <2>1 DEF Marshal
<1>6. ASSUME NEW j \in Jobs, Upsert(j) PROVE TypeOK'
  <2>1. job[j] \in JobType /\ job[j].doc \in Docs
    BY <1>6 DEF Upsert, JobType
  <2>2. rows' \in [Docs -> Versions]
    BY <1>6, <2>1 DEF Upsert, JobType
  <2>3. job' \in [Jobs -> JobType]
    BY <1>6, <2>1, WrittenType DEF Upsert
  <2> QED BY <1>6, <2>2, <2>3 DEF Upsert
<1>7. ASSUME NEW j \in Jobs, UpsertFails(j) PROVE TypeOK'
  <2>1. job' \in [Jobs -> JobType]
    BY <1>7, IdleType DEF UpsertFails
  <2>2. faults' \in 0 .. MaxFaults
    BY <1>7 DEF UpsertFails
  <2> QED BY <1>7, <2>1, <2>2 DEF UpsertFails
<1>8. ASSUME NEW h \in Handlers, DeleteSync(h) PROVE TypeOK'
  <2>1. arg[h] \in Docs
    BY <1>8 DEF DeleteSync, DeletingGone, Departed, Removing
  <2>2. rows' \in [Docs -> Versions] /\ faults' \in 0 .. MaxFaults
    BY <1>8 DEF DeleteSync
  <2> QED BY <1>8, <2>1, <2>2 DEF DeleteSync
<1>9. ASSUME NEW h \in Handlers, DeleteAsync(h) PROVE TypeOK'
  <2>1. arg[h] \in Docs
    BY <1>9 DEF DeleteAsync, DeletingGone, Departed, Removing
  <2> QED BY <1>9, <2>1 DEF DeleteAsync
<1>10. ASSUME NEW d \in Docs, Purge(d) PROVE TypeOK'
  BY <1>10 DEF Purge
<1>11. ASSUME Restart PROVE TypeOK'
  BY <1>11, IdleType DEF Restart, Stored
<1>12. ASSUME UNCHANGED vars PROVE TypeOK'
  BY <1>12 DEF vars
<1> QED
  BY <1>1, <1>2, <1>3, <1>4, <1>5, <1>6, <1>7, <1>8, <1>9, <1>10, <1>11,
     <1>12 DEF Next, Request, HandlerStep, JobStep

-----------------------------------------------------------------------------
Known == WritingKnown /\ TodoKnown /\ LiveKnown /\ RowsKnown

\* What goroutines and the table hold was in memory: kept by every operation
\* (Persist snapshots what is in memory, Restart starts from the table).
LEMMA KnownStep == IInv /\ [Next]_vars => Known'
<1> SUFFICES ASSUME IInv, [Next]_vars PROVE Known'
  OBVIOUS
<1> USE DEF IInv, TypeOK
<1>1. ASSUME NEW h \in Handlers, NEW d \in Docs, Create(h, d) PROVE Known'
  BY <1>1 DEF Create, HandOut, Add, Known, WritingKnown, TodoKnown, LiveKnown, RowsKnown
<1>2. ASSUME NEW h \in Handlers, NEW d \in Docs, Update(h, d) PROVE Known'
  BY <1>2 DEF Update, Known, WritingKnown, TodoKnown, LiveKnown, RowsKnown
<1>3. ASSUME NEW h \in Handlers, NEW d \in Docs,
             NEW how \in {"removeSync", "removeAsync"}, Remove(h, d, how)
      PROVE  Known'
  BY <1>3 DEF Remove, Known, WritingKnown, TodoKnown, LiveKnown, RowsKnown
<1>4. ASSUME NEW h \in Handlers, NEW j \in Jobs, Persist(h, j) PROVE Known'
  BY <1>4 DEF Persist, Snapshot, Known, WritingKnown, TodoKnown, LiveKnown,
              RowsKnown
<1>5. ASSUME NEW j \in Jobs, NEW d \in Docs, Marshal(j, d) PROVE Known'
  <2>1. WritingKnown'
    BY <1>5 DEF Marshal, Marshalled, WritingKnown, TodoKnown, JobType
  <2>2. TodoKnown'
    BY <1>5 DEF Marshal, Marshalled, TodoKnown, JobType
  <2> QED BY <1>5, <2>1, <2>2 DEF Marshal, Known, LiveKnown, RowsKnown
<1>6. ASSUME NEW j \in Jobs, Upsert(j) PROVE Known'
  <2>1. WritingKnown'
    BY <1>6 DEF Upsert, Written, Idle, WritingKnown
  <2>2. TodoKnown'
    BY <1>6 DEF Upsert, Written, Idle, TodoKnown
  <2>3. job[j].doc \in Docs /\ job[j].doc \in minted
    BY <1>6 DEF Upsert, WritingKnown, TodoKnown, JobType
  <2>4. RowsKnown'
    BY <1>6, <2>3 DEF Upsert, RowsKnown
  <2> QED BY <1>6, <2>1, <2>2, <2>4 DEF Upsert, Known, LiveKnown
<1>7. ASSUME NEW j \in Jobs, UpsertFails(j) PROVE Known'
  BY <1>7 DEF UpsertFails, Idle, Known, WritingKnown, TodoKnown, LiveKnown,
              RowsKnown
<1>8. ASSUME NEW h \in Handlers, DeleteSync(h) PROVE Known'
  <2>1. RowsKnown'
    BY <1>8 DEF DeleteSync, RowsKnown
  <2> QED BY <1>8, <2>1 DEF DeleteSync, Known, WritingKnown, TodoKnown,
                             LiveKnown
<1>9. ASSUME NEW h \in Handlers, DeleteAsync(h) PROVE Known'
  BY <1>9 DEF DeleteAsync, Known, WritingKnown, TodoKnown, LiveKnown, RowsKnown
<1>10. ASSUME NEW d \in Docs, Purge(d) PROVE Known'
  <2>1. RowsKnown'
    BY <1>10 DEF Purge, RowsKnown
  <2> QED BY <1>10, <2>1 DEF Purge, Known, WritingKnown, TodoKnown, LiveKnown
<1>11. ASSUME Restart PROVE Known'
  BY <1>11 DEF Restart, Stored, Idle, Known, WritingKnown, TodoKnown,
               LiveKnown, RowsKnown
<1>12. ASSUME UNCHANGED vars PROVE Known'
  BY <1>12 DEF vars, Known, WritingKnown, TodoKnown, LiveKnown, RowsKnown
<1> QED
  BY <1>1, <1>2, <1>3, <1>4, <1>5, <1>6, <1>7, <1>8, <1>9, <1>10, <1>11,
     <1>12 DEF Next, Request, HandlerStep, JobStep

\* A document being deleted is out of memory, and a Create that puts one with
\* its id there makes the second one of that id.
LEMMA DeletingStep == IInv /\ [Next]_vars => DeletingGone'
<1> SUFFICES ASSUME IInv, [Next]_vars PROVE DeletingGone'
  OBVIOUS
<1> USE DEF IInv, TypeOK, DeletingGone, Departed, Removing
<1>1. ASSUME NEW h \in Handlers, NEW d \in Docs, Create(h, d)
      PROVE  DeletingGone'
  BY <1>1 DEF Create, HandOut, Add
<1>2. ASSUME NEW h \in Handlers, NEW d \in Docs, Update(h, d)
      PROVE  DeletingGone'
  BY <1>2 DEF Update
<1>3. ASSUME NEW h \in Handlers, NEW d \in Docs,
             NEW how \in {"removeSync", "removeAsync"}, Remove(h, d, how)
      PROVE  DeletingGone'
  BY <1>3 DEF Remove, LiveKnown
<1>4. ASSUME NEW h \in Handlers, NEW j \in Jobs, Persist(h, j)
      PROVE  DeletingGone'
  BY <1>4 DEF Persist, AfterPersist
<1>5. ASSUME NEW j \in Jobs, JobStep(j) PROVE DeletingGone'
  BY <1>5 DEF JobStep, Marshal, Upsert, UpsertFails
<1>6. ASSUME NEW h \in Handlers, DeleteSync(h) PROVE DeletingGone'
  BY <1>6 DEF DeleteSync
<1>7. ASSUME NEW h \in Handlers, DeleteAsync(h) PROVE DeletingGone'
  BY <1>7 DEF DeleteAsync
<1>8. ASSUME NEW d \in Docs, Purge(d) PROVE DeletingGone'
  BY <1>8 DEF Purge
<1>9. ASSUME Restart PROVE DeletingGone'
  BY <1>9 DEF Restart
<1>10. ASSUME UNCHANGED vars PROVE DeletingGone'
  BY <1>10 DEF vars
<1> QED
  BY <1>1, <1>2, <1>3, <1>4, <1>5, <1>6, <1>7, <1>8, <1>9, <1>10
  DEF Next, Request, HandlerStep

-----------------------------------------------------------------------------
\* A document in memory keeps a row, a goroutine or a pending snapshot: an
\* upsert leaves a row where it drops its hold, and a DELETE only reaches
\* documents that left memory.
LEMMA NotForgottenStep == IInv /\ [Next]_vars => NotForgotten'
<1> SUFFICES ASSUME IInv, [Next]_vars, faults' = 0, NEW e \in live' \ twice'
             PROVE  \/ rows'[e] > 0
                    \/ Held(e)'
                    \/ \E h \in Handlers : pc'[h] \in Snapshotting
  BY DEF NotForgotten
<1> DEFINE Kept == \/ rows'[e] > 0
                   \/ Held(e)'
                   \/ \E h \in Handlers : pc'[h] \in Snapshotting
<1> USE DEF IInv, TypeOK, Snapshotting
<1>1. ASSUME NEW h \in Handlers, NEW d \in Docs, Create(h, d) PROVE Kept
  <2>1. CASE d \in live
    BY <1>1, <2>1 DEF Create, HandOut, Add, NotForgotten, Held
  <2>2. CASE d \notin live
    BY <1>1, <2>2 DEF Create, Add
  <2> QED BY <2>1, <2>2
<1>2. ASSUME NEW h \in Handlers, NEW d \in Docs, Update(h, d) PROVE Kept
  BY <1>2 DEF Update
<1>3. ASSUME NEW h \in Handlers, NEW d \in Docs,
             NEW how \in {"removeSync", "removeAsync"}, Remove(h, d, how)
      PROVE  Kept
  BY <1>3 DEF Remove
<1>4. ASSUME NEW h \in Handlers, NEW j \in Jobs, Persist(h, j) PROVE Kept
  BY <1>4 DEF Persist, Snapshot, Held
<1>5. ASSUME NEW j \in Jobs, NEW d \in Docs, Marshal(j, d) PROVE Kept
  <2>1. \A k \in Jobs : job'[k].todo = job[k].todo
    BY <1>5 DEF Marshal, Marshalled, JobType
  <2> QED BY <1>5, <2>1 DEF Marshal, NotForgotten, Held
<1>6. ASSUME NEW j \in Jobs, Upsert(j) PROVE Kept
  <2>1. e \in live /\ faults = 0
    BY <1>6 DEF Upsert
  <2>2. CASE e = job[j].doc
    <3>1. rows'[e] = job[j].raw
      BY <1>6, <2>1, <2>2 DEF Upsert
    <3> QED BY <1>6, <2>2, <3>1 DEF Upsert, WritingKnown
  <2>3. CASE e # job[j].doc
    <3>1. rows'[e] = rows[e]
      BY <1>6, <2>1, <2>3 DEF Upsert
    <3>2. Held(e) => Held(e)'
      BY <1>6, <2>3 DEF Upsert, Written, Held
    <3> QED BY <1>6, <2>1, <3>1, <3>2 DEF Upsert, NotForgotten
  <2> QED BY <2>2, <2>3
<1>7. ASSUME NEW j \in Jobs, UpsertFails(j) PROVE Kept
  BY <1>7 DEF UpsertFails
<1>8. ASSUME NEW h \in Handlers, DeleteSync(h) PROVE Kept
  <2>1. e # arg[h]
    BY <1>8 DEF DeleteSync, DeletingGone, Departed, Removing
  <2>2. rows'[e] = rows[e]
    BY <1>8, <2>1 DEF DeleteSync
  <2>3. e \in live \ twice /\ faults = 0 /\ Held(e)' = Held(e)
    BY <1>8 DEF DeleteSync, Held
  <2>4. \A k \in Handlers : pc[k] \in Snapshotting => pc'[k] \in Snapshotting
    BY <1>8 DEF DeleteSync
  <2> QED BY <2>2, <2>3, <2>4 DEF NotForgotten
<1>9. ASSUME NEW h \in Handlers, DeleteAsync(h) PROVE Kept
  BY <1>9 DEF DeleteAsync, NotForgotten, Held
<1>10. ASSUME NEW d \in Docs, Purge(d) PROVE Kept
  <2>1. e # d
    BY <1>10 DEF Purge, DeletingGone, Departed
  <2>2. rows'[e] = rows[e]
    BY <1>10, <2>1 DEF Purge
  <2>3. e \in live \ twice /\ faults = 0 /\ Held(e)' = Held(e) /\ pc' = pc
    BY <1>10 DEF Purge, Held
  <2> QED BY <2>2, <2>3 DEF NotForgotten
<1>11. ASSUME Restart PROVE Kept
  BY <1>11 DEF Restart, Stored
<1>12. ASSUME UNCHANGED vars PROVE Kept
  BY <1>12 DEF vars, NotForgotten, Held
<1> QED
  BY <1>1, <1>2, <1>3, <1>4, <1>5, <1>6, <1>7, <1>8, <1>9, <1>10, <1>11,
     <1>12 DEF Next, Request, HandlerStep, JobStep

\* A document in memory is stored or about to be, as it is: a change leaves a
\* snapshot due, a snapshot taken while no goroutine runs holds what memory
\* holds, and a DELETE only reaches documents that left memory.
LEMMA ConvergingStep == IInv /\ [Next]_vars => Converging'
<1> SUFFICES ASSUME IInv, [Next]_vars, clean', NEW e \in live' \ twice',
                    \A h \in Handlers : pc'[h] \notin Snapshotting
             PROVE  /\ \A j \in Jobs : e \in job'[j].todo => Fresh(j, e)'
                    /\ rows'[e] = obj'[e] \/ Held(e)'
  BY DEF Converging
<1> DEFINE Agrees == /\ \A j \in Jobs : e \in job[j].todo => Fresh(j, e)
                     /\ rows[e] = obj[e] \/ Held(e)
           Agreed == /\ \A j \in Jobs : e \in job'[j].todo => Fresh(j, e)'
                     /\ rows'[e] = obj'[e] \/ Held(e)'
<1> USE DEF IInv, TypeOK, Snapshotting
<1>1. ASSUME NEW h \in Handlers, NEW d \in Docs, Create(h, d) PROVE Agreed
  <2>1. pc' = pc /\ obj' = obj /\ live' = live /\ made' = made
    BY <1>1 DEF Create, Add
  <2>2. Agrees
    BY <1>1, <2>1 DEF Create, HandOut, Converging
  <2> QED BY <1>1, <2>1, <2>2 DEF Create, Fresh, Held
<1>2. ASSUME NEW h \in Handlers, NEW d \in Docs, Update(h, d) PROVE Agreed
  BY <1>2 DEF Update
<1>3. ASSUME NEW h \in Handlers, NEW d \in Docs,
             NEW how \in {"removeSync", "removeAsync"}, Remove(h, d, how)
      PROVE  Agreed
  BY <1>3 DEF Remove
<1>4. ASSUME NEW h \in Handlers, NEW j \in Jobs, Persist(h, j) PROVE Agreed
  <2>1. \A k \in Jobs \ {j} : job'[k].todo = {}
    BY <1>4 DEF Persist, Running
  <2>2. job'[j] = Snapshot /\ e \in live
    BY <1>4 DEF Persist
  <2>3. Fresh(j, e)'
    BY <1>4, <2>2 DEF Persist, Snapshot, Fresh
  <2>4. Held(e)'
    BY <2>2 DEF Snapshot, Held
  <2> QED BY <2>1, <2>3, <2>4
<1>5. ASSUME NEW j \in Jobs, NEW d \in Docs, Marshal(j, d) PROVE Agreed
  <2>1. Agrees
    BY <1>5 DEF Marshal, Converging
  <2>2. \A k \in Jobs : /\ job'[k].todo = job[k].todo
                        /\ job'[k].val = job[k].val
    BY <1>5 DEF Marshal, Marshalled, JobType
  <2>3. ASSUME NEW k \in Jobs, e \in job'[k].todo PROVE Fresh(k, e)'
    <3>1. CASE k = j /\ d = e
      BY <1>5, <2>1, <2>2, <2>3, <3>1 DEF Marshal, Marshalled, Fresh, JobType
    <3>2. CASE k = j /\ d # e
      BY <1>5, <2>1, <2>2, <2>3, <3>2 DEF Marshal, Marshalled, Fresh, JobType
    <3>3. CASE k # j
      BY <1>5, <2>1, <2>2, <2>3, <3>3 DEF Marshal, Fresh
    <3> QED BY <3>1, <3>2, <3>3
  <2> QED BY <1>5, <2>1, <2>2, <2>3 DEF Marshal, Held
<1>6. ASSUME NEW j \in Jobs, Upsert(j) PROVE Agreed
  <2>1. Agrees
    BY <1>6 DEF Upsert, Converging
  <2>2. ASSUME NEW k \in Jobs, e \in job'[k].todo PROVE Fresh(k, e)'
    BY <1>6, <2>1, <2>2 DEF Upsert, Written, Idle, Fresh, WritingKnown, JobType
  <2>3. CASE e = job[j].doc
    <3>1. rows'[e] = job[j].raw /\ job[j].raw = obj[e]
      BY <1>6, <2>1, <2>3 DEF Upsert, WritingKnown, Fresh
    <3> QED BY <1>6, <2>2, <3>1 DEF Upsert
  <2>4. CASE e # job[j].doc
    <3>1. rows'[e] = rows[e] /\ obj'[e] = obj[e]
      BY <1>6, <2>4 DEF Upsert
    <3>2. Held(e) => Held(e)'
      BY <1>6, <2>4 DEF Upsert, Written, Held
    <3> QED BY <2>1, <2>2, <3>1, <3>2
  <2> QED BY <2>3, <2>4
<1>7. ASSUME NEW j \in Jobs, UpsertFails(j) PROVE Agreed
  BY <1>7 DEF UpsertFails
<1>8. ASSUME NEW h \in Handlers, DeleteSync(h) PROVE Agreed
  <2>1. e # arg[h] /\ Agrees
    BY <1>8 DEF DeleteSync, DeletingGone, Departed, Removing, Converging
  <2>2. rows'[e] = rows[e]
    BY <1>8, <2>1 DEF DeleteSync
  <2> QED BY <1>8, <2>1, <2>2 DEF DeleteSync, Fresh, Held
<1>9. ASSUME NEW h \in Handlers, DeleteAsync(h) PROVE Agreed
  <2>1. Agrees
    BY <1>9 DEF DeleteAsync, Converging
  <2> QED BY <1>9, <2>1 DEF DeleteAsync, Fresh, Held
<1>10. ASSUME NEW d \in Docs, Purge(d) PROVE Agreed
  <2>1. e # d /\ Agrees
    BY <1>10 DEF Purge, DeletingGone, Departed, Converging
  <2>2. rows'[e] = rows[e]
    BY <1>10, <2>1 DEF Purge
  <2> QED BY <1>10, <2>1, <2>2 DEF Purge, Fresh, Held
<1>11. ASSUME Restart PROVE Agreed
  BY <1>11 DEF Restart, Idle
<1>12. ASSUME UNCHANGED vars PROVE Agreed
  BY <1>12 DEF vars, Converging, Fresh, Held
<1> QED
  BY <1>1, <1>2, <1>3, <1>4, <1>5, <1>6, <1>7, <1>8, <1>9, <1>10, <1>11,
     <1>12 DEF Next, Request, HandlerStep, JobStep

\* The strengthening is inductive.
LEMMA IInvStep == IInv /\ [Next]_vars => IInv'
<1> SUFFICES ASSUME IInv, [Next]_vars PROVE IInv'
  OBVIOUS
<1>1. TypeOK'
  BY TypeStep DEF IInv
<1>2. Known'
  BY KnownStep
<1> QED BY <1>1, <1>2, DeletingStep, NotForgottenStep,
          ConvergingStep DEF IInv, Known

LEMMA Inductive == Spec => []IInv
BY InitIInv, IInvStep, PTL DEF Spec

\* Every state of the collection is well typed, whatever the bounds.
THEOREM TypeCorrect == Spec => []TypeOK
<1>1. IInv => TypeOK
  BY DEF IInv
<1> QED BY <1>1, Inductive, PTL

\* Once every handler and goroutine has ended and no statement was refused,
\* each document in memory has a row: a restart loses none of them.
THEOREM QuietHasRowsAlways == Spec => []QuietHasRows
<1>1. IInv => QuietHasRows
  <2> SUFFICES ASSUME IInv, Quiet, faults = 0, NEW d \in live \ twice
               PROVE  d \in Stored
    BY DEF QuietHasRows
  <2>1. ~ Held(d)
    BY DEF Held, Quiet, Running
  <2>2. \A h \in Handlers : pc[h] \notin Snapshotting
    BY DEF Quiet, Snapshotting
  <2> QED BY <2>1, <2>2 DEF IInv, NotForgotten, Stored, TypeOK
<1> QED BY <1>1, Inductive, PTL

\* A goroutine that ran alone leaves the table equal to memory, whatever the
\* goroutines before it left there.
THEOREM SoloSnapshotsConverge == Spec => []SoloSnapshotConverges
<1>1. IInv => SoloSnapshotConverges
  <2> SUFFICES ASSUME IInv, Quiet, clean, NEW d \in live \ twice
               PROVE  rows[d] = obj[d]
    BY DEF SoloSnapshotConverges
  <2>1. ~ Held(d)
    BY DEF Held, Quiet, Running
  <2>2. \A h \in Handlers : pc[h] \notin Snapshotting
    BY DEF Quiet, Snapshotting
  <2> QED BY <2>1, <2>2 DEF IInv, Converging
<1> QED BY <1>1, Inductive, PTL

-----------------------------------------------------------------------------
\* The phases start unborn.
LEMMA LifeInit == Init => Life!Init
BY DEF Init, Life!Init, phase

\* Every operation but Restart moves each document along a running edge of its
\* life or not at all, unless a request makes another one under its id.
LEMMA LifeRun ==
    ASSUME IInv, Next, ~ Restart
    PROVE  Life!Run
<1>1. crashes' = crashes
  BY DEF Next, Request, HandlerStep, JobStep, Create, Update, Remove, Persist,
         Marshal, Upsert, UpsertFails, DeleteSync, DeleteAsync, Purge
<1>2. \A d \in Docs : Life!Born(d) \/ Life!Follows(d, Life!RunningEdges)
  <2> SUFFICES ASSUME NEW e \in Docs
               PROVE  Life!Born(e) \/ Life!Follows(e, Life!RunningEdges)
    OBVIOUS
  <2> DEFINE Another == e \notin live /\ e \in live' /\ made'[e] = made[e] + 1
             Same == made'[e] = made[e] /\ (e \in live' => e \in live)
  <2>1. ASSUME NEW h \in Handlers, NEW d \in Docs, Create(h, d)
        PROVE  Another \/ Same
    BY <2>1 DEF Create, Add, IInv, TypeOK
  <2>2. ASSUME UNCHANGED ids, live' \subseteq live
        PROVE  Same
    BY <2>2
  <2>3. Another \/ Same
    BY <2>1, <2>2
    DEF Next, Request, HandlerStep, JobStep, Update, Remove, Persist, Marshal,
        Upsert, UpsertFails, DeleteSync, DeleteAsync, Purge
  <2>4. ASSUME e \in minted \ live, rows[e] = 0, ~ Held(e)
        PROVE  rows'[e] = 0 /\ ~ Held(e)'
    <3> USE DEF IInv, TypeOK, Held
    <3>1. ASSUME NEW h \in Handlers, Request(h) PROVE rows' = rows /\ job' = job
      BY <3>1 DEF Request, Create, Update, Remove
    <3>2. ASSUME NEW h \in Handlers, NEW j \in Jobs, Persist(h, j)
          PROVE  rows'[e] = 0 /\ ~ Held(e)'
      BY <2>4, <3>2 DEF Persist, Snapshot
    <3>3. ASSUME NEW j \in Jobs, NEW d \in Docs, Marshal(j, d)
          PROVE  rows'[e] = 0 /\ ~ Held(e)'
      <4>1. \A k \in Jobs : job'[k].todo = job[k].todo
        BY <3>3 DEF Marshal, Marshalled, JobType
      <4> QED BY <2>4, <3>3, <4>1 DEF Marshal
    <3>4. ASSUME NEW j \in Jobs, Upsert(j) PROVE rows'[e] = 0 /\ ~ Held(e)'
      <4>1. e # job[j].doc
        BY <2>4, <3>4 DEF Upsert, WritingKnown
      <4>2. rows'[e] = 0
        BY <2>4, <3>4, <4>1 DEF Upsert
      <4>3. ~ Held(e)'
        BY <2>4, <3>4 DEF Upsert, Written, Idle
      <4> QED BY <4>2, <4>3
    <3>5. ASSUME NEW j \in Jobs, UpsertFails(j)
          PROVE  rows'[e] = 0 /\ ~ Held(e)'
      BY <2>4, <3>5 DEF UpsertFails, Idle
    <3>6. ASSUME NEW h \in Handlers, DeleteSync(h) \/ DeleteAsync(h)
          PROVE  rows'[e] = 0 /\ ~ Held(e)'
      BY <2>4, <3>6 DEF DeleteSync, DeleteAsync
    <3>7. ASSUME NEW d \in Docs, Purge(d) PROVE rows'[e] = 0 /\ ~ Held(e)'
      BY <2>4, <3>7 DEF Purge
    <3> QED BY <2>4, <3>1, <3>2, <3>3, <3>4, <3>5, <3>6, <3>7
            DEF Next, HandlerStep, JobStep
  <2>5. rows[e] \in Nat /\ rows'[e] \in Nat
    BY TypeStep DEF IInv, TypeOK
  <2>6. made[e] \in Nat /\ (e \in live => made[e] > 0)
    BY DEF IInv, TypeOK, LiveKnown
  <2>7. CASE Another
    BY <2>6, <2>7 DEF phase, Life!Born
  <2>8. CASE Same
    BY <2>4, <2>5, <2>6, <2>8 DEF phase, Life!Follows, Life!RunningEdges
  <2> QED BY <2>3, <2>7, <2>8
<1>3. phase' \in [Docs -> Life!Phases]
  BY DEF phase, Life!Phases
<1> QED BY <1>1, <1>2, <1>3 DEF Life!Run

\* A restart brings back what has a row and loses the rest.
LEMMA LifeRestart == ASSUME IInv, Restart PROVE Life!Restart
<1>1. \A d \in Docs : Life!Follows(d, Life!RestartEdges)
  <2> SUFFICES ASSUME NEW e \in Docs
               PROVE  Life!Follows(e, Life!RestartEdges)
    OBVIOUS
  <2>1. UNCHANGED <<made, rows>> /\ live' = Stored
    BY DEF Restart
  <2>2. ~ Held(e)'
    BY DEF Restart, Held, Idle
  <2>3. e \in Stored => made[e] > 0
    BY DEF Stored, IInv, RowsKnown
  <2>4. /\ rows[e] \in Nat /\ made[e] \in Nat
        /\ e \in Stored <=> rows[e] > 0
    BY DEF Stored, IInv, TypeOK
  <2> QED BY <2>1, <2>2, <2>3, <2>4
          DEF phase, Life!Follows, Life!RestartEdges
<1>2. phase' \in [Docs -> Life!Phases]
  BY DEF phase, Life!Phases
<1> QED BY <1>1, <1>2 DEF Life!Restart, Restart

\* The collection implements the life of its documents: nothing that is gone
\* comes back, only a restart brings back what is leaving, and an id has another
\* document only when a request makes one.
THEOREM Refinement == Spec => ImplementsDocLife
<1>1. IInv /\ [Next]_vars => [Life!Run \/ Life!Restart]_<<phase, made, crashes>>
  <2> SUFFICES ASSUME IInv, [Next]_vars
               PROVE  [Life!Run \/ Life!Restart]_<<phase, made, crashes>>
    OBVIOUS
  <2>1. CASE Restart
    BY <2>1, LifeRestart
  <2>2. CASE Next /\ ~ Restart
    BY <2>2, LifeRun
  <2>3. CASE UNCHANGED vars
    BY <2>3 DEF vars, phase, Held
  <2> QED BY <2>1, <2>2, <2>3
<1> QED BY <1>1, LifeInit, Inductive, PTL DEF Spec, ImplementsDocLife, Life!Spec
=============================================================================
