------------------------- MODULE DurableCollection -------------------------
(***************************************************************************)
(* One durable collection of the control plane: the slice (or map) of      *)
(* documents the Store keeps in memory under its lock, the table the       *)
(* documents are written to (platform.kv_documents, or a kernel table such *)
(* as collab.sessions), and the goroutines that copy one to the other.     *)
(*                                                                         *)
(* A request handler changes memory under Store.Lock, unlocks, takes a     *)
(* snapshot (Store.Persist) and leaves a goroutine to write it: one        *)
(* json.Marshal and one autocommitted INSERT ... ON CONFLICT DO UPDATE per *)
(* document (KVStore.UpsertMany, KernelStore.upsertSessions).  Nothing     *)
(* orders two of those goroutines.  An upsert never removes a row, so a    *)
(* hard delete also runs a DELETE, either before the handler answers       *)
(* (PersistDeleteSync) or in a goroutine of its own (PersistDelete).       *)
(* A restart reads the table back (HydrateFrom).                           *)
(*                                                                         *)
(* A document is an id and a version: the number of times a handler wrote  *)
(* it.  Ids come from a counter of the process (Store.ID), which starts    *)
(* again at a restart, or from the request itself (createSession takes the *)
(* id of its body, touchSessionLocked that of the conversation a stream    *)
(* still serves); both are compared with the documents in memory only.     *)
(* Another document may so be made under the id of one that is no longer   *)
(* in memory; the versions of the two are not told apart here.             *)
(***************************************************************************)
EXTENDS Naturals, FiniteSets

CONSTANTS Docs,        \* document ids
          NoDoc,       \* no document
          Handlers,    \* requests being served
          Jobs,        \* persist goroutines that may be in flight at once
          MaxVersion,  \* bound: writes of one document
          MaxMade,     \* bound: documents made under one id
          MaxFaults,   \* bound: statements the database refuses
          MaxCrashes,  \* bound: restarts of the process
          Named,       \* TRUE when the request may name the id (sessions,
                       \* conversations); FALSE when Store.ID gives it
          Copied       \* TRUE when snapshotLocked copies the documents
                       \* (actions, model_secrets); FALSE when the snapshot
                       \* shares the live maps (sessions, tasks, employees)

ASSUME BoundsAssumption ==
    /\ NoDoc \notin Docs
    /\ MaxVersion \in Nat \ {0}
    /\ MaxMade \in Nat \ {0}
    /\ MaxFaults \in Nat
    /\ MaxCrashes \in Nat
    /\ Named \in BOOLEAN
    /\ Copied \in BOOLEAN

VARIABLES
    live,     \* ids of the documents in memory
    obj,      \* obj[d]: version of the map object of document d
    made,     \* made[d]: documents made under the id d so far
    handed,   \* ids Store.ID handed out since the last restart
    clashed,  \* ids it handed out while a document in memory had them
    rows,     \* rows[d]: version stored in the table, 0 when there is no row
    job,      \* job[j]: what persist goroutine j holds
    purge,    \* ids of the DELETEs running in goroutines (PersistDelete)
    pc, arg,  \* handler h: where it stands, and the document it works on
    removed,  \* ids whose removal was answered to the client
    clean,    \* no two persist goroutines overlapped, and none failed, since
              \* the last one that started alone
    faults, crashes

ids == <<made, handed, clashed>>
vars == <<live, obj, ids, rows, job, purge, pc, arg, removed, clean,
          faults, crashes>>

Versions == 0 .. MaxVersion

\* A goroutine: the documents of its snapshot not written yet, their versions
\* if the snapshot copied them, and the document marshalled but not yet sent.
JobType == [todo : SUBSET Docs, val : [Docs -> Versions],
            doc : Docs \cup {NoDoc}, raw : Versions]
NoVersion == [d \in Docs |-> 0]
Idle == [todo |-> {}, val |-> NoVersion, doc |-> NoDoc, raw |-> 0]

\* Ids documents were made under, and those that had more than one.
minted == {d \in Docs : made[d] > 0}
twice == {d \in Docs : made[d] > 1}

Running(j) == job[j].todo # {}
Quiet == /\ \A j \in Jobs : ~ Running(j)
         /\ \A h \in Handlers : pc[h] = "idle"
         /\ purge = {}

TypeOK ==
    /\ live \subseteq Docs
    /\ obj \in [Docs -> Versions]
    /\ made \in [Docs -> 0 .. MaxMade]
    /\ handed \subseteq Docs
    /\ clashed \subseteq Docs
    /\ rows \in [Docs -> Versions]
    /\ job \in [Jobs -> JobType]
    /\ purge \subseteq Docs
    /\ pc \in [Handlers -> {"idle", "persist", "removeSync", "removeAsync",
                            "deleteSync", "deleteAsync"}]
    /\ arg \in [Handlers -> Docs \cup {NoDoc}]
    /\ removed \subseteq Docs
    /\ clean \in BOOLEAN
    /\ faults \in 0 .. MaxFaults
    /\ crashes \in 0 .. MaxCrashes

Init ==
    /\ live = {}
    /\ obj = NoVersion
    /\ made = [d \in Docs |-> 0]
    /\ handed = {}
    /\ clashed = {}
    /\ rows = NoVersion
    /\ job = [j \in Jobs |-> Idle]
    /\ purge = {}
    /\ pc = [h \in Handlers |-> "idle"]
    /\ arg = [h \in Handlers |-> NoDoc]
    /\ removed = {}
    /\ clean = TRUE
    /\ faults = 0
    /\ crashes = 0

(***************************************************************************)
(* Handlers, up to the point where they release Store.Lock                 *)
(***************************************************************************)
\* A request with the id of a document in memory is answered with that
\* document.
Add(h, d) == \/ /\ d \in live
                /\ UNCHANGED <<live, obj, made, pc>>
             \/ /\ d \notin live
                /\ made[d] < MaxMade
                /\ made' = [made EXCEPT ![d] = @ + 1]
                /\ live' = live \cup {d}
                /\ obj' = [obj EXCEPT ![d] = 1]
                /\ pc' = [pc EXCEPT ![h] = "persist"]

\* The next id of Store.ID; a request that names the id may name any,
\* whatever document had it, those of Store.ID among them.
HandOut(d) == \/ /\ Named
                 /\ UNCHANGED <<handed, clashed>>
              \/ /\ ~ Named
                 /\ d \notin handed
                 /\ handed' = handed \cup {d}
                 /\ clashed' = clashed \cup ({d} \cap live)

Create(h, d) ==
    /\ pc[h] = "idle"
    /\ HandOut(d)
    /\ Add(h, d)
    /\ UNCHANGED <<rows, job, purge, arg, removed, clean, faults, crashes>>

\* Mutation of Update: the handler puts back the document it had found, which
\* was removed in the meantime.
UpdatePutsBack(h, d) ==
    /\ pc[h] = "idle"
    /\ d \in minted
    /\ obj[d] < MaxVersion
    /\ obj' = [obj EXCEPT ![d] = @ + 1]
    /\ live' = live \cup {d}
    /\ pc' = [pc EXCEPT ![h] = "persist"]
    /\ UNCHANGED <<ids, rows, job, purge, arg, removed, clean, faults, crashes>>

Update(h, d) ==
    /\ pc[h] = "idle"
    /\ d \in live
    /\ obj[d] < MaxVersion
    /\ obj' = [obj EXCEPT ![d] = @ + 1]
    /\ pc' = [pc EXCEPT ![h] = "persist"]
    /\ UNCHANGED <<live, ids, rows, job, purge, arg, removed, clean, faults,
                   crashes>>

Remove(h, d, how) ==
    /\ pc[h] = "idle"
    /\ d \in live
    /\ live' = live \ {d}
    /\ pc' = [pc EXCEPT ![h] = how]
    /\ arg' = [arg EXCEPT ![h] = d]
    /\ UNCHANGED <<obj, ids, rows, job, purge, removed, clean, faults,
                   crashes>>

(***************************************************************************)
(* Store.Persist: the snapshot is taken under RLock, after other handlers  *)
(* may have run, and its writing is left to goroutine j.  The handler of a *)
(* create or an update then answers; that of a removal still has to delete.*)
(***************************************************************************)
\* Mutation of AfterPersist: the removals share one untagged continuation.
AfterPersistUntagged(h) == IF pc[h] = "persist" THEN "idle" ELSE "delete"

AfterPersist(h) == CASE pc[h] = "persist" -> "idle"
                     [] pc[h] = "removeSync" -> "deleteSync"
                     [] pc[h] = "removeAsync" -> "deleteAsync"

Snapshot == [todo |-> live, doc |-> NoDoc, raw |-> 0,
             val |-> [d \in Docs |-> IF Copied /\ d \in live THEN obj[d] ELSE 0]]

Persist(h, j) ==
    /\ pc[h] \in {"persist", "removeSync", "removeAsync"}
    /\ ~ Running(j)
    /\ job' = [job EXCEPT ![j] = Snapshot]
    /\ clean' = \A k \in Jobs : ~ Running(k)
    /\ pc' = [pc EXCEPT ![h] = AfterPersist(h)]
    /\ UNCHANGED <<live, obj, ids, rows, purge, arg, removed, faults, crashes>>

(***************************************************************************)
(* The goroutine: for each document of the snapshot, json.Marshal reads    *)
(* its map (the live one unless the snapshot copied it), then the INSERT   *)
(* is sent.  A refused statement ends the goroutine with the rest of the   *)
(* snapshot unwritten.                                                     *)
(***************************************************************************)
Marshalled(g, d) == [g EXCEPT !.doc = d,
                              !.raw = IF Copied THEN g.val[d] ELSE obj[d]]

Marshal(j, d) ==
    /\ job[j].doc = NoDoc
    /\ d \in job[j].todo
    /\ job' = [job EXCEPT ![j] = Marshalled(job[j], d)]
    /\ UNCHANGED <<live, obj, ids, rows, purge, pc, arg, removed, clean,
                   faults, crashes>>

\* Mutation of Written: the loop over the snapshot returns after one document.
WrittenReturns(g) == Idle

Written(g) == IF g.todo = {g.doc} THEN Idle
              ELSE [todo |-> g.todo \ {g.doc}, val |-> g.val,
                    doc |-> NoDoc, raw |-> 0]

\* Mutation of Upsert: ON CONFLICT DO NOTHING in place of DO UPDATE.
UpsertDoesNothing(j) ==
    /\ job[j].doc # NoDoc
    /\ rows' = [rows EXCEPT ![job[j].doc] = IF @ = 0 THEN job[j].raw ELSE @]
    /\ job' = [job EXCEPT ![j] = Written(job[j])]
    /\ UNCHANGED <<live, obj, ids, purge, pc, arg, removed, clean, faults,
                   crashes>>

Upsert(j) ==
    /\ job[j].doc # NoDoc
    /\ rows' = [rows EXCEPT ![job[j].doc] = job[j].raw]
    /\ job' = [job EXCEPT ![j] = Written(job[j])]
    /\ UNCHANGED <<live, obj, ids, purge, pc, arg, removed, clean, faults,
                   crashes>>

UpsertFails(j) ==
    /\ job[j].doc # NoDoc
    /\ faults < MaxFaults
    /\ faults' = faults + 1
    /\ job' = [job EXCEPT ![j] = Idle]
    /\ clean' = FALSE
    /\ UNCHANGED <<live, obj, ids, rows, purge, pc, arg, removed, crashes>>

(***************************************************************************)
(* PersistDeleteSync: the handler waits for the DELETE, logs an error and  *)
(* answers.  PersistDelete: the handler answers, a goroutine deletes.      *)
(***************************************************************************)
DeleteSync(h) ==
    /\ pc[h] = "deleteSync"
    /\ \/ /\ rows' = [rows EXCEPT ![arg[h]] = 0]
          /\ UNCHANGED faults
       \/ /\ faults < MaxFaults
          /\ faults' = faults + 1
          /\ UNCHANGED rows
    /\ removed' = removed \cup {arg[h]}
    /\ pc' = [pc EXCEPT ![h] = "idle"]
    /\ arg' = [arg EXCEPT ![h] = NoDoc]
    /\ UNCHANGED <<live, obj, ids, job, purge, clean, crashes>>

DeleteAsync(h) ==
    /\ pc[h] = "deleteAsync"
    /\ purge' = purge \cup {arg[h]}
    /\ removed' = removed \cup {arg[h]}
    /\ pc' = [pc EXCEPT ![h] = "idle"]
    /\ arg' = [arg EXCEPT ![h] = NoDoc]
    /\ UNCHANGED <<live, obj, ids, rows, job, clean, faults, crashes>>

Purge(d) ==
    /\ d \in purge
    /\ purge' = purge \ {d}
    /\ \/ /\ rows' = [rows EXCEPT ![d] = 0]
          /\ UNCHANGED faults
       \/ /\ faults < MaxFaults
          /\ faults' = faults + 1
          /\ UNCHANGED rows
    /\ UNCHANGED <<live, obj, ids, job, pc, arg, removed, clean, crashes>>

(***************************************************************************)
(* The process stops at any point, goroutines included (a graceful         *)
(* shutdown does not wait for them either), and starts again from the      *)
(* table.  HydrateFrom moves the counter of ids past those of skills and   *)
(* memory audits only.                                                     *)
(***************************************************************************)
Stored == {d \in Docs : rows[d] > 0}

Restart ==
    /\ crashes < MaxCrashes
    /\ crashes' = crashes + 1
    /\ live' = Stored
    /\ obj' = rows
    /\ job' = [j \in Jobs |-> Idle]
    /\ purge' = {}
    /\ pc' = [h \in Handlers |-> "idle"]
    /\ arg' = [h \in Handlers |-> NoDoc]
    /\ clean' = TRUE
    /\ handed' = {}
    /\ UNCHANGED <<made, clashed, rows, removed, faults>>

JobStep(j) == \/ \E d \in Docs : Marshal(j, d)
              \/ Upsert(j)
              \/ UpsertFails(j)
HandlerStep(h) == \/ \E j \in Jobs : Persist(h, j)
                  \/ DeleteSync(h)
                  \/ DeleteAsync(h)
Request(h) == \E d \in Docs : \/ Create(h, d)
                              \/ Update(h, d)
                              \/ \E how \in {"removeSync", "removeAsync"} :
                                     Remove(h, d, how)

Next == \/ \E h \in Handlers : Request(h) \/ HandlerStep(h)
        \/ \E j \in Jobs : JobStep(j)
        \/ \E d \in Docs : Purge(d)
        \/ Restart

Spec == Init /\ [][Next]_vars

(***************************************************************************)
(* The Go scheduler runs every goroutine that can run, and the handlers of *)
(* requests already accepted; nothing makes a request or a restart happen. *)
(***************************************************************************)
Fairness == /\ \A j \in Jobs : WF_vars(JobStep(j))
            /\ \A h \in Handlers : WF_vars(HandlerStep(h))
            /\ \A d \in Docs : WF_vars(Purge(d))

LiveSpec == Spec /\ Fairness

-----------------------------------------------------------------------------
Held(d) == \E j \in Jobs : d \in job[j].todo

\* The phase of each document, for the abstract life of DocLife.
phase == [d \in Docs |-> IF d \notin minted THEN "unborn"
                        ELSE IF d \in live THEN "alive"
                        ELSE IF rows[d] > 0 \/ Held(d) THEN "leaving"
                        ELSE "gone"]

Life == INSTANCE DocLife WITH epoch <- crashes

\* A document whose removal left nothing behind, neither a row nor a goroutine
\* holding it, never comes back, not even by a restart; one that left something
\* behind comes back through a restart only (PersistDelete against the
\* goroutines of PersistCollection, then HydrateFrom).  Under either's id there
\* is a document again only when a request makes another one (createSession).
ImplementsDocLife == Life!Spec

\* With nothing in flight and every statement accepted, every document in
\* memory has a row, in whatever order the goroutines of PersistCollection ran,
\* unless it shares its id with one whose DELETE may reach it.
QuietHasRows == Quiet /\ faults = 0 => live \ twice \subseteq Stored

\* A goroutine that ran alone leaves the table equal to memory for every
\* document in memory: one quiet write repairs the rows that overlapping
\* goroutines of PersistCollection left behind.
SoloSnapshotConverges ==
    Quiet /\ clean => \A d \in live \ twice : rows[d] = obj[d]

\* Every document a handler put in memory gets a row, unless it is removed,
\* shares its id with another one or the process stops before the goroutine of
\* PersistCollection writes it.
EventuallyStored ==
    \A d \in Docs : d \in live ~> (d \in Stored \cup twice \/ d \notin live)

\* Violated.  What the comment of PersistDeleteSync asks: a document whose
\* deletion was answered is not in memory after a restart.
RemovedStaysRemoved == removed \cap live \subseteq twice

\* Violated.  What the comment of BumpSeqFromPrefixedIDs asks of a restart: the
\* counter of ids is past those of the documents there are, so that no creation
\* is handed the id of one of them.
IdsNameOneDocument == clashed = {}
=============================================================================
