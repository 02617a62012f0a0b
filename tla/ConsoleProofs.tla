---------------------------- MODULE ConsoleProofs ----------------------------
(***************************************************************************)
(* The governed domains of the console, where somebody decides what takes  *)
(* effect: tasks, access, employees, channels, models, memory,             *)
(* orchestration, workflows, knowledge and skills; and the pages and       *)
(* delivery tools that show and report what was decided elsewhere.  They   *)
(* share no table, so a behaviour is about one of them.  GovernanceProofs  *)
(* brings the theorems of access, workflows, knowledge, skills, tasks and  *)
(* employees, PageProofs those of the pages; what the others keep is       *)
(* proved here: a candidate of self-evolution takes effect once and under  *)
(* two signatures, a memory waits behind one candidate, a dead letter is   *)
(* delivered again once, a generation of a workflow is applied once, and   *)
(* no policy was put in force unchecked.                                   *)
(***************************************************************************)
EXTENDS ConsoleApi, FiniteSetTheorems, SequenceTheorems, TLAPS

CONSTANTS
    MemoryRows,       \* bound: memories and candidates of self-evolution
    MemoryRequests,   \* bound: requests of the memory pages
    ChannelRequests,  \* bound: requests of the channel pages
    DecisionRequests, \* bound: the requests about one message
    HistoryLimit,     \* bound of the undo stack, 50 in the page
    MaxCaptures,      \* bound: how often a device is asked for
    MediaKept,        \* the attachments the composer keeps: 4 on the page
    Procs,            \* the processes of a delivery
    Deliverers,       \* those of them that deliver
    MaxRuns           \* bound: the commands that are ever started

\* There is something to undo, and a delivery is one process's.
ASSUME PagesAssumption ==
    /\ HistoryLimit \in Nat \ {0} /\ MaxCaptures \in Nat
    /\ MaxRuns \in Nat \ {0} /\ \A p, q \in Deliverers : p = q

Memory == INSTANCE MemoryDomain WITH MaxRows <- MemoryRows, MaxRequests <- MemoryRequests, Actors <- {"u1", "u3"}
Channels == INSTANCE ChannelDomain WITH MaxRequests <- ChannelRequests, Actors <- {"u1"}
Orch == INSTANCE OrchestrationDomain WITH Actors <- {"u1", "u2"}

-----------------------------------------------------------------------------
(* Self-evolution. *)

Accounts == Memory!Users

\* What two signatures mean for a candidate: the first is an administrator's,
\* and nothing takes effect while one is missing.
Signed(e) ==
    /\ e.effects <= 1
    /\ e.status \in {"pending_review", "pending_countersign"} => e.effects = 0
    /\ e.kind = "skill_patch" =>
          /\ e.status = "pending_review" => e.signers = <<>>
          /\ e.status = "pending_countersign" => Len(e.signers) = 1 /\ Memory!isAdministrator(e.signers[1])
          /\ e.effects > 0 =>
                /\ Len(e.signers) = 2 /\ e.signers[1] # e.signers[2]
                /\ Memory!isAdministrator(e.signers[1])

SignedCandidate == {e \in Memory!EvolveCandidate : Signed(e)}

MemoryShape(d) == d = [records |-> d.records, candidates |-> d.candidates, evolve |-> d.evolve, policy |-> d.policy]

MemoryData == MemoryShape(db) /\ db.evolve \in Seq(SignedCandidate)

RequestsByAccounts ==
    /\ net = [out |-> net.out, made |-> net.made]
    /\ \A r \in Memory!BagToSet(net.out) : r.by \in Accounts

MemoryInv == MemoryData /\ RequestsByAccounts

\* A finite set as a sequence: every element once.
LEMMA SetAsSeq ==
    ASSUME NEW S, IsFiniteSet(S)
    PROVE  /\ Memory!SetToSeq(S) \in Seq(S)
           /\ \A i, j \in DOMAIN Memory!SetToSeq(S) : Memory!SetToSeq(S)[i] = Memory!SetToSeq(S)[j] => i = j
<1> DEFINE n == Cardinality(S)
<1>1. Memory!Cardinality(S) = n
  BY DEF Memory!Cardinality, Cardinality
<1>2. n \in Nat /\ \E f \in [1..n -> S] : Memory!IsInjective(f)
  <2>1. n \in Nat /\ ExistsBijection(1..n, S)
    BY FS_CardinalityType
  <2> HIDE DEF n
  <2>2. PICK f : f \in Bijection(1..n, S)
    BY <2>1 DEF ExistsBijection
  <2>3. f \in [1..n -> S] /\ Memory!IsInjective(f)
    BY <2>2 DEF Bijection, Injection, IsInjective, Memory!IsInjective
  <2> QED BY <2>1, <2>3
<1> HIDE DEF n
<1>3. Memory!SetToSeq(S) \in [1..n -> S] /\ Memory!IsInjective(Memory!SetToSeq(S))
  BY <1>1, <1>2 DEF Memory!SetToSeq
<1>4. [1..n -> S] \subseteq Seq(S)
  <2>1. [1..n -> S] \subseteq UNION {[1..k -> S] : k \in Nat}
    BY <1>2
  <2> QED BY <2>1, SeqDef, Zenon
<1> QED BY <1>3, <1>4 DEF Memory!IsInjective

LEMMA OneAsSeq ==
    ASSUME NEW c, NEW S \in SUBSET {c}
    PROVE  Memory!SetToSeq(S) \in Seq({c})
<1>1. IsFiniteSet(S)
  BY FS_Singleton, FS_Subset
<1>2. Memory!SetToSeq(S) \in Seq(S)
  BY <1>1, SetAsSeq
<1> QED BY <1>2, SeqMonotonic

LEMMA EvolveKept ==
    ASSUME MemoryData, MemoryShape(db'), db'.evolve = db.evolve
    PROVE  MemoryData'
BY DEF MemoryData, MemoryShape

\* One candidate changes; a request about none changes nothing.
LEMMA EvolveReplaced ==
    ASSUME MemoryData, NEW c, NEW e, c \in DOMAIN db.evolve => e \in SignedCandidate,
           MemoryShape(db'), db'.evolve = [db.evolve EXCEPT ![c] = e]
    PROVE  MemoryData'
<1>1. db.evolve \in Seq(SignedCandidate) /\ DOMAIN db.evolve = 1..Len(db.evolve) /\ Len(db.evolve) \in Nat
  BY DEF MemoryData
<1>2. [db.evolve EXCEPT ![c] = e] \in Seq(SignedCandidate)
  <2>1. CASE c \in DOMAIN db.evolve
    BY <1>1, <2>1, ExceptSeq
  <2>2. CASE c \notin DOMAIN db.evolve
    <3>1. [db.evolve EXCEPT ![c] = e] = db.evolve
      BY <1>1, <2>2
    <3> QED BY <1>1, <3>1
  <2> QED BY <2>1, <2>2
<1> QED BY <1>2 DEF MemoryData, MemoryShape

LEMMA CandidateTyped ==
    ASSUME MemoryData, NEW c \in DOMAIN db.evolve
    PROVE  db.evolve[c] \in Memory!EvolveCandidate /\ Signed(db.evolve[c])
<1>1. db.evolve[c] \in SignedCandidate
  BY ElementOfSeq DEF MemoryData
<1> QED BY <1>1 DEF SignedCandidate

LEMMA RejectKeeps ==
    ASSUME MemoryData, NEW r, Memory!reject(r)
    PROVE  MemoryData'
<1> DEFINE old == db.evolve[r.seen]
           e == [old EXCEPT !.status = "rejected"]
<1>1. CASE db' = db
  BY <1>1, EvolveKept DEF MemoryData
<1>2. CASE db' # db
  <2>1. MemoryShape(db') /\ db'.evolve = [db.evolve EXCEPT ![r.seen] = e]
    BY <1>2 DEF Memory!reject, Memory!Handle, MemoryData, MemoryShape
  <2>2. r.seen \in DOMAIN db.evolve => e \in SignedCandidate
    <3> SUFFICES ASSUME r.seen \in DOMAIN db.evolve PROVE e \in SignedCandidate
      OBVIOUS
    <3>1. old \in Memory!EvolveCandidate /\ Signed(old)
      BY CandidateTyped
    <3>2. /\ e \in Memory!EvolveCandidate /\ e.effects = old.effects /\ e.kind = old.kind
          /\ e.signers = old.signers /\ e.status = "rejected"
      BY <3>1 DEF Memory!EvolveCandidate
    <3> HIDE DEF e
    <3> QED BY <3>1, <3>2 DEF SignedCandidate, Signed
  <2> QED BY <2>1, <2>2, EvolveReplaced
<1> QED BY <1>1, <1>2

LEMMA SignKeeps ==
    ASSUME MemoryData, NEW r, r.by \in Accounts, Memory!sign(r)
    PROVE  MemoryData'
<1> DEFINE old == db.evolve[r.seen]
           signers == Append(old.signers, r.by)
           e == [old EXCEPT !.signers = signers, !.status = "pending_countersign"]
<1>1. CASE db' = db
  BY <1>1, EvolveKept DEF MemoryData
<1>2. CASE db' # db
  <2>1. Memory!isAdministrator(r.by) /\ old.status = "pending_review" /\ old.kind = "skill_patch"
    BY <1>2 DEF Memory!sign, Memory!Handle, Memory!Evolving
  <2>2. db' = [db EXCEPT !.evolve[r.seen].signers = Append(@, r.by), !.evolve[r.seen].status = "pending_countersign"]
    BY <1>2 DEF Memory!sign, Memory!Handle
  <2>3. r.seen \in DOMAIN db.evolve => e \in SignedCandidate
    <3> SUFFICES ASSUME r.seen \in DOMAIN db.evolve PROVE e \in SignedCandidate
      OBVIOUS
    <3>1. old \in Memory!EvolveCandidate /\ Signed(old)
      BY CandidateTyped
    <3>2. /\ signers \in Seq(Accounts) /\ Len(signers) = 1 /\ signers[1] = r.by
      <4>1. old.signers = <<>> /\ <<>> \in Seq(Accounts)
        BY <2>1, <3>1 DEF Signed
      <4> QED BY <4>1, AppendProperties
    <3> HIDE DEF signers
    <3>3. /\ e \in Memory!EvolveCandidate /\ e.effects = old.effects /\ e.kind = old.kind
          /\ e.signers = signers /\ e.status = "pending_countersign"
      BY <3>1, <3>2 DEF Memory!EvolveCandidate, Accounts
    <3> HIDE DEF e
    <3> QED BY <2>1, <3>1, <3>2, <3>3 DEF SignedCandidate, Signed
  <2>4. MemoryShape(db') /\ db'.evolve = [db.evolve EXCEPT ![r.seen] = e]
    BY <2>2 DEF MemoryData, MemoryShape
  <2> QED BY <2>3, <2>4, EvolveReplaced
<1> QED BY <1>1, <1>2

\* The second signature is somebody else's.
LEMMA CountersignKeeps ==
    ASSUME MemoryData, NEW r, r.by \in Accounts, Memory!countersign(r)
    PROVE  MemoryData'
<1> DEFINE old == db.evolve[r.seen]
           signers == Append(old.signers, r.by)
           effects == old.effects + 1
           e == [old EXCEPT !.signers = signers, !.effects = effects, !.status = "approved"]
<1>1. CASE db' = db
  BY <1>1, EvolveKept DEF MemoryData
<1>2. CASE db' # db
  <2>1. /\ old.status = "pending_countersign" /\ old.kind = "skill_patch"
        /\ \A i \in DOMAIN old.signers : old.signers[i] # r.by
    BY <1>2 DEF Memory!countersign, Memory!Handle, Memory!Evolving
  <2>2. db' = [db EXCEPT !.evolve[r.seen].signers = Append(@, r.by), !.evolve[r.seen].effects = @ + 1,
                         !.evolve[r.seen].status = "approved"]
    BY <1>2 DEF Memory!countersign, Memory!Handle
  <2>3. r.seen \in DOMAIN db.evolve => e \in SignedCandidate
    <3> SUFFICES ASSUME r.seen \in DOMAIN db.evolve PROVE e \in SignedCandidate
      OBVIOUS
    <3>1. old \in Memory!EvolveCandidate /\ Signed(old)
      BY CandidateTyped
    <3>2. /\ old.signers \in Seq(Accounts) /\ Len(old.signers) = 1 /\ Memory!isAdministrator(old.signers[1])
          /\ effects = 1
      BY <2>1, <3>1 DEF Signed, Memory!EvolveCandidate, Accounts
    <3>3. /\ signers \in Seq(Accounts) /\ Len(signers) = 2 /\ signers[2] = r.by
          /\ signers[1] = old.signers[1] /\ old.signers[1] # r.by
      BY <2>1, <3>2, AppendProperties
    <3> HIDE DEF signers, effects
    <3>4. /\ e \in Memory!EvolveCandidate /\ e.effects = effects /\ e.kind = old.kind
          /\ e.signers = signers /\ e.status = "approved"
      BY <3>1, <3>2, <3>3 DEF Memory!EvolveCandidate, Accounts
    <3> HIDE DEF e
    <3> QED BY <3>2, <3>3, <3>4 DEF SignedCandidate, Signed
  <2>4. MemoryShape(db') /\ db'.evolve = [db.evolve EXCEPT ![r.seen] = e]
    BY <2>2 DEF MemoryData, MemoryShape
  <2> QED BY <2>3, <2>4, EvolveReplaced
<1> QED BY <1>1, <1>2

LEMMA PromoteKeeps ==
    ASSUME MemoryData, NEW r, Memory!promote(r)
    PROVE  MemoryData'
<1> DEFINE old == db.evolve[r.seen]
           effects == old.effects + 1
           e == [old EXCEPT !.effects = effects, !.status = "approved"]
<1>1. CASE db' = db
  BY <1>1, EvolveKept DEF MemoryData
<1>2. CASE db' # db
  <2>1. old.status = "pending_review" /\ old.kind = "memory_promote"
    BY <1>2 DEF Memory!promote, Memory!Handle, Memory!Evolving
  <2>2. r.seen \in DOMAIN db.evolve => e \in SignedCandidate
    <3> SUFFICES ASSUME r.seen \in DOMAIN db.evolve PROVE e \in SignedCandidate
      OBVIOUS
    <3>1. old \in Memory!EvolveCandidate /\ Signed(old)
      BY CandidateTyped
    <3>2. effects = 1
      BY <2>1, <3>1 DEF Signed
    <3> HIDE DEF effects
    <3>3. e \in Memory!EvolveCandidate /\ e.effects = effects /\ e.kind = old.kind /\ e.status = "approved"
      BY <3>1, <3>2 DEF Memory!EvolveCandidate
    <3> HIDE DEF e
    <3> QED BY <2>1, <3>2, <3>3 DEF SignedCandidate, Signed
  <2>3. MemoryShape(db') /\ db'.evolve = [db.evolve EXCEPT ![r.seen] = e]
    BY <1>2 DEF Memory!promote, Memory!Handle, MemoryData, MemoryShape
  <2> QED BY <2>2, <2>3, EvolveReplaced
<1> QED BY <1>1, <1>2

\* New candidates go to the end.
LEMMA EvolveAppended ==
    ASSUME MemoryData, NEW news \in Seq(SignedCandidate), MemoryShape(db'), db'.evolve = db.evolve \o news
    PROVE  MemoryData'
<1>1. db.evolve \o news \in Seq(SignedCandidate)
  BY ConcatProperties DEF MemoryData
<1> QED BY <1>1 DEF MemoryData, MemoryShape

LEMMA PendingSigned ==
    ASSUME NEW kind \in Memory!EvolveKinds
    PROVE  Memory!EvolvePending(kind) \in SignedCandidate
BY DEF Memory!EvolvePending, SignedCandidate, Signed, Memory!EvolveCandidate

LEMMA FeedbackKeeps ==
    ASSUME MemoryData, NEW r, Memory!feedback(r)
    PROVE  MemoryData'
<1> DEFINE kind == IF r.arg = "like" THEN "memory_promote" ELSE "skill_patch"
           e == Memory!EvolvePending(kind)
<1>1. CASE db' = db
  BY <1>1, EvolveKept DEF MemoryData
<1>2. CASE db' # db
  <2>1. kind \in Memory!EvolveKinds
    BY DEF Memory!EvolveKinds
  <2>2. e \in SignedCandidate
    BY <2>1, PendingSigned
  <2>3. MemoryShape(db') /\ db'.evolve = Append(db.evolve, e)
    BY <1>2 DEF Memory!feedback, Memory!Handle, MemoryData, MemoryShape
  <2> HIDE DEF e
  <2>4. Append(db.evolve, e) \in Seq(SignedCandidate)
    BY <2>2, AppendProperties DEF MemoryData
  <2> QED BY <2>3, <2>4 DEF MemoryData, MemoryShape
<1> QED BY <1>1, <1>2

\* A dream leaves a candidate that took effect at once, and changes no skill.
LEMMA DreamKeeps ==
    ASSUME MemoryData, NEW r, Memory!dream(r)
    PROVE  MemoryData'
<1> DEFINE e == [Memory!EvolvePending("dream") EXCEPT !.status = "applied", !.effects = 1]
           S == {e : s \in Memory!DreamSources}
<1>1. CASE db' = db
  BY <1>1, EvolveKept DEF MemoryData
<1>2. CASE db' # db
  <2>1. MemoryShape(db') /\ db'.evolve = db.evolve \o Memory!SetToSeq(S)
    BY <1>2 DEF Memory!dream, Memory!Handle, MemoryData, MemoryShape
  <2>2. e \in SignedCandidate
    <3> DEFINE old == Memory!EvolvePending("dream")
               one == 1
    <3>1. old \in Memory!EvolveCandidate /\ old.kind = "dream" /\ one \in Nat
      BY PendingSigned DEF SignedCandidate, Memory!EvolvePending, Memory!EvolveKinds
    <3>2. one = 1 /\ e = [[old EXCEPT !.status = "applied"] EXCEPT !.effects = one]
      OBVIOUS
    <3> HIDE DEF old, one
    <3>3. e \in Memory!EvolveCandidate /\ e.kind = "dream" /\ e.effects = one /\ e.status = "applied"
      BY <3>1, <3>2 DEF Memory!EvolveCandidate
    <3> HIDE DEF e
    <3>4. e.effects = 1
      BY <3>2, <3>3
    <3>5. Signed(e)
      BY <3>3, <3>4 DEF Signed
    <3> QED BY <3>3, <3>5 DEF SignedCandidate
  <2> HIDE DEF e
  <2>3. S \in SUBSET {e}
    OBVIOUS
  <2> HIDE DEF S
  <2>4. Memory!SetToSeq(S) \in Seq({e})
    BY <2>3, OneAsSeq
  <2>5. Memory!SetToSeq(S) \in Seq(SignedCandidate)
    BY <2>2, <2>4, SeqMonotonic
  <2> QED BY <2>1, <2>5, EvolveAppended
<1> QED BY <1>1, <1>2

\* What carries memories upwards.
LEMMA LiftedKeeps ==
    ASSUME NEW d, MemoryShape(d), NEW ms, NEW layer
    PROVE  MemoryShape(Memory!Lifted(d, ms, layer)) /\ Memory!Lifted(d, ms, layer).evolve = d.evolve
<1> DEFINE sources == {d.records[m].source : m \in ms} \ Memory!SourcesIn(d, layer)
           records == d.records \o Memory!SetToSeq({Memory!Remembered(layer, s, TRUE, "active") : s \in sources})
<1>1. Memory!Lifted(d, ms, layer) = [d EXCEPT !.records = records]
  BY DEF Memory!Lifted
<1> HIDE DEF records
<1> QED BY <1>1 DEF MemoryShape

LEMMA ProposedKeeps ==
    ASSUME NEW d, MemoryShape(d), NEW ms
    PROVE  MemoryShape(Memory!Proposed(d, ms)) /\ Memory!Proposed(d, ms).evolve = d.evolve
<1> DEFINE candidates == d.candidates \o Memory!SetToSeq({Memory!PendingOf(m) : m \in ms})
           records == [m \in DOMAIN d.records |->
                          IF m \in ms THEN [d.records[m] EXCEPT !.status = "pending_review"] ELSE d.records[m]]
<1>1. Memory!Proposed(d, ms) = [d EXCEPT !.candidates = candidates, !.records = records]
  BY DEF Memory!Proposed
<1> HIDE DEF candidates, records
<1> QED BY <1>1 DEF MemoryShape

LEMMA RefinedKeeps ==
    ASSUME MemoryShape(db)
    PROVE  MemoryShape(Memory!Refined) /\ Memory!Refined.evolve = db.evolve
<1> DEFINE worked == Memory!If("shortToWorkingEnabled",
                               Memory!Lifted(db, Memory!ActiveIn(db, "short_term"), "working"), db)
           lasting == Memory!If("workingToLongEnabled",
                                Memory!Lifted(worked, Memory!Sure(worked, Memory!ActiveIn(worked, "working")), "long_term"),
                                worked)
<1>1. MemoryShape(worked) /\ worked.evolve = db.evolve
  BY LiftedKeeps DEF Memory!If
<1> HIDE DEF worked
<1>2. MemoryShape(lasting) /\ lasting.evolve = db.evolve
  BY <1>1, LiftedKeeps DEF Memory!If
<1> HIDE DEF lasting
<1>3. LET last == Memory!If("longToKnowledgeEnabled",
                            Memory!Proposed(lasting, Memory!Unproposed(lasting,
                                                Memory!Sure(lasting, Memory!ActiveIn(lasting, "long_term")))), lasting)
      IN  MemoryShape(last) /\ last.evolve = db.evolve
  BY <1>2, ProposedKeeps DEF Memory!If
<1> QED BY <1>3 DEF Memory!Refined, lasting, worked

LEMMA MemoriesKeep ==
    ASSUME MemoryData, NEW r,
           \/ Memory!writeRecord(r) \/ Memory!memoryRecordRoute(r) \/ Memory!candidate(r) \/ Memory!review(r)
           \/ Memory!updatePolicy(r) \/ Memory!refine(r)
    PROVE  MemoryData'
<1>1. CASE db' = db
  BY <1>1, EvolveKept DEF MemoryData
<1>2. CASE Memory!writeRecord(r) /\ db' # db
  BY <1>2, EvolveKept DEF Memory!writeRecord, Memory!Handle, MemoryData, MemoryShape
<1>3. CASE Memory!memoryRecordRoute(r) /\ db' # db
  BY <1>3, EvolveKept DEF Memory!memoryRecordRoute, Memory!Handle, MemoryData, MemoryShape
<1>4. CASE Memory!candidate(r) /\ db' # db
  BY <1>4, EvolveKept, ProposedKeeps DEF Memory!candidate, Memory!Handle, MemoryData
<1>5. CASE Memory!review(r) /\ db' # db
  BY <1>5, EvolveKept DEF Memory!review, Memory!Handle, MemoryData, MemoryShape
<1>6. CASE Memory!updatePolicy(r) /\ db' # db
  BY <1>6, EvolveKept DEF Memory!updatePolicy, Memory!Handle, MemoryData, MemoryShape
<1>7. CASE Memory!refine(r) /\ db' # db
  BY <1>7, EvolveKept, RefinedKeeps DEF Memory!refine, Memory!Handle, MemoryData
<1> QED BY <1>1, <1>2, <1>3, <1>4, <1>5, <1>6, <1>7

LEMMA MemoryInit == Memory!Init => MemoryInv
<1> SUFFICES ASSUME Memory!Init PROVE MemoryInv
  OBVIOUS
<1>1. /\ MemoryShape(db) /\ db.evolve = <<Memory!EvolvePending("memory_promote")>>
      /\ net = [out |-> Memory!EmptyBag, made |-> 0]
  BY DEF Memory!Init, Memory!NetInit, MemoryShape
<1>2. Memory!EvolvePending("memory_promote") \in SignedCandidate
  BY PendingSigned DEF Memory!EvolveKinds
<1>3. Memory!BagToSet(net.out) = {}
  BY <1>1 DEF Memory!BagToSet, Memory!EmptyBag, Memory!SetToBag
<1> QED BY <1>1, <1>2, <1>3 DEF MemoryInv, MemoryData, RequestsByAccounts

LEMMA MemoryNext == MemoryInv /\ [Memory!Next]_(Memory!vars) => MemoryInv'
<1> SUFFICES ASSUME MemoryInv, [Memory!Next]_(Memory!vars) PROVE MemoryInv'
  OBVIOUS
<1> USE DEF MemoryInv
<1>1. CASE UNCHANGED Memory!vars
  BY <1>1 DEF Memory!vars, MemoryData, MemoryShape, RequestsByAccounts
<1>2. ASSUME NEW u \in {"u1", "u3"}, NEW r \in Memory!Offers(u), Memory!Ask(r) PROVE MemoryInv'
  <2>1. u \in Accounts
    BY DEF Accounts, Memory!Users, Memory!RoleOf
  <2>2. r.by = u
    BY DEF Memory!Offers, Memory!Runtime, Memory!MemoryDetail, Memory!Candidates, Memory!GovernanceProgressive,
           Memory!PolicyToggle, Memory!EvolveReviews, Memory!When, Memory!Req
  <2>3. net' = [out |-> Memory!(+)(net.out, Memory!SetToBag({r})), made |-> net.made + 1] /\ db' = db
    BY <1>2 DEF Memory!Ask
  <2>4. Memory!BagToSet(net'.out) = Memory!BagToSet(net.out) \cup {r}
    <3>1. DOMAIN (Memory!(+)(net.out, Memory!SetToBag({r}))) = DOMAIN net.out \cup {r}
      BY DEF Memory!(+), Memory!SetToBag, Memory!BagToSet
    <3> QED BY <2>3, <3>1 DEF Memory!BagToSet
  <2>5. MemoryData'
    BY <2>3, EvolveKept DEF MemoryData
  <2> QED BY <2>1, <2>2, <2>3, <2>4, <2>5 DEF RequestsByAccounts
<1>3. ASSUME NEW r \in Memory!BagToSet(net.out), Memory!Arrives(r),
             \/ Memory!writeRecord(r) \/ Memory!memoryRecordRoute(r) \/ Memory!candidate(r) \/ Memory!review(r)
             \/ Memory!updatePolicy(r) \/ Memory!refine(r) \/ Memory!dream(r) \/ Memory!reject(r)
             \/ Memory!sign(r) \/ Memory!countersign(r) \/ Memory!promote(r) \/ Memory!feedback(r)
      PROVE  MemoryInv'
  <2>1. r.by \in Accounts
    BY DEF RequestsByAccounts
  <2>2. MemoryData'
    BY <1>3, <2>1, MemoriesKeep, DreamKeeps, RejectKeeps, SignKeeps, CountersignKeeps, PromoteKeeps, FeedbackKeeps
  <2>3. net' = [out |-> Memory!(-)(net.out, Memory!SetToBag({r})), made |-> net.made]
    BY <1>3 DEF Memory!Arrives, RequestsByAccounts
  <2>4. DOMAIN (Memory!(-)(net.out, Memory!SetToBag({r}))) \subseteq DOMAIN net.out
    BY DEF Memory!(-), Memory!SetToBag
  <2> QED BY <2>2, <2>3, <2>4 DEF RequestsByAccounts, Memory!BagToSet
<1> QED BY <1>1, <1>2, <1>3 DEF Memory!Next

LEMMA MemoryHolds == MemoryInv => Memory!TwoSigners /\ Memory!EvolvedOnce
<1> SUFFICES ASSUME MemoryInv, NEW c \in DOMAIN db.evolve PROVE Signed(db.evolve[c])
  BY DEF Memory!TwoSigners, Memory!EvolvedOnce, Signed
<1> QED BY CandidateTyped DEF MemoryInv

\* A change of a skill took effect under two signatures, and a candidate takes
\* effect once, however the reviews interleave.
THEOREM MemorySigned ==
    Memory!Init /\ [][Memory!Next]_(Memory!vars) => [](Memory!TwoSigners /\ Memory!EvolvedOnce)
<1> QED BY MemoryInit, MemoryNext, MemoryHolds, PTL

-----------------------------------------------------------------------------
(* Memories that wait. *)

\* The rows, and no two candidates that wait about one memory.
Waiting(d) ==
    /\ MemoryShape(d) /\ \E S : d.records \in Seq(S)
    /\ \E S : d.candidates \in Seq(S)
                /\ \A x \in S : x = [memory |-> x.memory, status |-> x.status, packages |-> x.packages]
    /\ \A a, b \in DOMAIN d.candidates :
          \A m : d.candidates[a] = Memory!PendingOf(m) /\ d.candidates[b] = Memory!PendingOf(m) => a = b

\* The images of finitely many memories are finitely many.
LEMMA SourcesFinite ==
    ASSUME NEW d, NEW ms, IsFiniteSet(ms)
    PROVE  IsFiniteSet({d.records[m].source : m \in ms})
<1> DEFINE T == {d.records[m].source : m \in ms}
           f == [m \in ms |-> d.records[m].source]
<1>1. f \in Surjection(ms, T)
  BY DEF Surjection
<1> HIDE DEF f, T
<1>2. IsFiniteSet(T)
  BY <1>1, FS_Surjection
<1> QED BY <1>2 DEF T

LEMMA PendingFinite ==
    ASSUME NEW ms, IsFiniteSet(ms)
    PROVE  IsFiniteSet({Memory!PendingOf(m) : m \in ms})
<1> DEFINE T == {Memory!PendingOf(m) : m \in ms}
           f == [m \in ms |-> Memory!PendingOf(m)]
<1>1. f \in Surjection(ms, T)
  BY DEF Surjection
<1> HIDE DEF f, T
<1>2. IsFiniteSet(T)
  BY <1>1, FS_Surjection
<1> QED BY <1>2 DEF T

LEMMA RememberedFinite ==
    ASSUME NEW sources, IsFiniteSet(sources), NEW layer
    PROVE  IsFiniteSet({Memory!Remembered(layer, s, TRUE, "active") : s \in sources})
<1> DEFINE T == {Memory!Remembered(layer, s, TRUE, "active") : s \in sources}
           f == [s \in sources |-> Memory!Remembered(layer, s, TRUE, "active")]
<1>1. f \in Surjection(sources, T)
  BY DEF Surjection
<1> HIDE DEF f, T
<1>2. IsFiniteSet(T)
  BY <1>1, FS_Surjection
<1> QED BY <1>2 DEF T

LEMMA RecordsFinite ==
    ASSUME NEW d, Waiting(d)
    PROVE  IsFiniteSet(DOMAIN d.records)
<1>1. PICK S : d.records \in Seq(S)
  BY DEF Waiting
<1>2. DOMAIN d.records = 1..Len(d.records) /\ Len(d.records) \in Nat
  BY <1>1
<1> QED BY <1>2, FS_Interval

\* Sequences of any elements follow each other.
LEMMA Joined ==
    ASSUME NEW S, NEW s \in Seq(S), NEW T, NEW t \in Seq(T)
    PROVE  /\ s \o t \in Seq(S \cup T) /\ Len(s) \in Nat /\ DOMAIN s = 1..Len(s)
           /\ DOMAIN t = 1..Len(t) /\ Len(t) \in Nat
           /\ DOMAIN (s \o t) = 1..(Len(s) + Len(t))
           /\ \A i \in 1..(Len(s) + Len(t)) : (s \o t)[i] = IF i <= Len(s) THEN s[i] ELSE t[i - Len(s)]
<1>1. s \in Seq(S \cup T) /\ t \in Seq(S \cup T)
  BY SeqMonotonic
<1>2. s \o t \in Seq(S \cup T) /\ Len(s \o t) = Len(s) + Len(t)
  BY <1>1, ConcatProperties
<1> QED BY <1>1, <1>2, ConcatProperties

\* Nothing that leaves the candidates alone makes two wait.
LEMMA RecordsChange ==
    ASSUME NEW d, NEW e, Waiting(d), MemoryShape(e), e.candidates = d.candidates, \E S : e.records \in Seq(S)
    PROVE  Waiting(e)
BY DEF Waiting

\* Memories that wait behind no candidate each get one.
LEMMA ProposedWaits ==
    ASSUME NEW d, Waiting(d), NEW ms, IsFiniteSet(ms),
           \A m \in ms : \A c \in DOMAIN d.candidates : d.candidates[c] # Memory!PendingOf(m)
    PROVE  Waiting(Memory!Proposed(d, ms))
<1> DEFINE T == {Memory!PendingOf(m) : m \in ms}
           t == Memory!SetToSeq(T)
           candidates == d.candidates \o t
           records == [m \in DOMAIN d.records |->
                          IF m \in ms THEN [d.records[m] EXCEPT !.status = "pending_review"] ELSE d.records[m]]
           e == Memory!Proposed(d, ms)
<1>1. e = [d EXCEPT !.candidates = candidates, !.records = records]
  BY DEF Memory!Proposed
<1>2. \E R : records \in Seq(R)
  <2>1. PICK S : d.records \in Seq(S)
    BY DEF Waiting
  <2>2. DOMAIN d.records = 1..Len(d.records) /\ Len(d.records) \in Nat
    BY <2>1
  <2> DEFINE R == {records[m] : m \in DOMAIN d.records}
             n == Len(d.records)
  <2>3. records \in [1..n -> R]
    BY <2>2
  <2> HIDE DEF records, R
  <2>4. [1..n -> R] \subseteq UNION {[1..k -> R] : k \in Nat}
    BY <2>2
  <2>5. records \in Seq(R)
    BY <2>3, <2>4, SeqDef, Zenon
  <2> QED BY <2>5
<1>3. t \in Seq(T) /\ \A i, j \in DOMAIN t : t[i] = t[j] => i = j
  BY PendingFinite, SetAsSeq
<1>4. PICK S : /\ d.candidates \in Seq(S)
               /\ \A x \in S : x = [memory |-> x.memory, status |-> x.status, packages |-> x.packages]
  BY DEF Waiting
<1>5. \A x \in T : x = [memory |-> x.memory, status |-> x.status, packages |-> x.packages]
  BY DEF Memory!PendingOf
<1>6. \A m : Memory!PendingOf(m) \in T => m \in ms
  <2> SUFFICES ASSUME NEW m, NEW k \in ms, Memory!PendingOf(m) = Memory!PendingOf(k) PROVE m \in ms
    OBVIOUS
  <2>1. Memory!PendingOf(m).memory = m /\ Memory!PendingOf(k).memory = k
    BY DEF Memory!PendingOf
  <2> QED BY <2>1
<1> HIDE DEF T, t, records
<1> DEFINE n == Len(d.candidates)
           k == Len(t)
<1>7. /\ candidates \in Seq(S \cup T) /\ n \in Nat /\ k \in Nat /\ DOMAIN d.candidates = 1..n /\ DOMAIN t = 1..k
      /\ DOMAIN candidates = 1..(n + k)
      /\ \A i \in 1..(n + k) : candidates[i] = IF i <= n THEN d.candidates[i] ELSE t[i - n]
  BY <1>3, <1>4, Joined
<1> HIDE DEF candidates, n, k
<1>8. ASSUME NEW a \in 1..(n + k), NEW b \in 1..(n + k), NEW m,
             candidates[a] = Memory!PendingOf(m), candidates[b] = Memory!PendingOf(m)
      PROVE  a = b
  <2>1. \A i \in 1..(n + k) : i > n => i - n \in DOMAIN t /\ candidates[i] = t[i - n] /\ t[i - n] \in T
    <3>1. \A i \in 1..(n + k) : i > n => i - n \in DOMAIN t /\ candidates[i] = t[i - n]
      BY <1>7
    <3> QED BY <1>3, <3>1, ElementOfSeq
  <2>2. \A i \in 1..(n + k) : i <= n => i \in DOMAIN d.candidates /\ candidates[i] = d.candidates[i]
    BY <1>7
  <2>3. CASE a <= n /\ b <= n
    BY <2>2, <2>3, <1>8 DEF Waiting
  <2>4. CASE a > n /\ b > n
    <3>1. a - n = b - n
      BY <2>1, <2>4, <1>3, <1>8
    <3> QED BY <3>1, <1>7
  <2>5. CASE a <= n /\ b > n
    BY <2>1, <2>2, <2>5, <1>6, <1>8
  <2>6. CASE a > n /\ b <= n
    BY <2>1, <2>2, <2>6, <1>6, <1>8
  <2> QED BY <1>7, <2>3, <2>4, <2>5, <2>6
<1>9. MemoryShape(e) /\ e.candidates = candidates /\ e.records = records
  BY <1>1 DEF Waiting, MemoryShape
<1> HIDE DEF e
<1>10. \E R : /\ candidates \in Seq(R)
              /\ \A x \in R : x = [memory |-> x.memory, status |-> x.status, packages |-> x.packages]
  BY <1>4, <1>5, <1>7
<1>11. Waiting(e)
  BY <1>2, <1>7, <1>8, <1>9, <1>10 DEF Waiting
<1> QED BY <1>11 DEF e

LEMMA LiftedWaits ==
    ASSUME NEW d, Waiting(d), NEW ms \in SUBSET DOMAIN d.records, NEW layer
    PROVE  Waiting(Memory!Lifted(d, ms, layer))
<1> DEFINE held == {d.records[m].source : m \in ms}
           sources == held \ Memory!SourcesIn(d, layer)
           T == {Memory!Remembered(layer, s, TRUE, "active") : s \in sources}
           records == d.records \o Memory!SetToSeq(T)
           e == Memory!Lifted(d, ms, layer)
<1>1. e = [d EXCEPT !.records = records]
  BY DEF Memory!Lifted
<1>2. IsFiniteSet(ms)
  BY RecordsFinite, FS_Subset
<1>3. IsFiniteSet(held)
  BY <1>2, SourcesFinite
<1> HIDE DEF held
<1>4. IsFiniteSet(sources)
  BY <1>3, FS_Subset
<1> HIDE DEF sources
<1>5. IsFiniteSet(T)
  BY <1>4, RememberedFinite
<1> HIDE DEF T
<1>6. Memory!SetToSeq(T) \in Seq(T)
  BY <1>5, SetAsSeq
<1>7. \E S : records \in Seq(S)
  <2>1. PICK S : d.records \in Seq(S)
    BY DEF Waiting
  <2>2. records \in Seq(S \cup T)
    BY <1>6, <2>1, Joined
  <2> QED BY <2>2
<1> HIDE DEF records
<1>8. MemoryShape(e) /\ e.candidates = d.candidates /\ e.records = records
  BY <1>1 DEF Waiting, MemoryShape
<1> HIDE DEF e
<1>9. Waiting(e)
  BY <1>7, <1>8, RecordsChange
<1> QED BY <1>9 DEF e

\* The refinement proposes memories that wait behind none, after those it wrote itself.
LEMMA RefinedWaits ==
    ASSUME Waiting(db)
    PROVE  Waiting(Memory!Refined)
<1> DEFINE worked == Memory!If("shortToWorkingEnabled",
                               Memory!Lifted(db, Memory!ActiveIn(db, "short_term"), "working"), db)
           lasting == Memory!If("workingToLongEnabled",
                                Memory!Lifted(worked, Memory!Sure(worked, Memory!ActiveIn(worked, "working")), "long_term"),
                                worked)
<1>1. \A d, layer : Memory!ActiveIn(d, layer) \subseteq DOMAIN d.records
  BY DEF Memory!ActiveIn
<1>2. \A d, ms : Memory!Sure(d, ms) \subseteq ms
  BY DEF Memory!Sure
<1>3. Waiting(worked)
  BY <1>1, LiftedWaits DEF Memory!If
<1> HIDE DEF worked
<1>4. Waiting(lasting)
  <2>1. Memory!Sure(worked, Memory!ActiveIn(worked, "working")) \subseteq DOMAIN worked.records
    BY <1>1, <1>2
  <2> QED BY <1>3, <2>1, LiftedWaits DEF Memory!If
<1> HIDE DEF lasting
<1> DEFINE sure == Memory!Sure(lasting, Memory!ActiveIn(lasting, "long_term"))
           ms == Memory!Unproposed(lasting, sure)
<1>5. Waiting(Memory!Proposed(lasting, ms))
  <2>1. sure \subseteq DOMAIN lasting.records
    BY <1>1, <1>2
  <2> HIDE DEF sure
  <2>2. ms \subseteq DOMAIN lasting.records
    BY <2>1 DEF Memory!Unproposed
  <2>3. IsFiniteSet(ms)
    BY <1>4, <2>2, RecordsFinite, FS_Subset
  <2>4. \A m \in ms : \A c \in DOMAIN lasting.candidates : lasting.candidates[c] # Memory!PendingOf(m)
    BY DEF Memory!Unproposed
  <2> HIDE DEF ms
  <2> QED BY <1>4, <2>3, <2>4, ProposedWaits
<1>6. Waiting(Memory!If("longToKnowledgeEnabled", Memory!Proposed(lasting, ms), lasting))
  BY <1>4, <1>5 DEF Memory!If
<1> QED BY <1>6 DEF Memory!Refined, lasting, worked

\* A row of a table is written.
LEMMA Written ==
    ASSUME NEW S, NEW s \in Seq(S), NEW k, NEW x
    PROVE  [s EXCEPT ![k] = x] \in Seq(S \cup {x})
<1>1. s \in Seq(S \cup {x}) /\ DOMAIN s = 1..Len(s) /\ Len(s) \in Nat
  BY SeqMonotonic
<1>2. CASE k \in DOMAIN s
  BY <1>1, <1>2, ExceptSeq
<1>3. CASE k \notin DOMAIN s
  <2>1. [s EXCEPT ![k] = x] = s
    BY <1>1, <1>3
  <2> QED BY <1>1, <2>1
<1> QED BY <1>2, <1>3

\* A candidate that is decided waits no more.
LEMMA ReviewWaits ==
    ASSUME Waiting(db), NEW r, Memory!review(r), db' # db
    PROVE  Waiting(db')
<1> DEFINE approved == r.arg = "approve"
           old == db.candidates[r.seen]
           status == IF approved THEN "approved" ELSE "rejected"
           packages == IF approved THEN old.packages + 1 ELSE old.packages
           first == [old EXCEPT !.status = status]
           x == [first EXCEPT !.packages = packages]
           k == old.memory
           y == [db.records[k] EXCEPT !.status = IF approved THEN "promoted" ELSE "active"]
           candidates == [db.candidates EXCEPT ![r.seen] = x]
           records == [db.records EXCEPT ![k] = y]
<1>1. MemoryShape(db') /\ db'.candidates = candidates /\ db'.records = records
  BY DEF Memory!review, Memory!Handle, Waiting, MemoryShape
<1>2. PICK S : /\ db.candidates \in Seq(S)
               /\ \A c \in S : c = [memory |-> c.memory, status |-> c.status, packages |-> c.packages]
  BY DEF Waiting
<1>3. DOMAIN db.candidates = 1..Len(db.candidates) /\ Len(db.candidates) \in Nat
  BY <1>2
<1>4. \E R : records \in Seq(R)
  <2>1. PICK R : db.records \in Seq(R)
    BY DEF Waiting
  <2> HIDE DEF y, k
  <2>2. records \in Seq(R \cup {y})
    BY <2>1, Written
  <2> QED BY <2>2
<1> HIDE DEF records
<1>5. CASE r.seen \notin DOMAIN db.candidates
  <2>1. candidates = db.candidates
    BY <1>2, <1>3, <1>5
  <2> HIDE DEF candidates
  <2> QED BY <1>1, <1>4, <2>1, RecordsChange
<1>6. CASE r.seen \in DOMAIN db.candidates
  <2>1. old = [memory |-> k, status |-> old.status, packages |-> old.packages]
    BY <1>2, <1>6, ElementOfSeq
  <2>2. status # "pending_review"
    OBVIOUS
  <2> HIDE DEF status, packages
  <2>3. x = [memory |-> k, status |-> status, packages |-> packages]
    <3>1. PICK a, b, c : old = [memory |-> a, status |-> b, packages |-> c]
      BY <2>1
    <3> HIDE DEF old
    <3>2. first = [memory |-> a, status |-> status, packages |-> c] /\ k = a
      BY <3>1
    <3> HIDE DEF first, k
    <3> QED BY <3>2
  <2> HIDE DEF x
  <2>4. \A m : x # Memory!PendingOf(m)
    BY <2>2, <2>3 DEF Memory!PendingOf
  <2>5. candidates \in Seq(S \cup {x})
    BY <1>2, Written
  <2>6. /\ DOMAIN candidates = DOMAIN db.candidates
        /\ \A c \in DOMAIN db.candidates : candidates[c] = IF c = r.seen THEN x ELSE db.candidates[c]
    OBVIOUS
  <2> HIDE DEF candidates
  <2>7. \A a, b \in DOMAIN candidates :
           \A m : candidates[a] = Memory!PendingOf(m) /\ candidates[b] = Memory!PendingOf(m) => a = b
    <3> SUFFICES ASSUME NEW a \in DOMAIN candidates, NEW b \in DOMAIN candidates, NEW m,
                        candidates[a] = Memory!PendingOf(m), candidates[b] = Memory!PendingOf(m)
                 PROVE  a = b
      OBVIOUS
    <3>1. a # r.seen /\ b # r.seen
      BY <2>4, <2>6
    <3>2. /\ a \in DOMAIN db.candidates /\ b \in DOMAIN db.candidates
          /\ db.candidates[a] = Memory!PendingOf(m) /\ db.candidates[b] = Memory!PendingOf(m)
      BY <2>6, <3>1
    <3> QED BY <3>2 DEF Waiting
  <2>8. \E R : /\ candidates \in Seq(R)
               /\ \A c \in R : c = [memory |-> c.memory, status |-> c.status, packages |-> c.packages]
    <3>1. x = [memory |-> x.memory, status |-> x.status, packages |-> x.packages]
      BY <2>3
    <3> QED BY <1>2, <2>5, <3>1
  <2> QED BY <1>1, <1>4, <2>7, <2>8 DEF Waiting
<1> QED BY <1>5, <1>6

\* A summary writes memories, and no candidate for the knowledge.
LEMMA DreamWaits ==
    ASSUME Waiting(db), NEW r, Memory!dream(r), db' # db
    PROVE  Waiting(db')
<1> DEFINE f == [m \in DOMAIN db.records |->
                    IF m \in Memory!ActiveIn(db, "short_term") /\ db.records[m].source \in Memory!DreamSources
                    THEN [db.records[m] EXCEPT !.status = "expired"] ELSE db.records[m]]
           T == {[Memory!Remembered("working", s, TRUE, "active") EXCEPT !.dream = TRUE] : s \in Memory!DreamSources}
           records == f \o Memory!SetToSeq(T)
           evolve == db.evolve \o Memory!SetToSeq({[Memory!EvolvePending("dream") EXCEPT !.status = "applied", !.effects = 1] :
                                                       s \in Memory!DreamSources})
<1>1. db' = [db EXCEPT !.records = records, !.evolve = evolve]
  BY DEF Memory!dream, Memory!Handle
<1>2. \E R : f \in Seq(R)
  <2>1. PICK S : db.records \in Seq(S)
    BY DEF Waiting
  <2> DEFINE R == {f[m] : m \in DOMAIN db.records}
             n == Len(db.records)
  <2>2. f \in [1..n -> R] /\ n \in Nat
    <3>1. DOMAIN db.records = 1..n /\ n \in Nat
      BY <2>1
    <3>2. f = [m \in DOMAIN db.records |-> f[m]]
      OBVIOUS
    <3> HIDE DEF f, n
    <3> QED BY <3>1, <3>2
  <2> HIDE DEF f, R
  <2>3. [1..n -> R] \subseteq UNION {[1..k -> R] : k \in Nat}
    BY <2>2
  <2>4. f \in Seq(R)
    BY <2>2, <2>3, SeqDef, Zenon
  <2> QED BY <2>4
<1>3. IsFiniteSet(Memory!DreamSources)
  <2> DEFINE ms == {m \in DOMAIN db.records : db.records[m].layer = "short_term"}
             held == {db.records[m].source : m \in ms}
  <2>1. IsFiniteSet(ms)
    BY RecordsFinite, FS_Subset
  <2>2. IsFiniteSet(held)
    <3> HIDE DEF ms
    <3> QED BY <2>1, SourcesFinite
  <2>3. Memory!DreamSources \subseteq held
    BY DEF Memory!DreamSources, Memory!SourcesIn
  <2> HIDE DEF held
  <2> QED BY <2>2, <2>3, FS_Subset
<1>4. Memory!SetToSeq(T) \in Seq(T)
  <2> DEFINE g == [s \in Memory!DreamSources |-> [Memory!Remembered("working", s, TRUE, "active") EXCEPT !.dream = TRUE]]
  <2>1. g \in Surjection(Memory!DreamSources, T)
    BY DEF Surjection
  <2> HIDE DEF g, T
  <2>2. IsFiniteSet(T)
    BY <1>3, <2>1, FS_Surjection
  <2> QED BY <2>2, SetAsSeq
<1> HIDE DEF f, T, evolve
<1>5. \E S : records \in Seq(S)
  <2>1. PICK R : f \in Seq(R)
    BY <1>2
  <2>2. records \in Seq(R \cup T)
    BY <1>4, <2>1, Joined
  <2> QED BY <2>2
<1> HIDE DEF records
<1>6. MemoryShape(db') /\ db'.candidates = db.candidates /\ db'.records = records
  BY <1>1 DEF Waiting, MemoryShape
<1> QED BY <1>5, <1>6, RecordsChange

LEMMA WaitingInit == Memory!Init => Waiting(db)
<1> SUFFICES ASSUME Memory!Init PROVE Waiting(db)
  OBVIOUS
<1> DEFINE x == Memory!PendingOf(4)
<1>1. MemoryShape(db) /\ db.candidates = <<x>> /\ db.records = Memory!memoryRecords
  BY DEF Memory!Init, MemoryShape
<1>2. \E S : db.records \in Seq(S)
  <2> DEFINE a == Memory!Remembered("short_term", "cv1", TRUE, "active")
             b == Memory!Remembered("working", "t1", TRUE, "active")
             c == Memory!Remembered("long_term", "wf1", TRUE, "active")
             d == Memory!Remembered("long_term", "t2", FALSE, "pending_review")
  <2>1. db.records = <<a, b, c, d>>
    BY <1>1 DEF Memory!memoryRecords
  <2> HIDE DEF a, b, c, d
  <2>2. db.records \in Seq({a, b, c, d})
    BY <2>1
  <2> QED BY <2>2
<1>3. x = [memory |-> x.memory, status |-> x.status, packages |-> x.packages]
  BY DEF Memory!PendingOf
<1> HIDE DEF x
<1>4. db.candidates \in Seq({x}) /\ \A a, b \in DOMAIN db.candidates : a = b
  BY <1>1
<1>5. \E S : /\ db.candidates \in Seq(S)
             /\ \A c \in S : c = [memory |-> c.memory, status |-> c.status, packages |-> c.packages]
  BY <1>3, <1>4
<1> QED BY <1>1, <1>2, <1>4, <1>5 DEF Waiting

LEMMA WaitingRoutes ==
    ASSUME Waiting(db), NEW r,
           \/ Memory!writeRecord(r) \/ Memory!memoryRecordRoute(r) \/ Memory!candidate(r) \/ Memory!review(r)
           \/ Memory!updatePolicy(r) \/ Memory!refine(r) \/ Memory!dream(r) \/ Memory!reject(r)
           \/ Memory!sign(r) \/ Memory!countersign(r) \/ Memory!promote(r) \/ Memory!feedback(r)
    PROVE  Waiting(db')
<1>1. PICK S : db.records \in Seq(S)
  BY DEF Waiting
<1>2. \A x : Append(db.records, x) \in Seq(S \cup {x})
  <2> SUFFICES ASSUME NEW x PROVE Append(db.records, x) \in Seq(S \cup {x})
    OBVIOUS
  <2>1. db.records \in Seq(S \cup {x})
    BY <1>1, SeqMonotonic
  <2> QED BY <2>1, AppendProperties
<1>3. CASE db' = db
  BY <1>3
<1>4. CASE (Memory!writeRecord(r) \/ Memory!promote(r)) /\ db' # db
  <2>1. MemoryShape(db') /\ db'.candidates = db.candidates /\ \E x : db'.records = Append(db.records, x)
    BY ZenonT(40), <1>4 DEF Memory!writeRecord, Memory!promote, Memory!Handle, Waiting, MemoryShape
  <2>2. \E R : db'.records \in Seq(R)
    BY <1>2, <2>1
  <2> QED BY <2>1, <2>2, RecordsChange
<1>5. CASE Memory!memoryRecordRoute(r) /\ db' # db
  <2>1. MemoryShape(db') /\ db'.candidates = db.candidates /\ \E x : db'.records = [db.records EXCEPT ![r.seen] = x]
    BY <1>5 DEF Memory!memoryRecordRoute, Memory!Handle, Waiting, MemoryShape
  <2>2. \E R : db'.records \in Seq(R)
    <3>1. PICK x : db'.records = [db.records EXCEPT ![r.seen] = x]
      BY <2>1
    <3>2. [db.records EXCEPT ![r.seen] = x] \in Seq(S \cup {x})
      BY <1>1, Written
    <3> QED BY <3>1, <3>2
  <2> QED BY <2>1, <2>2, RecordsChange
<1>6. CASE Memory!candidate(r) /\ db' # db
  <2>1. db' = Memory!Proposed(db, {r.seen}) /\ Memory!Awaiting(r.seen) = {}
    BY <1>6 DEF Memory!candidate, Memory!Handle
  <2>2. \A m \in {r.seen} : \A c \in DOMAIN db.candidates : db.candidates[c] # Memory!PendingOf(m)
    BY <2>1 DEF Memory!Awaiting
  <2>3. IsFiniteSet({r.seen})
    BY FS_Singleton
  <2> QED BY <2>1, <2>2, <2>3, ProposedWaits
<1>7. CASE Memory!refine(r) /\ db' # db
  BY <1>7, RefinedWaits DEF Memory!refine, Memory!Handle
<1>8. CASE Memory!updatePolicy(r) /\ db' # db
  <2>1. MemoryShape(db') /\ db'.candidates = db.candidates /\ db'.records = db.records
    BY <1>8 DEF Memory!updatePolicy, Memory!Handle, Waiting, MemoryShape
  <2> QED BY <1>1, <2>1, RecordsChange
<1>9. CASE (Memory!reject(r) \/ Memory!sign(r) \/ Memory!countersign(r) \/ Memory!feedback(r)) /\ db' # db
  <2>1. MemoryShape(db') /\ db'.candidates = db.candidates /\ db'.records = db.records
    BY Zenon, <1>9
       DEF Memory!reject, Memory!sign, Memory!countersign, Memory!feedback, Memory!Handle, Waiting, MemoryShape
  <2> QED BY <1>1, <2>1, RecordsChange
<1> QED BY <1>3, <1>4, <1>5, <1>6, <1>7, <1>8, <1>9, ReviewWaits, DreamWaits

LEMMA WaitingNext == Waiting(db) /\ [Memory!Next]_(Memory!vars) => Waiting(db')
<1> SUFFICES ASSUME Waiting(db), [Memory!Next]_(Memory!vars), db' # db PROVE Waiting(db')
  OBVIOUS
<1>1. PICK r :
          \/ Memory!writeRecord(r) \/ Memory!memoryRecordRoute(r) \/ Memory!candidate(r) \/ Memory!review(r)
          \/ Memory!updatePolicy(r) \/ Memory!refine(r) \/ Memory!dream(r) \/ Memory!reject(r)
          \/ Memory!sign(r) \/ Memory!countersign(r) \/ Memory!promote(r) \/ Memory!feedback(r)
  BY DEF Memory!Next, Memory!Ask, Memory!vars
<1> QED BY <1>1, WaitingRoutes

LEMMA WaitingHolds == Waiting(db) => Memory!OneCandidate
<1> SUFFICES ASSUME Waiting(db), NEW m PROVE Memory!Cardinality(Memory!Awaiting(m)) <= 1
  BY DEF Memory!OneCandidate
<1> DEFINE A == Memory!Awaiting(m)
<1>1. \A a, b \in A : a = b
  BY DEF Memory!Awaiting, Waiting
<1>2. Memory!Cardinality(A) = Cardinality(A)
  BY DEF Memory!Cardinality, Cardinality
<1> HIDE DEF A
<1>3. A = {} \/ \E a : A = {a}
  BY <1>1
<1>4. Cardinality(A) <= 1
  <2>1. CASE A = {}
    BY <2>1, FS_EmptySet
  <2>2. ASSUME NEW a, A = {a} PROVE Cardinality(A) <= 1
    BY <2>2, FS_Singleton
  <2> QED BY <1>3, <2>1, <2>2
<1> QED BY <1>2, <1>4 DEF A

\* A memory waits behind one candidate at most, whether it was proposed by hand
\* or by the refinement, and however often the requests are made.
THEOREM MemoriesWaitOnce == Memory!Init /\ [][Memory!Next]_(Memory!vars) => []Memory!OneCandidate
<1>1. Waiting(db) /\ [Memory!Next]_(Memory!vars) => Waiting(db)'
  BY WaitingNext
<1> QED BY <1>1, WaitingInit, WaitingHolds, PTL

-----------------------------------------------------------------------------
(* Deliveries. *)

\* A delivery that reached nobody was tried three times; one that reached
\* somebody was tried once, or a fourth time by hand.
Tried(x) ==
    /\ x = [via |-> x.via, status |-> x.status, attempts |-> x.attempts]
    /\ IF x.status = "dead_letter" THEN x.attempts = 3 ELSE x.attempts \in {1, 4}

ChannelShape(d) ==
    d = [deployments |-> d.deployments, policy |-> d.policy, versions |-> d.versions, attempts |-> d.attempts,
         enabled |-> d.enabled, sent |-> d.sent, templates |-> d.templates, removed |-> d.removed]

ChannelInv == ChannelShape(db) /\ \E S : db.attempts \in Seq(S) /\ \A x \in S : Tried(x)

LEMMA AttemptsKept ==
    ASSUME ChannelInv, ChannelShape(db'), db'.attempts = db.attempts
    PROVE  ChannelInv'
BY DEF ChannelInv, ChannelShape, Tried

LEMMA ChannelInit == Channels!Init => ChannelInv
<1> SUFFICES ASSUME Channels!Init PROVE ChannelInv
  OBVIOUS
<1> DEFINE x == [via |-> "feishu", status |-> "dead_letter", attempts |-> 3]
<1>1. ChannelShape(db) /\ db.attempts = <<x>>
  BY DEF Channels!Init, Channels!deliveryAttempts, ChannelShape
<1>2. Tried(x)
  BY DEF Tried
<1> HIDE DEF x
<1>3. db.attempts \in Seq({x})
  BY <1>1
<1>4. \E S : db.attempts \in Seq(S) /\ \A y \in S : Tried(y)
  BY <1>2, <1>3
<1> QED BY <1>1, <1>4 DEF ChannelInv

LEMMA DeliverKeeps ==
    ASSUME ChannelInv, NEW r, Channels!deliver(r), db' # db
    PROVE  ChannelInv'
<1> DEFINE x == [via |-> db.policy.route.primary,
                 status |-> IF r.arg = "fails" THEN "dead_letter" ELSE "delivered",
                 attempts |-> IF r.arg = "fails" THEN 3 ELSE 1]
<1>1. db' = [db EXCEPT !.attempts = Append(db.attempts, x)]
  BY DEF Channels!deliver, Channels!Handle
<1>2. Tried(x)
  BY DEF Tried
<1> HIDE DEF x
<1>3. PICK S : db.attempts \in Seq(S) /\ \A y \in S : Tried(y)
  BY DEF ChannelInv
<1>4. Append(db.attempts, x) \in Seq(S \cup {x})
  <2>1. db.attempts \in Seq(S \cup {x})
    BY <1>3, SeqMonotonic
  <2> QED BY <2>1, AppendProperties
<1>5. ChannelShape(db') /\ db'.attempts = Append(db.attempts, x)
  BY <1>1 DEF ChannelInv, ChannelShape
<1> QED BY <1>2, <1>3, <1>4, <1>5 DEF ChannelInv, ChannelShape, Tried

\* The fourth time is the last: it is for dead letters.
LEMMA ReplayKeeps ==
    ASSUME ChannelInv, NEW r, Channels!replay(r), db' # db
    PROVE  ChannelInv'
<1> DEFINE old == db.attempts[r.seen]
           tries == old.attempts + 1
           x == [old EXCEPT !.status = "delivered", !.attempts = tries]
           attempts == [db.attempts EXCEPT ![r.seen] = x]
<1>1. old.status = "dead_letter" /\ db' = [db EXCEPT !.attempts = attempts]
  BY DEF Channels!replay, Channels!Handle
<1>2. PICK S : db.attempts \in Seq(S) /\ \A y \in S : Tried(y)
  BY DEF ChannelInv
<1>3. DOMAIN db.attempts = 1..Len(db.attempts) /\ Len(db.attempts) \in Nat
  BY <1>2
<1>4. CASE r.seen \notin DOMAIN db.attempts
  <2>1. attempts = db.attempts
    BY <1>2, <1>3, <1>4
  <2> HIDE DEF attempts
  <2> QED BY <1>1, <2>1, AttemptsKept DEF ChannelInv, ChannelShape
<1>5. CASE r.seen \in DOMAIN db.attempts
  <2>1. Tried(old)
    BY <1>2, <1>3, <1>5, ElementOfSeq
  <2>2. tries = 4
    BY <1>1, <2>1 DEF Tried
  <2> HIDE DEF tries
  <2>3. x = [via |-> x.via, status |-> "delivered", attempts |-> tries]
    <3>1. PICK v, st, n : old = [via |-> v, status |-> st, attempts |-> n]
      BY <2>1 DEF Tried
    <3> DEFINE first == [old EXCEPT !.status = "delivered"]
    <3>2. x = [first EXCEPT !.attempts = tries]
      OBVIOUS
    <3> HIDE DEF old, x
    <3>3. first = [via |-> v, status |-> "delivered", attempts |-> n]
      BY <3>1
    <3> HIDE DEF first
    <3>4. x = [via |-> v, status |-> "delivered", attempts |-> tries]
      BY <3>2, <3>3
    <3> QED BY <3>4
  <2> HIDE DEF x
  <2>4. Tried(x)
    BY <2>2, <2>3 DEF Tried
  <2>5. attempts \in Seq(S \cup {x})
    <3>1. db.attempts \in Seq(S \cup {x})
      BY <1>2, SeqMonotonic
    <3> QED BY <1>5, <3>1, ExceptSeq
  <2> HIDE DEF attempts
  <2>6. ChannelShape(db') /\ db'.attempts = attempts
    BY <1>1 DEF ChannelInv, ChannelShape
  <2> QED BY <1>2, <2>4, <2>5, <2>6 DEF ChannelInv, ChannelShape, Tried
<1> QED BY <1>4, <1>5

\* Nothing else changes a delivery that was made.
LEMMA ChannelNext == ChannelInv /\ [Channels!Next]_(Channels!vars) => ChannelInv'
<1> SUFFICES ASSUME ChannelInv, [Channels!Next]_(Channels!vars) PROVE ChannelInv'
  OBVIOUS
<1>1. CASE db' = db
  BY <1>1 DEF ChannelInv, ChannelShape, Tried
<1>2. CASE db' # db
  <2>1. PICK r :
          \/ Channels!createDeployment(r) \/ Channels!verify(r) \/ Channels!disable(r) \/ Channels!enable(r)
          \/ Channels!edit(r) \/ Channels!removeDeployment(r) \/ Channels!patchDraft(r) \/ Channels!validatePolicy(r)
          \/ Channels!publishPolicy(r) \/ Channels!rollbackPolicy(r) \/ Channels!deliver(r) \/ Channels!replay(r)
          \/ Channels!channelAction(r) \/ Channels!createTemplate(r)
    BY <1>2 DEF Channels!Next, Channels!Ask, Channels!vars
  <2>2. CASE Channels!createDeployment(r) \/ Channels!removeDeployment(r)
    <3>1. \E new, gone :
             db' = [db EXCEPT !.deployments = new] \/ db' = [db EXCEPT !.deployments = new, !.removed = gone]
      <4>1. CASE Channels!createDeployment(r)
        <5>1. \E new : db' = [db EXCEPT !.deployments = new]
          BY <1>2, <4>1 DEF Channels!createDeployment, Channels!Handle
        <5> QED BY Zenon, <5>1
      <4>2. CASE Channels!removeDeployment(r)
        <5>1. \E new, gone : db' = [db EXCEPT !.deployments = new, !.removed = gone]
          BY Zenon, <1>2, <4>2 DEF Channels!removeDeployment, Channels!Handle
        <5> QED BY Zenon, <5>1
      <4> QED BY Zenon, <2>2, <4>1, <4>2
    <3> QED BY <3>1, AttemptsKept DEF ChannelInv, ChannelShape
  <2>3. CASE Channels!verify(r) \/ Channels!disable(r) \/ Channels!enable(r)
    BY <1>2, <2>3, AttemptsKept
       DEF Channels!verify, Channels!disable, Channels!enable, Channels!Handle, ChannelInv, ChannelShape
  <2>4. CASE Channels!edit(r)
    <3>1. \E mode, path, keys :
             db' = [db EXCEPT !.deployments[r.id].mode = mode, !.deployments[r.id].path = path,
                              !.deployments[r.id].keys = keys]
      BY Zenon, <1>2, <2>4 DEF Channels!edit, Channels!Handle
    <3> QED BY <3>1, AttemptsKept DEF ChannelInv, ChannelShape
  <2>5. CASE Channels!patchDraft(r)
    BY <1>2, <2>5, AttemptsKept DEF Channels!patchDraft, Channels!Handle, ChannelInv, ChannelShape
  <2>6. CASE Channels!validatePolicy(r)
    BY <1>2, <2>6, AttemptsKept DEF Channels!validatePolicy, Channels!Handle, ChannelInv, ChannelShape
  <2>7. CASE Channels!publishPolicy(r) \/ Channels!rollbackPolicy(r)
    BY <1>2, <2>7, AttemptsKept
       DEF Channels!publishPolicy, Channels!rollbackPolicy, Channels!Handle, ChannelInv, ChannelShape
  <2>8. CASE Channels!channelAction(r)
    BY <1>2, <2>8, AttemptsKept DEF Channels!channelAction, Channels!Handle, ChannelInv, ChannelShape
  <2>9. CASE Channels!createTemplate(r)
    BY <1>2, <2>9, AttemptsKept DEF Channels!createTemplate, Channels!Handle, ChannelInv, ChannelShape
  <2> QED BY <1>2, <2>1, <2>2, <2>3, <2>4, <2>5, <2>6, <2>7, <2>8, <2>9, DeliverKeeps, ReplayKeeps
<1> QED BY <1>1, <1>2

LEMMA ChannelHolds == ChannelInv => Channels!ReplayedOnce
<1> SUFFICES ASSUME ChannelInv, NEW a \in DOMAIN db.attempts PROVE Tried(db.attempts[a])
  BY DEF Channels!ReplayedOnce, Tried
<1> QED BY ElementOfSeq DEF ChannelInv

\* A dead letter is delivered again once, however often it is asked for.
THEOREM ChannelsReplayOnce == Channels!Init /\ [][Channels!Next]_(Channels!vars) => []Channels!ReplayedOnce
<1> QED BY ChannelInit, ChannelNext, ChannelHolds, PTL

-----------------------------------------------------------------------------
(* Delivery policies. *)

\* A deployment shows a callback address, and keeps keys for it, in callback mode.
Called(x) ==
    \E kind, status, mode, path, keys :
        /\ x = [kind |-> kind, status |-> status, mode |-> mode, path |-> path, keys |-> keys]
        /\ path \in BOOLEAN /\ keys \in BOOLEAN
        /\ path <=> mode = "webhook"
        /\ keys => path

\* The names a state has given to deployments, those that were deleted included.
Known(d) == DOMAIN d.deployments \cup d.removed

\* What a validation found stays true of a route: what it names was a
\* deployment and, while it is one, is of the same kind.
Fits(d, route) ==
    /\ route.primary # route.fallback
    /\ \A id \in Channels!Named(route) :
          /\ id \in Known(d)
          /\ route.restricted /\ id \in DOMAIN d.deployments => d.deployments[id].kind # "webhook"

Policy(d) ==
    /\ ChannelShape(d) /\ d.policy = [route |-> d.policy.route, status |-> d.policy.status]
    /\ \A id \in DOMAIN d.deployments : Called(d.deployments[id])
    /\ \E S : d.versions \in Seq(S) /\ \A x \in S : Fits(d, x)
    /\ d.policy.status \in {"ready", "published"} => Fits(d, d.policy.route)
    /\ d.policy.status = "published" => d.versions # <<>> /\ d.policy.route = d.versions[Len(d.versions)]

\* A deployment that is being connected has no row, never had one, and one request.
ConnectedOnce ==
    /\ net = [out |-> net.out, made |-> net.made]
    /\ \A r \in Channels!BagToSet(net.out) : r.op = "connect" =>
          /\ r.id \notin Known(db) /\ net.out[r] = 1
          /\ \A q \in Channels!BagToSet(net.out) : q.op = "connect" /\ q.id = r.id => q = r

PolicyInv == Policy(db) /\ ConnectedOnce

\* A name keeps its kind for good.
Lasting(d, e) ==
    /\ Known(d) \subseteq Known(e)
    /\ \A id \in DOMAIN e.deployments \cap Known(d) :
          id \in DOMAIN d.deployments /\ e.deployments[id].kind = d.deployments[id].kind

LEMMA FitsForGood ==
    ASSUME NEW d, NEW e, Lasting(d, e), NEW route, Fits(d, route)
    PROVE  Fits(e, route)
BY DEF Lasting, Fits

LEMMA DeploymentsChange ==
    ASSUME NEW d, NEW e, Policy(d), ChannelShape(e), Lasting(d, e), e.policy = d.policy, e.versions = d.versions,
           \A id \in DOMAIN e.deployments : Called(e.deployments[id])
    PROVE  Policy(e)
<1>1. PICK S : d.versions \in Seq(S) /\ \A x \in S : Fits(d, x)
  BY DEF Policy
<1>2. \A x \in S : Fits(e, x)
  BY <1>1, FitsForGood
<1>3. e.policy.status \in {"ready", "published"} => Fits(e, e.policy.route)
  BY FitsForGood DEF Policy
<1> QED BY <1>1, <1>2, <1>3 DEF Policy

\* One deployment is written, and keeps its kind.
LEMMA RowChanges ==
    ASSUME Policy(db), ChannelShape(db'), NEW id \in DOMAIN db.deployments, NEW x, Called(x),
           x.kind = db.deployments[id].kind, db'.deployments = [db.deployments EXCEPT ![id] = x],
           db'.policy = db.policy, db'.versions = db.versions, db'.removed = db.removed
    PROVE  Policy(db') /\ Known(db') = Known(db)
<1>1. /\ DOMAIN db'.deployments = DOMAIN db.deployments
      /\ \A k \in DOMAIN db.deployments : db'.deployments[k] = IF k = id THEN x ELSE db.deployments[k]
  OBVIOUS
<1>2. Known(db') = Known(db)
  BY <1>1 DEF Known
<1>3. Lasting(db, db')
  BY <1>1, <1>2 DEF Lasting
<1>4. \A k \in DOMAIN db'.deployments : Called(db'.deployments[k])
  BY <1>1 DEF Policy
<1> QED BY <1>2, <1>3, <1>4, DeploymentsChange

LEMMA StatusSet ==
    ASSUME Policy(db), NEW id \in DOMAIN db.deployments, NEW status,
           db' = [db EXCEPT !.deployments[id].status = status]
    PROVE  Policy(db') /\ Known(db') = Known(db)
<1> DEFINE old == db.deployments[id]
           x == [old EXCEPT !.status = status]
<1>0. Called(old)
  BY DEF Policy
<1>1. PICK k, s, m, p, y :
          /\ old = [kind |-> k, status |-> s, mode |-> m, path |-> p, keys |-> y]
          /\ p \in BOOLEAN /\ y \in BOOLEAN
          /\ p <=> m = "webhook"
          /\ y => p
  <2> HIDE DEF old
  <2> QED BY <1>0, Zenon DEF Called
<1>2. /\ ChannelShape(db') /\ db'.deployments = [db.deployments EXCEPT ![id] = x]
      /\ db'.policy = db.policy /\ db'.versions = db.versions /\ db'.removed = db.removed
  BY DEF Policy, ChannelShape
<1> HIDE DEF old
<1>3. x = [kind |-> k, status |-> status, mode |-> m, path |-> p, keys |-> y] /\ x.kind = old.kind
  BY <1>1
<1> HIDE DEF x
<1>4. Called(x)
  BY <1>1, <1>3 DEF Called
<1> QED BY <1>2, <1>3, <1>4, RowChanges DEF old

\* The mode decides about the address and the keys.
LEMMA EditKeepsPolicy ==
    ASSUME Policy(db), NEW r, Channels!edit(r), db' # db
    PROVE  Policy(db') /\ Known(db') = Known(db)
<1> DEFINE old == db.deployments[r.id]
           mode == Channels!ModeSent(r)
           hook == mode = "webhook"
           keys == r.arg = "feishu" /\ hook
<1>1. /\ r.id \in DOMAIN db.deployments
      /\ db' = [db EXCEPT !.deployments[r.id].mode = mode, !.deployments[r.id].path = hook,
                          !.deployments[r.id].keys = keys]
  BY DEF Channels!edit, Channels!Handle, Channels!OnDeployment
<1>0. Called(old)
  BY <1>1 DEF Policy
<1>2. PICK k, s, m, p, y : old = [kind |-> k, status |-> s, mode |-> m, path |-> p, keys |-> y]
  <2> HIDE DEF old
  <2> QED BY <1>0, Zenon DEF Called
<1>3. hook \in BOOLEAN /\ keys \in BOOLEAN /\ (hook <=> mode = "webhook") /\ (keys => hook)
  OBVIOUS
<1> HIDE DEF mode, hook, keys
<1> DEFINE first == [old EXCEPT !.mode = mode]
           second == [first EXCEPT !.path = hook]
           x == [second EXCEPT !.keys = keys]
<1>4. /\ ChannelShape(db') /\ db'.deployments = [db.deployments EXCEPT ![r.id] = x]
      /\ db'.policy = db.policy /\ db'.versions = db.versions /\ db'.removed = db.removed
  BY <1>1 DEF Policy, ChannelShape
<1> HIDE DEF old
<1>5. first = [kind |-> k, status |-> s, mode |-> mode, path |-> p, keys |-> y]
  BY <1>2
<1> HIDE DEF first
<1>6. second = [kind |-> k, status |-> s, mode |-> mode, path |-> hook, keys |-> y]
  BY <1>5
<1> HIDE DEF second
<1>7. x = [kind |-> k, status |-> s, mode |-> mode, path |-> hook, keys |-> keys]
  BY <1>6
<1> HIDE DEF x
<1>8. Called(x) /\ x.kind = old.kind
  BY <1>2, <1>3, <1>7 DEF Called
<1> QED BY <1>1, <1>4, <1>8, RowChanges DEF old

\* A new deployment has a name no version and no policy mentions.
LEMMA ConnectKeepsPolicy ==
    ASSUME Policy(db), NEW r, Channels!createDeployment(r), db' # db, r.id \notin Known(db)
    PROVE  Policy(db') /\ Known(db') = Known(db) \cup {r.id}
<1> DEFINE mode == Channels!ModeSent(r)
           path == mode = "webhook"
           keys == r.arg = "feishu" /\ mode = "webhook"
           x == [kind |-> r.arg, status |-> "draft", mode |-> mode, path |-> path, keys |-> keys]
           table == Channels!Unshifted(db.deployments, r.id, x)
<1>1. db' = [db EXCEPT !.deployments = table]
  BY DEF Channels!createDeployment, Channels!Handle
<1>2. Called(x)
  <2>1. path \in BOOLEAN /\ keys \in BOOLEAN /\ (path <=> mode = "webhook") /\ (keys => path)
    OBVIOUS
  <2> HIDE DEF path, keys, mode
  <2>2. x = [kind |-> r.arg, status |-> "draft", mode |-> mode, path |-> path, keys |-> keys]
    OBVIOUS
  <2> HIDE DEF x
  <2> QED BY <2>1, <2>2 DEF Called
<1> HIDE DEF x
<1>3. /\ ChannelShape(db') /\ db'.deployments = table /\ db'.policy = db.policy
      /\ db'.versions = db.versions /\ db'.removed = db.removed
  BY <1>1 DEF Policy, ChannelShape
<1>4. DOMAIN table = DOMAIN db.deployments \cup {r.id} /\ \A id \in DOMAIN db.deployments : table[id] = db.deployments[id]
  BY DEF Channels!Unshifted, Known
<1>5. table[r.id] = x
  BY DEF Channels!Unshifted
<1> HIDE DEF table
<1>6. Lasting(db, db') /\ Known(db') = Known(db) \cup {r.id}
  BY <1>3, <1>4 DEF Lasting, Known
<1>7. \A id \in DOMAIN table : Called(table[id])
  BY <1>2, <1>4, <1>5 DEF Policy
<1> QED BY <1>3, <1>6, <1>7, DeploymentsChange

LEMMA RemovalKeepsPolicy ==
    ASSUME Policy(db), NEW r, Channels!removeDeployment(r), db' # db
    PROVE  Policy(db') /\ Known(db') = Known(db)
<1> DEFINE table == [id \in DOMAIN db.deployments \ {r.id} |-> db.deployments[id]]
<1>1. r.id \in DOMAIN db.deployments /\ db' = [db EXCEPT !.deployments = table, !.removed = db.removed \cup {r.id}]
  BY DEF Channels!removeDeployment, Channels!Handle, Channels!OnDeployment
<1>2. DOMAIN table = DOMAIN db.deployments \ {r.id} /\ \A id \in DOMAIN table : table[id] = db.deployments[id]
  OBVIOUS
<1> HIDE DEF table
<1>3. /\ ChannelShape(db') /\ db'.deployments = table /\ db'.policy = db.policy
      /\ db'.versions = db.versions /\ db'.removed = db.removed \cup {r.id}
  BY <1>1 DEF Policy, ChannelShape
<1>4. Known(db') = Known(db)
  BY <1>1, <1>2, <1>3 DEF Known
<1>5. \A id \in DOMAIN db'.deployments : id \in DOMAIN db.deployments /\ db'.deployments[id] = db.deployments[id]
  BY <1>2, <1>3
<1>6. Lasting(db, db')
  BY <1>4, <1>5 DEF Lasting
<1>7. \A id \in DOMAIN db'.deployments : Called(db'.deployments[id])
  BY <1>5 DEF Policy
<1> QED BY <1>3, <1>4, <1>6, <1>7, DeploymentsChange

\* A policy that was edited or found wanting is a draft.
LEMMA DraftKeepsPolicy ==
    ASSUME Policy(db), NEW route,
           db' = [db EXCEPT !.policy.route = route, !.policy.status = "draft"]
    PROVE  Policy(db') /\ Known(db') = Known(db)
<1> DEFINE first == [db.policy EXCEPT !.route = route]
           policy == [first EXCEPT !.status = "draft"]
<1>1. db' = [db EXCEPT !.policy = policy]
  BY DEF Policy, ChannelShape
<1>2. policy.status = "draft" /\ policy = [route |-> policy.route, status |-> policy.status]
  <2>1. PICK a, b : db.policy = [route |-> a, status |-> b]
    BY DEF Policy
  <2>2. first = [route |-> route, status |-> b]
    BY <2>1
  <2> HIDE DEF first
  <2>3. policy = [route |-> route, status |-> "draft"]
    BY <2>2
  <2> QED BY <2>3
<1> HIDE DEF policy
<1>3. /\ ChannelShape(db') /\ db'.policy = policy /\ db'.deployments = db.deployments
      /\ db'.versions = db.versions /\ db'.removed = db.removed
  BY <1>1 DEF Policy, ChannelShape
<1>4. \A x : Fits(db', x) <=> Fits(db, x)
  BY <1>3 DEF Fits, Known
<1> QED BY <1>2, <1>3, <1>4 DEF Policy, Known

\* A policy that passed the check: what it names is there.
LEMMA ValidFits ==
    ASSUME NEW route, Channels!validateDeliveryPolicy(route)
    PROVE  Fits(db, route)
BY DEF Channels!validateDeliveryPolicy, Channels!KindOf, Fits, Known

LEMMA ValidateKeepsPolicy ==
    ASSUME Policy(db), NEW r, Channels!validatePolicy(r), db' # db
    PROVE  Policy(db') /\ Known(db') = Known(db)
<1> DEFINE valid == Channels!validateDeliveryPolicy(db.policy.route)
           status == IF valid THEN "ready" ELSE "draft"
<1>1. db' = [db EXCEPT !.policy.status = status]
  BY DEF Channels!validatePolicy, Channels!Handle
<1>2. status = "draft" \/ (status = "ready" /\ Fits(db, db.policy.route))
  BY ValidFits
<1> HIDE DEF status
<1>3. /\ ChannelShape(db') /\ db'.policy.status = status /\ db'.policy.route = db.policy.route
      /\ db'.policy = [route |-> db.policy.route, status |-> status]
      /\ db'.deployments = db.deployments /\ db'.versions = db.versions /\ db'.removed = db.removed
  <2>1. PICK a, b : db.policy = [route |-> a, status |-> b]
    BY DEF Policy
  <2> QED BY <1>1, <2>1 DEF Policy, ChannelShape
<1>4. \A x : Fits(db', x) <=> Fits(db, x)
  BY <1>3 DEF Fits, Known
<1> QED BY <1>2, <1>3, <1>4 DEF Policy, Known

\* A version that fits is put in force.
LEMMA VersionKeepsPolicy ==
    ASSUME Policy(db), NEW route, Fits(db, route), NEW policy, policy = [route |-> route, status |-> "published"],
           db' = [db EXCEPT !.versions = Append(db.versions, route), !.policy = policy]
    PROVE  Policy(db') /\ Known(db') = Known(db)
<1>1. PICK S : db.versions \in Seq(S) /\ \A x \in S : Fits(db, x)
  BY DEF Policy
<1> DEFINE versions == Append(db.versions, route)
<1>2. versions \in Seq(S \cup {route}) /\ versions # <<>> /\ versions[Len(versions)] = route
  <2>1. db.versions \in Seq(S \cup {route})
    BY <1>1, SeqMonotonic
  <2> QED BY <2>1, AppendProperties
<1>3. /\ ChannelShape(db') /\ db'.policy = policy /\ db'.versions = versions
      /\ db'.deployments = db.deployments /\ db'.removed = db.removed
  BY DEF Policy, ChannelShape
<1> HIDE DEF versions
<1>4. \A x : Fits(db', x) <=> Fits(db, x)
  BY <1>3 DEF Fits, Known
<1>5. versions \in Seq(S \cup {route}) /\ \A x \in S \cup {route} : Fits(db', x)
  BY <1>1, <1>2, <1>4
<1>6. Fits(db', db'.policy.route) /\ db'.policy.route = route
  BY <1>3, <1>4
<1> QED BY <1>2, <1>3, <1>5, <1>6 DEF Policy, Known

\* A policy that is ready fits; an old version has to pass the check.
LEMMA PublishKeepsPolicy ==
    ASSUME Policy(db), NEW r, Channels!publishPolicy(r) \/ Channels!rollbackPolicy(r), db' # db
    PROVE  Policy(db') /\ Known(db') = Known(db)
<1>1. CASE Channels!publishPolicy(r)
  <2>1. /\ db.policy.status = "ready"
        /\ db' = [db EXCEPT !.versions = Append(db.versions, db.policy.route), !.policy.status = "published"]
    BY <1>1 DEF Channels!publishPolicy, Channels!Handle
  <2> DEFINE policy == [db.policy EXCEPT !.status = "published"]
  <2>2. policy = [route |-> db.policy.route, status |-> "published"]
    <3>1. PICK a, b : db.policy = [route |-> a, status |-> b]
      BY DEF Policy
    <3> QED BY <3>1
  <2>3. db' = [db EXCEPT !.versions = Append(db.versions, db.policy.route), !.policy = policy]
    BY <2>1 DEF Policy, ChannelShape
  <2>4. Fits(db, db.policy.route)
    BY <2>1 DEF Policy
  <2> HIDE DEF policy
  <2> QED BY Zenon, <2>2, <2>3, <2>4, VersionKeepsPolicy
<1>2. CASE Channels!rollbackPolicy(r)
  <2> DEFINE route == db.versions[r.seen]
             policy == [route |-> route, status |-> "published"]
  <2>1. /\ Channels!validateDeliveryPolicy(route)
        /\ db' = [db EXCEPT !.versions = Append(db.versions, route), !.policy = policy]
    BY <1>2 DEF Channels!rollbackPolicy, Channels!Handle
  <2>2. Fits(db, route)
    BY <2>1, ValidFits
  <2> HIDE DEF route
  <2> QED BY Zenon, <2>1, <2>2, VersionKeepsPolicy
<1> QED BY <1>1, <1>2

\* Deliveries, the older page and the templates have nothing to do with it.
LEMMA PolicyStays ==
    ASSUME Policy(db), ChannelShape(db'), db'.deployments = db.deployments, db'.policy = db.policy,
           db'.versions = db.versions, db'.removed = db.removed
    PROVE  Policy(db') /\ Known(db') = Known(db)
<1>1. Known(db') = Known(db) /\ Lasting(db, db')
  BY DEF Known, Lasting
<1>2. \A id \in DOMAIN db'.deployments : Called(db'.deployments[id])
  BY DEF Policy
<1> QED BY <1>1, <1>2, DeploymentsChange

LEMMA ChannelRoutesKeep ==
    ASSUME Policy(db), NEW r, r.op = "connect" => r.id \notin Known(db),
           \/ Channels!createDeployment(r) \/ Channels!verify(r) \/ Channels!disable(r) \/ Channels!enable(r)
           \/ Channels!edit(r) \/ Channels!removeDeployment(r) \/ Channels!patchDraft(r) \/ Channels!validatePolicy(r)
           \/ Channels!publishPolicy(r) \/ Channels!rollbackPolicy(r) \/ Channels!deliver(r) \/ Channels!replay(r)
           \/ Channels!channelAction(r) \/ Channels!createTemplate(r)
    PROVE  Policy(db') /\ Known(db') \subseteq Known(db) \cup {id \in {r.id} : r.op = "connect"}
<1>1. CASE db' = db
  <2>1. ChannelShape(db')
    BY <1>1 DEF Policy
  <2> QED BY <1>1, <2>1, PolicyStays
<1>2. CASE Channels!createDeployment(r) /\ db' # db
  <2>1. r.op = "connect"
    BY <1>2 DEF Channels!createDeployment
  <2> QED BY <1>2, <2>1, ConnectKeepsPolicy
<1>3. CASE (Channels!verify(r) \/ Channels!disable(r) \/ Channels!enable(r)) /\ db' # db
  <2>1. r.id \in DOMAIN db.deployments /\ \E status : db' = [db EXCEPT !.deployments[r.id].status = status]
    BY <1>3 DEF Channels!verify, Channels!disable, Channels!enable, Channels!Handle, Channels!OnDeployment
  <2> QED BY <2>1, StatusSet
<1>4. CASE Channels!patchDraft(r) /\ db' # db
  <2>1. \E route : db' = [db EXCEPT !.policy.route = route, !.policy.status = "draft"]
    BY Zenon, <1>4 DEF Channels!patchDraft, Channels!Handle
  <2> QED BY Zenon, <2>1, DraftKeepsPolicy
<1>5. CASE Channels!deliver(r) /\ db' # db
  <2>1. \E x : db' = [db EXCEPT !.attempts = x]
    BY <1>5 DEF Channels!deliver, Channels!Handle
  <2> QED BY <2>1, PolicyStays DEF Policy, ChannelShape
<1>6. CASE Channels!replay(r) /\ db' # db
  <2>1. \E n : db' = [db EXCEPT !.attempts[r.seen].status = "delivered", !.attempts[r.seen].attempts = n]
    BY Zenon, <1>6 DEF Channels!replay, Channels!Handle
  <2> QED BY <2>1, PolicyStays DEF Policy, ChannelShape
<1>7. CASE (Channels!channelAction(r) \/ Channels!createTemplate(r)) /\ db' # db
  <2>1. \E x : db' = [db EXCEPT !.enabled[r.id] = x] \/ db' = [db EXCEPT !.sent = x] \/ db' = [db EXCEPT !.templates = x]
    BY <1>7 DEF Channels!channelAction, Channels!createTemplate, Channels!Handle
  <2> QED BY <2>1, PolicyStays DEF Policy, ChannelShape
<1> QED BY <1>1, <1>2, <1>3, <1>4, <1>5, <1>6, <1>7, EditKeepsPolicy, RemovalKeepsPolicy, ValidateKeepsPolicy,
           PublishKeepsPolicy

LEMMA PolicyInit == Channels!Init => PolicyInv
<1> SUFFICES ASSUME Channels!Init PROVE PolicyInv
  OBVIOUS
<1> DEFINE x == [kind |-> "feishu", status |-> "active", mode |-> "webhook", path |-> TRUE, keys |-> FALSE]
<1>1. /\ ChannelShape(db) /\ db.deployments = [feishu |-> x] /\ db.versions = <<>>
      /\ db.policy = [route |-> db.policy.route, status |-> "draft"]
      /\ net = [out |-> Channels!EmptyBag, made |-> 0]
  BY DEF Channels!Init, Channels!channelDeployments, Channels!deliveryPolicy, Channels!NetInit, ChannelShape
<1>2. Called(x)
  BY DEF Called
<1> HIDE DEF x
<1>3. \A id \in DOMAIN db.deployments : Called(db.deployments[id])
  BY <1>1, <1>2
<1>4. \E S : db.versions \in Seq(S) /\ \A y \in S : Fits(db, y)
  <2>1. db.versions \in Seq({}) /\ \A y \in {} : Fits(db, y)
    BY <1>1
  <2> QED BY <2>1
<1>5. db.policy.status = "draft"
  BY <1>1
<1>6. Policy(db)
  BY <1>1, <1>3, <1>4, <1>5 DEF Policy
<1>7. Channels!BagToSet(net.out) = {}
  BY <1>1 DEF Channels!BagToSet, Channels!EmptyBag, Channels!SetToBag
<1> QED BY <1>1, <1>6, <1>7 DEF PolicyInv, ConnectedOnce

\* A page connects under a name that was never used and that nobody else asks for.
LEMMA ChannelOffers ==
    ASSUME NEW u, NEW r \in Channels!Offers(u), r.op = "connect"
    PROVE  r.id \notin Known(db) /\ \A q \in Channels!BagToSet(net.out) : q.id # r.id
<1>1. r.id \in Channels!mockId
  BY DEF Channels!Offers, Channels!When, Channels!DeploymentCreateModal, Channels!DeploymentEditDrawer,
         Channels!Deployments, Channels!PolicyDrawer, Channels!Failures, Channels!Templates,
         Channels!ControlClients, Channels!Req
<1> QED BY <1>1 DEF Channels!mockId, Channels!Vacant, Known

LEMMA PolicyNext == PolicyInv /\ [Channels!Next]_(Channels!vars) => PolicyInv'
<1> SUFFICES ASSUME PolicyInv, [Channels!Next]_(Channels!vars) PROVE PolicyInv'
  OBVIOUS
<1> DEFINE out == Channels!BagToSet(net.out)
<1>1. CASE UNCHANGED Channels!vars
  <2>1. db' = db /\ net' = net
    BY <1>1 DEF Channels!vars
  <2>2. Policy(db')
    BY <2>1 DEF PolicyInv
  <2>3. ConnectedOnce'
    BY <2>1 DEF PolicyInv, ConnectedOnce, Known
  <2> QED BY <2>2, <2>3 DEF PolicyInv
<1>2. ASSUME NEW u, NEW r \in Channels!Offers(u), Channels!Ask(r) PROVE PolicyInv'
  <2>1. r.op = "connect" => r.id \notin Known(db) /\ \A q \in out : q.id # r.id
    BY ChannelOffers
  <2> DEFINE B == Channels!(+)(net.out, Channels!SetToBag({r}))
  <2>2. net' = [out |-> B, made |-> net.made + 1] /\ db' = db
    BY <1>2 DEF Channels!Ask
  <2>3. B = [q \in DOMAIN net.out \cup {r} |->
                (IF q \in DOMAIN net.out THEN net.out[q] ELSE 0) + (IF q = r THEN 1 ELSE 0)]
    BY DEF Channels!(+), Channels!SetToBag
  <2> HIDE DEF B
  <2>4. /\ DOMAIN B = out \cup {r} /\ (\A q \in DOMAIN B \ {r} : net.out[q] = 1 => B[q] = 1)
        /\ r \notin out => B[r] = 1
    BY <2>3 DEF Channels!BagToSet
  <2>5. Channels!BagToSet(net'.out) = out \cup {r} /\ net'.out = B
    BY <2>2, <2>4 DEF Channels!BagToSet
  <2>6. ConnectedOnce'
    <3> SUFFICES ASSUME NEW q \in out \cup {r}, q.op = "connect"
                 PROVE  /\ q.id \notin Known(db) /\ B[q] = 1
                        /\ \A p \in out \cup {r} : p.op = "connect" /\ p.id = q.id => p = q
      BY <2>2, <2>5 DEF ConnectedOnce, Known
    <3>1. CASE q = r
      BY <2>1, <2>4, <3>1
    <3>2. CASE q # r
      BY <2>1, <2>4, <3>2 DEF PolicyInv, ConnectedOnce
    <3> QED BY <3>1, <3>2
  <2>7. Policy(db')
    BY <2>2 DEF PolicyInv
  <2> QED BY <2>6, <2>7 DEF PolicyInv
<1>3. ASSUME NEW r \in out, Channels!Arrives(r),
             \/ Channels!createDeployment(r) \/ Channels!verify(r) \/ Channels!disable(r) \/ Channels!enable(r)
             \/ Channels!edit(r) \/ Channels!removeDeployment(r) \/ Channels!patchDraft(r) \/ Channels!validatePolicy(r)
             \/ Channels!publishPolicy(r) \/ Channels!rollbackPolicy(r) \/ Channels!deliver(r) \/ Channels!replay(r)
             \/ Channels!channelAction(r) \/ Channels!createTemplate(r)
      PROVE  PolicyInv'
  <2>1. r.op = "connect" => r.id \notin Known(db) /\ net.out[r] = 1
    BY DEF PolicyInv, ConnectedOnce
  <2>2. Policy(db') /\ Known(db') \subseteq Known(db) \cup {id \in {r.id} : r.op = "connect"}
    BY <1>3, <2>1, ChannelRoutesKeep DEF PolicyInv
  <2> DEFINE C == [q \in DOMAIN net.out |-> IF q \in {r} THEN net.out[q] - 1 ELSE net.out[q]]
             B == Channels!(-)(net.out, Channels!SetToBag({r}))
  <2>3. net' = [out |-> B, made |-> net.made]
    BY <1>3 DEF Channels!Arrives, PolicyInv, ConnectedOnce
  <2>4. B = [q \in {d \in DOMAIN C : C[d] > 0} |-> C[q]]
    BY DEF Channels!(-), Channels!SetToBag
  <2> HIDE DEF B
  <2>5. DOMAIN B \subseteq out /\ (\A q \in DOMAIN B \ {r} : B[q] = net.out[q]) /\ \A q \in DOMAIN B : C[q] > 0
    BY <2>4 DEF Channels!BagToSet
  <2>6. Channels!BagToSet(net'.out) = DOMAIN B /\ net'.out = B
    BY <2>3 DEF Channels!BagToSet
  <2>7. r.op = "connect" => r \notin DOMAIN B
    <3> SUFFICES ASSUME r.op = "connect", r \in DOMAIN B PROVE FALSE
      OBVIOUS
    <3>1. r \in DOMAIN net.out /\ C[r] > 0
      BY <2>5 DEF Channels!BagToSet
    <3>2. C[r] = 0
      BY <2>1, <3>1
    <3> QED BY <3>1, <3>2
  <2>8. ConnectedOnce'
    <3> SUFFICES ASSUME NEW q \in DOMAIN B, q.op = "connect"
                 PROVE  /\ q.id \notin Known(db') /\ B[q] = 1
                        /\ \A p \in DOMAIN B : p.op = "connect" /\ p.id = q.id => p = q
      BY <2>3, <2>6 DEF ConnectedOnce, Known
    <3>1. /\ q # r /\ q \in out /\ q.id \notin Known(db) /\ net.out[q] = 1
          /\ \A p \in out : p.op = "connect" /\ p.id = q.id => p = q
      BY <2>5, <2>7 DEF PolicyInv, ConnectedOnce
    <3>2. r.op = "connect" => r.id # q.id
      BY <3>1
    <3> QED BY <2>2, <2>5, <3>1, <3>2
  <2> QED BY <2>2, <2>8 DEF PolicyInv
<1> QED BY <1>1, <1>2, <1>3 DEF Channels!Next

LEMMA PolicyHolds == PolicyInv => Channels!VersionsChecked /\ Channels!InForceIsNewest
<1> SUFFICES ASSUME PolicyInv PROVE Channels!VersionsChecked /\ Channels!InForceIsNewest
  OBVIOUS
<1>1. Channels!VersionsChecked
  <2>1. PICK S : db.versions \in Seq(S) /\ \A x \in S : Fits(db, x)
    BY DEF PolicyInv, Policy
  <2>2. \A v \in DOMAIN db.versions : Fits(db, db.versions[v])
    BY <2>1, ElementOfSeq
  <2> QED BY <2>2 DEF Fits, Channels!VersionsChecked, Channels!KindOf, Channels!NoArg
<1>2. ASSUME NEW id \in DOMAIN db.deployments
      PROVE  /\ Channels!isWebhookInboundMode(db.deployments[id]) <=> db.deployments[id].path
             /\ db.deployments[id].keys => db.deployments[id].path
  <2> DEFINE d == db.deployments[id]
  <2>1. Called(d)
    BY DEF PolicyInv, Policy
  <2> HIDE DEF d
  <2>2. (Channels!isWebhookInboundMode(d) <=> d.path) /\ (d.keys => d.path)
    <3>1. PICK k, s, m, p, y :
              /\ d = [kind |-> k, status |-> s, mode |-> m, path |-> p, keys |-> y]
              /\ p \in BOOLEAN /\ y \in BOOLEAN
              /\ p <=> m = "webhook"
              /\ y => p
      BY <2>1, Zenon DEF Called
    <3>2. d.mode = m /\ d.path = p /\ d.keys = y
      BY <3>1
    <3>3. m = "" => m # "webhook"
      BY Zenon
    <3> QED BY Zenon, <3>1, <3>2, <3>3 DEF Channels!isWebhookInboundMode, Channels!NoArg
  <2> QED BY <2>2 DEF d
<1>3. db.policy.status = "published" => db.versions # <<>> /\ db.policy.route = Channels!Last(db.versions)
  BY DEF PolicyInv, Policy, Channels!Last
<1> QED BY <1>1, <1>2, <1>3 DEF Channels!InForceIsNewest

\* No version of a delivery policy was left unchecked, whatever happened to its
\* deployments between the check and the publication; the policy in force is
\* the newest version, and a callback address goes with the callback mode.
THEOREM ChannelsStayChecked ==
    Channels!Init /\ [][Channels!Next]_(Channels!vars) => [](Channels!VersionsChecked /\ Channels!InForceIsNewest)
<1> QED BY PolicyInit, PolicyNext, PolicyHolds, PTL

-----------------------------------------------------------------------------
(* Assisted orchestration. *)

\* A session that was applied or discarded, and a generation that was, take no
\* apply any more; only a session opens again, when it generates.
Rested(d, id) == id \in DOMAIN d.sessions /\ d.sessions[id].status \in {"applied", "discarded"}
Spent(d, id) == id \in DOMAIN d.generations /\ d.generations[id].status # "review_required"

\* The session of the event was generated for again after it.
Reopened(d, i) == \E k \in i..Len(d.log) : d.log[k].op = "generate" /\ d.log[k].id = d.log[i].id

OrchShape(d) ==
    d = [sessions |-> d.sessions, generations |-> d.generations, versions |-> d.versions,
         templateCandidates |-> d.templateCandidates, deposited |-> d.deposited, knowledge |-> d.knowledge,
         log |-> d.log]

OrchRows ==
    /\ OrchShape(db) /\ \E S : db.log \in Seq(S)
    /\ \A id \in DOMAIN db.sessions : "status" \in DOMAIN db.sessions[id]
    /\ "gen" \in DOMAIN db.generations /\ \A id \in DOMAIN db.generations : "status" \in DOMAIN db.generations[id]

ApplyRests ==
    \A i \in DOMAIN db.log :
        /\ db.log[i].op = "apply" => Reopened(db, i) \/ Rested(db, db.log[i].id)
        /\ db.log[i].op = "applyGeneration" => Spent(db, db.log[i].id)

OrchData == OrchRows /\ ApplyRests /\ Orch!AppliedOncePerGeneration

\* A session that is being made has no row and one request.
MadeOnce ==
    \A r \in Orch!BagToSet(net.out) : r.op = "create" =>
        /\ r.id \notin DOMAIN db.sessions /\ net.out[r] = 1
        /\ \A q \in Orch!BagToSet(net.out) : q.op = "create" /\ q.id = r.id => q = r

OrchRequests ==
    /\ net = [out |-> net.out, made |-> net.made]
    /\ \A r \in Orch!BagToSet(net.out) : r.op \in {"applyGeneration", "discardGeneration"} => r.id = "gen"

OrchInv == OrchData /\ OrchRequests /\ MadeOnce

\* What an event in the log may do to sessions and generations.
LEMMA OrchLogged ==
    ASSUME OrchData, NEW e, OrchRows', db'.log = Append(db.log, e),
           \A id : Rested(db, id) => Rested(db', id) \/ (e.op = "generate" /\ e.id = id),
           \A id : Spent(db, id) => Spent(db', id),
           e.op = "apply" => ~Rested(db, e.id) /\ Rested(db', e.id),
           e.op = "applyGeneration" => ~Spent(db, e.id) /\ Spent(db', e.id)
    PROVE  OrchData'
<1> DEFINE n == Len(db.log)
<1>1. PICK S : db.log \in Seq(S)
  BY DEF OrchData, OrchRows
<1>2. /\ n \in Nat /\ DOMAIN db.log = 1..n
      /\ Len(db'.log) = n + 1 /\ DOMAIN db'.log = 1..(n + 1)
      /\ db'.log[n + 1] = e /\ \A i \in 1..n : db'.log[i] = db.log[i]
  <2> DEFINE T == S \cup {e}
             log == db.log
  <2>1. log \in Seq(T) /\ e \in T
    BY <1>1, SeqMonotonic
  <2> HIDE DEF T, log
  <2>2. /\ Len(log) \in Nat /\ DOMAIN log = 1..Len(log)
        /\ Len(Append(log, e)) = Len(log) + 1 /\ DOMAIN Append(log, e) = 1..(Len(log) + 1)
        /\ Append(log, e)[Len(log) + 1] = e /\ \A i \in 1..Len(log) : Append(log, e)[i] = log[i]
    BY <2>1, AppendProperties, LenProperties
  <2> QED BY <2>2 DEF log
<1> HIDE DEF n
<1>3. \A i \in 1..n : Reopened(db, i) => Reopened(db', i)
  BY <1>2 DEF Reopened, n
<1>4. \A i \in 1..n : e.op = "generate" /\ e.id = db.log[i].id => Reopened(db', i)
  BY <1>2 DEF Reopened
<1>5. ApplyRests'
  <2> SUFFICES ASSUME NEW i \in 1..(n + 1)
               PROVE  /\ db'.log[i].op = "apply" => Reopened(db', i) \/ Rested(db', db'.log[i].id)
                      /\ db'.log[i].op = "applyGeneration" => Spent(db', db'.log[i].id)
    BY <1>2 DEF ApplyRests, Reopened, Rested, Spent
  <2>1. CASE i = n + 1
    BY <1>2, <2>1
  <2>2. CASE i \in 1..n
    BY <1>2, <1>3, <1>4, <2>2 DEF OrchData, ApplyRests
  <2> QED BY <1>2, <2>1, <2>2
<1>6. Orch!AppliedOncePerGeneration'
  <2> SUFFICES ASSUME NEW i \in 1..(n + 1), NEW j \in 1..(n + 1), i < j, db'.log[i].id = db'.log[j].id,
                      db'.log[i].op \in {"apply", "applyGeneration"}, db'.log[j].op = db'.log[i].op
               PROVE  \E k \in i..j : db'.log[k].op = "generate" /\ db'.log[k].id = db'.log[j].id
    <3>1. DOMAIN db'.log = 1..(n + 1)
      BY <1>2
    <3> QED BY <3>1, Zenon DEF Orch!AppliedOncePerGeneration
  <2>1. i \in 1..n
    BY <1>2
  <2>2. CASE j = n + 1
    <3>1. db.log[i].id = e.id /\ db.log[i].op = e.op
      BY <1>2, <2>1, <2>2
    <3>2. Reopened(db, i)
      BY <1>2, <2>1, <2>2, <3>1 DEF OrchData, ApplyRests
    <3> QED BY <1>2, <2>1, <2>2, <3>1, <3>2 DEF Reopened, n
  <2>3. CASE j \in 1..n
    <3>0. /\ db.log[i].id = db.log[j].id /\ db.log[j].op = db.log[i].op /\ i < j
          /\ db.log[i].op \in {"apply", "applyGeneration"} /\ i \in DOMAIN db.log /\ j \in DOMAIN db.log
      BY <1>2, <2>1, <2>3
    <3>1. PICK k \in i..j : db.log[k].op = "generate" /\ db.log[k].id = db.log[j].id
      BY <3>0 DEF OrchData, Orch!AppliedOncePerGeneration
    <3> QED BY <1>2, <2>1, <2>3, <3>1
  <2> QED BY <1>2, <2>2, <2>3
<1> QED BY <1>5, <1>6 DEF OrchData

\* Most requests write a session, and log it.
Wrote(r) == db'.log = Append(db.log, [op |-> r.op, by |-> r.by, id |-> r.id, arg |-> r.arg]) /\ OrchShape(db')

LEMMA LogStays ==
    ASSUME OrchData, NEW e
    PROVE  \E S : Append(db.log, e) \in Seq(S)
<1>1. PICK S : db.log \in Seq(S)
  BY DEF OrchData, OrchRows
<1>2. db.log \in Seq(S \cup {e})
  BY <1>1, SeqMonotonic
<1>3. Append(db.log, e) \in Seq(S \cup {e})
  BY <1>2, AppendProperties
<1> QED BY <1>3

LEMMA SessionKeeps ==
    ASSUME OrchData, NEW r, r.id \in DOMAIN db.sessions, NEW s, "status" \in DOMAIN s,
           r.op \notin {"apply", "applyGeneration"},
           \/ s.status = db.sessions[r.id].status \/ s.status = "discarded" \/ r.op = "generate",
           Wrote(r), db'.sessions = [db.sessions EXCEPT ![r.id] = s], db'.generations = db.generations
    PROVE  OrchData' /\ DOMAIN db'.sessions = DOMAIN db.sessions
<1> DEFINE e == [op |-> r.op, by |-> r.by, id |-> r.id, arg |-> r.arg]
<1>1. e.op = r.op /\ e.id = r.id /\ db'.log = Append(db.log, e)
  BY DEF Wrote
<1> HIDE DEF e
<1>2. \E S : db'.log \in Seq(S)
  <2>1. \E S : Append(db.log, e) \in Seq(S)
    BY LogStays
  <2> QED BY <1>1, <2>1
<1>3. OrchRows'
  BY <1>2 DEF OrchData, OrchRows, OrchShape, Wrote
<1>4. \A id : Rested(db, id) => Rested(db', id) \/ (r.op = "generate" /\ r.id = id)
  BY DEF Rested
<1>5. \A id : Spent(db, id) => Spent(db', id)
  BY DEF Spent
<1> QED BY <1>1, <1>3, <1>4, <1>5, OrchLogged

LEMMA SessionWritten ==
    ASSUME OrchData, NEW r, NEW s, db' = Orch!Session(r, s)
    PROVE  Wrote(r) /\ db'.sessions = [db.sessions EXCEPT ![r.id] = s] /\ db'.generations = db.generations
BY DEF Orch!Session, Orch!Logged, Wrote, OrchData, OrchRows, OrchShape

\* What is asked of a session, but for its candidates' becoming a version.
SessionRoute(r) ==
    \/ Orch!patchSession(r) \/ Orch!attach(r) \/ Orch!message(r) \/ Orch!generate(r) \/ Orch!discard(r)
    \/ Orch!activateCandidate(r) \/ Orch!adjust(r) \/ Orch!retrieveRunbook(r)

LEMMA SessionRoutesKeep ==
    ASSUME OrchData, NEW r, SessionRoute(r), db' # db
    PROVE  OrchData' /\ DOMAIN db'.sessions = DOMAIN db.sessions
<1> DEFINE old == db.sessions[r.id]
           Kept(s) == "status" \in DOMAIN s /\ s.status = old.status
<1>1. r.id \in DOMAIN db.sessions /\ r.op \notin {"apply", "applyGeneration"}
  BY DEF SessionRoute, Orch!patchSession, Orch!attach, Orch!message, Orch!generate, Orch!discard,
         Orch!activateCandidate, Orch!adjust, Orch!retrieveRunbook, Orch!Handle, Orch!orchestrationSessionPath
<1>2. "status" \in DOMAIN old
  BY <1>1 DEF OrchData, OrchRows
<1>3. \E s : /\ db' = Orch!Session(r, s) /\ "status" \in DOMAIN s
             /\ s.status = old.status \/ s.status = "discarded" \/ r.op = "generate"
  <2>1. CASE Orch!patchSession(r)
    <3> DEFINE s == [old EXCEPT !.goal = TRUE]
    <3>1. db' = Orch!Session(r, s)
      BY <2>1 DEF Orch!patchSession, Orch!Handle
    <3>2. Kept(s)
      BY <1>2
    <3> QED BY <3>1, <3>2
  <2>2. CASE Orch!attach(r)
    <3> DEFINE documents == old.documents + 1
               said == old.said + 1
               s == [old EXCEPT !.documents = documents, !.said = said]
    <3>1. db' = Orch!Session(r, s)
      BY <2>2 DEF Orch!attach, Orch!Handle
    <3> HIDE DEF documents, said
    <3>2. Kept(s)
      BY <1>2
    <3> QED BY <3>1, <3>2
  <2>3. CASE Orch!message(r)
    <3> DEFINE said == old.said + 2
               s == [old EXCEPT !.goal = TRUE, !.said = said]
    <3>1. db' = Orch!Session(r, s)
      BY <2>3 DEF Orch!message, Orch!Handle
    <3> HIDE DEF said
    <3>2. Kept(s)
      BY <1>2
    <3> QED BY <3>1, <3>2
  <2>4. CASE Orch!generate(r)
    <3> DEFINE talked == Orch!invokeOrchestrationModel(old)
               said == old.said + 1
               candidates == Append(talked.candidates, Orch!buildOrchestrationCandidate(old))
               active == Len(old.candidates) + 1
               s == [talked EXCEPT !.candidates = candidates, !.active = active, !.status = "ready"]
    <3>1. db' = Orch!Session(r, s) /\ r.op = "generate"
      BY <2>4 DEF Orch!generate, Orch!Handle
    <3>2. talked = [old EXCEPT !.said = said]
      BY DEF Orch!invokeOrchestrationModel
    <3> HIDE DEF said, candidates, active, talked
    <3>3. "status" \in DOMAIN s
      BY <1>2, <3>2
    <3> HIDE DEF s
    <3> QED BY <3>1, <3>3
  <2>5. CASE Orch!discard(r)
    <3> DEFINE s == [old EXCEPT !.status = "discarded"]
    <3>1. db' = Orch!Session(r, s)
      BY <2>5 DEF Orch!discard, Orch!Handle
    <3>2. "status" \in DOMAIN s /\ s.status = "discarded"
      BY <1>2
    <3> QED BY <3>1, <3>2
  <2>6. CASE Orch!activateCandidate(r)
    <3> DEFINE s == [old EXCEPT !.active = r.seen]
    <3>1. db' = Orch!Session(r, s)
      BY <2>6 DEF Orch!activateCandidate, Orch!Handle
    <3>2. Kept(s)
      BY <1>2
    <3> QED BY <3>1, <3>2
  <2>7. CASE Orch!adjust(r)
    <3> DEFINE s == Orch!patchOrchestrationCandidate(old, r.seen)
               candidates == Append(old.candidates, [version |-> old.candidates[Len(old.candidates)].version + 1,
                                                     trimmed |-> TRUE])
               active == Len(old.candidates) + 1
               said == old.said + 1
    <3>1. db' = Orch!Session(r, s)
      BY <2>7 DEF Orch!adjust, Orch!Handle
    <3>2. s = [old EXCEPT !.candidates = candidates, !.active = active, !.said = said]
      BY DEF Orch!patchOrchestrationCandidate
    <3> HIDE DEF s, candidates, active, said
    <3>3. Kept(s)
      BY <1>2, <3>2
    <3> QED BY <3>1, <3>3
  <2>8. CASE Orch!retrieveRunbook(r)
    <3> DEFINE s == Orch!invokeOrchestrationModel(old)
               said == old.said + 1
    <3>1. db' = Orch!Session(r, s)
      BY <2>8 DEF Orch!retrieveRunbook, Orch!Handle
    <3>2. s = [old EXCEPT !.said = said]
      BY DEF Orch!invokeOrchestrationModel
    <3> HIDE DEF s, said
    <3>3. Kept(s)
      BY <1>2, <3>2
    <3> QED BY <3>1, <3>3
  <2> QED BY <2>1, <2>2, <2>3, <2>4, <2>5, <2>6, <2>7, <2>8 DEF SessionRoute
<1> QED BY <1>1, <1>3, SessionWritten, SessionKeeps

\* A proposal and a deposit write one table more.
LEMMA SideRoutesKeep ==
    ASSUME OrchData, NEW r, Orch!proposeTemplate(r) \/ Orch!depositKnowledge(r), db' # db
    PROVE  OrchData' /\ DOMAIN db'.sessions = DOMAIN db.sessions
<1> DEFINE old == db.sessions[r.id]
           said == old.said + 1
<1>1. r.id \in DOMAIN db.sessions /\ r.op \in {"propose", "deposit"}
  BY DEF Orch!proposeTemplate, Orch!depositKnowledge, Orch!Handle, Orch!orchestrationSessionPath
<1>2. "status" \in DOMAIN old
  BY <1>1 DEF OrchData, OrchRows
<1>3. CASE Orch!proposeTemplate(r)
  <2> DEFINE s == [old EXCEPT !.template = "pending_approval", !.said = said]
             proposed == Append(db.templateCandidates, r.id)
  <2>1. db' = Orch!Logged([db EXCEPT !.templateCandidates = proposed, !.sessions[r.id] = s], r)
    BY <1>3 DEF Orch!proposeTemplate, Orch!Handle
  <2>2. "status" \in DOMAIN s /\ s.status = old.status
    BY <1>2
  <2> HIDE DEF s, proposed
  <2>3. Wrote(r) /\ db'.sessions = [db.sessions EXCEPT ![r.id] = s] /\ db'.generations = db.generations
    BY <2>1 DEF Orch!Logged, Wrote, OrchData, OrchRows, OrchShape
  <2> QED BY <1>1, <2>2, <2>3, SessionKeeps
<1>4. CASE Orch!depositKnowledge(r)
  <2> DEFINE s == [old EXCEPT !.said = said]
             deposited == db.deposited \cup {r.id}
  <2>1. db' = Orch!Logged([db EXCEPT !.deposited = deposited, !.sessions[r.id] = s], r)
    BY <1>4 DEF Orch!depositKnowledge, Orch!Handle
  <2>2. "status" \in DOMAIN s /\ s.status = old.status
    BY <1>2
  <2> HIDE DEF s, deposited
  <2>3. Wrote(r) /\ db'.sessions = [db.sessions EXCEPT ![r.id] = s] /\ db'.generations = db.generations
    BY <2>1 DEF Orch!Logged, Wrote, OrchData, OrchRows, OrchShape
  <2> QED BY <1>1, <2>2, <2>3, SessionKeeps
<1> QED BY <1>3, <1>4

\* One candidate becomes a version, of a session that had not rested.
LEMMA ApplyKeeps ==
    ASSUME OrchData, NEW r, Orch!apply(r), db' # db
    PROVE  OrchData' /\ DOMAIN db'.sessions = DOMAIN db.sessions
<1> DEFINE old == db.sessions[r.id]
           rev == Len(db.versions) + 1
           versions == Append(db.versions, [from |-> r.id, candidate |-> r.seen])
           s == [old EXCEPT !.status = "applied", !.rev = rev]
           e == [op |-> r.op, by |-> r.by, id |-> r.id, arg |-> r.arg]
<1>1. /\ r.id \in DOMAIN db.sessions /\ r.op = "apply" /\ ~Rested(db, r.id)
      /\ db' = Orch!Logged([db EXCEPT !.versions = versions, !.sessions[r.id] = s], r)
  BY DEF Orch!apply, Orch!Handle, Orch!orchestrationSessionPath, Rested
<1>2. "status" \in DOMAIN s /\ s.status = "applied"
  <2> HIDE DEF rev
  <2>1. "status" \in DOMAIN old
    BY <1>1 DEF OrchData, OrchRows
  <2> QED BY <2>1
<1> HIDE DEF s, versions
<1>3. Wrote(r) /\ db'.sessions = [db.sessions EXCEPT ![r.id] = s] /\ db'.generations = db.generations
  BY <1>1 DEF Orch!Logged, Wrote, OrchData, OrchRows, OrchShape
<1>4. e.op = "apply" /\ e.id = r.id /\ db'.log = Append(db.log, e)
  BY <1>1, <1>3 DEF Wrote
<1> HIDE DEF e
<1>5. \E S : db'.log \in Seq(S)
  BY <1>4, LogStays
<1>6. OrchRows'
  BY <1>1, <1>2, <1>3, <1>5 DEF OrchData, OrchRows, OrchShape, Wrote
<1>7. \A id : Rested(db, id) => Rested(db', id)
  BY <1>2, <1>3 DEF Rested
<1>8. Rested(db', r.id)
  BY <1>1, <1>2, <1>3 DEF Rested
<1>9. \A id : Spent(db, id) => Spent(db', id)
  BY <1>3 DEF Spent
<1> QED BY <1>1, <1>3, <1>4, <1>6, <1>7, <1>8, <1>9, OrchLogged

\* A new session takes a name that no other had.
LEMMA CreateKeeps ==
    ASSUME OrchData, NEW r, r.id \notin DOMAIN db.sessions, Orch!createSession(r), db' # db
    PROVE  OrchData' /\ DOMAIN db'.sessions = DOMAIN db.sessions \cup {r.id}
<1> DEFINE s == Orch!emptySession(r.by)
           sessions == Orch!Unshifted(db.sessions, r.id, s)
           e == [op |-> r.op, by |-> r.by, id |-> r.id, arg |-> r.arg]
<1>1. r.op = "create" /\ db' = Orch!Logged([db EXCEPT !.sessions = sessions], r)
  BY DEF Orch!createSession, Orch!Handle
<1>2. "status" \in DOMAIN s
  BY DEF Orch!emptySession
<1> HIDE DEF s
<1>3. /\ DOMAIN sessions = DOMAIN db.sessions \cup {r.id} /\ sessions[r.id] = s
      /\ \A id \in DOMAIN db.sessions : sessions[id] = db.sessions[id]
  BY DEF Orch!Unshifted
<1> HIDE DEF sessions
<1>4. Wrote(r) /\ db'.sessions = sessions /\ db'.generations = db.generations
  BY <1>1 DEF Orch!Logged, Wrote, OrchData, OrchRows, OrchShape
<1>5. e.op = "create" /\ db'.log = Append(db.log, e)
  BY <1>1, <1>4 DEF Wrote
<1> HIDE DEF e
<1>6. \E S : db'.log \in Seq(S)
  BY <1>5, LogStays
<1>7. OrchRows'
  BY <1>2, <1>3, <1>4, <1>6 DEF OrchData, OrchRows, OrchShape, Wrote
<1>8. \A id : Rested(db, id) => Rested(db', id)
  BY <1>3, <1>4 DEF Rested
<1>9. \A id : Spent(db, id) => Spent(db', id)
  BY <1>4 DEF Spent
<1> QED BY <1>3, <1>4, <1>5, <1>7, <1>8, <1>9, OrchLogged

LEMMA GenerationKeeps ==
    ASSUME OrchData, NEW r, r.id = "gen", Orch!generationAction(r), db' # db
    PROVE  OrchData' /\ DOMAIN db'.sessions = DOMAIN db.sessions
<1> DEFINE old == db.generations["gen"]
           e == [op |-> r.op, by |-> r.by, id |-> r.id, arg |-> r.arg]
<1>1. "gen" \in DOMAIN db.generations /\ "status" \in DOMAIN old
  BY DEF OrchData, OrchRows
<1>2. \E g : /\ Wrote(r) /\ db'.generations = [db.generations EXCEPT !["gen"] = g] /\ db'.sessions = db.sessions
             /\ "status" \in DOMAIN g /\ g.status # "review_required"
             /\ r.op = "discardGeneration" \/ (r.op = "applyGeneration" /\ old.status = "review_required")
  <2>1. CASE r.op = "discardGeneration"
    <3> DEFINE g == [old EXCEPT !.status = "discarded"]
    <3>1. db' = Orch!Logged([db EXCEPT !.generations["gen"] = g], r)
      BY <2>1 DEF Orch!generationAction, Orch!Handle
    <3>2. "status" \in DOMAIN g /\ g.status = "discarded"
      BY <1>1
    <3> HIDE DEF g
    <3>3. Wrote(r) /\ db'.generations = [db.generations EXCEPT !["gen"] = g] /\ db'.sessions = db.sessions
      BY <3>1 DEF Orch!Logged, Wrote, OrchData, OrchRows, OrchShape
    <3> QED BY <2>1, <3>2, <3>3
  <2>2. CASE r.op = "applyGeneration"
    <3> DEFINE rev == Len(db.versions) + 1
               versions == Append(db.versions, [from |-> r.id, candidate |-> 1])
               g == [status |-> "applied", rev |-> rev]
    <3>1. /\ db' = Orch!Logged([db EXCEPT !.versions = versions, !.generations["gen"] = g], r)
          /\ old.status = "review_required"
      BY <2>2 DEF Orch!generationAction, Orch!Handle
    <3>2. "status" \in DOMAIN g /\ g.status = "applied"
      OBVIOUS
    <3> HIDE DEF g, versions
    <3>3. Wrote(r) /\ db'.generations = [db.generations EXCEPT !["gen"] = g] /\ db'.sessions = db.sessions
      BY <3>1 DEF Orch!Logged, Wrote, OrchData, OrchRows, OrchShape
    <3> QED BY <2>2, <3>1, <3>2, <3>3
  <2> QED BY <2>1, <2>2 DEF Orch!generationAction
<1>3. e.op = r.op /\ e.id = "gen"
  OBVIOUS
<1> HIDE DEF e
<1>4. db'.log = Append(db.log, e) /\ \E S : db'.log \in Seq(S)
  <2>1. \E S : Append(db.log, e) \in Seq(S)
    BY LogStays
  <2>2. db'.log = Append(db.log, e)
    BY <1>2 DEF Wrote, e
  <2> QED BY <2>1, <2>2
<1>5. OrchRows'
  BY <1>1, <1>2, <1>4 DEF OrchData, OrchRows, OrchShape, Wrote
<1>6. \A id : Rested(db, id) => Rested(db', id)
  BY <1>2 DEF Rested
<1>7. (\A id : Spent(db, id) => Spent(db', id)) /\ Spent(db', "gen")
  BY <1>1, <1>2 DEF Spent
<1>8. r.op = "applyGeneration" => ~Spent(db, "gen")
  BY <1>2 DEF Spent
<1> QED BY <1>2, <1>3, <1>4, <1>5, <1>6, <1>7, <1>8, OrchLogged

LEMMA OrchInit == Orch!Init => OrchInv
<1> SUFFICES ASSUME Orch!Init PROVE OrchInv
  OBVIOUS
<1> DEFINE fresh == [Orch!emptySession("u2") EXCEPT !.goal = FALSE, !.documents = 2]
           candidates == <<[version |-> 1, trimmed |-> FALSE]>>
           ready == [Orch!emptySession("u2") EXCEPT !.status = "ready", !.active = 1, !.candidates = candidates]
           sessions == [sNew |-> fresh, sReady |-> ready]
           generations == [gen |-> [status |-> "review_required", rev |-> 0]]
<1>1. /\ OrchShape(db) /\ db.sessions = sessions /\ db.generations = generations /\ db.log = <<>>
      /\ net = [out |-> Orch!EmptyBag, made |-> 0]
  <2> HIDE DEF sessions, generations
  <2>1. /\ db = [sessions |-> sessions, generations |-> generations, versions |-> <<>>, templateCandidates |-> <<>>,
                 deposited |-> {}, knowledge |-> "ready", log |-> <<>>]
        /\ net = [out |-> Orch!EmptyBag, made |-> 0]
    BY DEF Orch!Init, Orch!NetInit, sessions, generations
  <2> QED BY <2>1 DEF OrchShape
<1>2. "status" \in DOMAIN fresh /\ "status" \in DOMAIN ready
  <2> DEFINE empty == Orch!emptySession("u2")
  <2>1. "status" \in DOMAIN empty
    BY DEF Orch!emptySession
  <2>2. DOMAIN fresh = DOMAIN empty /\ DOMAIN ready = DOMAIN empty
    <3> HIDE DEF empty, candidates
    <3> QED BY DEF empty
  <2> QED BY <2>1, <2>2
<1> HIDE DEF fresh, ready
<1>3. \A id \in DOMAIN sessions : "status" \in DOMAIN sessions[id]
  BY <1>2
<1>4. "gen" \in DOMAIN generations /\ \A id \in DOMAIN generations : "status" \in DOMAIN generations[id]
  OBVIOUS
<1> HIDE DEF sessions, generations
<1>5. OrchRows
  BY <1>1, <1>3, <1>4 DEF OrchRows
<1>6. OrchData
  BY <1>1, <1>5 DEF OrchData, ApplyRests, Orch!AppliedOncePerGeneration
<1>7. Orch!BagToSet(net.out) = {}
  BY <1>1 DEF Orch!BagToSet, Orch!EmptyBag, Orch!SetToBag
<1> QED BY <1>1, <1>6, <1>7 DEF OrchInv, OrchRequests, MadeOnce

LEMMA OrchKept ==
    ASSUME OrchData, db' = db
    PROVE  OrchData'
BY DEF OrchData, OrchRows, OrchShape, ApplyRests, Reopened, Rested, Spent, Orch!AppliedOncePerGeneration

LEMMA OrchRoutesKeep ==
    ASSUME OrchData, NEW r,
           r.op \in {"applyGeneration", "discardGeneration"} => r.id = "gen",
           r.op = "create" => r.id \notin DOMAIN db.sessions,
           \/ Orch!createSession(r) \/ Orch!patchSession(r) \/ Orch!attach(r) \/ Orch!message(r)
           \/ Orch!generate(r) \/ Orch!apply(r) \/ Orch!discard(r) \/ Orch!activateCandidate(r) \/ Orch!adjust(r)
           \/ Orch!retrieveRunbook(r) \/ Orch!proposeTemplate(r) \/ Orch!depositKnowledge(r)
           \/ Orch!generationAction(r)
    PROVE  OrchData' /\ DOMAIN db'.sessions \subseteq DOMAIN db.sessions \cup {id \in {r.id} : r.op = "create"}
<1>1. CASE db' = db
  BY <1>1, OrchKept
<1>2. CASE db' # db
  <2>1. CASE SessionRoute(r)
    BY <1>2, <2>1, SessionRoutesKeep
  <2>2. CASE Orch!proposeTemplate(r) \/ Orch!depositKnowledge(r)
    BY <1>2, <2>2, SideRoutesKeep
  <2>3. CASE Orch!apply(r)
    BY <1>2, <2>3, ApplyKeeps
  <2>4. CASE Orch!createSession(r)
    <3>1. r.op = "create"
      BY <2>4 DEF Orch!createSession
    <3> QED BY <1>2, <2>4, <3>1, CreateKeeps
  <2>5. CASE Orch!generationAction(r)
    <3>1. r.id = "gen"
      BY <2>5 DEF Orch!generationAction
    <3> QED BY <1>2, <2>5, <3>1, GenerationKeeps
  <2> QED BY <2>1, <2>2, <2>3, <2>4, <2>5 DEF SessionRoute
<1> QED BY <1>1, <1>2

\* What a page asks for: a session of a name nobody uses, the one generation.
LEMMA OrchOffers ==
    ASSUME NEW u, NEW r \in Orch!Offers(u)
    PROVE  /\ r.op \in {"applyGeneration", "discardGeneration"} => r.id = "gen"
           /\ r.op = "create" => r.id \notin DOMAIN db.sessions /\ \A q \in Orch!BagToSet(net.out) : q.id # r.id
<1>1. CASE r \in Orch!bootstrapSession(u)
  BY <1>1 DEF Orch!bootstrapSession, Orch!When, Orch!Req, Orch!Vacant
<1>2. CASE r \in Orch!WorkflowAIGeneratorDrawer(u)
  BY <1>2 DEF Orch!WorkflowAIGeneratorDrawer, Orch!Req
<1>3. CASE \E id : r \in Orch!WorkflowOrchestrationSessionPage(u, id)
  BY <1>3 DEF Orch!WorkflowOrchestrationSessionPage, Orch!onUploadMarkdown, Orch!onAttachKnowledge, Orch!syncGoal,
              Orch!onSend, Orch!onGenerate, Orch!onRetrieve, Orch!onDeposit, Orch!onActivateCandidate,
              Orch!onPatchCandidate, Orch!onProposeTemplate, Orch!onApply, Orch!onDiscard, Orch!When, Orch!Req
<1> QED BY <1>1, <1>2, <1>3 DEF Orch!Offers

LEMMA OrchNext == OrchInv /\ [Orch!Next]_(Orch!vars) => OrchInv'
<1> SUFFICES ASSUME OrchInv, [Orch!Next]_(Orch!vars) PROVE OrchInv'
  OBVIOUS
<1> DEFINE out == Orch!BagToSet(net.out)
<1>1. CASE UNCHANGED Orch!vars
  BY <1>1, OrchKept DEF Orch!vars, OrchInv, OrchRequests, MadeOnce
<1>2. ASSUME NEW u, NEW r \in Orch!Offers(u), Orch!Ask(r) PROVE OrchInv'
  <2>1. /\ r.op \in {"applyGeneration", "discardGeneration"} => r.id = "gen"
        /\ r.op = "create" => r.id \notin DOMAIN db.sessions /\ \A q \in out : q.id # r.id
    BY OrchOffers
  <2> DEFINE B == Orch!(+)(net.out, Orch!SetToBag({r}))
  <2>2. net' = [out |-> B, made |-> net.made + 1] /\ db' = db
    BY <1>2 DEF Orch!Ask
  <2>3. B = [q \in DOMAIN net.out \cup {r} |->
                (IF q \in DOMAIN net.out THEN net.out[q] ELSE 0) + (IF q = r THEN 1 ELSE 0)]
    BY DEF Orch!(+), Orch!SetToBag
  <2> HIDE DEF B
  <2>4. /\ DOMAIN B = out \cup {r} /\ (\A q \in DOMAIN B \ {r} : net.out[q] = 1 => B[q] = 1)
        /\ r \notin out => B[r] = 1
    BY <2>3 DEF Orch!BagToSet
  <2>5. Orch!BagToSet(net'.out) = out \cup {r} /\ net'.out = B
    BY <2>2, <2>4 DEF Orch!BagToSet
  <2>6. OrchRequests'
    BY <2>1, <2>2, <2>5 DEF OrchInv, OrchRequests
  <2>7. MadeOnce'
    <3> SUFFICES ASSUME NEW q \in out \cup {r}, q.op = "create"
                 PROVE  /\ q.id \notin DOMAIN db.sessions /\ B[q] = 1
                        /\ \A p \in out \cup {r} : p.op = "create" /\ p.id = q.id => p = q
      BY <2>2, <2>5 DEF MadeOnce
    <3>1. CASE q = r
      BY <2>1, <2>4, <3>1
    <3>2. CASE q # r
      BY <2>1, <2>4, <3>2 DEF OrchInv, MadeOnce
    <3> QED BY <3>1, <3>2
  <2> QED BY <2>2, <2>6, <2>7, OrchKept DEF OrchInv
<1>3. ASSUME NEW r \in out, Orch!Arrives(r),
             \/ Orch!createSession(r) \/ Orch!patchSession(r) \/ Orch!attach(r) \/ Orch!message(r)
             \/ Orch!generate(r) \/ Orch!apply(r) \/ Orch!discard(r) \/ Orch!activateCandidate(r) \/ Orch!adjust(r)
             \/ Orch!retrieveRunbook(r) \/ Orch!proposeTemplate(r) \/ Orch!depositKnowledge(r)
             \/ Orch!generationAction(r)
      PROVE  OrchInv'
  <2>1. /\ r.op \in {"applyGeneration", "discardGeneration"} => r.id = "gen"
        /\ r.op = "create" => r.id \notin DOMAIN db.sessions /\ net.out[r] = 1
    BY DEF OrchInv, OrchRequests, MadeOnce
  <2>2. OrchData' /\ DOMAIN db'.sessions \subseteq DOMAIN db.sessions \cup {id \in {r.id} : r.op = "create"}
    BY <1>3, <2>1, OrchRoutesKeep DEF OrchInv
  <2> DEFINE C == [q \in DOMAIN net.out |-> IF q \in {r} THEN net.out[q] - 1 ELSE net.out[q]]
             B == Orch!(-)(net.out, Orch!SetToBag({r}))
  <2>3. net' = [out |-> B, made |-> net.made]
    BY <1>3 DEF Orch!Arrives, OrchInv, OrchRequests
  <2>4. B = [q \in {d \in DOMAIN C : C[d] > 0} |-> C[q]]
    BY DEF Orch!(-), Orch!SetToBag
  <2> HIDE DEF B
  <2>5. DOMAIN B \subseteq out /\ (\A q \in DOMAIN B \ {r} : B[q] = net.out[q]) /\ \A q \in DOMAIN B : C[q] > 0
    BY <2>4 DEF Orch!BagToSet
  <2>6. Orch!BagToSet(net'.out) = DOMAIN B /\ net'.out = B
    BY <2>3 DEF Orch!BagToSet
  <2>7. OrchRequests'
    BY <2>3, <2>5, <2>6 DEF OrchInv, OrchRequests
  <2>8. r.op = "create" => r \notin DOMAIN B
    <3> SUFFICES ASSUME r.op = "create", r \in DOMAIN B PROVE FALSE
      OBVIOUS
    <3>1. r \in DOMAIN net.out /\ C[r] > 0
      BY <2>5 DEF Orch!BagToSet
    <3>2. C[r] = 0
      BY <2>1, <3>1
    <3> QED BY <3>1, <3>2
  <2>9. MadeOnce'
    <3> SUFFICES ASSUME NEW q \in DOMAIN B, q.op = "create"
                 PROVE  /\ q.id \notin DOMAIN db'.sessions /\ B[q] = 1
                        /\ \A p \in DOMAIN B : p.op = "create" /\ p.id = q.id => p = q
      BY <2>6 DEF MadeOnce
    <3>1. /\ q # r /\ q \in out /\ q.id \notin DOMAIN db.sessions /\ net.out[q] = 1
          /\ \A p \in out : p.op = "create" /\ p.id = q.id => p = q
      BY <2>5, <2>8 DEF OrchInv, MadeOnce
    <3>2. r.op = "create" => r.id # q.id
      BY <3>1
    <3> QED BY <2>2, <2>5, <3>1, <3>2
  <2> QED BY <2>2, <2>7, <2>9 DEF OrchInv
<1> QED BY <1>1, <1>2, <1>3 DEF Orch!Next

\* Between two generations of a session at most one of its candidates became a
\* version, however many requests to apply one were under way.
THEOREM OrchAppliesOnce == Orch!Init /\ [][Orch!Next]_(Orch!vars) => []Orch!AppliedOncePerGeneration
<1>1. OrchInv => Orch!AppliedOncePerGeneration
  BY DEF OrchInv, OrchData
<1> QED BY <1>1, OrchInit, OrchNext, PTL

-----------------------------------------------------------------------------
(* Routing policies. *)

Models == INSTANCE ModelDomain WITH Actors <- {"u1"}

\* A policy and its versions: every version was well formed, and so is what is
\* ready or published, which is the newest version.
Routed(p, versions) ==
    /\ p = [routing |-> p.routing, status |-> p.status]
    /\ \E S : versions \in Seq(S) /\ \A x \in S : Models!WellFormed(x)
    /\ p.status \in {"ready", "published"} => Models!WellFormed(p.routing)
    /\ p.status = "published" => versions # <<>> /\ versions[Len(versions)] = p.routing

ModelShape(d) ==
    d = [providers |-> d.providers, policies |-> d.policies, versions |-> d.versions, drills |-> d.drills,
         log |-> d.log]

Routes(d) ==
    /\ ModelShape(d) /\ DOMAIN d.versions = DOMAIN d.policies
    /\ \A id \in DOMAIN d.policies : Routed(d.policies[id], d.versions[id])

LEMMA ModelLogged ==
    ASSUME NEW d, ModelShape(d), NEW q
    PROVE  /\ ModelShape(Models!Logged(d, q))
           /\ Models!Logged(d, q).policies = d.policies /\ Models!Logged(d, q).versions = d.versions
BY SMTT(30) DEF Models!Logged, ModelShape

LEMMA RoutesStay ==
    ASSUME Routes(db), ModelShape(db'), db'.policies = db.policies, db'.versions = db.versions
    PROVE  Routes(db')
BY DEF Routes

\* Providers and drills: a policy stays as it is, whatever becomes of its models.
LEMMA ProvidersKeep ==
    ASSUME Routes(db), NEW r,
           \/ Models!createProvider(r) \/ Models!testProvider(r) \/ Models!updateProvider(r)
           \/ Models!disableProvider(r) \/ Models!removeProvider(r) \/ Models!failoverDrill(r)
    PROVE  Routes(db')
<1>1. ModelShape(db)
  BY DEF Routes
<1>2. ASSUME NEW d, ModelShape(d), d.policies = db.policies, d.versions = db.versions, NEW q, db' = Models!Logged(d, q)
      PROVE  Routes(db')
  <2>1. ModelShape(db') /\ db'.policies = db.policies /\ db'.versions = db.versions
    BY <1>2, ModelLogged
  <2> QED BY <2>1, RoutesStay
<1>3. CASE db' = db
  BY <1>3
<1>4. ASSUME NEW providers, NEW q, db' = Models!Logged([db EXCEPT !.providers = providers], q) PROVE Routes(db')
  <2> DEFINE d == [db EXCEPT !.providers = providers]
  <2>1. ModelShape(d) /\ d.policies = db.policies /\ d.versions = db.versions
    BY <1>1 DEF ModelShape
  <2>2. db' = Models!Logged(d, q)
    BY <1>4
  <2> HIDE DEF d
  <2> QED BY <1>2, <2>1, <2>2
<1>5. ASSUME NEW q, db' = Models!Logged(db, q) PROVE Routes(db')
  BY <1>1, <1>2, <1>5
<1>6. CASE Models!createProvider(r) /\ db' # db
  <2>1. \E providers : db' = Models!Logged([db EXCEPT !.providers = providers], r)
    BY <1>6 DEF Models!createProvider, Models!Handle
  <2> QED BY <1>4, <2>1
<1>7. CASE Models!testProvider(r) /\ db' # db
  <2> DEFINE first == [db.providers EXCEPT ![r.id].status = "active"]
             providers == [first EXCEPT ![r.id].available = TRUE]
  <2>1. db' = Models!Logged(db, r) \/ db' = Models!Logged([db EXCEPT !.providers[r.id].status = "active",
                                                                     !.providers[r.id].available = TRUE], r)
    BY <1>7 DEF Models!testProvider, Models!Handle
  <2>2. [db EXCEPT !.providers[r.id].status = "active", !.providers[r.id].available = TRUE] = [db EXCEPT !.providers = providers]
    BY <1>1 DEF ModelShape
  <2> HIDE DEF first, providers
  <2> QED BY <1>4, <1>5, <2>1, <2>2
<1>8. CASE Models!updateProvider(r) /\ db' # db
  <2> DEFINE moved == [db.providers EXCEPT ![r.id].residency = r.arg]
             rotated == [db.providers EXCEPT ![r.id].status = IF @ = "active" THEN "standby" ELSE @]
  <2>1. \/ db' = Models!Logged([db EXCEPT !.providers = moved], r)
        \/ db' = Models!Logged([db EXCEPT !.providers = rotated], r)
    BY <1>8 DEF Models!updateProvider, Models!Handle
  <2> HIDE DEF moved, rotated
  <2> QED BY <1>4, <2>1
<1>9. CASE Models!disableProvider(r) /\ db' # db
  <2> DEFINE first == [db.providers EXCEPT ![r.id].status = "disabled"]
             providers == [first EXCEPT ![r.id].available = FALSE]
  <2>1. db' = Models!Logged([db EXCEPT !.providers[r.id].status = "disabled", !.providers[r.id].available = FALSE], r)
    BY <1>9 DEF Models!disableProvider, Models!Handle
  <2>2. [db EXCEPT !.providers[r.id].status = "disabled", !.providers[r.id].available = FALSE]
            = [db EXCEPT !.providers = providers]
    BY <1>1 DEF ModelShape
  <2> HIDE DEF first, providers
  <2> QED BY <1>4, <2>1, <2>2
<1>10. CASE Models!removeProvider(r) /\ db' # db
  <2> DEFINE providers == Models!Restrict(db.providers, DOMAIN db.providers \ {r.id})
  <2>1. db' = Models!Refused(r) \/ db' = Models!Logged([db EXCEPT !.providers = providers], r)
    BY <1>10 DEF Models!removeProvider, Models!Handle
  <2> HIDE DEF providers
  <2> QED BY <1>4, <1>5, <2>1 DEF Models!Refused
<1>11. CASE Models!failoverDrill(r) /\ db' # db
  <2> DEFINE drills == db.drills \cup {db.policies[r.id].routing}
             d == [db EXCEPT !.drills = drills]
  <2>1. db' = Models!Refused(r) \/ db' = Models!Logged(d, r)
    BY <1>11 DEF Models!failoverDrill, Models!Handle
  <2>2. ModelShape(d) /\ d.policies = db.policies /\ d.versions = db.versions
    BY <1>1 DEF ModelShape
  <2> HIDE DEF d
  <2> QED BY <1>2, <1>5, <2>1, <2>2 DEF Models!Refused
<1> QED BY <1>3, <1>6, <1>7, <1>8, <1>9, <1>10, <1>11

\* One policy is written, with its versions or without them.
LEMMA PolicyWritten ==
    ASSUME Routes(db), NEW r, NEW id \in DOMAIN db.policies, NEW d, ModelShape(d),
           DOMAIN d.policies = DOMAIN db.policies, DOMAIN d.versions = DOMAIN db.versions,
           \A k \in DOMAIN db.policies \ {id} : d.policies[k] = db.policies[k] /\ d.versions[k] = db.versions[k],
           Routed(d.policies[id], d.versions[id]), db' = Models!Logged(d, r)
    PROVE  Routes(db')
<1>1. ModelShape(db') /\ db'.policies = d.policies /\ db'.versions = d.versions
  BY ModelLogged
<1>2. \A k \in DOMAIN db.policies : Routed(d.policies[k], d.versions[k])
  BY DEF Routes
<1> QED BY <1>1, <1>2 DEF Routes

\* The status is set to one under which nothing is in force.
LEMMA Unpublished ==
    ASSUME NEW p, NEW versions, Routed(p, versions), NEW routing, NEW status,
           status = "draft" \/ (status = "ready" /\ Models!WellFormed(routing))
    PROVE  Routed([routing |-> routing, status |-> status], versions)
BY DEF Routed

LEMMA DraftsKeep ==
    ASSUME Routes(db), NEW r, db' # db,
           Models!updatePolicy(r) \/ Models!validatePolicy(r) \/ Models!unpublishPolicy(r)
    PROVE  Routes(db')
<1> DEFINE old == db.policies[r.id]
           valid == Models!validateRoutingPolicy(old.routing)
           verdict == IF valid THEN "ready" ELSE "draft"
           routing == Models!Redrawn(old.routing, r)
<1>1. /\ r.id \in DOMAIN db.policies
      /\ \/ db' = Models!Logged([db EXCEPT !.policies[r.id].routing = routing, !.policies[r.id].status = "draft"], r)
         \/ db' = Models!Logged([db EXCEPT !.policies[r.id].status = verdict], r)
         \/ db' = Models!Logged([db EXCEPT !.policies[r.id].status = "draft"], r)
         \/ db' = Models!Refused(r)
  BY DEF Models!updatePolicy, Models!validatePolicy, Models!unpublishPolicy, Models!Handle, Models!Reaches
<1>2. verdict = "draft" \/ (verdict = "ready" /\ Models!WellFormed(old.routing))
  BY DEF Models!validateRoutingPolicy
<1>3. Routed(old, db.versions[r.id]) /\ ModelShape(db)
  BY <1>1 DEF Routes
<1> HIDE DEF verdict, routing
<1>4. ASSUME NEW status, status = "draft" \/ (status = "ready" /\ Models!WellFormed(old.routing)),
             db' = Models!Logged([db EXCEPT !.policies[r.id].status = status], r)
      PROVE  Routes(db')
  <2> DEFINE p == [old EXCEPT !.status = status]
             d == [db EXCEPT !.policies[r.id].status = status]
  <2>1. p = [routing |-> old.routing, status |-> status]
    BY <1>3 DEF Routed
  <2>2. ModelShape(d) /\ d.policies = [db.policies EXCEPT ![r.id] = p] /\ d.versions = db.versions
    BY <1>3 DEF ModelShape
  <2>3. Routed(p, db.versions[r.id])
    BY <1>3, <1>4, <2>1, Unpublished
  <2>4. db' = Models!Logged(d, r)
    BY <1>4
  <2> HIDE DEF p, d, old
  <2> QED BY <1>1, <1>3, <2>2, <2>3, <2>4, PolicyWritten
<1>5. CASE db' = Models!Logged([db EXCEPT !.policies[r.id].routing = routing, !.policies[r.id].status = "draft"], r)
  <2> DEFINE first == [db.policies EXCEPT ![r.id].routing = routing]
             policies == [first EXCEPT ![r.id].status = "draft"]
             d == [db EXCEPT !.policies = policies]
  <2>1. db' = Models!Logged(d, r)
    <3>1. [db EXCEPT !.policies[r.id].routing = routing, !.policies[r.id].status = "draft"] = d
      BY <1>3 DEF ModelShape
    <3> HIDE DEF d
    <3> QED BY <1>5, <3>1
  <2>2. ModelShape(d) /\ d.policies = policies /\ d.versions = db.versions
    BY <1>3 DEF ModelShape
  <2>3. /\ DOMAIN policies = DOMAIN db.policies
        /\ \A k \in DOMAIN db.policies \ {r.id} : policies[k] = db.policies[k]
    OBVIOUS
  <2>4. policies[r.id] = [routing |-> routing, status |-> "draft"]
    <3>1. PICK a, b : old = [routing |-> a, status |-> b]
      BY <1>3 DEF Routed
    <3>2. first[r.id] = [routing |-> routing, status |-> b] /\ r.id \in DOMAIN first
      BY <1>1, <3>1
    <3> HIDE DEF first
    <3> QED BY <3>2
  <2>5. Routed(policies[r.id], db.versions[r.id])
    BY <1>3, <2>4, Unpublished
  <2> HIDE DEF policies, d
  <2> QED BY <1>1, <2>1, <2>2, <2>3, <2>5, PolicyWritten
<1>6. CASE db' = Models!Refused(r)
  <2>1. ModelShape(db') /\ db'.policies = db.policies /\ db'.versions = db.versions
    BY <1>3, <1>6, ModelLogged DEF Models!Refused
  <2> QED BY <2>1, RoutesStay
<1> QED BY <1>1, <1>2, <1>4, <1>5, <1>6

\* A well-formed routing is appended to the versions and put in force.
LEMMA Released ==
    ASSUME NEW p, NEW versions, Routed(p, versions), NEW routing, Models!WellFormed(routing)
    PROVE  Routed([routing |-> routing, status |-> "published"], Append(versions, routing))
<1>1. PICK S : versions \in Seq(S) /\ \A x \in S : Models!WellFormed(x)
  BY DEF Routed
<1> DEFINE new == Append(versions, routing)
<1>2. new \in Seq(S \cup {routing}) /\ new # <<>> /\ new[Len(new)] = routing
  <2>1. versions \in Seq(S \cup {routing})
    BY <1>1, SeqMonotonic
  <2> QED BY <2>1, AppendProperties
<1> HIDE DEF new
<1>3. new \in Seq(S \cup {routing}) /\ \A x \in S \cup {routing} : Models!WellFormed(x)
  BY <1>1, <1>2
<1>4. Routed([routing |-> routing, status |-> "published"], new)
  BY <1>2, <1>3 DEF Routed
<1> QED BY <1>4 DEF new

LEMMA ReleasesKeep ==
    ASSUME Routes(db), NEW r, db' # db, Models!publishPolicy(r) \/ Models!rollbackPolicy(r)
    PROVE  Routes(db')
<1> DEFINE old == db.policies[r.id]
           target == db.versions[r.id][r.seen]
<1>1. /\ r.id \in DOMAIN db.policies
      /\ \/ old.status = "ready" /\ db' = Models!Logged([db EXCEPT !.versions[r.id] = Append(@, old.routing),
                                                                   !.policies[r.id].status = "published"], r)
         \/ /\ Models!validateRoutingPolicy(target)
            /\ db' = Models!Logged([db EXCEPT !.versions[r.id] = Append(@, target),
                                              !.policies[r.id] = [routing |-> target, status |-> "published"]], r)
         \/ db' = Models!Refused(r)
  BY DEF Models!publishPolicy, Models!rollbackPolicy, Models!Handle, Models!Reaches
<1>2. Routed(old, db.versions[r.id]) /\ ModelShape(db)
  BY <1>1 DEF Routes
<1> DEFINE Set(policies, versions) ==
             [[db EXCEPT !.versions = versions] EXCEPT !.policies = policies]
<1>3. ASSUME NEW p, NEW new, Routed(p, new),
             db' = Models!Logged(Set([db.policies EXCEPT ![r.id] = p], [db.versions EXCEPT ![r.id] = new]), r)
      PROVE  Routes(db')
  <2> DEFINE policies == [db.policies EXCEPT ![r.id] = p]
             versions == [db.versions EXCEPT ![r.id] = new]
             d == Set(policies, versions)
  <2>1. /\ DOMAIN policies = DOMAIN db.policies /\ DOMAIN versions = DOMAIN db.versions
        /\ \A k \in DOMAIN db.policies \ {r.id} : policies[k] = db.policies[k] /\ versions[k] = db.versions[k]
        /\ policies[r.id] = p /\ versions[r.id] = new
    BY <1>1 DEF Routes
  <2>2. db' = Models!Logged(d, r)
    BY <1>3
  <2> HIDE DEF policies, versions
  <2>3. ModelShape(d) /\ d.policies = policies /\ d.versions = versions
    <3> DEFINE first == [db EXCEPT !.versions = versions]
    <3>1. first = [providers |-> db.providers, policies |-> db.policies, versions |-> versions, drills |-> db.drills,
                   log |-> db.log]
      BY <1>2 DEF ModelShape
    <3>2. d = [first EXCEPT !.policies = policies]
      OBVIOUS
    <3> HIDE DEF d, first
    <3> QED BY <3>1, <3>2 DEF ModelShape
  <2> HIDE DEF d
  <2> QED BY <1>1, <1>3, <2>1, <2>2, <2>3, PolicyWritten
<1>4. CASE /\ old.status = "ready"
           /\ db' = Models!Logged([db EXCEPT !.versions[r.id] = Append(@, old.routing),
                                             !.policies[r.id].status = "published"], r)
  <2> DEFINE p == [old EXCEPT !.status = "published"]
             new == Append(db.versions[r.id], old.routing)
             e == [db EXCEPT !.versions[r.id] = Append(@, old.routing), !.policies[r.id].status = "published"]
  <2>1. Models!WellFormed(old.routing)
    BY <1>2, <1>4 DEF Routed
  <2>2. p = [routing |-> old.routing, status |-> "published"]
    BY <1>2 DEF Routed
  <2>3. Routed(p, new)
    BY <1>2, <2>1, <2>2, Released
  <2>4. e = [db EXCEPT !.versions[r.id] = new, !.policies[r.id] = p]
    OBVIOUS
  <2> HIDE DEF new, p
  <2>5. e = Set([db.policies EXCEPT ![r.id] = p], [db.versions EXCEPT ![r.id] = new])
    BY <1>2, <2>4 DEF ModelShape
  <2>6. db' = Models!Logged(e, r)
    BY <1>4
  <2> HIDE DEF e, Set
  <2> QED BY <1>3, <2>3, <2>5, <2>6
<1>5. CASE /\ Models!validateRoutingPolicy(target)
           /\ db' = Models!Logged([db EXCEPT !.versions[r.id] = Append(@, target),
                                             !.policies[r.id] = [routing |-> target, status |-> "published"]], r)
  <2> DEFINE p == [routing |-> target, status |-> "published"]
             new == Append(db.versions[r.id], target)
             e == [db EXCEPT !.versions[r.id] = Append(@, target), !.policies[r.id] = p]
  <2>1. Models!WellFormed(target)
    BY <1>5 DEF Models!validateRoutingPolicy
  <2>2. Routed(p, new)
    BY <1>2, <2>1, Released
  <2>3. e = [db EXCEPT !.versions[r.id] = new, !.policies[r.id] = p]
    OBVIOUS
  <2>4. db' = Models!Logged(e, r)
    BY <1>5
  <2> HIDE DEF new, p
  <2>5. e = Set([db.policies EXCEPT ![r.id] = p], [db.versions EXCEPT ![r.id] = new])
    BY <1>2, <2>3 DEF ModelShape
  <2> HIDE DEF e, Set
  <2> QED BY <1>3, <2>2, <2>4, <2>5
<1>6. CASE db' = Models!Refused(r)
  <2>1. ModelShape(db') /\ db'.policies = db.policies /\ db'.versions = db.versions
    BY <1>2, <1>6, ModelLogged DEF Models!Refused
  <2> QED BY <2>1, RoutesStay
<1> QED BY <1>1, <1>4, <1>5, <1>6

\* A new policy is a draft without versions.
LEMMA NewPolicyKeeps ==
    ASSUME Routes(db), NEW r, Models!createPolicy(r), db' # db
    PROVE  Routes(db')
<1> DEFINE p == [routing |-> [primary |-> r.arg, fallback |-> Models!NoArg, restricted |-> FALSE, egress |-> FALSE],
                 status |-> "draft"]
           policies == Models!Unshifted(db.policies, r.id, p)
           versions == Models!Unshifted(db.versions, r.id, <<>>)
           d == [db EXCEPT !.policies = policies, !.versions = versions]
<1>1. db' = Models!Logged(d, r)
  BY DEF Models!createPolicy, Models!Handle
<1>2. Routed(p, <<>>)
  <2> DEFINE none == <<>>
  <2>1. none \in Seq({}) /\ \A x \in {} : Models!WellFormed(x)
    OBVIOUS
  <2> HIDE DEF none
  <2>2. p.status = "draft" /\ p = [routing |-> p.routing, status |-> p.status]
    OBVIOUS
  <2>3. \E S : none \in Seq(S) /\ \A x \in S : Models!WellFormed(x)
    BY <2>1
  <2> HIDE DEF p
  <2>4. p.status \notin {"ready", "published"}
    BY <2>2
  <2>5. Routed(p, none)
    BY <2>2, <2>3, <2>4 DEF Routed
  <2> QED BY <2>5 DEF none
<1> HIDE DEF p
<1>3. /\ DOMAIN policies = DOMAIN db.policies \cup {r.id} /\ DOMAIN versions = DOMAIN db.versions \cup {r.id}
      /\ \A id \in DOMAIN db.policies \cup {r.id} : policies[id] = IF id = r.id THEN p ELSE db.policies[id]
      /\ \A id \in DOMAIN db.versions \cup {r.id} : versions[id] = IF id = r.id THEN <<>> ELSE db.versions[id]
  BY DEF Models!Unshifted
<1> HIDE DEF policies, versions
<1>4. ModelShape(d) /\ d.policies = policies /\ d.versions = versions
  <2> DEFINE first == [db EXCEPT !.policies = policies]
  <2>1. first = [providers |-> db.providers, policies |-> policies, versions |-> db.versions, drills |-> db.drills,
                 log |-> db.log]
    BY DEF Routes, ModelShape
  <2>2. d = [first EXCEPT !.versions = versions]
    OBVIOUS
  <2> HIDE DEF d, first
  <2> QED BY <2>1, <2>2 DEF ModelShape
<1> HIDE DEF d
<1>5. ModelShape(db') /\ db'.policies = policies /\ db'.versions = versions
  BY <1>1, <1>4, ModelLogged
<1>6. DOMAIN versions = DOMAIN policies
  BY <1>3 DEF Routes
<1>7. \A id \in DOMAIN policies : Routed(policies[id], versions[id])
  BY <1>2, <1>3, <1>6 DEF Routes
<1> QED BY <1>5, <1>6, <1>7 DEF Routes

LEMMA RoutesInit == Models!Init => Routes(db)
<1> SUFFICES ASSUME Models!Init PROVE Routes(db)
  OBVIOUS
<1>1. /\ ModelShape(db) /\ db.policies = Models!routingPolicies
      /\ db.versions = [id \in DOMAIN db.policies |-> <<db.policies[id].routing>>]
  BY DEF Models!Init, Models!routingVersions, ModelShape
<1>2. ASSUME NEW id \in DOMAIN db.policies PROVE Routed(db.policies[id], db.versions[id])
  <2> DEFINE p == db.policies[id]
             x == p.routing
  <2>0. id = "r0" \/ id = "r2"
    BY <1>1 DEF Models!routingPolicies
  <2>1. p = [routing |-> x, status |-> p.status] /\ Models!WellFormed(x)
    <3>1. CASE id = "r0"
      <4>1. p = [routing |-> [primary |-> "p1", fallback |-> "p5", restricted |-> FALSE, egress |-> TRUE],
                 status |-> "published"]
        BY <1>1, <3>1 DEF Models!routingPolicies
      <4> HIDE DEF p
      <4> QED BY <4>1 DEF Models!WellFormed
    <3>2. CASE id = "r2"
      <4>1. p = [routing |-> [primary |-> "p5", fallback |-> "", restricted |-> TRUE, egress |-> FALSE],
                 status |-> "published"]
        <5>1. db.policies["r2"] = [routing |-> [primary |-> "p5", fallback |-> Models!NoArg, restricted |-> TRUE,
                                                egress |-> FALSE],
                                   status |-> "published"]
          BY <1>1 DEF Models!routingPolicies
        <5> QED BY Zenon, <3>2, <5>1 DEF Models!NoArg
      <4> HIDE DEF p
      <4> QED BY Zenon, <4>1 DEF Models!WellFormed
    <3> QED BY <2>0, <3>1, <3>2
  <2>2. db.versions[id] = <<x>>
    BY <1>1
  <2> HIDE DEF x
  <2>3. <<x>> \in Seq({x}) /\ \A y \in {x} : Models!WellFormed(y)
    BY <2>1
  <2>4. \E S : <<x>> \in Seq(S) /\ \A y \in S : Models!WellFormed(y)
    <3> DEFINE one == <<x>>
               only == {x}
    <3>1. one \in Seq(only) /\ \A y \in only : Models!WellFormed(y)
      BY <2>3
    <3> HIDE DEF one, only
    <3>2. \E S : one \in Seq(S) /\ \A y \in S : Models!WellFormed(y)
      BY <3>1
    <3> QED BY <3>2 DEF one
  <2>5. <<x>> # <<>> /\ <<x>>[Len(<<x>>)] = x
    OBVIOUS
  <2>6. p.routing = x
    BY DEF x
  <2> HIDE DEF p
  <2>7. Routed(p, <<x>>)
    BY <2>1, <2>4, <2>5, <2>6 DEF Routed
  <2> QED BY <2>2, <2>7 DEF p
<1> QED BY <1>1, <1>2 DEF Routes

LEMMA RoutesNext == Routes(db) /\ [Models!Next]_(Models!vars) => Routes(db')
<1> SUFFICES ASSUME Routes(db), [Models!Next]_(Models!vars), db' # db PROVE Routes(db')
  OBVIOUS
<1>1. PICK r :
          \/ Models!createProvider(r) \/ Models!testProvider(r) \/ Models!updateProvider(r) \/ Models!disableProvider(r)
          \/ Models!removeProvider(r) \/ Models!createPolicy(r) \/ Models!updatePolicy(r) \/ Models!validatePolicy(r)
          \/ Models!publishPolicy(r) \/ Models!unpublishPolicy(r) \/ Models!rollbackPolicy(r) \/ Models!failoverDrill(r)
  BY DEF Models!Next, Models!Ask, Models!vars
<1> QED BY <1>1, ProvidersKeep, DraftsKeep, ReleasesKeep, NewPolicyKeeps

LEMMA RoutesHold == Routes(db) => Models!VersionsChecked /\ Models!PublishedIsNewest
<1> SUFFICES ASSUME Routes(db), NEW id \in DOMAIN db.policies
             PROVE  /\ \A i \in DOMAIN db.versions[id] : Models!WellFormed(db.versions[id][i])
                    /\ db.policies[id].status = "published" =>
                           db.versions[id] # <<>> /\ Models!Last(db.versions[id]) = db.policies[id].routing
  BY DEF Routes, Models!VersionsChecked, Models!PublishedIsNewest, Models!Published
<1>1. Routed(db.policies[id], db.versions[id])
  BY DEF Routes
<1>2. PICK S : db.versions[id] \in Seq(S) /\ \A x \in S : Models!WellFormed(x)
  BY <1>1 DEF Routed
<1>3. \A i \in DOMAIN db.versions[id] : Models!WellFormed(db.versions[id][i])
  BY <1>2, ElementOfSeq
<1> QED BY <1>1, <1>3 DEF Routed, Models!Last

\* Every version of a routing policy was well formed when it went on line, and
\* what a published policy routes is what its newest version recorded, whatever
\* became of its providers.
THEOREM RoutesStayChecked ==
    Models!Init /\ [][Models!Next]_(Models!vars) => [](Models!VersionsChecked /\ Models!PublishedIsNewest)
<1>1. Routes(db) /\ [Models!Next]_(Models!vars) => Routes(db)'
  BY RoutesNext
<1> QED BY <1>1, RoutesInit, RoutesHold, PTL

-----------------------------------------------------------------------------
(* The domains side by side. *)

VARIABLE which

allVars == <<db, net, which>>

Rules == INSTANCE GovernanceProofs WITH StaffActors <- {"u1", "u2"}
Pages == INSTANCE PageProofs WITH Actors <- {"u1"}
Stream == INSTANCE CopilotStream WITH MaxEvents <- 4, MaxThoughts <- 2
Home == INSTANCE HomeAggregate WITH Buckets <- 2, TaskCount <- 2, EmployeeCount <- 3, Actors <- {"u1", "u2"}
Drawer == INSTANCE ContextDrawer WITH MaxActs <- 5

GovernedInit ==
    \/ which = "tasks" /\ Rules!Tasks!Init
    \/ which = "access" /\ Rules!Access!Init
    \/ which = "employees" /\ Rules!Employees!Init
    \/ which = "orchestration" /\ Orch!Init
    \/ which = "channels" /\ Channels!Init
    \/ which = "models" /\ Models!Init
    \/ which = "memory" /\ Memory!Init
    \/ which = "workflows" /\ Rules!Workflows!Init
    \/ which = "knowledge" /\ Rules!Knowledge!Init
    \/ which = "skills" /\ Rules!Skills!Init

GovernedNext ==
    \/ which = "tasks" /\ Rules!Tasks!Next
    \/ which = "access" /\ Rules!Access!Next
    \/ which = "employees" /\ Rules!Employees!Next
    \/ which = "orchestration" /\ Orch!Next
    \/ which = "channels" /\ Channels!Next
    \/ which = "models" /\ Models!Next
    \/ which = "memory" /\ Memory!Next
    \/ which = "workflows" /\ Rules!Workflows!Next
    \/ which = "knowledge" /\ Rules!Knowledge!Next
    \/ which = "skills" /\ Rules!Skills!Next

PagesInit ==
    \/ which = "canvas" /\ Pages!Canvas!Init
    \/ which = "connect" /\ Pages!Connect!Init
    \/ which = "composer" /\ Pages!Composer!Init
    \/ which = "approvals" /\ Pages!Approvals!Init
    \/ which = "media" /\ Pages!Media!Init
    \/ which = "sheets" /\ Pages!Sheets!Init
    \/ which = "decks" /\ Pages!Decks!Init
    \/ which = "sessions" /\ Pages!Sessions!Init
    \/ which = "stream" /\ Stream!Init
    \/ which = "drawer" /\ Drawer!Init
    \/ which = "home" /\ Home!Init

PagesNext ==
    \/ which = "canvas" /\ Pages!Canvas!Next
    \/ which = "connect" /\ Pages!Connect!Next
    \/ which = "composer" /\ Pages!Composer!Next
    \/ which = "approvals" /\ Pages!Approvals!Next
    \/ which = "media" /\ Pages!Media!Next
    \/ which = "sheets" /\ Pages!Sheets!Next
    \/ which = "decks" /\ Pages!Decks!Next
    \/ which = "sessions" /\ Pages!Sessions!Next
    \/ which = "stream" /\ Stream!Next
    \/ which = "drawer" /\ Drawer!Next
    \/ which = "home" /\ Home!Next

ConsoleInit == GovernedInit \/ PagesInit

ConsoleNext == UNCHANGED which /\ (GovernedNext \/ PagesNext)

ConsoleSpec == ConsoleInit /\ [][ConsoleNext]_allVars

\* Every change of a task is in the audit log.
Audited == which = "tasks" => Rules!Tasks!TasksAudited

\* Who decides is not who asked, and the baseline of the policies holds.
DutiesSeparated ==
    /\ which = "access" => Rules!Access!DutiesSeparated /\ Rules!Access!BaselineHolds
    /\ which = "employees" => Rules!Employees!ReleaseCountersigned
    /\ which = "memory" => Memory!TwoSigners

\* One generation of a workflow is applied once, and a dead letter is delivered
\* again once.
AppliedOnce ==
    /\ which = "orchestration" => Orch!AppliedOncePerGeneration
    /\ which = "channels" => Channels!ReplayedOnce
    /\ which = "memory" => Memory!EvolvedOnce

\* Nothing takes effect before what it needs was granted: a controlled task
\* runs after its approval, an employee serves under a release, every version
\* of a delivery or routing policy was checked, a run that writes was governed,
\* a skill was cleared unless it was imported or made here, and what is bound to
\* the current version of knowledge keeps one that was published.
ApprovedBeforeEffect ==
    /\ which = "tasks" => Rules!Tasks!RunsAfterApproval
    /\ which = "employees" => Rules!Employees!ServesUnderRelease
    /\ which = "channels" => Channels!VersionsChecked
    /\ which = "models" => Models!VersionsChecked
    /\ which = "workflows" => Rules!Workflows!WritesGoverned
    /\ which = "knowledge" => Rules!Knowledge!BindingsKept
    /\ which = "skills" => Rules!Skills!InstalledCleared

\* Two records of one fact agree, however the requests interleave: the status of
\* a task and its stage, an adoption and the employee, the policy in force and
\* its newest version, a memory and the candidate it waits behind, a run and
\* the one it tries again, a document and the package that lists it.
RecordsAgree ==
    /\ which = "tasks" => Rules!Tasks!StatusFollowsStage
    /\ which = "employees" => Rules!Employees!RecordsMirror
    /\ which = "channels" => Channels!InForceIsNewest
    /\ which = "models" => Models!PublishedIsNewest
    /\ which = "memory" => Memory!OneCandidate
    /\ which = "workflows" => Rules!Workflows!RetriesDescend
    /\ which = "knowledge" => Rules!Knowledge!MembershipMirrors

\* Nothing is used before it was cleared, in the domains without a governed
\* record: a tool that writes leaves with a turn only in the execution mode,
\* what a page offers to execute was authorized, and a workbook or a deck that
\* is reported as delivered passed its audit.
ClearedBeforeUse ==
    /\ which = "composer" => Pages!Composer!WritesOnlyInExecute
    /\ which = "approvals" => Pages!Approvals!ShownAuthorized
    /\ which = "sheets" => Pages!Sheets!ReportedIsThere
    /\ which = "decks" => Pages!Decks!SealedIsVerified

\* What is shown is what there is: undo starts from the canvas, the form that is
\* sent is one the route takes, a write that is shown as executed ran, the pages
\* that were drawn show what was delivered, a capture that is over holds no
\* device, and a conversation that was deleted here is not listed again.
ShownAsIs ==
    /\ which = "canvas" => Pages!Canvas!HistoryFollowsCanvas
    /\ which = "connect" => Pages!Connect!FormAccepted
    /\ which = "approvals" => Pages!Approvals!ShownExecuted
    /\ which = "sheets" => Pages!Sheets!DrawnIsDelivered
    /\ which = "decks" => Pages!Decks!DrawnIsSealed
    /\ which = "media" => Pages!Media!ReportedReleased
    /\ which = "sessions" => Pages!Sessions!DeletedStaysAway

\* What was finished stays: a published workflow version keeps its graph, in the
\* tables and on the canvas, and a replacement never loses the candidate.
PublishedStays ==
    [][/\ which = "workflows" => Rules!Workflows!PublishedFixed
       /\ which = "canvas" => Pages!Canvas!PublishedFixed
       /\ which = "sheets" => Pages!Sheets!CandidateKept]_allVars

\* What was settled stays: an integration that waits for its approval goes on
\* waiting unless it is amended by the route that takes any status, and a list
\* that arrives takes no conversation away that is in use.
SettledStays ==
    [][/\ which = "skills" => Rules!Skills!ApprovalAwaited
       /\ which = "sessions" => Pages!Sessions!InUseStays]_allVars

-----------------------------------------------------------------------------
\* What each module asks of its constants: the accounts of each domain are
\* accounts, and the bounds of the pages are as they are here.
LEMMA Assumed ==
    /\ Rules!BoundsAssumption /\ Rules!ActorsAssumption
    /\ Rules!StaffAccounts
    /\ Pages!BoundsAssumption /\ Pages!ActorsAssumption
    /\ Pages!SomeHistory /\ Pages!CountedCaptures /\ Pages!OneDeliverer
<1>1. Rules!BoundsAssumption /\ Rules!ActorsAssumption /\ Rules!StaffAccounts
  BY BoundsAssumption, ActorsAssumption DEF Rules!BoundsAssumption, Rules!ActorsAssumption, Rules!StaffAccounts,
     Rules!Users, Rules!RoleOf, Users, RoleOf
<1>2. Pages!BoundsAssumption /\ Pages!ActorsAssumption
  BY BoundsAssumption DEF Pages!BoundsAssumption, Pages!ActorsAssumption, Pages!Users, Pages!RoleOf
<1>3. Pages!SomeHistory /\ Pages!CountedCaptures /\ Pages!OneDeliverer
  BY PagesAssumption DEF Pages!SomeHistory, Pages!CountedCaptures, Pages!OneDeliverer
<1> QED BY <1>1, <1>2, <1>3

\* Every change of a task is in the audit log.
THEOREM AlwaysAudited == ConsoleSpec => []Audited
<1> DEFINE Inv == which = "tasks" => Rules!TaskInv
<1>1. ConsoleInit => Inv
  <2> SUFFICES ASSUME ConsoleInit, which = "tasks" PROVE Rules!TaskInv
    BY SMTT(30)
  <2>1. Rules!Tasks!Init
    BY SMTT(30) DEF ConsoleInit, GovernedInit, PagesInit
  <2> QED BY <2>1, Assumed, Rules!TaskInit
<1>2. Inv /\ [ConsoleNext]_allVars => Inv'
  <2> SUFFICES ASSUME Inv, [ConsoleNext]_allVars, which' = "tasks" PROVE Rules!TaskInv'
    BY SMTT(30)
  <2>1. which = "tasks"
    BY SMTT(30) DEF ConsoleNext, GovernedNext, PagesNext, allVars
  <2>2. [Rules!Tasks!Next]_(Rules!Tasks!vars)
    BY <2>1 DEF ConsoleNext, GovernedNext, PagesNext, allVars, Rules!Tasks!vars
  <2> QED BY <2>1, <2>2, Assumed, Rules!TaskNext
<1>3. Inv => Audited
  BY DEF Audited, Rules!TaskInv, Rules!TaskGood
<1> QED BY <1>1, <1>2, <1>3, PTL DEF ConsoleSpec

\* Who decides is not who asked, and the baseline of the policies holds: grants
\* and releases, employees, and the candidates of self-evolution.
THEOREM DutiesAlwaysSeparated == ConsoleSpec => []DutiesSeparated
<1> DEFINE Inv == /\ which = "access" => Rules!AccessInv
                  /\ which = "employees" => Rules!EmployeeInv
                  /\ which = "memory" => MemoryInv
<1>1. ConsoleInit => Inv
  <2> SUFFICES ASSUME ConsoleInit PROVE Inv
    BY SMTT(30)
  <2>1. /\ which = "access" => Rules!Access!Init
        /\ which = "employees" => Rules!Employees!Init
        /\ which = "memory" => Memory!Init
    BY SMTT(30) DEF ConsoleInit, GovernedInit, PagesInit
  <2> QED BY <2>1, Assumed, Rules!AccessInit, Rules!EmployeeInit, MemoryInit
<1>2. Inv /\ [ConsoleNext]_allVars => Inv'
  <2> SUFFICES ASSUME Inv, [ConsoleNext]_allVars PROVE Inv'
    BY SMTT(30)
  <2>1. /\ which' = which
        /\ which = "access" => [Rules!Access!Next]_(Rules!Access!vars)
        /\ which = "employees" => [Rules!Employees!Next]_(Rules!Employees!vars)
        /\ which = "memory" => [Memory!Next]_(Memory!vars)
    BY DEF ConsoleNext, GovernedNext, PagesNext, allVars, Rules!Access!vars, Rules!Employees!vars, Memory!vars
  <2> QED BY <2>1, Assumed, Rules!AccessNext, Rules!EmployeeNext, MemoryNext
<1>3. Inv => DutiesSeparated
  <2> SUFFICES ASSUME Inv PROVE DutiesSeparated
    BY SMTT(30)
  <2>1. which = "access" => Rules!Access!DutiesSeparated /\ Rules!Access!BaselineHolds
    BY DEF Rules!AccessInv, Rules!AccessGood, Rules!DecisionsLogged, Rules!DecidedIsLogged, Rules!OwnGrantKept,
           Rules!Access!DutiesSeparated, Rules!Access!Doers, Rules!Deciding, Rules!Granting
  <2>2. which = "employees" => Rules!Employees!ReleaseCountersigned
    BY DEF Rules!EmployeeInv, Rules!EmployeeGood,
           Rules!EmployeesSound, Rules!EmployeeSound, Rules!Employees!ReleaseCountersigned
  <2>3. which = "memory" => Memory!TwoSigners
    BY MemoryHolds
  <2> QED BY <2>1, <2>2, <2>3 DEF DutiesSeparated
<1> QED BY <1>1, <1>2, <1>3, PTL DEF ConsoleSpec

\* One generation of a workflow is applied once, a dead letter is delivered
\* again once, and a candidate of self-evolution takes effect once.
THEOREM AlwaysAppliedOnce == ConsoleSpec => []AppliedOnce
<1> DEFINE Inv == /\ which = "orchestration" => OrchInv
                  /\ which = "channels" => ChannelInv
                  /\ which = "memory" => MemoryInv
<1>1. ConsoleInit => Inv
  <2> SUFFICES ASSUME ConsoleInit PROVE Inv
    OBVIOUS
  <2>1. /\ which = "orchestration" => Orch!Init
        /\ which = "channels" => Channels!Init
        /\ which = "memory" => Memory!Init
    BY DEF ConsoleInit, GovernedInit, PagesInit
  <2> QED BY <2>1, OrchInit, ChannelInit, MemoryInit
<1>2. Inv /\ [ConsoleNext]_allVars => Inv'
  <2> SUFFICES ASSUME Inv, [ConsoleNext]_allVars PROVE Inv'
    BY SMTT(30)
  <2>1. /\ which' = which
        /\ which = "orchestration" => [Orch!Next]_(Orch!vars)
        /\ which = "channels" => [Channels!Next]_(Channels!vars)
        /\ which = "memory" => [Memory!Next]_(Memory!vars)
    BY SMTT(30) DEF ConsoleNext, GovernedNext, PagesNext, allVars, Orch!vars, Channels!vars, Memory!vars
  <2> QED BY <2>1, OrchNext, ChannelNext, MemoryNext
<1>3. Inv => AppliedOnce
  BY ChannelHolds, MemoryHolds DEF AppliedOnce, OrchInv, OrchData
<1> QED BY <1>1, <1>2, <1>3, PTL DEF ConsoleSpec

\* The invariants behind what is approved and what agrees.
GovernedInv ==
    /\ which = "tasks" => Rules!TaskInv
    /\ which = "employees" => Rules!EmployeeInv
    /\ which = "channels" => PolicyInv
    /\ which = "models" => Routes(db)
    /\ which = "memory" => Waiting(db)
    /\ which = "workflows" => Rules!WorkflowInv
    /\ which = "knowledge" => Rules!KnowledgeInv
    /\ which = "skills" => Rules!ApprovalInv

LEMMA GovernedStarts == ConsoleInit => GovernedInv
<1> SUFFICES ASSUME ConsoleInit PROVE GovernedInv
  OBVIOUS
<1>1. /\ which = "tasks" => Rules!Tasks!Init
      /\ which = "employees" => Rules!Employees!Init
      /\ which = "channels" => Channels!Init
      /\ which = "models" => Models!Init
      /\ which = "memory" => Memory!Init
      /\ which = "workflows" => Rules!Workflows!Init
      /\ which = "knowledge" => Rules!Knowledge!Init
      /\ which = "skills" => Rules!Skills!Init
  BY SMTT(30) DEF ConsoleInit, GovernedInit, PagesInit
<1> QED BY <1>1, Assumed, Rules!TaskInit, Rules!EmployeeInit, PolicyInit, RoutesInit, WaitingInit,
           Rules!WorkflowInit, Rules!KnowledgeInit, Rules!ApprovalInit
        DEF GovernedInv

LEMMA GovernedStep == GovernedInv /\ [ConsoleNext]_allVars => GovernedInv'
<1> SUFFICES ASSUME GovernedInv, [ConsoleNext]_allVars PROVE GovernedInv'
  OBVIOUS
<1>1. /\ which' = which
      /\ which = "tasks" => [Rules!Tasks!Next]_(Rules!Tasks!vars)
      /\ which = "employees" => [Rules!Employees!Next]_(Rules!Employees!vars)
      /\ which = "channels" => [Channels!Next]_(Channels!vars)
      /\ which = "models" => [Models!Next]_(Models!vars)
      /\ which = "memory" => [Memory!Next]_(Memory!vars)
      /\ which = "workflows" => [Rules!Workflows!Next]_(Rules!Workflows!vars)
      /\ which = "knowledge" => [Rules!Knowledge!Next]_(Rules!Knowledge!vars)
      /\ which = "skills" => [Rules!Skills!Next]_(Rules!Skills!vars)
  BY DEF ConsoleNext, GovernedNext, PagesNext, allVars, Rules!Tasks!vars, Rules!Employees!vars,
         Channels!vars, Models!vars, Memory!vars,
         Rules!Workflows!vars, Rules!Knowledge!vars, Rules!Skills!vars
<1> QED BY <1>1, Assumed, Rules!TaskNext, Rules!EmployeeNext, PolicyNext, RoutesNext, WaitingNext,
           Rules!WorkflowNext, Rules!KnowledgeNext, Rules!ApprovalNext
        DEF GovernedInv

\* Nothing takes effect before what it needs was granted, whatever requests
\* overtake each other: tasks, employees, delivery and routing policies,
\* workflows, knowledge and skills.
THEOREM AlwaysApproved == ConsoleSpec => []ApprovedBeforeEffect
<1>1. GovernedInv => ApprovedBeforeEffect
  <2> SUFFICES ASSUME GovernedInv PROVE ApprovedBeforeEffect
    BY SMTT(30)
  <2>1. which = "tasks" => Rules!Tasks!RunsAfterApproval
    BY DEF GovernedInv, Rules!TaskInv, Rules!TaskGood
  <2>2. which = "employees" => Rules!Employees!ServesUnderRelease
    <3> SUFFICES ASSUME Rules!EmployeeInv PROVE Rules!Employees!ServesUnderRelease
      BY DEF GovernedInv
    <3>1. \A i, j \in DOMAIN db.log :
            /\ i < j /\ db.log[i].id = db.log[j].id
            /\ db.log[i].op \in {"withdraw", "reject"} /\ db.log[j].arg = "active"
            => \E k \in i..j : db.log[k].op = "release" /\ db.log[k].id = db.log[j].id
      BY SMTT(30) DEF Rules!EmployeeInv, Rules!EmployeeGood, Rules!NoneRevived, Rules!TakingBack
    <3>2. \A id \in DOMAIN db.employees :
            db.employees[id].lifecycle \in Rules!Employees!InService => db.employees[id].release = "released"
      BY DEF Rules!EmployeeInv, Rules!EmployeeGood, Rules!EmployeesSound, Rules!EmployeeSound
    <3> QED BY <3>1, <3>2 DEF Rules!Employees!ServesUnderRelease
  <2>3. which = "channels" => Channels!VersionsChecked
    BY PolicyHolds DEF GovernedInv
  <2>4. which = "models" => Models!VersionsChecked
    BY RoutesHold DEF GovernedInv
  <2>5. /\ which = "workflows" => Rules!Workflows!WritesGoverned
        /\ which = "knowledge" => Rules!Knowledge!BindingsKept
        /\ which = "skills" => Rules!Skills!InstalledCleared
    BY Assumed, Rules!WorkflowHolds, Rules!KnowledgeHolds, Rules!SkillsHold DEF GovernedInv, Rules!ApprovalInv
  <2> QED BY <2>1, <2>2, <2>3, <2>4, <2>5 DEF ApprovedBeforeEffect
<1> QED BY <1>1, GovernedStarts, GovernedStep, PTL DEF ConsoleSpec

\* Two records of one fact agree, however the requests interleave.
THEOREM RecordsAlwaysAgree == ConsoleSpec => []RecordsAgree
<1>1. GovernedInv => RecordsAgree
  <2> SUFFICES ASSUME GovernedInv PROVE RecordsAgree
    OBVIOUS
  <2>1. which = "tasks" => Rules!Tasks!StatusFollowsStage
    BY DEF GovernedInv, Rules!TaskInv, Rules!TaskGood
  <2>2. which = "employees" => Rules!Employees!RecordsMirror
    BY DEF GovernedInv, Rules!EmployeeInv, Rules!EmployeeGood
  <2>3. which = "channels" => Channels!InForceIsNewest
    BY PolicyHolds DEF GovernedInv
  <2>4. which = "models" => Models!PublishedIsNewest
    BY RoutesHold DEF GovernedInv
  <2>5. which = "memory" => Memory!OneCandidate
    BY WaitingHolds DEF GovernedInv
  <2>6. /\ which = "workflows" => Rules!Workflows!RetriesDescend
        /\ which = "knowledge" => Rules!Knowledge!MembershipMirrors
    BY Assumed, Rules!WorkflowHolds, Rules!KnowledgeHolds DEF GovernedInv
  <2> QED BY <2>1, <2>2, <2>3, <2>4, <2>5, <2>6 DEF RecordsAgree
<1> QED BY <1>1, GovernedStarts, GovernedStep, PTL DEF ConsoleSpec

\* The invariants behind what the pages show and the commands report.
PagesInv ==
    /\ which = "canvas" => Pages!CanvasInv
    /\ which = "connect" => db \in Pages!ConnectDialog
    /\ which = "composer" => Pages!ComposerInv
    /\ which = "approvals" => Pages!DecisionInv
    /\ which = "media" => Pages!MediaInv
    /\ which = "sheets" => Pages!SheetInv
    /\ which = "decks" => Pages!DeckInv
    /\ which = "sessions" => Pages!SessionInv

LEMMA PagesStart == ConsoleInit => PagesInv
<1> SUFFICES ASSUME ConsoleInit PROVE PagesInv
  OBVIOUS
<1>1. /\ which = "canvas" => Pages!Canvas!Init
      /\ which = "connect" => Pages!Connect!Init
      /\ which = "composer" => Pages!Composer!Init
      /\ which = "approvals" => Pages!Approvals!Init
      /\ which = "media" => Pages!Media!Init
      /\ which = "sheets" => Pages!Sheets!Init
      /\ which = "decks" => Pages!Decks!Init
      /\ which = "sessions" => Pages!Sessions!Init
  BY DEF ConsoleInit, GovernedInit, PagesInit
<1> QED BY <1>1, Assumed, Pages!CanvasInit, Pages!ConnectInit, Pages!ComposerInit, Pages!DecisionsInit,
           Pages!MediaInit, Pages!SheetsInit, Pages!DecksInit, Pages!SessionsInit
        DEF PagesInv

\* Which step of which page a step is.
LEMMA PageSteps ==
    ASSUME [ConsoleNext]_allVars
    PROVE  /\ which' = which
           /\ which = "canvas" => [Pages!Canvas!Next]_(Pages!vars)
           /\ which = "connect" => [Pages!Connect!Next]_(Pages!vars)
           /\ which = "composer" => [Pages!Composer!Next]_(Pages!vars)
           /\ which = "approvals" => [Pages!Approvals!Next]_<<db, net>>
           /\ which = "media" => [Pages!Media!Next]_(Pages!vars)
           /\ which = "sheets" => [Pages!Sheets!Next]_(Pages!vars)
           /\ which = "decks" => [Pages!Decks!Next]_(Pages!vars)
           /\ which = "sessions" => [Pages!Sessions!Next]_(Pages!vars)
BY SMTT(30) DEF ConsoleNext, GovernedNext, PagesNext, allVars, Pages!vars

LEMMA PagesStep == PagesInv /\ [ConsoleNext]_allVars => PagesInv'
<1> SUFFICES ASSUME PagesInv, [ConsoleNext]_allVars PROVE PagesInv'
  OBVIOUS
<1> QED BY PageSteps, Assumed, Pages!CanvasNext, Pages!ConnectNext, Pages!ComposerNext, Pages!DecisionsNext,
           Pages!MediaNext, Pages!SheetsNext, Pages!DecksNext, Pages!SessionsNext
        DEF PagesInv

LEMMA PagesHold == PagesInv => ClearedBeforeUse /\ ShownAsIs
BY Assumed, Pages!CanvasHolds, Pages!ConnectHolds, Pages!ComposerHolds, Pages!DecisionsHold, Pages!MediaHolds,
   Pages!SheetsHold, Pages!DecksHold, Pages!SessionsHold
   DEF PagesInv, ClearedBeforeUse, ShownAsIs

\* Nothing is used before it was cleared: a turn waits for its answer while the
\* page goes on, copies of a message cross, a delivery is killed half way.
THEOREM AlwaysCleared == ConsoleSpec => []ClearedBeforeUse
BY PagesStart, PagesStep, PagesHold, PTL DEF ConsoleSpec

\* What a page shows and a command reports is what there is.
THEOREM AlwaysShownAsIs == ConsoleSpec => []ShownAsIs
BY PagesStart, PagesStep, PagesHold, PTL DEF ConsoleSpec

\* A published workflow version keeps its graph, though a draft that was opened
\* before the publication is saved after it, and a candidate is never lost,
\* wherever its replacement is killed.
THEOREM PublishedAlwaysStays == ConsoleSpec => PublishedStays
<1>1. /\ GovernedInv /\ [ConsoleNext]_allVars
         => [which = "workflows" => Rules!Workflows!PublishedFixed]_allVars
  <2> SUFFICES ASSUME GovernedInv, [ConsoleNext]_allVars, which = "workflows"
               PROVE  Rules!Workflows!PublishedFixed
    BY SMTT(30)
  <2>1. Rules!WorkflowInv /\ [Rules!Workflows!Next]_(Rules!Workflows!vars)
    BY DEF GovernedInv, ConsoleNext, GovernedNext, PagesNext, allVars, Rules!Workflows!vars
  <2>2. Rules!WorkflowKept(db')
    BY <2>1, Assumed, Rules!WorkflowNext
  <2> QED BY <2>2 DEF Rules!WorkflowKept, Rules!Workflows!PublishedFixed
<1>2. /\ PagesInv /\ [ConsoleNext]_allVars
         => [which = "canvas" => Pages!Canvas!PublishedFixed]_allVars
  <2> SUFFICES ASSUME PagesInv, [ConsoleNext]_allVars, which = "canvas", UNCHANGED allVars => FALSE
               PROVE  Pages!Canvas!PublishedFixed
    BY SMTT(30)
  <2>1. which' = which /\ ~UNCHANGED Pages!vars
    BY PageSteps DEF allVars, Pages!vars
  <2>2. [Pages!Canvas!PublishedFixed]_(Pages!vars)
    BY PageSteps, Assumed, Pages!CanvasNext DEF PagesInv
  <2> QED BY <2>1, <2>2
<1>3. /\ PagesInv /\ [ConsoleNext]_allVars
         => [which = "sheets" => Pages!Sheets!CandidateKept]_allVars
  <2> SUFFICES ASSUME PagesInv, [ConsoleNext]_allVars, which = "sheets", UNCHANGED allVars => FALSE
               PROVE  Pages!Sheets!CandidateKept
    OBVIOUS
  <2>1. which' = which /\ ~UNCHANGED Pages!vars
    BY PageSteps DEF allVars, Pages!vars
  <2>2. [Pages!Sheets!CandidateKept]_(Pages!vars)
    BY PageSteps, Assumed, Pages!SheetStays DEF PagesInv
  <2> QED BY <2>1, <2>2
<1> QED BY <1>1, <1>2, <1>3, GovernedStarts, GovernedStep, PagesStart, PagesStep, PTL DEF ConsoleSpec, PublishedStays

\* What was settled stays: whatever arrives late, an integration goes on waiting
\* for its approval until its own row is amended, and a conversation in use stays
\* listed.
THEOREM SettledAlwaysStays == ConsoleSpec => SettledStays
<1>1. /\ GovernedInv /\ [ConsoleNext]_allVars
         => [which = "skills" => Rules!Skills!ApprovalAwaited]_allVars
  <2> SUFFICES ASSUME GovernedInv, [ConsoleNext]_allVars, which = "skills"
               PROVE  Rules!Skills!ApprovalAwaited
    OBVIOUS
  <2>1. Rules!ApprovalInv /\ [Rules!Skills!Next]_(Rules!Skills!vars)
    BY DEF GovernedInv, ConsoleNext, GovernedNext, PagesNext, allVars, Rules!Skills!vars
  <2> QED BY <2>1, Assumed, Rules!ApprovalNext
<1>2. /\ PagesInv /\ [ConsoleNext]_allVars
         => [which = "sessions" => Pages!Sessions!InUseStays]_allVars
  <2> SUFFICES ASSUME PagesInv, [ConsoleNext]_allVars, which = "sessions"
               PROVE  Pages!Sessions!InUseStays
    OBVIOUS
  <2>1. Pages!SessionInv /\ [Pages!Sessions!Next]_(Pages!vars)
    BY PageSteps DEF PagesInv
  <2> QED BY <2>1, Assumed, Pages!SessionsNext
<1> QED BY <1>1, <1>2, GovernedStarts, GovernedStep, PagesStart, PagesStep, PTL DEF ConsoleSpec, SettledStays
=============================================================================
