---------------------------- MODULE MemoryDomain ----------------------------
(***************************************************************************)
(* The memory of the digital employees: what is remembered for a session,  *)
(* a task or for good, the daily refinement that carries it upwards, the   *)
(* knowledge candidates it ends in, and the candidates of self-evolution,  *)
(* some of which need two signatures.  A memory can expire or be revoked   *)
(* while its candidate waits.  Text, classification and times are left out *)
(***************************************************************************)
EXTENDS ConsoleApi

CONSTANT MaxRows   \* bound: memories and candidates of one table

Layers == {"short_term", "working", "long_term"}

\* sure: its confidence reaches the minimum; kept: what was remembered by Dream.
MemoryRecord ==
    [layer : Layers, source : {"cv1", "t1", "wf1", "t2", "evolve"}, sure : BOOLEAN, dream : BOOLEAN,
     status : {"active", "expired", "revoked", "pending_review", "promoted"}]

MemoryKnowledgeCandidate == [memory : Nat, status : {"pending_review", "approved", "rejected"}, packages : Nat]

EvolveKinds == {"memory_promote", "skill_patch", "dream"}

\* effects: how often the candidate took effect.
EvolveCandidate ==
    [kind : EvolveKinds, signers : Seq(Users), effects : Nat,
     status : {"pending_review", "pending_countersign", "approved", "applied", "rejected"}]

Stages == {"shortToWorkingEnabled", "workingToLongEnabled", "longToKnowledgeEnabled"}

MemoryPolicy == [Stages \cup {"longTermWriteApproval"} -> BOOLEAN]

Remembered(layer, source, sure, status) ==
    [layer |-> layer, source |-> source, sure |-> sure, dream |-> FALSE, status |-> status]

memoryRecords ==
    <<Remembered("short_term", "cv1", TRUE, "active"), Remembered("working", "t1", TRUE, "active"),
      Remembered("long_term", "wf1", TRUE, "active"), Remembered("long_term", "t2", FALSE, "pending_review")>>

PendingOf(m) == [memory |-> m, status |-> "pending_review", packages |-> 0]

EvolvePending(kind) == [kind |-> kind, signers |-> <<>>, effects |-> 0, status |-> "pending_review"]

Init ==
    /\ db = [records |-> memoryRecords, candidates |-> <<PendingOf(4)>>,
             evolve |-> <<EvolvePending("memory_promote")>>,
             policy |-> [stage \in Stages \cup {"longTermWriteApproval"} |-> TRUE]]
    /\ NetInit

-----------------------------------------------------------------------------
(* The pages: only an administrator changes what is remembered. *)

Active(m) == db.records[m].status = "active"

Awaiting(m) == {c \in DOMAIN db.candidates : db.candidates[c] = PendingOf(m)}

MemoryDetail(u) ==
    {Req("candidate", u, NoArg, NoArg, m) : m \in {x \in DOMAIN db.records : Active(x)
                                                                           /\ db.records[x].layer = "long_term"}}
    \cup {Req("expire", u, NoArg, NoArg, m) : m \in {x \in DOMAIN db.records : Active(x)}}
    \cup {Req("remove", u, NoArg, NoArg, m) : m \in DOMAIN db.records}

Candidates(u) ==
    UNION {{Req("review", u, NoArg, "approve", c), Req("review", u, NoArg, "reject", c)} :
               c \in {x \in DOMAIN db.candidates : db.candidates[x].status = "pending_review"}}

EvolveReviews(u) ==
    UNION {{Req("evolve", u, NoArg, "approve", c), Req("evolve", u, NoArg, "reject", c)} :
               c \in {x \in DOMAIN db.evolve :
                         db.evolve[x].status \in {"pending_review", "pending_countersign"}}}

PolicyToggle(u) == {Req("policy", u, key, NoArg, 0) : key \in DOMAIN db.policy}

GovernanceProgressive(u) ==
    {Req("refine", u, NoArg, NoArg, 0), Req("dream", u, NoArg, NoArg, 0)} \cup PolicyToggle(u)

\* The runtime remembers sessions; a reader rates an answer in the copilot.
Runtime(u) ==
    When(Len(db.records) < MaxRows, {Req("write", u, NoArg, layer, 0) : layer \in {"short_term", "long_term"}})
    \cup When(Len(db.evolve) < MaxRows, {Req("feedback", u, NoArg, kind, 0) : kind \in {"like", "dislike"}})

Offers(u) ==
    Runtime(u)
    \cup When(isAdministrator(u), MemoryDetail(u) \cup Candidates(u) \cup GovernanceProgressive(u))
    \cup When(RoleOf[u] # "user", EvolveReviews(u))

-----------------------------------------------------------------------------
(* Memories. *)

writeRecord(r) ==
    /\ r.op = "write"
    /\ Handle(Admitted(r, "memory") /\ (r.arg = "long_term" => ~db.policy["longTermWriteApproval"]),
              [db EXCEPT !.records = Append(@, Remembered(r.arg, "cv1", TRUE, "active"))])

\* A memory is its owner's or an administrator's; the seed's belong to u1.
canChangeScopedResource(r) == Admitted(r, "memory") /\ isAdministrator(r.by)

\* Whatever its status was, also while a candidate about it waits.
memoryRecordRoute(r) ==
    /\ r.op \in {"expire", "remove"}
    /\ Handle(canChangeScopedResource(r),
              [db EXCEPT !.records[r.seen].status = IF r.op = "expire" THEN "expired" ELSE "revoked"])

\* The memories of ms wait from now on, each behind a candidate of its own.
Proposed(d, ms) ==
    [d EXCEPT !.candidates = @ \o SetToSeq({PendingOf(m) : m \in ms}),
              !.records = [m \in DOMAIN @ |-> IF m \in ms THEN [@[m] EXCEPT !.status = "pending_review"] ELSE @[m]]]

\* Mutant: a second click makes a second candidate.
candidateAgain(r) ==
    /\ r.op = "candidate"
    /\ Handle(canChangeScopedResource(r) /\ db.records[r.seen].layer = "long_term", Proposed(db, {r.seen}))

candidate(r) ==
    /\ r.op = "candidate"
    /\ Handle(canChangeScopedResource(r) /\ db.records[r.seen].layer = "long_term" /\ Awaiting(r.seen) = {},
              Proposed(db, {r.seen}))

requireAdministrator(r) == Admitted(r, "memory") /\ isAdministrator(r.by)

\* The status of the candidate is not looked at; a refusal brings the memory back.
review(r) ==
    /\ r.op = "review"
    /\ LET approved == r.arg = "approve"
       IN  Handle(requireAdministrator(r),
                  [db EXCEPT !.candidates[r.seen].status = IF approved THEN "approved" ELSE "rejected",
                             !.candidates[r.seen].packages = IF approved THEN @ + 1 ELSE @,
                             !.records[db.candidates[r.seen].memory].status =
                                 IF approved THEN "promoted" ELSE "active"])

updatePolicy(r) ==
    /\ r.op = "policy"
    /\ Handle(requireAdministrator(r), [db EXCEPT !.policy[r.id] = ~@])

-----------------------------------------------------------------------------
(* The daily refinement. *)

\* The active memories of a layer, and the sources a layer holds.
ActiveIn(d, layer) == {m \in DOMAIN d.records : d.records[m].status = "active" /\ d.records[m].layer = layer}

SourcesIn(d, layer) == {d.records[m].source : m \in {x \in DOMAIN d.records : d.records[x].layer = layer}}

Sure(d, ms) == {m \in ms : d.records[m].sure}

\* Each source that from holds and layer lacks is carried there once.
Lifted(d, ms, layer) ==
    LET sources == {d.records[m].source : m \in ms} \ SourcesIn(d, layer)
    IN  [d EXCEPT !.records = @ \o SetToSeq({Remembered(layer, s, TRUE, "active") : s \in sources})]

Unproposed(d, ms) == {m \in ms : \A c \in DOMAIN d.candidates : d.candidates[c] # PendingOf(m)}

If(stage, new, old) == IF db.policy[stage] THEN new ELSE old

\* A stage sees what the stage before it wrote in the same run.
Refined ==
    LET worked == If("shortToWorkingEnabled", Lifted(db, ActiveIn(db, "short_term"), "working"), db)
        lasting == If("workingToLongEnabled", Lifted(worked, Sure(worked, ActiveIn(worked, "working")), "long_term"),
                      worked)
    IN  If("longToKnowledgeEnabled",
           Proposed(lasting, Unproposed(lasting, Sure(lasting, ActiveIn(lasting, "long_term")))), lasting)

refine(r) ==
    /\ r.op = "refine"
    /\ Handle(requireAdministrator(r), Refined)

-----------------------------------------------------------------------------
(* Self-evolution. *)

\* The sources with three session memories that no active summary covers yet.
DreamSources ==
    {s \in SourcesIn(db, "short_term") :
        /\ Cardinality({m \in ActiveIn(db, "short_term") : db.records[m].source = s}) >= 3
        /\ ~\E m \in ActiveIn(db, "working") : db.records[m].source = s /\ db.records[m].dream}

\* The memories a summary covers expire with it.
dream(r) ==
    /\ r.op = "dream"
    /\ Handle(requireAdministrator(r) /\ db.policy["shortToWorkingEnabled"],
              [db EXCEPT !.records =
                   [m \in DOMAIN @ |->
                       IF m \in ActiveIn(db, "short_term") /\ @[m].source \in DreamSources
                       THEN [@[m] EXCEPT !.status = "expired"] ELSE @[m]]
                   \o SetToSeq({[Remembered("working", s, TRUE, "active") EXCEPT !.dream = TRUE] : s \in DreamSources}),
                         !.evolve = @ \o SetToSeq({[EvolvePending("dream") EXCEPT !.status = "applied", !.effects = 1] :
                                                       s \in DreamSources})])

reject(r) ==
    /\ r.op = "evolve" /\ r.arg = "reject"
    /\ Handle(Admitted(r, "countersign") /\ RoleOf[r.by] \in {"admin", "auditor"},
              [db EXCEPT !.evolve[r.seen].status = "rejected"])

Evolving(r) == db.evolve[r.seen]

\* The first signature is an administrator's.
sign(r) ==
    /\ r.op = "evolve" /\ r.arg = "approve" /\ Evolving(r).kind = "skill_patch"
    /\ Evolving(r).status = "pending_review"
    /\ Handle(Admitted(r, "countersign") /\ isAdministrator(r.by) /\ ~\E i \in DOMAIN Evolving(r).signers :
                                                                        Evolving(r).signers[i] = r.by,
              [db EXCEPT !.evolve[r.seen].signers = Append(@, r.by),
                         !.evolve[r.seen].status = "pending_countersign"])

\* Mutant: whoever signed first may sign again.
countersignSelf(r) ==
    /\ r.op = "evolve" /\ r.arg = "approve" /\ Evolving(r).kind = "skill_patch"
    /\ Evolving(r).status # "pending_review"
    /\ Handle(Admitted(r, "countersign") /\ Evolving(r).status = "pending_countersign",
              [db EXCEPT !.evolve[r.seen].signers = Append(@, r.by),
                         !.evolve[r.seen].effects = @ + 1, !.evolve[r.seen].status = "approved"])

\* The second is an auditor's or another administrator's, and takes effect.
countersign(r) ==
    /\ r.op = "evolve" /\ r.arg = "approve" /\ Evolving(r).kind = "skill_patch"
    /\ Evolving(r).status # "pending_review"
    /\ Handle(/\ Admitted(r, "countersign") /\ Evolving(r).status = "pending_countersign"
              /\ ~\E i \in DOMAIN Evolving(r).signers : Evolving(r).signers[i] = r.by,
              [db EXCEPT !.evolve[r.seen].signers = Append(@, r.by),
                         !.evolve[r.seen].effects = @ + 1, !.evolve[r.seen].status = "approved"])

\* Mutant: a second click promotes the memory again.
promoteAgain(r) ==
    /\ r.op = "evolve" /\ r.arg = "approve" /\ Evolving(r).kind = "memory_promote"
    /\ Handle(requireAdministrator(r),
              [db EXCEPT !.records = Append(@, Remembered("working", "evolve", TRUE, "active")),
                         !.evolve[r.seen].effects = @ + 1, !.evolve[r.seen].status = "approved"])

\* A promotion takes one signature.
promote(r) ==
    /\ r.op = "evolve" /\ r.arg = "approve" /\ Evolving(r).kind = "memory_promote"
    /\ Handle(requireAdministrator(r) /\ Evolving(r).status = "pending_review",
              [db EXCEPT !.records = Append(@, Remembered("working", "evolve", TRUE, "active")),
                         !.evolve[r.seen].effects = @ + 1, !.evolve[r.seen].status = "approved"])

feedback(r) ==
    /\ r.op = "feedback"
    /\ Handle(Admitted(r, "copilot"),
              [db EXCEPT !.evolve =
                  Append(@, EvolvePending(IF r.arg = "like" THEN "memory_promote" ELSE "skill_patch"))])

Next ==
    \/ MayAsk /\ \E u \in Actors : \E r \in Offers(u) : Ask(r)
    \/ \E r \in BagToSet(net.out) :
          /\ Arrives(r)
          /\ \/ writeRecord(r) \/ memoryRecordRoute(r) \/ candidate(r) \/ review(r) \/ updatePolicy(r)
             \/ refine(r) \/ dream(r) \/ reject(r) \/ sign(r) \/ countersign(r) \/ promote(r) \/ feedback(r)

-----------------------------------------------------------------------------
(* Properties. *)

\* The tables hold what the types of the client say.
TypeOK ==
    /\ \A m \in DOMAIN db.records : db.records[m] \in MemoryRecord
    /\ \A c \in DOMAIN db.candidates :
          db.candidates[c] \in MemoryKnowledgeCandidate /\ db.candidates[c].memory \in DOMAIN db.records
    /\ \A c \in DOMAIN db.evolve : db.evolve[c] \in EvolveCandidate
    /\ db.policy \in MemoryPolicy

\* A change of a skill took effect under two signatures, of an administrator
\* first and of somebody else, whatever was clicked at the same time.
TwoSigners ==
    \A c \in DOMAIN db.evolve :
        LET e == db.evolve[c]
        IN  e.kind = "skill_patch" /\ e.effects > 0 =>
                /\ Len(e.signers) = 2 /\ e.signers[1] # e.signers[2]
                /\ isAdministrator(e.signers[1])

\* A candidate of self-evolution takes effect once, even if it is rejected after.
EvolvedOnce == \A c \in DOMAIN db.evolve : db.evolve[c].effects <= 1

\* A memory waits behind one candidate at most, whether it was proposed by
\* hand or by the refinement.
OneCandidate == \A m \in DOMAIN db.records : Cardinality(Awaiting(m)) <= 1
=============================================================================
