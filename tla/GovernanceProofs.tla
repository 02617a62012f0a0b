-------------------------- MODULE GovernanceProofs --------------------------
(***************************************************************************)
(* What the console asks for before something is used: who may grant and   *)
(* approve, what a workflow that writes carries, what a document belongs   *)
(* to, which skill was cleared, which task an administrator let run.  A    *)
(* handler answers requests made of older data, so each invariant ties the *)
(* rows to each other and to the log, whatever requests overtake each      *)
(* other.                                                                  *)
(***************************************************************************)
EXTENDS ConsoleApi, FiniteSetTheorems, SequenceTheorems, TLAPS

CONSTANT StaffActors   \* the accounts that work on tasks and with employees

-----------------------------------------------------------------------------
(* Access control, for any accounts and any number of requests under way:  *)
(* a release and a grant are judged by the log of who did what, so the     *)
(* invariant ties every entry of the log to the row it is about; a release *)
(* that is asked for is made once, since nobody else asks for its name.    *)

Access == INSTANCE AccessControl

AccessSpec == Access!Init /\ [][Access!Next]_(Access!vars)

Deciding == {"approve", "reject"}
Granting == {"revokeGrant", "extendGrant"}

AccessIds == {"gAdmin", "gUser", "gPartner", "gNew", "review", "channel", "rNew", "base", "custom", "zta", "ztaNew",
        "w1", "w2", "w5", "tenant", "notify", "backup", "audit"}
AccessOps == Deciding \cup Granting \cup
       {"grant", "completeReview", "submit", "createPolicy", "togglePolicy", "authorize", "revokeTemp",
        "createWorkspace", "freeze", "transfer", "bind", "saveProfile", "patchNotify", "backup", "export"}
AccessArgs == {"active", "expiring", "on", "off", "sandbox", "production", "force", Access!NoArg}
AccessEvent == [op : AccessOps, by : Access!Users, id : AccessIds, arg : AccessArgs]

AccessTable(Row) == UNION {[S -> Row] : S \in SUBSET AccessIds}

AccessSettings == [profile : Nat, notify : BOOLEAN, backups : Nat]

AccessDataOK ==
    db \in [grants : AccessTable(Access!AccessGrant), review : {"open", "completed"},
            releases : AccessTable(Access!ReleaseApproval), policies : AccessTable(Access!ZeroTrustPolicy),
            temp : AccessTable(Access!TemporaryAuthorization), spaces : AccessTable(Access!Workspace),
            settings : AccessSettings, log : Seq(AccessEvent)]

\* What the buttons put into a request.
AccessWellFormed(r) ==
    /\ r.op \in AccessOps /\ r.by \in Access!Users /\ r.id \in AccessIds /\ r.arg \in AccessArgs
    /\ r.op = "grant" => r.arg \in {"active", "expiring"}
    /\ r.op = "togglePolicy" => r.arg \in {"on", "off"}
    /\ r.op = "authorize" => r.arg \in {"sandbox", "production"}

\* The row a request is about is one that was shown.
AccessAimed(r) ==
    /\ r.op \in Deciding => r.id \in DOMAIN db.releases
    /\ r.op \in Granting => r.id \in DOMAIN db.grants
    /\ r.op = "togglePolicy" => r.id \in DOMAIN db.policies
    /\ r.op = "revokeTemp" => r.id \in DOMAIN db.temp
    /\ r.op \in {"freeze", "transfer", "bind"} => r.id \in DOMAIN db.spaces

\* A release that is being submitted has no row and one request.
SubmittedOnce ==
    \A r \in Access!BagToSet(net.out) : r.op = "submit" =>
        /\ r.id \notin DOMAIN db.releases /\ net.out[r] = 1
        /\ \A q \in Access!BagToSet(net.out) : q.op = "submit" /\ q.id = r.id => q = r

AccessNetShape == net = [out |-> net.out, made |-> net.made]

AccessNetOK ==
    /\ AccessNetShape
    /\ \A r \in Access!BagToSet(net.out) : AccessWellFormed(r) /\ AccessAimed(r)

\* Every decision in the log was an administrator's who did not submit the release.
DecisionsLogged ==
    \A i \in DOMAIN db.log : db.log[i].op \in Deciding =>
        /\ db.log[i].id \in DOMAIN db.releases /\ Access!isAdministrator(db.log[i].by)
        /\ db.log[i].by # db.releases[db.log[i].id].submitter

DecidedIsLogged ==
    \A id \in DOMAIN db.releases : db.releases[id].status # "pending" =>
        \E i \in DOMAIN db.log : db.log[i].op \in Deciding /\ db.log[i].id = id

OwnGrantKept ==
    \A i \in DOMAIN db.log : db.log[i].op \in Granting =>
        db.log[i].id \in DOMAIN db.grants /\ db.grants[db.log[i].id].subject # db.log[i].by

\* The page of the policies shows the baseline.
BaselineThere == "base" \in DOMAIN db.policies

AccessGood == AccessDataOK /\ BaselineThere /\ DecisionsLogged /\ DecidedIsLogged /\ OwnGrantKept /\ Access!BaselineHolds

AccessInv == AccessGood /\ AccessNetOK /\ SubmittedOnce

(* Tables and the log. *)

LEMMA AccessTableShape ==
    ASSUME NEW Row, NEW f \in AccessTable(Row)
    PROVE  f \in [DOMAIN f -> Row] /\ DOMAIN f \in SUBSET AccessIds
BY DEF AccessTable

LEMMA AccessReplaced ==
    ASSUME NEW Row, NEW f \in AccessTable(Row), NEW id \in DOMAIN f, NEW row \in Row
    PROVE  LET g == [f EXCEPT ![id] = row]
           IN  /\ g \in AccessTable(Row) /\ DOMAIN g = DOMAIN f /\ g[id] = row
               /\ \A x \in DOMAIN f \ {id} : g[x] = f[x]
<1>1. f \in [DOMAIN f -> Row] /\ DOMAIN f \in SUBSET AccessIds
  BY AccessTableShape
<1>2. [f EXCEPT ![id] = row] \in [DOMAIN f -> Row]
  BY <1>1
<1> QED BY <1>1, <1>2 DEF AccessTable

LEMMA AccessPut ==
    ASSUME NEW Row, NEW f \in AccessTable(Row), NEW id \in AccessIds, NEW row \in Row
    PROVE  Access!Unshifted(f, id, row) \in AccessTable(Row)
<1>1. f \in [DOMAIN f -> Row] /\ DOMAIN f \cup {id} \in SUBSET AccessIds
  BY AccessTableShape
<1>2. Access!Unshifted(f, id, row) \in [DOMAIN f \cup {id} -> Row]
  BY <1>1 DEF Access!Unshifted
<1> QED BY <1>1, <1>2 DEF AccessTable

AccessEntry(r) == [op |-> r.op, by |-> r.by, id |-> r.id, arg |-> r.arg]

LEMMA AccessLogGrows ==
    ASSUME NEW log \in Seq(AccessEvent), NEW r, AccessWellFormed(r)
    PROVE  LET new == Append(log, AccessEntry(r))
           IN  /\ new \in Seq(AccessEvent) /\ DOMAIN log \subseteq DOMAIN new
               /\ \A i \in DOMAIN log : new[i] = log[i]
               /\ \E i \in DOMAIN new : new[i].op = r.op /\ new[i].id = r.id
               /\ \A i \in DOMAIN new \ DOMAIN log : new[i].op = r.op /\ new[i].by = r.by /\ new[i].id = r.id
<1> DEFINE e == AccessEntry(r)
           new == Append(log, e)
<1>1. e \in AccessEvent /\ e.op = r.op /\ e.by = r.by /\ e.id = r.id
  BY DEF AccessEntry, AccessWellFormed, AccessEvent
<1> HIDE DEF e
<1>2. /\ Len(log) \in Nat /\ DOMAIN log = 1..Len(log)
      /\ new \in Seq(AccessEvent) /\ DOMAIN new = 1..(Len(log) + 1)
      /\ (\A i \in 1..Len(log) : new[i] = log[i]) /\ new[Len(log) + 1] = e
  BY <1>1
<1> HIDE DEF new
<1>3. DOMAIN new \ DOMAIN log = {Len(log) + 1} /\ Len(log) + 1 \in DOMAIN new /\ DOMAIN log \subseteq DOMAIN new
  BY <1>2
<1>4. new \in Seq(AccessEvent) /\ DOMAIN log \subseteq DOMAIN new /\ \A i \in DOMAIN log : new[i] = log[i]
  BY <1>2, <1>3
<1> QED BY <1>1, <1>2, <1>3, <1>4 DEF new, e

\* The tables, one by one.
LEMMA AccessDataShape ==
    ASSUME AccessDataOK
    PROVE  /\ db.grants \in AccessTable(Access!AccessGrant) /\ db.review \in {"open", "completed"}
           /\ db.releases \in AccessTable(Access!ReleaseApproval) /\ db.policies \in AccessTable(Access!ZeroTrustPolicy)
           /\ db.temp \in AccessTable(Access!TemporaryAuthorization) /\ db.spaces \in AccessTable(Access!Workspace)
           /\ db.settings \in AccessSettings /\ db.log \in Seq(AccessEvent)
           /\ db = [grants |-> db.grants, review |-> db.review, releases |-> db.releases, policies |-> db.policies,
                    temp |-> db.temp, spaces |-> db.spaces, settings |-> db.settings, log |-> db.log]
BY DEF AccessDataOK

(* What a route may do to the rows. *)

\* A grant keeps its subject, unless it is the one made for a guest.
SubjectsKept ==
    \A id \in DOMAIN db.grants :
        id \in DOMAIN db'.grants /\ db'.grants[id].subject \in {db.grants[id].subject, "guest"}

\* A release keeps its submitter, and its status unless r decides it.
AccessReleasesKept(r) ==
    /\ \A id \in DOMAIN db.releases :
          /\ id \in DOMAIN db'.releases /\ db'.releases[id].submitter = db.releases[id].submitter
          /\ db'.releases[id].status = db.releases[id].status \/ (r.op \in Deciding /\ id = r.id)
    /\ \A id \in DOMAIN db'.releases \ DOMAIN db.releases :
          db'.releases[id].status = "pending" /\ r.op = "submit" /\ id = r.id

RowsStay ==
    /\ DOMAIN db.policies \subseteq DOMAIN db'.policies
    /\ DOMAIN db.temp \subseteq DOMAIN db'.temp
    /\ DOMAIN db.spaces \subseteq DOMAIN db'.spaces

AccessKept(r) == SubjectsKept /\ AccessReleasesKept(r) /\ RowsStay

\* Who may decide a release, and change a grant.
Entitled(r) ==
    /\ r.op \in Deciding => Access!isAdministrator(r.by) /\ r.by # db.releases[r.id].submitter
    /\ r.op \in Granting => r.by # db.grants[r.id].subject

LEMMA AccessThrown ==
    ASSUME AccessGood, NEW r, db' = db
    PROVE  AccessGood' /\ AccessKept(r)
BY DEF AccessGood, AccessDataOK, BaselineThere, DecisionsLogged, DecidedIsLogged, OwnGrantKept, Access!BaselineHolds,
       AccessKept, SubjectsKept, AccessReleasesKept, RowsStay

LEMMA AccessPreserved ==
    ASSUME AccessGood, NEW r, AccessWellFormed(r), AccessAimed(r), Entitled(r), AccessDataOK',
           db'.log = Append(db.log, AccessEntry(r)),
           SubjectsKept, AccessReleasesKept(r), RowsStay, Access!BaselineHolds'
    PROVE  AccessGood'
<1>1. /\ DOMAIN db.log \subseteq DOMAIN db'.log /\ \A i \in DOMAIN db.log : db'.log[i] = db.log[i]
      /\ \E i \in DOMAIN db'.log : db'.log[i].op = r.op /\ db'.log[i].id = r.id
      /\ \A i \in DOMAIN db'.log \ DOMAIN db.log :
            db'.log[i].op = r.op /\ db'.log[i].by = r.by /\ db'.log[i].id = r.id
  BY AccessDataShape, AccessLogGrows DEF AccessGood
<1>2. \A i \in DOMAIN db.log : db.log[i].by \in Access!Users
  <2>1. db.log \in Seq(AccessEvent) /\ DOMAIN db.log = 1..Len(db.log)
    BY AccessDataShape DEF AccessGood
  <2>2. \A i \in DOMAIN db.log : db.log[i] \in AccessEvent
    BY <2>1, ElementOfSeq
  <2> QED BY <2>2 DEF AccessEvent
<1>3. "guest" \notin Access!Users
  BY DEF Access!Users, Access!RoleOf
<1>4. DecisionsLogged'
  BY <1>1 DEF AccessGood, DecisionsLogged, Entitled, AccessAimed, AccessReleasesKept
<1>5. DecidedIsLogged'
  <2> SUFFICES ASSUME NEW id \in DOMAIN db'.releases, db'.releases[id].status # "pending"
               PROVE  \E i \in DOMAIN db'.log : db'.log[i].op \in Deciding /\ db'.log[i].id = id
    BY DEF DecidedIsLogged
  <2>1. id \in DOMAIN db.releases
    BY DEF AccessReleasesKept
  <2>2. CASE r.op \in Deciding /\ id = r.id
    BY <1>1, <2>2
  <2>3. CASE db.releases[id].status # "pending"
    <3>1. PICK i \in DOMAIN db.log : db.log[i].op \in Deciding /\ db.log[i].id = id
      BY <2>1, <2>3 DEF AccessGood, DecidedIsLogged
    <3> QED BY <1>1, <3>1
  <2> QED BY <2>1, <2>2, <2>3 DEF AccessReleasesKept
<1>6. OwnGrantKept'
  <2> SUFFICES ASSUME NEW i \in DOMAIN db'.log, db'.log[i].op \in Granting
               PROVE  db'.log[i].id \in DOMAIN db'.grants /\ db'.grants[db'.log[i].id].subject # db'.log[i].by
    BY DEF OwnGrantKept
  <2> DEFINE id == db'.log[i].id
             by == db'.log[i].by
  <2>1. by \in Access!Users /\ id \in DOMAIN db.grants /\ db.grants[id].subject # by
    <3>1. CASE i \in DOMAIN db.log
      BY <1>1, <1>2, <3>1 DEF AccessGood, OwnGrantKept
    <3>2. CASE i \notin DOMAIN db.log
      BY <1>1, <3>2 DEF Entitled, AccessAimed, AccessWellFormed
    <3> QED BY <3>1, <3>2
  <2> QED BY <1>3, <2>1 DEF SubjectsKept
<1>7. BaselineThere'
  BY DEF AccessGood, BaselineThere, RowsStay
<1> QED BY <1>4, <1>5, <1>6, <1>7 DEF AccessGood

(* One lemma for each route. *)

LEMMA GrantKeeps ==
    ASSUME AccessGood, NEW r, AccessWellFormed(r), AccessAimed(r), Access!grant(r)
    PROVE  AccessGood' /\ AccessKept(r)
<1> DEFINE row == [subject |-> "guest", status |-> r.arg]
           T == Access!Unshifted(db.grants, r.id, row)
           admitted == Access!Admitted(r, "platform") /\ Access!May(r.by, "access.write")
<1>1. CASE ~admitted
  BY <1>1, AccessThrown DEF Access!grant, Access!Handle
<1>2. CASE admitted
  <2>1. db' = [grants |-> T, review |-> db.review, releases |-> db.releases, policies |-> db.policies,
               temp |-> db.temp, spaces |-> db.spaces, settings |-> db.settings, log |-> Append(db.log,
               AccessEntry(r))]
    BY <1>2, AccessDataShape DEF AccessGood, Access!grant, Access!Handle, Access!Logged, AccessEntry
  <2>2. row \in Access!AccessGrant /\ r.id \in AccessIds /\ row.subject = "guest"
    BY <1>2 DEF AccessWellFormed, Access!AccessGrant, Access!grant
  <2> HIDE DEF row
  <2>3. T \in AccessTable(Access!AccessGrant)
    BY <2>2, AccessDataShape, AccessPut DEF AccessGood
  <2>4. /\ DOMAIN T = DOMAIN db.grants \cup {r.id} /\ T[r.id] = row
        /\ \A x \in DOMAIN db.grants \ {r.id} : T[x] = db.grants[x]
    BY DEF Access!Unshifted
  <2> HIDE DEF T
  <2>5. AccessDataOK'
    BY <2>1, <2>3, AccessDataShape, AccessLogGrows DEF AccessGood, AccessDataOK
  <2>6. SubjectsKept /\ AccessReleasesKept(r) /\ RowsStay /\ Access!BaselineHolds'
    BY <2>1, <2>2, <2>4 DEF SubjectsKept, AccessReleasesKept, RowsStay, AccessGood, Access!BaselineHolds, Access!grant
  <2>7. Entitled(r)
    BY DEF Access!grant, Entitled, Deciding, Granting
  <2> QED BY <2>1, <2>5, <2>6, <2>7, AccessPreserved DEF AccessKept
<1> QED BY <1>1, <1>2

LEMMA GrantActionKeeps ==
    ASSUME AccessGood, NEW r, AccessWellFormed(r), AccessAimed(r), Access!grantAction(r)
    PROVE  AccessGood' /\ AccessKept(r)
<1> DEFINE old == db.grants[r.id]
           row == [old EXCEPT !.status = IF r.op = "revokeGrant" THEN "expired" ELSE "active"]
           T == [db.grants EXCEPT ![r.id] = row]
           admitted == Access!Admitted(r, "platform") /\ Access!May(r.by, "access.write") /\ db.grants[r.id].subject # r.by
<1>1. CASE ~admitted
  BY <1>1, AccessThrown DEF Access!grantAction, Access!Handle
<1>2. CASE admitted
  <2>1. db' = [grants |-> T, review |-> db.review, releases |-> db.releases, policies |-> db.policies,
               temp |-> db.temp, spaces |-> db.spaces, settings |-> db.settings, log |-> Append(db.log,
               AccessEntry(r))]
    BY <1>2, AccessDataShape DEF AccessGood, Access!grantAction, Access!Handle, Access!Logged, AccessEntry
  <2>2. r.id \in DOMAIN db.grants /\ old \in Access!AccessGrant
    BY AccessDataShape, AccessTableShape DEF AccessGood, Access!grantAction, AccessAimed, Granting
  <2>3. row \in Access!AccessGrant /\ row.subject = old.subject
    BY <1>2, <2>2 DEF Access!AccessGrant, Access!grantAction, AccessWellFormed
  <2> HIDE DEF row
  <2>4. /\ T \in AccessTable(Access!AccessGrant) /\ DOMAIN T = DOMAIN db.grants /\ T[r.id] = row
        /\ \A x \in DOMAIN db.grants \ {r.id} : T[x] = db.grants[x]
    BY <2>2, <2>3, AccessDataShape, AccessReplaced DEF AccessGood
  <2> HIDE DEF T
  <2>5. AccessDataOK'
    BY <2>1, <2>4, AccessDataShape, AccessLogGrows DEF AccessGood, AccessDataOK
  <2>6. SubjectsKept /\ AccessReleasesKept(r) /\ RowsStay /\ Access!BaselineHolds'
    BY <1>2, <2>1, <2>3, <2>4 DEF SubjectsKept, AccessReleasesKept, RowsStay, AccessGood, Access!BaselineHolds,
                                  Access!grantAction, Deciding
  <2>7. Entitled(r)
    BY <1>2 DEF Access!grantAction, Entitled, Deciding, Granting
  <2> QED BY <2>1, <2>5, <2>6, <2>7, AccessPreserved DEF AccessKept
<1> QED BY <1>1, <1>2

\* A release that is submitted takes no row away.
LEMMA SubmitKeeps ==
    ASSUME AccessGood, NEW r, AccessWellFormed(r), AccessAimed(r), Access!submit(r), r.id \notin DOMAIN db.releases
    PROVE  AccessGood' /\ AccessKept(r)
<1> DEFINE row == [submitter |-> r.by, status |-> "pending"]
           T == Access!Unshifted(db.releases, r.id, row)
           admitted == Access!Admitted(r, "plain") /\ Access!RoleOf[r.by] # "auditor" /\ Access!evaluateZeroTrust(r.by) # "deny"
<1>1. CASE ~admitted
  BY <1>1, AccessThrown DEF Access!submit, Access!Handle
<1>2. CASE admitted
  <2>1. db' = [grants |-> db.grants, review |-> db.review, releases |-> T, policies |-> db.policies,
               temp |-> db.temp, spaces |-> db.spaces, settings |-> db.settings, log |-> Append(db.log,
               AccessEntry(r))]
    BY <1>2, AccessDataShape DEF AccessGood, Access!submit, Access!Handle, Access!Logged, AccessEntry
  <2>2. row \in Access!ReleaseApproval /\ r.id \in AccessIds /\ row.status = "pending"
    BY <1>2 DEF AccessWellFormed, Access!ReleaseApproval, Access!submit
  <2> HIDE DEF row
  <2>3. T \in AccessTable(Access!ReleaseApproval)
    BY <2>2, AccessDataShape, AccessPut DEF AccessGood
  <2>4. /\ DOMAIN T = DOMAIN db.releases \cup {r.id} /\ T[r.id] = row
        /\ \A x \in DOMAIN db.releases \ {r.id} : T[x] = db.releases[x]
    BY DEF Access!Unshifted
  <2> HIDE DEF T
  <2>5. AccessDataOK'
    BY <2>1, <2>3, AccessDataShape, AccessLogGrows DEF AccessGood, AccessDataOK
  <2>6. SubjectsKept /\ AccessReleasesKept(r) /\ RowsStay /\ Access!BaselineHolds'
    BY <2>1, <2>2, <2>4 DEF SubjectsKept, AccessReleasesKept, RowsStay, AccessGood, Access!BaselineHolds,
                            Access!submit
  <2>7. Entitled(r)
    BY DEF Access!submit, Entitled, Deciding, Granting
  <2> QED BY <2>1, <2>5, <2>6, <2>7, AccessPreserved DEF AccessKept
<1> QED BY <1>1, <1>2

\* Only an administrator holds the permission to approve.
LEMMA ApprovalActionKeeps ==
    ASSUME AccessGood, NEW r, AccessWellFormed(r), AccessAimed(r), Access!approvalAction(r)
    PROVE  AccessGood' /\ AccessKept(r)
<1> DEFINE old == db.releases[r.id]
           row == [old EXCEPT !.status = IF r.op = "approve" THEN "approved" ELSE "rejected"]
           T == [db.releases EXCEPT ![r.id] = row]
           admitted == Access!Admitted(r, "plain") /\ Access!May(r.by, "release.approve") /\ db.releases[r.id].submitter # r.by
<1>1. CASE ~admitted
  BY <1>1, AccessThrown DEF Access!approvalAction, Access!Handle
<1>2. CASE admitted
  <2>1. db' = [grants |-> db.grants, review |-> db.review, releases |-> T, policies |-> db.policies,
               temp |-> db.temp, spaces |-> db.spaces, settings |-> db.settings, log |-> Append(db.log,
               AccessEntry(r))]
    BY <1>2, AccessDataShape DEF AccessGood, Access!approvalAction, Access!Handle, Access!Logged, AccessEntry
  <2>2. r.id \in DOMAIN db.releases /\ old \in Access!ReleaseApproval
    BY AccessDataShape, AccessTableShape DEF AccessGood, Access!approvalAction, AccessAimed, Deciding
  <2>3. row \in Access!ReleaseApproval /\ row.submitter = old.submitter
    BY <1>2, <2>2 DEF Access!ReleaseApproval, Access!approvalAction, AccessWellFormed
  <2> HIDE DEF row
  <2>4. /\ T \in AccessTable(Access!ReleaseApproval) /\ DOMAIN T = DOMAIN db.releases /\ T[r.id] = row
        /\ \A x \in DOMAIN db.releases \ {r.id} : T[x] = db.releases[x]
    BY <2>2, <2>3, AccessDataShape, AccessReplaced DEF AccessGood
  <2> HIDE DEF T
  <2>5. AccessDataOK'
    BY <2>1, <2>4, AccessDataShape, AccessLogGrows DEF AccessGood, AccessDataOK
  <2>6. SubjectsKept /\ AccessReleasesKept(r) /\ RowsStay /\ Access!BaselineHolds'
    BY <1>2, <2>1, <2>3, <2>4 DEF SubjectsKept, AccessReleasesKept, RowsStay, AccessGood, Access!BaselineHolds,
                                  Access!approvalAction, Deciding
  <2>7. Access!isAdministrator(r.by)
    BY <1>2 DEF AccessWellFormed, Access!Users, Access!RoleOf, Access!May, Access!rolePermissions,
                Access!isAdministrator
  <2>8. Entitled(r)
    BY <1>2, <2>7 DEF Access!approvalAction, Entitled, Deciding, Granting
  <2> QED BY <2>1, <2>5, <2>6, <2>8, AccessPreserved DEF AccessKept
<1> QED BY <1>1, <1>2

LEMMA CreatePolicyKeeps ==
    ASSUME AccessGood, NEW r, AccessWellFormed(r), AccessAimed(r), Access!createPolicy(r)
    PROVE  AccessGood' /\ AccessKept(r)
<1> DEFINE row == [baseline |-> FALSE, enabled |-> TRUE, version |-> 1]
           T == Access!Unshifted(db.policies, r.id, row)
           admitted == Access!Admitted(r, "plain") /\ Access!isAdministrator(r.by)
<1>1. CASE ~admitted
  BY <1>1, AccessThrown DEF Access!createPolicy, Access!Handle
<1>2. CASE admitted
  <2>1. db' = [grants |-> db.grants, review |-> db.review, releases |-> db.releases, policies |-> T,
               temp |-> db.temp, spaces |-> db.spaces, settings |-> db.settings, log |-> Append(db.log,
               AccessEntry(r))]
    BY <1>2, AccessDataShape DEF AccessGood, Access!createPolicy, Access!Handle, Access!Logged, AccessEntry
  <2>2. row \in Access!ZeroTrustPolicy /\ r.id \in AccessIds /\ ~row.baseline
    BY <1>2 DEF AccessWellFormed, Access!ZeroTrustPolicy, Access!createPolicy
  <2> HIDE DEF row
  <2>3. T \in AccessTable(Access!ZeroTrustPolicy)
    BY <2>2, AccessDataShape, AccessPut DEF AccessGood
  <2>4. /\ DOMAIN T = DOMAIN db.policies \cup {r.id} /\ T[r.id] = row
        /\ \A x \in DOMAIN db.policies \ {r.id} : T[x] = db.policies[x]
    BY DEF Access!Unshifted
  <2> HIDE DEF T
  <2>5. AccessDataOK'
    BY <2>1, <2>3, AccessDataShape, AccessLogGrows DEF AccessGood, AccessDataOK
  <2>6. SubjectsKept /\ AccessReleasesKept(r) /\ RowsStay /\ Access!BaselineHolds'
    BY <2>1, <2>2, <2>4 DEF SubjectsKept, AccessReleasesKept, RowsStay, AccessGood, Access!BaselineHolds,
                            Access!createPolicy
  <2>7. Entitled(r)
    BY DEF Access!createPolicy, Entitled, Deciding, Granting
  <2> QED BY <2>1, <2>5, <2>6, <2>7, AccessPreserved DEF AccessKept
<1> QED BY <1>1, <1>2

LEMMA TogglePolicyKeeps ==
    ASSUME AccessGood, NEW r, AccessWellFormed(r), AccessAimed(r), Access!togglePolicy(r)
    PROVE  AccessGood' /\ AccessKept(r)
<1> DEFINE old == db.policies[r.id]
           on == r.arg = "on"
           row == Access!toggled(old, on)
           T == [db.policies EXCEPT ![r.id] = row]
           admitted == Access!Admitted(r, "plain") /\ Access!isAdministrator(r.by) /\ ~(db.policies[r.id].baseline /\ r.arg = "off")
<1>1. CASE ~admitted
  BY <1>1, AccessThrown DEF Access!togglePolicy, Access!Handle
<1>2. CASE admitted
  <2>1. db' = [grants |-> db.grants, review |-> db.review, releases |-> db.releases, policies |-> T,
               temp |-> db.temp, spaces |-> db.spaces, settings |-> db.settings, log |-> Append(db.log,
               AccessEntry(r))]
    <3>1. db' = Access!Logged([db EXCEPT !.policies[r.id] = row], r)
      BY <1>2 DEF Access!togglePolicy, Access!Handle
    <3> HIDE DEF row
    <3> QED BY <3>1, AccessDataShape DEF AccessGood, Access!Logged, AccessEntry
  <2>2. r.id \in DOMAIN db.policies /\ old \in Access!ZeroTrustPolicy
    BY AccessDataShape, AccessTableShape DEF AccessGood, Access!togglePolicy, AccessAimed
  <2>3. row \in Access!ZeroTrustPolicy /\ row.baseline = old.baseline /\ row.enabled = on
    <3>1. on \in BOOLEAN
      OBVIOUS
    <3> HIDE DEF on
    <3> DEFINE first == [old EXCEPT !.enabled = on]
    <3>2. first \in Access!ZeroTrustPolicy /\ first.baseline = old.baseline /\ first.enabled = on
      BY <2>2, <3>1 DEF Access!ZeroTrustPolicy
    <3>3. row = [first EXCEPT !.version = first.version + 1]
      BY <2>2 DEF Access!toggled, Access!ZeroTrustPolicy
    <3> HIDE DEF first, row
    <3> QED BY <3>2, <3>3 DEF Access!ZeroTrustPolicy
  <2> HIDE DEF row
  <2>4. /\ T \in AccessTable(Access!ZeroTrustPolicy) /\ DOMAIN T = DOMAIN db.policies /\ T[r.id] = row
        /\ \A x \in DOMAIN db.policies \ {r.id} : T[x] = db.policies[x]
    BY <2>2, <2>3, AccessDataShape, AccessReplaced DEF AccessGood
  <2> HIDE DEF T
  <2>5. AccessDataOK'
    BY <2>1, <2>4, AccessDataShape, AccessLogGrows DEF AccessGood, AccessDataOK
  <2>6. SubjectsKept /\ AccessReleasesKept(r) /\ RowsStay /\ Access!BaselineHolds'
    BY <1>2, <2>1, <2>3, <2>4 DEF SubjectsKept, AccessReleasesKept, RowsStay, AccessGood, Access!BaselineHolds,
                                  Access!togglePolicy, Deciding, AccessWellFormed
  <2>7. Entitled(r)
    BY <1>2 DEF Access!togglePolicy, Entitled, Deciding, Granting
  <2> QED BY <2>1, <2>5, <2>6, <2>7, AccessPreserved DEF AccessKept
<1> QED BY <1>1, <1>2

LEMMA AuthorizeKeeps ==
    ASSUME AccessGood, NEW r, AccessWellFormed(r), AccessAimed(r), Access!authorize(r)
    PROVE  AccessGood' /\ AccessKept(r)
<1> DEFINE row == [env |-> r.arg, status |-> "active"]
           T == Access!Unshifted(db.temp, r.id, row)
           admitted == Access!Admitted(r, "plain") /\ Access!isAdministrator(r.by) /\ r.arg # "production"
<1>1. CASE ~admitted
  BY <1>1, AccessThrown DEF Access!authorize, Access!Handle
<1>2. CASE admitted
  <2>1. db' = [grants |-> db.grants, review |-> db.review, releases |-> db.releases, policies |-> db.policies,
               temp |-> T, spaces |-> db.spaces, settings |-> db.settings, log |-> Append(db.log, AccessEntry(r))]
    BY <1>2, AccessDataShape DEF AccessGood, Access!authorize, Access!Handle, Access!Logged, AccessEntry
  <2>2. row \in Access!TemporaryAuthorization /\ r.id \in AccessIds /\ row.env # "production"
    BY <1>2 DEF AccessWellFormed, Access!TemporaryAuthorization, Access!authorize
  <2> HIDE DEF row
  <2>3. T \in AccessTable(Access!TemporaryAuthorization)
    BY <2>2, AccessDataShape, AccessPut DEF AccessGood
  <2>4. /\ DOMAIN T = DOMAIN db.temp \cup {r.id} /\ T[r.id] = row
        /\ \A x \in DOMAIN db.temp \ {r.id} : T[x] = db.temp[x]
    BY DEF Access!Unshifted
  <2> HIDE DEF T
  <2>5. AccessDataOK'
    BY <2>1, <2>3, AccessDataShape, AccessLogGrows DEF AccessGood, AccessDataOK
  <2>6. SubjectsKept /\ AccessReleasesKept(r) /\ RowsStay /\ Access!BaselineHolds'
    BY <2>1, <2>2, <2>4 DEF SubjectsKept, AccessReleasesKept, RowsStay, AccessGood, Access!BaselineHolds,
                            Access!authorize
  <2>7. Entitled(r)
    BY DEF Access!authorize, Entitled, Deciding, Granting
  <2> QED BY <2>1, <2>5, <2>6, <2>7, AccessPreserved DEF AccessKept
<1> QED BY <1>1, <1>2

LEMMA RevokeTempKeeps ==
    ASSUME AccessGood, NEW r, AccessWellFormed(r), AccessAimed(r), Access!revokeTemp(r)
    PROVE  AccessGood' /\ AccessKept(r)
<1> DEFINE old == db.temp[r.id]
           row == [old EXCEPT !.status = "revoked"]
           T == [db.temp EXCEPT ![r.id] = row]
           admitted == Access!Admitted(r, "plain") /\ Access!isAdministrator(r.by)
<1>1. CASE ~admitted
  BY <1>1, AccessThrown DEF Access!revokeTemp, Access!Handle
<1>2. CASE admitted
  <2>1. db' = [grants |-> db.grants, review |-> db.review, releases |-> db.releases, policies |-> db.policies,
               temp |-> T, spaces |-> db.spaces, settings |-> db.settings, log |-> Append(db.log, AccessEntry(r))]
    BY <1>2, AccessDataShape DEF AccessGood, Access!revokeTemp, Access!Handle, Access!Logged, AccessEntry
  <2>2. r.id \in DOMAIN db.temp /\ old \in Access!TemporaryAuthorization
    BY AccessDataShape, AccessTableShape DEF AccessGood, Access!revokeTemp, AccessAimed
  <2>3. row \in Access!TemporaryAuthorization /\ row.env = old.env
    BY <1>2, <2>2 DEF Access!TemporaryAuthorization, Access!revokeTemp, AccessWellFormed
  <2> HIDE DEF row
  <2>4. /\ T \in AccessTable(Access!TemporaryAuthorization) /\ DOMAIN T = DOMAIN db.temp /\ T[r.id] = row
        /\ \A x \in DOMAIN db.temp \ {r.id} : T[x] = db.temp[x]
    BY <2>2, <2>3, AccessDataShape, AccessReplaced DEF AccessGood
  <2> HIDE DEF T
  <2>5. AccessDataOK'
    BY <2>1, <2>4, AccessDataShape, AccessLogGrows DEF AccessGood, AccessDataOK
  <2>6. SubjectsKept /\ AccessReleasesKept(r) /\ RowsStay /\ Access!BaselineHolds'
    BY <1>2, <2>1, <2>3, <2>4 DEF SubjectsKept, AccessReleasesKept, RowsStay, AccessGood, Access!BaselineHolds,
                                  Access!revokeTemp, Deciding
  <2>7. Entitled(r)
    BY <1>2 DEF Access!revokeTemp, Entitled, Deciding, Granting
  <2> QED BY <2>1, <2>5, <2>6, <2>7, AccessPreserved DEF AccessKept
<1> QED BY <1>1, <1>2

LEMMA CreateWorkspaceKeeps ==
    ASSUME AccessGood, NEW r, AccessWellFormed(r), AccessAimed(r), Access!createWorkspace(r)
    PROVE  AccessGood' /\ AccessKept(r)
<1> DEFINE row == [owner |-> "u1", status |-> "active", bound |-> FALSE]
           T == Access!Unshifted(db.spaces, r.id, row)
           admitted == Access!Admitted(r, "plain") /\ Access!May(r.by, "workspace.write")
<1>1. CASE ~admitted
  BY <1>1, AccessThrown DEF Access!createWorkspace, Access!Handle
<1>2. CASE admitted
  <2>1. db' = [grants |-> db.grants, review |-> db.review, releases |-> db.releases, policies |-> db.policies,
               temp |-> db.temp, spaces |-> T, settings |-> db.settings, log |-> Append(db.log, AccessEntry(r))]
    BY <1>2, AccessDataShape DEF AccessGood, Access!createWorkspace, Access!Handle, Access!Logged, AccessEntry
  <2>2. row \in Access!Workspace /\ r.id \in AccessIds
    BY <1>2 DEF AccessWellFormed, Access!Users, Access!RoleOf, Access!Workspace, Access!createWorkspace
  <2> HIDE DEF row
  <2>3. T \in AccessTable(Access!Workspace)
    BY <2>2, AccessDataShape, AccessPut DEF AccessGood
  <2>4. /\ DOMAIN T = DOMAIN db.spaces \cup {r.id} /\ T[r.id] = row
        /\ \A x \in DOMAIN db.spaces \ {r.id} : T[x] = db.spaces[x]
    BY DEF Access!Unshifted
  <2> HIDE DEF T
  <2>5. AccessDataOK'
    BY <2>1, <2>3, AccessDataShape, AccessLogGrows DEF AccessGood, AccessDataOK
  <2>6. SubjectsKept /\ AccessReleasesKept(r) /\ RowsStay /\ Access!BaselineHolds'
    BY <2>1, <2>2, <2>4 DEF SubjectsKept, AccessReleasesKept, RowsStay, AccessGood, Access!BaselineHolds,
                            Access!createWorkspace
  <2>7. Entitled(r)
    BY DEF Access!createWorkspace, Entitled, Deciding, Granting
  <2> QED BY <2>1, <2>5, <2>6, <2>7, AccessPreserved DEF AccessKept
<1> QED BY <1>1, <1>2

LEMMA WorkspaceActionKeeps ==
    ASSUME AccessGood, NEW r, AccessWellFormed(r), AccessAimed(r), Access!workspaceAction(r)
    PROVE  AccessGood' /\ AccessKept(r)
<1> DEFINE old == db.spaces[r.id]
           row == CASE r.op = "freeze" -> [old EXCEPT !.status = "frozen"]
                    [] r.op = "transfer" -> [old EXCEPT !.owner = "member"]
                    [] r.op = "bind" -> [old EXCEPT !.bound = TRUE]
           T == [db.spaces EXCEPT ![r.id] = row]
           admitted == /\ Access!Admitted(r, "plain") /\ Access!May(r.by, "workspace.write")
                       /\ r.id \in Access!workspaceIds(r.by)
                       /\ ~(r.op = "freeze" /\ db.spaces[r.id].bound /\ r.arg # "force")
<1>1. CASE ~admitted
  BY <1>1, AccessThrown DEF Access!workspaceAction, Access!Handle
<1>2. CASE admitted
  <2>1. db' = [grants |-> db.grants, review |-> db.review, releases |-> db.releases, policies |-> db.policies,
               temp |-> db.temp, spaces |-> T, settings |-> db.settings, log |-> Append(db.log, AccessEntry(r))]
    BY <1>2, AccessDataShape DEF AccessGood, Access!workspaceAction, Access!Handle, Access!Logged, AccessEntry
  <2>2. r.id \in DOMAIN db.spaces /\ old \in Access!Workspace
    BY AccessDataShape, AccessTableShape DEF AccessGood, Access!workspaceAction, AccessAimed
  <2>3. row \in Access!Workspace
    BY <1>2, <2>2 DEF Access!Workspace, Access!workspaceAction, AccessWellFormed
  <2> HIDE DEF row
  <2>4. /\ T \in AccessTable(Access!Workspace) /\ DOMAIN T = DOMAIN db.spaces /\ T[r.id] = row
        /\ \A x \in DOMAIN db.spaces \ {r.id} : T[x] = db.spaces[x]
    BY <2>2, <2>3, AccessDataShape, AccessReplaced DEF AccessGood
  <2> HIDE DEF T
  <2>5. AccessDataOK'
    BY <2>1, <2>4, AccessDataShape, AccessLogGrows DEF AccessGood, AccessDataOK
  <2>6. SubjectsKept /\ AccessReleasesKept(r) /\ RowsStay /\ Access!BaselineHolds'
    BY <1>2, <2>1, <2>3, <2>4 DEF SubjectsKept, AccessReleasesKept, RowsStay, AccessGood, Access!BaselineHolds,
                                  Access!workspaceAction, Deciding
  <2>7. Entitled(r)
    BY <1>2 DEF Access!workspaceAction, Entitled, Deciding, Granting
  <2> QED BY <2>1, <2>5, <2>6, <2>7, AccessPreserved DEF AccessKept
<1> QED BY <1>1, <1>2

\* What neither the rows that are granted nor those that are decided feel.
LEMMA AccessElsewhere ==
    ASSUME AccessGood, NEW r, AccessWellFormed(r), AccessAimed(r), r.op \notin Deciding \cup Granting,
           NEW review \in {"open", "completed"}, NEW settings \in AccessSettings,
           db' = [grants |-> db.grants, review |-> review, releases |-> db.releases, policies |-> db.policies,
                  temp |-> db.temp, spaces |-> db.spaces, settings |-> settings, log |-> Append(db.log,
                  AccessEntry(r))]
    PROVE  AccessGood' /\ AccessKept(r)
<1>1. AccessDataOK'
  BY AccessDataShape, AccessLogGrows DEF AccessGood, AccessDataOK
<1>2. SubjectsKept /\ AccessReleasesKept(r) /\ RowsStay /\ Access!BaselineHolds'
  BY DEF SubjectsKept, AccessReleasesKept, RowsStay, AccessGood, Access!BaselineHolds
<1>3. Entitled(r)
  BY DEF Entitled
<1> QED BY <1>1, <1>2, <1>3, AccessPreserved DEF AccessKept

LEMMA CompleteReviewKeeps ==
    ASSUME AccessGood, NEW r, AccessWellFormed(r), AccessAimed(r), Access!completeReview(r)
    PROVE  AccessGood' /\ AccessKept(r)
<1> DEFINE admitted == Access!Admitted(r, "platform") /\ Access!May(r.by, "access.write")
<1>1. CASE ~admitted
  BY <1>1, AccessThrown DEF Access!completeReview, Access!Handle
<1>2. CASE admitted
  <2>1. db' = [grants |-> db.grants, review |-> "completed", releases |-> db.releases, policies |-> db.policies,
               temp |-> db.temp, spaces |-> db.spaces, settings |-> db.settings, log |-> Append(db.log,
               AccessEntry(r))]
    BY <1>2, AccessDataShape DEF AccessGood, Access!completeReview, Access!Handle, Access!Logged, AccessEntry
  <2>2. r.op \notin Deciding \cup Granting /\ db.settings \in AccessSettings
    BY AccessDataShape DEF AccessGood, Access!completeReview, Deciding, Granting
  <2> QED BY <2>1, <2>2, AccessElsewhere
<1> QED BY <1>1, <1>2

LEMMA AccessSettingsKeep ==
    ASSUME AccessGood, NEW r, AccessWellFormed(r), AccessAimed(r),
           Access!saveProfile(r) \/ Access!patchNotify(r) \/ Access!backup(r) \/ Access!export(r)
    PROVE  AccessGood' /\ AccessKept(r)
<1>1. CASE db' = db
  BY <1>1, AccessThrown
<1>2. ASSUME NEW s \in AccessSettings, db' = Access!Logged([db EXCEPT !.settings = s], r) PROVE AccessGood' /\ AccessKept(r)
  <2>1. db' = [grants |-> db.grants, review |-> db.review, releases |-> db.releases, policies |-> db.policies,
               temp |-> db.temp, spaces |-> db.spaces, settings |-> s, log |-> Append(db.log, AccessEntry(r))]
    BY <1>2, AccessDataShape DEF AccessGood, Access!Logged, AccessEntry
  <2>2. r.op \notin Deciding \cup Granting /\ db.review \in {"open", "completed"}
    BY AccessDataShape DEF AccessGood, Access!saveProfile, Access!patchNotify, Access!backup, Access!export,
                           Deciding, Granting
  <2> QED BY <2>1, <2>2, AccessElsewhere
<1>3. db.settings \in AccessSettings /\ db = [db EXCEPT !.settings = db.settings]
  BY AccessDataShape DEF AccessGood
<1>4. CASE Access!saveProfile(r) /\ db' # db
  <2> DEFINE s == [db.settings EXCEPT !.profile = @ + 1]
  <2>1. s \in AccessSettings
    BY <1>3 DEF AccessSettings
  <2>2. db' = Access!Logged([db EXCEPT !.settings = s], r)
    BY <1>4 DEF Access!saveProfile, Access!Handle
  <2> QED BY <1>2, <2>1, <2>2
<1>5. CASE Access!patchNotify(r) /\ db' # db
  <2> DEFINE on == r.arg = "on"
             s == [db.settings EXCEPT !.notify = on]
  <2>1. on \in BOOLEAN
    OBVIOUS
  <2>2. db' = Access!Logged([db EXCEPT !.settings = s], r)
    BY <1>5 DEF Access!patchNotify, Access!Handle
  <2> HIDE DEF on
  <2>3. s \in AccessSettings
    BY <1>3, <2>1 DEF AccessSettings
  <2> QED BY <1>2, <2>2, <2>3
<1>6. CASE Access!backup(r) /\ db' # db
  <2> DEFINE s == [db.settings EXCEPT !.backups = @ + 1]
  <2>1. s \in AccessSettings
    BY <1>3 DEF AccessSettings
  <2>2. db' = Access!Logged([db EXCEPT !.settings = s], r)
    BY <1>6 DEF Access!backup, Access!Handle
  <2> QED BY <1>2, <2>1, <2>2
<1>7. CASE Access!export(r) /\ db' # db
  <2>1. db' = Access!Logged(db, r)
    BY <1>7 DEF Access!export, Access!Handle
  <2> QED BY <1>2, <1>3, <2>1
<1> QED BY <1>1, <1>4, <1>5, <1>6, <1>7

\* Every route keeps the invariant of the tables; a release is submitted under a
\* name that none has.
LEMMA AccessRoutesKeep ==
    ASSUME AccessGood, NEW r, AccessWellFormed(r), AccessAimed(r), r.op = "submit" => r.id \notin DOMAIN db.releases,
           \/ Access!grant(r) \/ Access!grantAction(r) \/ Access!completeReview(r) \/ Access!submit(r)
           \/ Access!approvalAction(r) \/ Access!createPolicy(r) \/ Access!togglePolicy(r) \/ Access!authorize(r)
           \/ Access!revokeTemp(r) \/ Access!createWorkspace(r) \/ Access!workspaceAction(r)
           \/ Access!saveProfile(r) \/ Access!patchNotify(r) \/ Access!backup(r) \/ Access!export(r)
    PROVE  AccessGood' /\ AccessKept(r)
<1>1. CASE Access!submit(r)
  BY <1>1, SubmitKeeps DEF Access!submit
<1>2. CASE Access!saveProfile(r) \/ Access!patchNotify(r) \/ Access!backup(r) \/ Access!export(r)
  BY <1>2, AccessSettingsKeep
<1>3. CASE Access!grant(r) \/ Access!grantAction(r) \/ Access!completeReview(r) \/ Access!approvalAction(r)
  BY <1>3, GrantKeeps, GrantActionKeeps, CompleteReviewKeeps, ApprovalActionKeeps
<1>4. CASE Access!createPolicy(r) \/ Access!togglePolicy(r) \/ Access!authorize(r) \/ Access!revokeTemp(r)
  BY <1>4, CreatePolicyKeeps, TogglePolicyKeeps, AuthorizeKeeps, RevokeTempKeeps
<1>5. CASE Access!createWorkspace(r) \/ Access!workspaceAction(r)
  BY <1>5, CreateWorkspaceKeeps, WorkspaceActionKeeps
<1> QED BY <1>1, <1>2, <1>3, <1>4, <1>5

(* Requests under way. *)

LEMMA AccessAsked ==
    ASSUME NEW r, Access!Ask(r)
    PROVE  /\ db' = db /\ AccessNetShape' /\ Access!BagToSet(net'.out) = Access!BagToSet(net.out) \cup {r}
           /\ \A q \in Access!BagToSet(net.out) \ {r} : net.out[q] = 1 => net'.out[q] = 1
           /\ r \notin Access!BagToSet(net.out) => net'.out[r] = 1
<1> DEFINE B == Access!(+)(net.out, Access!SetToBag({r}))
<1>1. net' = [out |-> B, made |-> net.made + 1] /\ db' = db
  BY DEF Access!Ask
<1>2. B = [q \in DOMAIN net.out \cup {r} |-> (IF q \in DOMAIN net.out THEN net.out[q] ELSE 0) + (IF q = r THEN 1 ELSE 0)]
  BY DEF Access!(+), Access!SetToBag
<1> HIDE DEF B
<1>3. DOMAIN B = DOMAIN net.out \cup {r} /\ \A q \in DOMAIN B \ {r} : net.out[q] = 1 => B[q] = 1
  BY <1>2
<1>4. r \notin DOMAIN net.out => B[r] = 1
  BY <1>2
<1>5. net'.out = B /\ AccessNetShape'
  BY <1>1 DEF AccessNetShape
<1> QED BY <1>1, <1>3, <1>4, <1>5 DEF Access!BagToSet

LEMMA AccessArrived ==
    ASSUME NEW r, Access!Arrives(r), AccessNetShape
    PROVE  /\ AccessNetShape' /\ Access!BagToSet(net'.out) \subseteq Access!BagToSet(net.out)
           /\ \A q \in Access!BagToSet(net'.out) \ {r} : net'.out[q] = net.out[q]
           /\ net.out[r] = 1 => r \notin Access!BagToSet(net'.out)
<1> DEFINE C == [q \in DOMAIN net.out |-> IF q \in {r} THEN net.out[q] - 1 ELSE net.out[q]]
           B == Access!(-)(net.out, Access!SetToBag({r}))
<1>1. net' = [out |-> B, made |-> net.made]
  BY DEF Access!Arrives, AccessNetShape
<1>2. B = [q \in {d \in DOMAIN C : C[d] > 0} |-> C[q]]
  BY DEF Access!(-), Access!SetToBag
<1> HIDE DEF B
<1>3. net'.out = B /\ AccessNetShape'
  BY <1>1 DEF AccessNetShape
<1>4. DOMAIN B \subseteq DOMAIN net.out /\ (\A q \in DOMAIN B \ {r} : B[q] = net.out[q])
      /\ \A q \in DOMAIN B : C[q] > 0
  BY <1>2
<1>5. ASSUME net.out[r] = 1, r \in DOMAIN B PROVE FALSE
  <2>1. r \in DOMAIN net.out /\ C[r] > 0
    BY <1>4, <1>5
  <2>2. C[r] = 0
    BY <1>5, <2>1
  <2> QED BY <2>1, <2>2
<1> QED BY <1>3, <1>4, <1>5 DEF Access!BagToSet

\* Nobody is making a release of this name, and none is there.
Unused(id) == id \notin DOMAIN db.releases /\ \A q \in Access!BagToSet(net.out) : q.id # id

LEMMA AccessOffersTyped ==
    ASSUME AccessGood, NEW u \in Actors, NEW r \in Access!Offers(u)
    PROVE  AccessWellFormed(r) /\ AccessAimed(r) /\ (r.op = "submit" => Unused(r.id))
<1> DEFINE Fine(q) == AccessWellFormed(q) /\ AccessAimed(q) /\ (q.op = "submit" => Unused(q.id))
<1>1. u \in Access!Users
  BY ActorsAssumption DEF Users, RoleOf, Access!Users, Access!RoleOf
<1>2. DOMAIN db.releases \subseteq AccessIds /\ DOMAIN db.grants \subseteq AccessIds /\ DOMAIN db.policies \subseteq AccessIds
      /\ DOMAIN db.temp \subseteq AccessIds /\ DOMAIN db.spaces \subseteq AccessIds
  BY AccessDataShape DEF AccessGood, AccessTable
<1>3. \A op \in {"completeReview", "createPolicy", "createWorkspace", "saveProfile", "backup", "export"}, id \in AccessIds : \A n :
         Fine(Access!Req(op, u, id, Access!NoArg, n))
  BY <1>1 DEF AccessWellFormed, AccessAimed, Access!Req, AccessOps, AccessArgs, Deciding, Granting
<1>4. ASSUME r \in Access!Approvals(u) PROVE Fine(r)
  BY <1>1, <1>2, <1>4 DEF Access!Approvals, AccessWellFormed, AccessAimed, Access!Req, AccessOps, AccessArgs,
                          Deciding, Granting
<1>5. ASSUME r \in Access!GrantDialog(u) PROVE Fine(r)
  BY <1>1, <1>5 DEF Access!GrantDialog, AccessWellFormed, AccessAimed, Access!Req, AccessOps, AccessArgs,
                    AccessIds, Deciding, Granting
<1>6. ASSUME r \in Access!GrantActions(u) PROVE Fine(r)
  BY <1>1, <1>2, <1>6 DEF Access!GrantActions, AccessWellFormed, AccessAimed, Access!Req, AccessOps,
                          AccessArgs, Deciding, Granting
<1>7. ASSUME r \in Access!Policies(u) PROVE Fine(r)
  <2>1. PICK id \in DOMAIN db.policies, arg \in {"on", "off"} :
           r = Access!Req("togglePolicy", u, id, arg, db.policies[id].version)
    BY <1>7 DEF Access!Policies
  <2> QED BY <1>1, <1>2, <2>1 DEF AccessWellFormed, AccessAimed, Access!Req, AccessOps, AccessArgs, Deciding, Granting
<1>8. ASSUME r \in Access!PolicyClients(u) PROVE Fine(r)
  <2>1. CASE r = Access!Req("togglePolicy", u, "base", "off", db.policies.base.version)
    <3>1. "base" \in DOMAIN db.policies
      BY DEF AccessGood, BaselineThere
    <3> QED BY <1>1, <1>2, <2>1, <3>1 DEF AccessWellFormed, AccessAimed, Access!Req, AccessOps, AccessArgs,
                                          AccessIds, Deciding, Granting
  <2>2. CASE r = Access!Req("createPolicy", u, "custom", Access!NoArg, 0)
    BY <1>3, <2>2 DEF AccessIds
  <2> QED BY <1>8, <2>1, <2>2 DEF Access!PolicyClients, Access!When
<1>9. ASSUME r \in Access!Authorizations(u) PROVE Fine(r)
  BY <1>1, <1>2, <1>9 DEF Access!Authorizations, AccessWellFormed, AccessAimed, Access!Req, AccessOps,
                          AccessArgs, Deciding, Granting
<1>10. ASSUME r \in Access!AuthorizationDialog(u) PROVE Fine(r)
  BY <1>1, <1>10 DEF Access!AuthorizationDialog, AccessWellFormed, AccessAimed, Access!Req, AccessOps,
                     AccessArgs, AccessIds, Deciding, Granting
<1>11. ASSUME r \in Access!WorkspaceSettings(u) PROVE Fine(r)
  BY <1>1, <1>2, <1>11 DEF Access!WorkspaceSettings, AccessWellFormed, AccessAimed, Access!Req, AccessOps,
                           AccessArgs, Deciding, Granting
<1>15. ASSUME r \in Access!WorkspaceClients(u) PROVE Fine(r)
  BY <1>1, <1>2, <1>15 DEF Access!WorkspaceClients, AccessWellFormed, AccessAimed, Access!Req, AccessOps,
                           AccessArgs, Deciding, Granting
<1>12. ASSUME r \in Access!SubmitRelease(u) PROVE Fine(r)
  BY <1>1, <1>12 DEF Access!SubmitRelease, Access!When, Access!Vacant, Unused, AccessWellFormed, AccessAimed,
                     Access!Req, AccessOps, AccessArgs, AccessIds, Deciding, Granting
<1>13. ASSUME r \in Access!Controls(u) \cup Access!CreateWizard(u) \cup Access!BackupPanel(u) \cup Access!AuditExport(u) PROVE Fine(r)
  <2>1. \E op \in {"completeReview", "createWorkspace", "backup", "export"}, id \in AccessIds : r = Access!Req(op, u, id, Access!NoArg, 0)
    BY <1>13 DEF Access!Controls, Access!CreateWizard, Access!When, Access!BackupPanel, Access!AuditExport, AccessIds
  <2> QED BY <1>3, <2>1
<1>14. ASSUME r \in Access!TenantPanel(u) PROVE Fine(r)
  BY <1>1, <1>14 DEF Access!TenantPanel, AccessWellFormed, AccessAimed, Access!Req, AccessOps, AccessArgs,
                     AccessIds, Deciding, Granting
<1> QED BY <1>4, <1>5, <1>6, <1>7, <1>8, <1>9, <1>10, <1>11, <1>12, <1>13, <1>14, <1>15 DEF Access!Offers

LEMMA AccessInit == Access!Init => AccessInv
<1> SUFFICES ASSUME Access!Init PROVE AccessInv
  OBVIOUS
<1> DEFINE grants == Access!mockAccessGrants
           releases == [channel |-> [submitter |-> "u2", status |-> "pending"]]
           policies == [base |-> [baseline |-> TRUE, enabled |-> TRUE, version |-> 3]]
           temp == [zta |-> [env |-> "staging", status |-> "active"]]
           spaces == [w1 |-> [owner |-> "u1", status |-> "active", bound |-> TRUE],
                      w2 |-> [owner |-> "u1", status |-> "active", bound |-> FALSE]]
           settings == [profile |-> 0, notify |-> TRUE, backups |-> 0]
<1>1. db = [grants |-> grants, review |-> "open", releases |-> releases, policies |-> policies,
            temp |-> temp, spaces |-> spaces, settings |-> settings, log |-> <<>>]
      /\ net = [out |-> Access!EmptyBag, made |-> 0]
  BY DEF Access!Init, Access!NetInit
<1>2. Access!Users = {"u1", "u2", "u3", "u4"}
  BY DEF Access!Users, Access!RoleOf
<1>3. grants \in [{"gAdmin", "gUser", "gPartner"} -> Access!AccessGrant]
  BY <1>2 DEF Access!mockAccessGrants, Access!AccessGrant
<1>4. releases \in [{"channel"} -> Access!ReleaseApproval]
  BY <1>2 DEF Access!ReleaseApproval
<1>5. policies \in [{"base"} -> Access!ZeroTrustPolicy]
  <2> DEFINE row == [baseline |-> TRUE, enabled |-> TRUE, version |-> 3]
  <2>1. row \in Access!ZeroTrustPolicy
    BY DEF Access!ZeroTrustPolicy
  <2>2. policies = [base |-> row]
    OBVIOUS
  <2> HIDE DEF row, policies
  <2> QED BY <2>1, <2>2
<1>6. temp \in [{"zta"} -> Access!TemporaryAuthorization]
  BY DEF Access!TemporaryAuthorization
<1>7. spaces \in [{"w1", "w2"} -> Access!Workspace]
  <2> DEFINE used == [owner |-> "u1", status |-> "active", bound |-> TRUE]
             free == [owner |-> "u1", status |-> "active", bound |-> FALSE]
  <2>1. used \in Access!Workspace /\ free \in Access!Workspace
    BY <1>2 DEF Access!Workspace
  <2>2. spaces = [w1 |-> used, w2 |-> free]
    OBVIOUS
  <2> HIDE DEF used, free, spaces
  <2> QED BY <2>1, <2>2
<1>8. settings \in AccessSettings
  BY DEF AccessSettings
<1>9. /\ releases.channel.status = "pending" /\ DOMAIN releases = {"channel"}
      /\ policies.base.enabled /\ DOMAIN policies = {"base"}
      /\ temp.zta.env = "staging" /\ DOMAIN temp = {"zta"}
  OBVIOUS
<1> HIDE DEF grants, releases, policies, temp, spaces, settings
<1>10. /\ grants \in AccessTable(Access!AccessGrant) /\ releases \in AccessTable(Access!ReleaseApproval)
       /\ policies \in AccessTable(Access!ZeroTrustPolicy) /\ temp \in AccessTable(Access!TemporaryAuthorization)
       /\ spaces \in AccessTable(Access!Workspace)
  <2>1. /\ {"gAdmin", "gUser", "gPartner"} \subseteq AccessIds /\ {"channel"} \subseteq AccessIds /\ {"base"} \subseteq AccessIds
        /\ {"zta"} \subseteq AccessIds /\ {"w1", "w2"} \subseteq AccessIds
    BY DEF AccessIds
  <2> QED BY <1>3, <1>4, <1>5, <1>6, <1>7, <2>1 DEF AccessTable
<1>11. AccessDataOK
  BY <1>1, <1>8, <1>10 DEF AccessDataOK
<1>12. AccessGood
  BY <1>1, <1>9, <1>11 DEF AccessGood, BaselineThere, DecisionsLogged, DecidedIsLogged, OwnGrantKept,
                           Access!BaselineHolds
<1>13. Access!BagToSet(net.out) = {}
  BY <1>1 DEF Access!BagToSet, Access!EmptyBag, Access!SetToBag
<1> QED BY <1>1, <1>12, <1>13 DEF AccessInv, AccessNetOK, AccessNetShape, SubmittedOnce

LEMMA AccessNext == AccessInv /\ [Access!Next]_(Access!vars) => AccessInv'
<1> SUFFICES ASSUME AccessInv, [Access!Next]_(Access!vars) PROVE AccessInv'
  OBVIOUS
<1> USE DEF AccessInv
<1>1. CASE UNCHANGED Access!vars
  BY <1>1 DEF Access!vars, AccessGood, AccessDataOK, BaselineThere, DecisionsLogged, DecidedIsLogged,
              OwnGrantKept, Access!BaselineHolds,
              AccessNetOK, AccessNetShape, AccessWellFormed, AccessAimed, SubmittedOnce
<1>2. ASSUME NEW u \in Actors, NEW r \in Access!Offers(u), Access!Ask(r) PROVE AccessInv'
  <2>1. AccessWellFormed(r) /\ AccessAimed(r) /\ (r.op = "submit" => Unused(r.id))
    BY AccessOffersTyped
  <2>2. /\ db' = db /\ AccessNetShape' /\ Access!BagToSet(net'.out) = Access!BagToSet(net.out) \cup {r}
        /\ \A q \in Access!BagToSet(net.out) \ {r} : net.out[q] = 1 => net'.out[q] = 1
        /\ r \notin Access!BagToSet(net.out) => net'.out[r] = 1
    BY <1>2, AccessAsked
  <2>3. AccessGood'
    BY <2>2, AccessThrown
  <2>4. AccessNetOK'
    BY <2>1, <2>2 DEF AccessNetOK, AccessAimed, AccessWellFormed
  <2>5. SubmittedOnce'
    <3> SUFFICES ASSUME NEW q \in Access!BagToSet(net'.out), q.op = "submit"
                 PROVE  /\ q.id \notin DOMAIN db'.releases /\ net'.out[q] = 1
                        /\ \A p \in Access!BagToSet(net'.out) : p.op = "submit" /\ p.id = q.id => p = q
      BY DEF SubmittedOnce
    <3>1. CASE q = r
      BY <2>1, <2>2, <3>1 DEF Unused
    <3>2. CASE q # r
      BY <2>1, <2>2, <3>2 DEF Unused, SubmittedOnce
    <3> QED BY <3>1, <3>2
  <2> QED BY <2>3, <2>4, <2>5
<1>3. ASSUME NEW r \in Access!BagToSet(net.out), Access!Arrives(r),
             \/ Access!grant(r) \/ Access!grantAction(r) \/ Access!completeReview(r) \/ Access!submit(r)
             \/ Access!approvalAction(r) \/ Access!createPolicy(r) \/ Access!togglePolicy(r) \/ Access!authorize(r)
             \/ Access!revokeTemp(r) \/ Access!createWorkspace(r) \/ Access!workspaceAction(r)
             \/ Access!saveProfile(r) \/ Access!patchNotify(r) \/ Access!backup(r) \/ Access!export(r)
      PROVE  AccessInv'
  <2>1. AccessWellFormed(r) /\ AccessAimed(r) /\ (r.op = "submit" => r.id \notin DOMAIN db.releases /\ net.out[r] = 1)
    BY DEF AccessNetOK, SubmittedOnce
  <2>2. /\ AccessNetShape' /\ Access!BagToSet(net'.out) \subseteq Access!BagToSet(net.out)
        /\ \A q \in Access!BagToSet(net'.out) \ {r} : net'.out[q] = net.out[q]
        /\ net.out[r] = 1 => r \notin Access!BagToSet(net'.out)
    BY <1>3, AccessArrived DEF AccessNetOK
  <2>3. AccessGood' /\ AccessKept(r)
    BY <1>3, <2>1, AccessRoutesKeep
  <2>4. \A q : AccessAimed(q) => AccessAimed(q)'
    BY <2>3 DEF AccessKept, SubjectsKept, AccessReleasesKept, RowsStay, AccessAimed
  <2>5. AccessNetOK'
    BY <2>2, <2>4 DEF AccessNetOK, AccessWellFormed
  <2>6. SubmittedOnce'
    <3> SUFFICES ASSUME NEW q \in Access!BagToSet(net'.out), q.op = "submit"
                 PROVE  /\ q.id \notin DOMAIN db'.releases /\ net'.out[q] = 1
                        /\ \A p \in Access!BagToSet(net'.out) : p.op = "submit" /\ p.id = q.id => p = q
      BY DEF SubmittedOnce
    <3>1. q \in Access!BagToSet(net.out)
      BY <2>2
    <3>2. q # r
      <4>1. CASE r.op = "submit"
        BY <2>1, <2>2, <4>1
      <4>2. CASE r.op # "submit"
        BY <4>2
      <4> QED BY <4>1, <4>2
    <3>3. q.id \notin DOMAIN db.releases /\ net.out[q] = 1
          /\ \A p \in Access!BagToSet(net.out) : p.op = "submit" /\ p.id = q.id => p = q
      BY <3>1 DEF SubmittedOnce
    <3>4. q.id \notin DOMAIN db'.releases
      <4>1. r.op = "submit" => r.id # q.id
        BY <3>2, <3>3
      <4> QED BY <2>3, <3>3, <4>1 DEF AccessKept, AccessReleasesKept
    <3> QED BY <2>2, <3>2, <3>3, <3>4
  <2> QED BY <2>3, <2>5, <2>6
<1> QED BY <1>1, <1>2, <1>3 DEF Access!Next

\* The rows of access control keep the shapes the client declares.
THEOREM AccessTypeCorrect == AccessSpec => []Access!TypeOK
<1>1. AccessInv => Access!TypeOK
  <2> SUFFICES ASSUME AccessDataOK PROVE Access!TypeOK
    BY DEF AccessInv, AccessGood
  <2>1. /\ db.grants \in [DOMAIN db.grants -> Access!AccessGrant] /\ db.releases \in [DOMAIN db.releases -> Access!ReleaseApproval]
        /\ db.policies \in [DOMAIN db.policies -> Access!ZeroTrustPolicy]
        /\ db.temp \in [DOMAIN db.temp -> Access!TemporaryAuthorization] /\ db.spaces \in [DOMAIN db.spaces -> Access!Workspace]
        /\ db.review \in {"open", "completed"}
    BY AccessDataShape, AccessTableShape
  <2> QED BY <2>1 DEF Access!TypeOK
<1> QED BY <1>1, AccessInit, AccessNext, PTL DEF AccessSpec

\* A production release is decided by administrators who did not submit it, and
\* nobody changes the grant that is his own, whatever requests overtake each other.
THEOREM DutiesStaySeparated == AccessSpec => []Access!DutiesSeparated
<1>1. AccessInv => Access!DutiesSeparated
  BY DEF AccessInv, AccessGood, DecisionsLogged, DecidedIsLogged, OwnGrantKept, Access!DutiesSeparated,
         Access!Doers, Deciding, Granting
<1> QED BY <1>1, AccessInit, AccessNext, PTL DEF AccessSpec

\* The baseline of the policies stays on, and nothing temporary reaches production.
THEOREM BaselineAlwaysHolds == AccessSpec => []Access!BaselineHolds
<1>1. AccessInv => Access!BaselineHolds
  BY DEF AccessInv, AccessGood
<1> QED BY <1>1, AccessInit, AccessNext, PTL DEF AccessSpec

-----------------------------------------------------------------------------
(* Workflows. *)

Workflows == INSTANCE WorkflowDomain WITH Actors <- {"u1", "u2"}

VersionRow(x) == x = [graph |-> x.graph, status |-> x.status, recorded |-> x.recorded, revision |-> x.revision]
RunRow(x) == x = [graph |-> x.graph, status |-> x.status, env |-> x.env, attempt |-> x.attempt, parent |-> x.parent]
SkillRow(x) == x = [risk |-> x.risk, approvalRequired |-> x.approvalRequired, status |-> x.status]

\* A graph that writes outside has its approval, its audit and its way back.
GraphGoverned(g) == Workflows!hasExternalWrite(g) => Workflows!hasSandboxGovernance(g)

WorkflowShape(d) ==
    d = [draft |-> d.draft, versions |-> d.versions, runs |-> d.runs, skills |-> d.skills, templates |-> d.templates,
         log |-> d.log]

\* What was published since the first three versions was governed.
VersionsGood(d) ==
    /\ \E S : d.versions \in Seq(S) /\ \A x \in S : VersionRow(x)
    /\ \A v \in DOMAIN d.versions :
          v \notin 1..3 /\ d.versions[v].status = "published" => GraphGoverned(d.versions[v].graph)

\* A run stays in the sandbox and descends from a failed one, or from none.
Descends(runs, i) ==
    LET x == runs[i]
    IN  /\ RunRow(x)
        /\ Workflows!hasExternalWrite(x.graph) => x.env = "sandbox" /\ Workflows!hasSandboxGovernance(x.graph)
        /\ x.parent = 0 => x.attempt = 1
        /\ x.parent # 0 => /\ x.parent \in DOMAIN runs /\ x.parent < i
                           /\ runs[x.parent].status = "failed" /\ runs[x.parent].graph = x.graph
                           /\ x.attempt = runs[x.parent].attempt + 1

RunsGood(d) ==
    /\ \E S : d.runs \in Seq(S)
    /\ \A i \in DOMAIN d.runs : Descends(d.runs, i)

ByAdministrator(log) ==
    \E i \in DOMAIN log : log[i].op \in {"publishSkill", "promote"} /\ Workflows!isAdministrator(log[i].by)

SkillsGood(d) ==
    \A v \in DOMAIN d.skills :
        /\ SkillRow(d.skills[v])
        /\ d.skills[v].risk = "high" /\ d.skills[v].status = "published" => ByAdministrator(d.log)

WorkflowData(d) ==
    /\ WorkflowShape(d) /\ \E S : d.log \in Seq(S)
    /\ VersionsGood(d) /\ RunsGood(d) /\ SkillsGood(d)

\* What is under way was asked for by an account, and the run to try again is there.
WorkflowNet ==
    /\ net = [out |-> net.out, made |-> net.made]
    /\ \A r \in Workflows!BagToSet(net.out) : /\ r.by \in Workflows!Users
                                              /\ r.op = "retry" => r.seen \in DOMAIN db.runs

WorkflowInv == WorkflowData(db) /\ WorkflowNet

\* Runs are only added, and a published version is not written again.
WorkflowKept(d) ==
    /\ DOMAIN db.runs \subseteq DOMAIN d.runs
    /\ \A v \in DOMAIN db.versions :
          db.versions[v].status = "published" => v \in DOMAIN d.versions /\ d.versions[v] = db.versions[v]

LEMMA EventAdded ==
    ASSUME NEW d, WorkflowShape(d), NEW S, d.log \in Seq(S), NEW r
    PROVE  LET e == Workflows!Logged(d, r)
           IN  /\ e = [draft |-> d.draft, versions |-> d.versions, runs |-> d.runs, skills |-> d.skills,
                       templates |-> d.templates, log |-> e.log]
               /\ \E T : e.log \in Seq(T)
               /\ ByAdministrator(d.log) => ByAdministrator(e.log)
               /\ r.op \in {"publishSkill", "promote"} /\ Workflows!isAdministrator(r.by) => ByAdministrator(e.log)
<1> DEFINE x == [op |-> r.op, by |-> r.by, id |-> r.id, arg |-> r.arg]
           e == Workflows!Logged(d, r)
           log == Append(d.log, x)
<1>1. e = [draft |-> d.draft, versions |-> d.versions, runs |-> d.runs, skills |-> d.skills,
           templates |-> d.templates, log |-> log]
  <2>1. e = [d EXCEPT !.log = log]
    BY DEF Workflows!Logged
  <2> HIDE DEF e, log
  <2> QED BY <2>1 DEF WorkflowShape
<1>2. d.log \in Seq(S \cup {x})
  BY SeqMonotonic
<1>3. /\ log \in Seq(S \cup {x}) /\ DOMAIN log = 1 .. Len(d.log) + 1 /\ Len(d.log) \in Nat
      /\ DOMAIN d.log = 1 .. Len(d.log) /\ log[Len(d.log) + 1] = x /\ \A i \in DOMAIN d.log : log[i] = d.log[i]
  <2> HIDE DEF x
  <2> QED BY <1>2, AppendProperties, LenProperties
<1> HIDE DEF log
<1>4. ByAdministrator(d.log) => ByAdministrator(log)
  BY <1>3 DEF ByAdministrator
<1>5. r.op \in {"publishSkill", "promote"} /\ Workflows!isAdministrator(r.by) => ByAdministrator(log)
  BY <1>3 DEF ByAdministrator
<1> HIDE DEF e, x
<1>6. e.log = log /\ \E T : log \in Seq(T)
  <2> DEFINE T == S \cup {x}
  <2>1. log \in Seq(T)
    BY <1>3
  <2> HIDE DEF T
  <2> QED BY <1>1, <2>1
<1> QED BY <1>1, <1>4, <1>5, <1>6 DEF e

\* What becomes of the tables but the skills, and the event of it.
LEMMA WorkflowWritten ==
    ASSUME WorkflowData(db), NEW d, WorkflowShape(d), d.log = db.log, d.skills = db.skills,
           VersionsGood(d), RunsGood(d), WorkflowKept(d), NEW r, db' = Workflows!Logged(d, r) \/ db' = d
    PROVE  WorkflowData(db') /\ WorkflowKept(db')
<1>1. PICK S : db.log \in Seq(S)
  BY DEF WorkflowData
<1>2. CASE db' = d
  BY <1>1, <1>2 DEF WorkflowData, SkillsGood
<1>3. CASE db' = Workflows!Logged(d, r)
  <2>1. /\ db' = [draft |-> d.draft, versions |-> d.versions, runs |-> d.runs, skills |-> d.skills,
                  templates |-> d.templates, log |-> db'.log]
        /\ \E T : db'.log \in Seq(T)
        /\ ByAdministrator(d.log) => ByAdministrator(db'.log)
    BY <1>1, <1>3, EventAdded
  <2>2. WorkflowShape(db') /\ db'.versions = d.versions /\ db'.runs = d.runs /\ db'.skills = db.skills
    BY <2>1 DEF WorkflowShape
  <2>3. SkillsGood(db')
    BY <2>1, <2>2 DEF SkillsGood, WorkflowData
  <2>4. VersionsGood(db') /\ RunsGood(db') /\ WorkflowKept(db')
    BY <2>2 DEF VersionsGood, RunsGood, WorkflowKept
  <2> QED BY <2>1, <2>2, <2>3, <2>4 DEF WorkflowData
<1> QED BY <1>2, <1>3

\* A version is added: one that is not published, or one that is governed.
LEMMA VersionAdded ==
    ASSUME WorkflowData(db), NEW g, NEW status, status # "published" \/ GraphGoverned(g), NEW draft, NEW r,
           db' = Workflows!Logged([[db EXCEPT !.versions = Workflows!Saved(g, status)] EXCEPT !.draft = draft], r)
    PROVE  WorkflowData(db') /\ WorkflowKept(db')
<1> DEFINE x == Workflows!workflowVersionFromGraph(g, status)
           versions == Workflows!Saved(g, status)
           d == [[db EXCEPT !.versions = versions] EXCEPT !.draft = draft]
<1>1. PICK S : db.versions \in Seq(S) /\ \A y \in S : VersionRow(y)
  BY DEF WorkflowData, VersionsGood
<1>2. VersionRow(x) /\ x.graph = g /\ x.status = status
  BY DEF Workflows!workflowVersionFromGraph, VersionRow
<1>3. versions = Append(db.versions, x)
  BY DEF Workflows!Saved
<1> HIDE DEF x, versions
<1>4. db.versions \in Seq(S \cup {x})
  BY <1>1, SeqMonotonic
<1>5. /\ versions \in Seq(S \cup {x}) /\ DOMAIN versions = 1 .. Len(db.versions) + 1 /\ Len(db.versions) \in Nat
      /\ DOMAIN db.versions = 1 .. Len(db.versions) /\ versions[Len(db.versions) + 1] = x
      /\ \A v \in DOMAIN db.versions : versions[v] = db.versions[v]
  BY <1>3, <1>4, AppendProperties, LenProperties
<1>6. d = [draft |-> draft, versions |-> versions, runs |-> db.runs, skills |-> db.skills, templates |-> db.templates,
           log |-> db.log]
  <2> DEFINE first == [db EXCEPT !.versions = versions]
  <2>1. first = [draft |-> db.draft, versions |-> versions, runs |-> db.runs, skills |-> db.skills,
                 templates |-> db.templates, log |-> db.log]
    BY DEF WorkflowData, WorkflowShape
  <2>2. d = [first EXCEPT !.draft = draft]
    OBVIOUS
  <2> HIDE DEF first, d
  <2> QED BY <2>1, <2>2
<1>7. db' = Workflows!Logged(d, r)
  BY DEF versions
<1> HIDE DEF d
<1>8. VersionsGood(d)
  <2>1. \E T : versions \in Seq(T) /\ \A y \in T : VersionRow(y)
    <3> DEFINE T == S \cup {x}
    <3>1. versions \in Seq(T) /\ \A y \in T : VersionRow(y)
      BY <1>1, <1>2, <1>5
    <3> HIDE DEF T
    <3> QED BY <3>1
  <2>2. \A v \in DOMAIN versions :
           v \notin 1..3 /\ versions[v].status = "published" => GraphGoverned(versions[v].graph)
    BY SMTT(30), <1>2, <1>5 DEF WorkflowData, VersionsGood
  <2> QED BY <1>6, <2>1, <2>2 DEF VersionsGood
<1>9. WorkflowShape(d) /\ d.log = db.log /\ d.skills = db.skills /\ RunsGood(d) /\ WorkflowKept(d)
  BY <1>5, <1>6 DEF WorkflowShape, WorkflowData, RunsGood, WorkflowKept
<1> QED BY <1>7, <1>8, <1>9, WorkflowWritten

LEMMA VersionsKeep ==
    ASSUME WorkflowData(db), NEW r, db' # db,
           Workflows!createVersion(r) \/ Workflows!publish(r) \/ Workflows!rollback(r)
    PROVE  WorkflowData(db') /\ WorkflowKept(db')
<1>1. WorkflowShape(db)
  BY DEF WorkflowData
<1>2. CASE Workflows!createVersion(r)
  <2> DEFINE versions == Workflows!Saved(r.arg, "draft")
  <2>1. db' = Workflows!Logged([db EXCEPT !.versions = versions], r)
    BY <1>2 DEF Workflows!createVersion, Workflows!Handle
  <2> HIDE DEF versions
  <2>2. [db EXCEPT !.versions = versions] = [[db EXCEPT !.versions = versions] EXCEPT !.draft = db.draft]
    BY <1>1 DEF WorkflowShape
  <2>3. db' = Workflows!Logged([[db EXCEPT !.versions = versions] EXCEPT !.draft = db.draft], r)
    BY <2>1, <2>2
  <2> QED BY Zenon, <2>3, VersionAdded DEF versions
<1>3. CASE Workflows!publish(r)
  <2> DEFINE versions == Workflows!Saved(db.draft.graph, "published")
             draft == [db.draft EXCEPT !.status = "published"]
  <2>1. /\ GraphGoverned(db.draft.graph)
        /\ db' = Workflows!Logged([db EXCEPT !.versions = versions, !.draft.status = "published"], r)
    BY <1>3 DEF Workflows!publish, Workflows!Handle, GraphGoverned
  <2>2. [db EXCEPT !.versions = versions, !.draft.status = "published"]
           = [[db EXCEPT !.versions = versions] EXCEPT !.draft = draft]
    <3> HIDE DEF versions
    <3> QED BY <1>1 DEF WorkflowShape
  <2>3. db' = Workflows!Logged([[db EXCEPT !.versions = versions] EXCEPT !.draft = draft], r)
    BY <2>1, <2>2
  <2> HIDE DEF draft
  <2> QED BY Zenon, <2>1, <2>3, VersionAdded
<1>4. CASE Workflows!rollback(r)
  <2> DEFINE g == db.versions[r.seen].graph
             versions == Workflows!Saved(g, "draft")
             draft == [graph |-> g, status |-> "active"]
  <2>1. db' = Workflows!Logged([db EXCEPT !.draft = draft, !.versions = versions], r)
    BY <1>4 DEF Workflows!rollback, Workflows!Handle
  <2> HIDE DEF g, draft
  <2>2. [db EXCEPT !.draft = draft, !.versions = versions] = [[db EXCEPT !.versions = versions] EXCEPT !.draft = draft]
    <3> HIDE DEF versions
    <3> QED BY <1>1 DEF WorkflowShape
  <2>3. db' = Workflows!Logged([[db EXCEPT !.versions = versions] EXCEPT !.draft = draft], r)
    BY <2>1, <2>2
  <2> QED BY Zenon, <2>3, VersionAdded
<1> QED BY <1>2, <1>3, <1>4

\* The draft is saved in any case, the version while it is not published.
LEMMA DraftSaved ==
    ASSUME WorkflowData(db), NEW r, db' # db, Workflows!saveDraft(r)
    PROVE  WorkflowData(db') /\ WorkflowKept(db')
<1> DEFINE old == db.versions[r.seen]
           draft == [db.draft EXCEPT !.graph = r.arg]
           drafted == [db EXCEPT !.draft = draft]
           first == [old EXCEPT !.graph = r.arg]
           recorded == TRUE
           x == [first EXCEPT !.recorded = recorded]
           versions == [db.versions EXCEPT ![r.seen] = x]
           d == [drafted EXCEPT !.versions = versions]
<1>1. \/ db' = drafted
      \/ old.status # "published" /\ db' = Workflows!Logged([drafted EXCEPT !.versions[r.seen] = x], r)
  BY DEF Workflows!saveDraft
<1>2. PICK S : db.versions \in Seq(S) /\ \A y \in S : VersionRow(y)
  BY DEF WorkflowData, VersionsGood
<1>3. drafted = [draft |-> draft, versions |-> db.versions, runs |-> db.runs, skills |-> db.skills,
                 templates |-> db.templates, log |-> db.log]
  <2> HIDE DEF draft
  <2> QED BY DEF WorkflowData, WorkflowShape
<1>4. CASE db' = drafted
  <2>1. /\ WorkflowShape(drafted) /\ drafted.log = db.log /\ drafted.skills = db.skills
        /\ drafted.versions = db.versions /\ drafted.runs = db.runs
    <3> HIDE DEF drafted, draft
    <3> QED BY <1>3 DEF WorkflowShape
  <2> HIDE DEF drafted
  <2>2. VersionsGood(drafted) /\ RunsGood(drafted) /\ WorkflowKept(drafted)
    BY <2>1 DEF WorkflowData, VersionsGood, RunsGood, WorkflowKept
  <2> QED BY <1>4, <2>1, <2>2, WorkflowWritten
<1>5. CASE old.status # "published" /\ db' = Workflows!Logged([drafted EXCEPT !.versions[r.seen] = x], r)
  <2>1. db' = Workflows!Logged(d, r)
    <3>1. [drafted EXCEPT !.versions[r.seen] = x] = d
      <4> HIDE DEF drafted, x
      <4> QED BY <1>3
    <3> HIDE DEF d
    <3> QED BY <1>5, <3>1
  <2> HIDE DEF drafted, draft
  <2>2. d = [draft |-> draft, versions |-> versions, runs |-> db.runs, skills |-> db.skills,
             templates |-> db.templates, log |-> db.log]
    <3> HIDE DEF versions
    <3> QED BY <1>3
  <2>3. r.seen \in DOMAIN db.versions => VersionRow(x) /\ x.status # "published"
    <3> SUFFICES ASSUME r.seen \in DOMAIN db.versions PROVE VersionRow(x) /\ x.status # "published"
      OBVIOUS
    <3>1. VersionRow(old)
      BY <1>2, ElementOfSeq
    <3>2. PICK g, s, c, v : old = [graph |-> g, status |-> s, recorded |-> c, revision |-> v]
      BY <3>1 DEF VersionRow
    <3>3. s # "published"
      BY <1>5, <3>2
    <3> HIDE DEF old
    <3>4. first = [graph |-> r.arg, status |-> s, recorded |-> c, revision |-> v]
      BY <3>2
    <3> HIDE DEF first
    <3> HIDE DEF recorded
    <3>5. x = [graph |-> r.arg, status |-> s, recorded |-> recorded, revision |-> v]
      BY <3>4
    <3> HIDE DEF x
    <3> QED BY <3>3, <3>5 DEF VersionRow
  <2> HIDE DEF x
  <2>4. /\ DOMAIN versions = DOMAIN db.versions
        /\ r.seen \in DOMAIN db.versions => versions[r.seen] = x
        /\ \A v \in DOMAIN db.versions : v # r.seen => versions[v] = db.versions[v]
    BY <1>2
  <2>5. \E T : versions \in Seq(T) /\ \A y \in T : VersionRow(y)
    <3>1. CASE r.seen \in DOMAIN db.versions
      <4> DEFINE T == S \cup {x}
      <4>1. db.versions \in Seq(T)
        BY <1>2, SeqMonotonic
      <4>2. versions \in Seq(T)
        BY <3>1, <4>1, ExceptSeq
      <4>3. \A y \in T : VersionRow(y)
        BY <1>2, <2>3, <3>1
      <4> HIDE DEF T, versions
      <4> QED BY <4>2, <4>3
    <3>2. CASE r.seen \notin DOMAIN db.versions
      <4>1. versions = db.versions
        BY <1>2, <3>2
      <4> QED BY <1>2, <4>1
    <3> QED BY <3>1, <3>2
  <2> HIDE DEF versions
  <2>6. \A v \in DOMAIN versions :
           v \notin 1..3 /\ versions[v].status = "published" => GraphGoverned(versions[v].graph)
    BY <2>3, <2>4 DEF WorkflowData, VersionsGood
  <2>7. \A v \in DOMAIN db.versions :
           db.versions[v].status = "published" => v \in DOMAIN versions /\ versions[v] = db.versions[v]
    BY <1>5, <2>4
  <2>8. /\ WorkflowShape(d) /\ d.log = db.log /\ d.skills = db.skills /\ d.versions = versions /\ d.runs = db.runs
    <3> HIDE DEF d
    <3> QED BY <2>2 DEF WorkflowShape
  <2> HIDE DEF d
  <2>9. VersionsGood(d) /\ RunsGood(d) /\ WorkflowKept(d)
    BY <2>5, <2>6, <2>7, <2>8 DEF WorkflowData, VersionsGood, RunsGood, WorkflowKept
  <2> QED BY <2>1, <2>8, <2>9, WorkflowWritten
<1> QED BY <1>1, <1>4, <1>5

\* A run is added: the first of its line, or one that follows a failed run.
LEMMA RunAdded ==
    ASSUME WorkflowData(db), NEW x, RunRow(x),
           Workflows!hasExternalWrite(x.graph) => x.env = "sandbox" /\ Workflows!hasSandboxGovernance(x.graph),
           x.parent = 0 => x.attempt = 1,
           x.parent # 0 => /\ x.parent \in DOMAIN db.runs
                           /\ db.runs[x.parent].status = "failed" /\ db.runs[x.parent].graph = x.graph
                           /\ x.attempt = db.runs[x.parent].attempt + 1,
           NEW r, db' = Workflows!Logged([db EXCEPT !.runs = Append(@, x)], r)
    PROVE  WorkflowData(db') /\ WorkflowKept(db')
<1> DEFINE runs == Append(db.runs, x)
           d == [db EXCEPT !.runs = runs]
<1>1. PICK S : db.runs \in Seq(S)
  BY DEF WorkflowData, RunsGood
<1>2. db.runs \in Seq(S \cup {x})
  BY <1>1, SeqMonotonic
<1>3. /\ runs \in Seq(S \cup {x}) /\ DOMAIN runs = 1 .. Len(db.runs) + 1 /\ Len(db.runs) \in Nat
      /\ DOMAIN db.runs = 1 .. Len(db.runs) /\ runs[Len(db.runs) + 1] = x
      /\ \A i \in DOMAIN db.runs : runs[i] = db.runs[i]
  BY <1>2, AppendProperties, LenProperties
<1>4. db' = Workflows!Logged(d, r)
  OBVIOUS
<1> HIDE DEF runs
<1>5. /\ WorkflowShape(d) /\ d.log = db.log /\ d.skills = db.skills /\ d.versions = db.versions /\ d.runs = runs
  BY DEF WorkflowData, WorkflowShape
<1> HIDE DEF d
<1>6. ASSUME NEW i \in DOMAIN runs PROVE Descends(runs, i)
  <2>1. CASE i \in DOMAIN db.runs
    <3>1. Descends(db.runs, i)
      BY <2>1 DEF WorkflowData, RunsGood
    <3> QED BY <1>3, <2>1, <3>1 DEF Descends
  <2>2. CASE i = Len(db.runs) + 1
    BY <1>3, <2>2 DEF Descends
  <2> QED BY <1>3, <2>1, <2>2
<1>7. VersionsGood(d) /\ RunsGood(d) /\ WorkflowKept(d)
  <2>1. \E T : runs \in Seq(T)
    BY <1>3
  <2> QED BY <1>3, <1>5, <1>6, <2>1 DEF WorkflowData, VersionsGood, RunsGood, WorkflowKept
<1> QED BY <1>4, <1>5, <1>7, WorkflowWritten

LEMMA RunsKeep ==
    ASSUME WorkflowData(db), NEW r, db' # db,
           Workflows!run(r) \/ (Workflows!retryRun(r) /\ r.seen \in DOMAIN db.runs)
    PROVE  WorkflowData(db') /\ WorkflowKept(db')
<1>1. CASE Workflows!run(r)
  <2> DEFINE g == Workflows!runnableDraft(r)
             x == [graph |-> g, status |-> "running", env |-> "sandbox", attempt |-> 1, parent |-> 0]
  <2>1. /\ Workflows!hasExternalWrite(g) => Workflows!hasSandboxGovernance(g)
        /\ db' = Workflows!Logged([db EXCEPT !.runs = Append(@, x)], r)
    BY <1>1 DEF Workflows!run, Workflows!Handle
  <2> HIDE DEF g
  <2>2. RunRow(x) /\ x.graph = g /\ x.env = "sandbox" /\ x.parent = 0 /\ x.attempt = 1
    BY DEF RunRow
  <2> HIDE DEF x
  <2> QED BY <2>1, <2>2, RunAdded
<1>2. CASE Workflows!retryRun(r) /\ r.seen \in DOMAIN db.runs
  <2> DEFINE failed == db.runs[r.seen]
             first == [failed EXCEPT !.status = "running"]
             second == [first EXCEPT !.attempt = failed.attempt + 1]
             x == [second EXCEPT !.parent = r.seen]
  <2>1. failed.status = "failed" /\ Descends(db.runs, r.seen) /\ r.seen # 0
    <3>1. PICK S : db.runs \in Seq(S)
      BY DEF WorkflowData, RunsGood
    <3>2. r.seen # 0
      BY <1>2, <3>1
    <3> QED BY <1>2, <3>2 DEF Workflows!retryRun, Workflows!Handle, WorkflowData, RunsGood
  <2>2. db' = Workflows!Logged([db EXCEPT !.runs = Append(@, x)], r)
    BY <1>2 DEF Workflows!retryRun, Workflows!Handle
  <2>3. /\ RunRow(x) /\ x.graph = failed.graph /\ x.env = failed.env /\ x.parent = r.seen
        /\ x.attempt = failed.attempt + 1
    <3> DEFINE attempt == failed.attempt + 1
    <3>1. PICK g, s, e, a, p : failed = [graph |-> g, status |-> s, env |-> e, attempt |-> a, parent |-> p]
      BY <2>1 DEF Descends, RunRow
    <3>2. failed.graph = g /\ failed.env = e
      BY <3>1
    <3>3. first = [graph |-> g, status |-> "running", env |-> e, attempt |-> a, parent |-> p]
      BY <3>1
    <3> HIDE DEF attempt, first, failed
    <3>4. second = [graph |-> g, status |-> "running", env |-> e, attempt |-> attempt, parent |-> p]
      BY <3>3 DEF attempt
    <3> HIDE DEF second
    <3>5. x = [graph |-> g, status |-> "running", env |-> e, attempt |-> attempt, parent |-> r.seen]
      BY <3>4
    <3> HIDE DEF x
    <3>6. x.attempt = attempt
      BY <3>5
    <3> QED BY <3>2, <3>5, <3>6 DEF RunRow, attempt
  <2> HIDE DEF x
  <2>4. Workflows!hasExternalWrite(x.graph) => x.env = "sandbox" /\ Workflows!hasSandboxGovernance(x.graph)
    BY <2>1, <2>3 DEF Descends
  <2> QED BY <1>2, <2>1, <2>2, <2>3, <2>4, RunAdded
<1> QED BY <1>1, <1>2

\* A skill of high risk is published by an administrator.
LEMMA SkillPublished ==
    ASSUME WorkflowData(db), NEW d, WorkflowShape(d), d.log = db.log, d.versions = db.versions, d.runs = db.runs,
           NEW r, db' = Workflows!Logged(d, r),
           \A v \in DOMAIN d.skills :
              /\ SkillRow(d.skills[v])
              /\ d.skills[v].risk = "high" /\ d.skills[v].status = "published" =>
                    \/ ByAdministrator(d.log)
                    \/ r.op \in {"publishSkill", "promote"} /\ Workflows!isAdministrator(r.by)
    PROVE  WorkflowData(db') /\ WorkflowKept(db')
<1>1. PICK S : d.log \in Seq(S)
  BY DEF WorkflowData
<1>2. /\ db' = [draft |-> d.draft, versions |-> d.versions, runs |-> d.runs, skills |-> d.skills,
                templates |-> d.templates, log |-> db'.log]
      /\ \E T : db'.log \in Seq(T)
      /\ ByAdministrator(d.log) => ByAdministrator(db'.log)
      /\ r.op \in {"publishSkill", "promote"} /\ Workflows!isAdministrator(r.by) => ByAdministrator(db'.log)
  BY <1>1, EventAdded
<1>3. WorkflowShape(db') /\ db'.versions = db.versions /\ db'.runs = db.runs /\ db'.skills = d.skills
  BY <1>2 DEF WorkflowShape
<1>4. SkillsGood(db')
  BY <1>2, <1>3 DEF SkillsGood
<1>5. VersionsGood(db') /\ RunsGood(db') /\ WorkflowKept(db')
  BY <1>3 DEF WorkflowData, VersionsGood, RunsGood, WorkflowKept
<1> QED BY <1>2, <1>3, <1>4, <1>5 DEF WorkflowData

\* Publishing as a skill, and promoting one.
LEMMA SkillsKeep ==
    ASSUME WorkflowData(db), NEW r, r.by \in Workflows!Users, db' # db,
           Workflows!publishAsSkill(r) \/ Workflows!promoteWorkflowSkill(r)
    PROVE  WorkflowData(db') /\ WorkflowKept(db')
<1>1. WorkflowShape(db) /\ SkillsGood(db)
  BY DEF WorkflowData
<1>2. ASSUME NEW skills, db' = Workflows!Logged([db EXCEPT !.skills = skills], r),
             \A v \in DOMAIN skills :
                /\ SkillRow(skills[v])
                /\ skills[v].risk = "high" /\ skills[v].status = "published" =>
                      \/ ByAdministrator(db.log)
                      \/ r.op \in {"publishSkill", "promote"} /\ Workflows!isAdministrator(r.by)
      PROVE  WorkflowData(db') /\ WorkflowKept(db')
  <2> DEFINE d == [db EXCEPT !.skills = skills]
  <2>1. /\ WorkflowShape(d) /\ d.log = db.log /\ d.versions = db.versions /\ d.runs = db.runs /\ d.skills = skills
    BY <1>1 DEF WorkflowShape
  <2>2. db' = Workflows!Logged(d, r)
    BY <1>2
  <2> HIDE DEF d
  <2> QED BY <1>2, <2>1, <2>2, SkillPublished
<1>3. CASE Workflows!publishAsSkill(r)
  <2> DEFINE status == IF r.arg = "high" /\ Workflows!RoleOf[r.by] = "user" THEN "draft" ELSE "published"
             required == r.arg # "low"
             row == [risk |-> r.arg, approvalRequired |-> required, status |-> status]
             skills == Workflows!Unshifted(db.skills, r.seen, row)
  <2>1. r.op = "publishSkill" /\ Workflows!Admitted(r, "plain") /\ db' = Workflows!Logged([db EXCEPT !.skills = skills], r)
    BY <1>3 DEF Workflows!publishAsSkill, Workflows!Handle
  <2>2. r.arg = "high" /\ status = "published" => Workflows!isAdministrator(r.by)
    <3>1. Workflows!RoleOf[r.by] \in {"admin", "user", "auditor"}
      BY DEF Workflows!RoleOf, Workflows!Users
    <3>2. Workflows!RoleOf[r.by] # "auditor"
      BY <2>1 DEF Workflows!Admitted
    <3> QED BY <3>1, <3>2 DEF Workflows!isAdministrator
  <2> HIDE DEF status, required
  <2>3. SkillRow(row) /\ row.risk = r.arg /\ row.status = status
    BY DEF SkillRow
  <2> HIDE DEF row
  <2>4. DOMAIN skills = DOMAIN db.skills \cup {r.seen}
        /\ \A v \in DOMAIN db.skills \cup {r.seen} : skills[v] = IF v = r.seen THEN row ELSE db.skills[v]
    BY DEF Workflows!Unshifted
  <2> HIDE DEF skills
  <2> QED BY <1>1, <1>2, <2>1, <2>2, <2>3, <2>4 DEF SkillsGood
<1>4. CASE Workflows!promoteWorkflowSkill(r)
  <2> DEFINE old == db.skills[r.seen]
             row == [old EXCEPT !.status = "published"]
             skills == [db.skills EXCEPT ![r.seen] = row]
  <2>1. /\ r.op = "promote" /\ r.seen \in DOMAIN db.skills /\ Workflows!isAdministrator(r.by)
        /\ db' = Workflows!Logged([db EXCEPT !.skills = skills], r)
    BY <1>4 DEF Workflows!promoteWorkflowSkill, Workflows!Handle
  <2>2. SkillRow(row)
    <3>1. PICK k, a, s : old = [risk |-> k, approvalRequired |-> a, status |-> s]
      BY <1>1, <2>1 DEF SkillsGood, SkillRow
    <3> HIDE DEF old
    <3>2. row = [risk |-> k, approvalRequired |-> a, status |-> "published"]
      BY <3>1
    <3> HIDE DEF row
    <3> QED BY <3>2 DEF SkillRow
  <2> HIDE DEF row
  <2>3. \A v \in DOMAIN skills : SkillRow(skills[v])
    BY <1>1, <2>1, <2>2 DEF SkillsGood
  <2> HIDE DEF skills
  <2> QED BY <1>2, <2>1, <2>3
<1> QED BY <1>3, <1>4

LEMMA TemplatesKeep ==
    ASSUME WorkflowData(db), NEW r, db' # db, Workflows!createTemplate(r) \/ Workflows!personalTplDelete(r)
    PROVE  WorkflowData(db') /\ WorkflowKept(db')
<1>1. PICK templates : db' = Workflows!Logged([db EXCEPT !.templates = templates], r)
  BY DEF Workflows!createTemplate, Workflows!personalTplDelete, Workflows!Handle
<1> DEFINE d == [db EXCEPT !.templates = templates]
<1>2. /\ WorkflowShape(d) /\ d.log = db.log /\ d.versions = db.versions /\ d.runs = db.runs /\ d.skills = db.skills
  BY DEF WorkflowData, WorkflowShape
<1>3. db' = Workflows!Logged(d, r)
  BY <1>1
<1> HIDE DEF d
<1>4. VersionsGood(d) /\ RunsGood(d) /\ WorkflowKept(d)
  BY <1>2 DEF WorkflowData, VersionsGood, RunsGood, WorkflowKept
<1> QED BY <1>2, <1>3, <1>4, WorkflowWritten

LEMMA WorkflowInit == Workflows!Init => WorkflowInv
<1> SUFFICES ASSUME Workflows!Init PROVE WorkflowInv
  OBVIOUS
<1> DEFINE one == [graph |-> "writes", status |-> "published", recorded |-> TRUE, revision |-> FALSE]
           two == [graph |-> "policed", status |-> "draft", recorded |-> TRUE, revision |-> FALSE]
           three == [[graph |-> "governed", status |-> "draft", recorded |-> TRUE, revision |-> FALSE] EXCEPT !.revision = TRUE]
           run == [graph |-> "policed", status |-> "failed", env |-> "sandbox", attempt |-> 1, parent |-> 0]
<1>1. /\ WorkflowShape(db) /\ db.versions = <<one, two, three>> /\ db.runs = <<run>> /\ DOMAIN db.skills = {}
      /\ db.log = <<>>
      /\ net = [out |-> Workflows!EmptyBag, made |-> 0]
  <2>1. /\ WorkflowShape(db) /\ db.versions = Workflows!workflowControlFor.versions
        /\ db.runs = Workflows!workflowControlFor.runs /\ DOMAIN db.skills = {} /\ db.log = <<>>
        /\ net = [out |-> Workflows!EmptyBag, made |-> 0]
    BY DEF Workflows!Init, Workflows!NetInit, WorkflowShape
  <2>2. Workflows!buildInitialWorkflowVersions = <<one, two, three>>
    BY DEF Workflows!workflowVersionFromGraph, Workflows!buildInitialWorkflowVersions
  <2> HIDE DEF one, two, three
  <2>3. Workflows!mockWorkflowRuns = <<run>>
    BY DEF Workflows!mockWorkflowRuns
  <2> HIDE DEF run
  <2> QED BY <2>1, <2>2, <2>3 DEF Workflows!workflowControlFor
<1>2. VersionRow(one) /\ VersionRow(two) /\ VersionRow(three)
  <2> DEFINE yes == TRUE
  <2>1. three = [graph |-> "governed", status |-> "draft", recorded |-> TRUE, revision |-> yes]
    <3> DEFINE no == FALSE
               plain == [graph |-> "governed", status |-> "draft", recorded |-> TRUE, revision |-> no]
    <3>1. three = [plain EXCEPT !.revision = yes]
      OBVIOUS
    <3> HIDE DEF three, yes, no
    <3> QED BY <3>1
  <2> HIDE DEF three, yes
  <2> QED BY <2>1 DEF VersionRow
<1>3. /\ RunRow(run) /\ run.env = "sandbox" /\ Workflows!hasSandboxGovernance(run.graph) /\ run.parent = 0
      /\ run.attempt = 1
  BY DEF RunRow, Workflows!hasSandboxGovernance
<1> HIDE DEF one, two, three, run
<1>4. VersionsGood(db)
  <2>1. \E S : db.versions \in Seq(S) /\ \A x \in S : VersionRow(x)
    <3> DEFINE S == {one, two, three}
    <3>1. db.versions \in Seq(S) /\ \A x \in S : VersionRow(x)
      BY <1>1, <1>2
    <3> HIDE DEF S
    <3> QED BY <3>1
  <2> QED BY <1>1, <2>1 DEF VersionsGood
<1>5. RunsGood(db)
  <2>1. \E S : db.runs \in Seq(S)
    <3> DEFINE S == {run}
    <3>1. db.runs \in Seq(S)
      BY <1>1
    <3> HIDE DEF S
    <3> QED BY <3>1
  <2>2. ASSUME NEW i \in DOMAIN db.runs PROVE Descends(db.runs, i)
    <3>1. db.runs[i] = run
      BY <1>1
    <3> QED BY <1>3, <3>1 DEF Descends
  <2> QED BY <2>1, <2>2 DEF RunsGood
<1>6. SkillsGood(db)
  BY <1>1 DEF SkillsGood
<1>7. \E S : db.log \in Seq(S)
  <2>1. db.log \in Seq({})
    BY <1>1
  <2> QED BY <2>1
<1>8. Workflows!BagToSet(net.out) = {}
  BY <1>1 DEF Workflows!BagToSet, Workflows!EmptyBag, Workflows!SetToBag
<1> QED BY <1>1, <1>4, <1>5, <1>6, <1>7, <1>8 DEF WorkflowInv, WorkflowData, WorkflowNet

\* What the pages ask for: by an account, and of a run that is there.
LEMMA WorkflowOffers ==
    ASSUME NEW u \in {"u1", "u2"}, NEW r \in Workflows!Offers(u)
    PROVE  r.by = u /\ (r.op = "retry" => r.seen \in DOMAIN db.runs)
BY DEF Workflows!Offers, Workflows!DraftClients, Workflows!saveAsVersion, Workflows!saveAsPersonalTemplate,
       Workflows!deletePersonalTemplate, Workflows!PromoteSkill, Workflows!Workflows, Workflows!saveCanvas,
       Workflows!requestProductionRelease, Workflows!rollbackVersion, Workflows!publishAsSkillApi,
       Workflows!HistoryView, Workflows!runWorkflow, Workflows!When, Workflows!Req

LEMMA WorkflowRoutesKeep ==
    ASSUME WorkflowData(db), NEW r, r.by \in Workflows!Users, r.op = "retry" => r.seen \in DOMAIN db.runs,
           \/ Workflows!saveDraft(r) \/ Workflows!createVersion(r) \/ Workflows!publish(r) \/ Workflows!rollback(r)
           \/ Workflows!run(r) \/ Workflows!retryRun(r) \/ Workflows!publishAsSkill(r)
           \/ Workflows!promoteWorkflowSkill(r) \/ Workflows!createTemplate(r) \/ Workflows!personalTplDelete(r)
    PROVE  WorkflowData(db') /\ WorkflowKept(db')
<1>1. CASE db' = db
  BY <1>1 DEF WorkflowKept
<1>2. Workflows!retryRun(r) => r.seen \in DOMAIN db.runs
  BY DEF Workflows!retryRun
<1> QED BY <1>1, <1>2, DraftSaved, VersionsKeep, RunsKeep, SkillsKeep, TemplatesKeep

LEMMA WorkflowNext == WorkflowInv /\ [Workflows!Next]_(Workflows!vars) => WorkflowInv' /\ WorkflowKept(db')
<1> SUFFICES ASSUME WorkflowInv, [Workflows!Next]_(Workflows!vars) PROVE WorkflowInv' /\ WorkflowKept(db')
  OBVIOUS
<1> DEFINE out == Workflows!BagToSet(net.out)
<1>1. CASE UNCHANGED Workflows!vars
  <2>1. db' = db /\ net' = net
    BY <1>1 DEF Workflows!vars
  <2>2. WorkflowData(db') /\ WorkflowKept(db')
    BY <2>1 DEF WorkflowInv, WorkflowKept
  <2>3. WorkflowNet'
    BY <2>1 DEF WorkflowInv, WorkflowNet
  <2> QED BY <2>2, <2>3 DEF WorkflowInv
<1>2. ASSUME NEW u \in {"u1", "u2"}, NEW r \in Workflows!Offers(u), Workflows!Ask(r)
      PROVE  WorkflowInv' /\ WorkflowKept(db')
  <2>1. r.by \in Workflows!Users /\ (r.op = "retry" => r.seen \in DOMAIN db.runs)
    BY WorkflowOffers DEF Workflows!Users, Workflows!RoleOf
  <2> DEFINE B == Workflows!(+)(net.out, Workflows!SetToBag({r}))
  <2>2. net' = [out |-> B, made |-> net.made + 1] /\ db' = db
    BY <1>2 DEF Workflows!Ask
  <2>3. DOMAIN B = out \cup {r}
    BY DEF Workflows!(+), Workflows!SetToBag, Workflows!BagToSet
  <2> HIDE DEF B
  <2>4. Workflows!BagToSet(net'.out) = out \cup {r}
    BY <2>2, <2>3 DEF Workflows!BagToSet
  <2>5. WorkflowNet'
    BY <2>1, <2>2, <2>4 DEF WorkflowInv, WorkflowNet
  <2>6. WorkflowData(db') /\ WorkflowKept(db')
    BY <2>2 DEF WorkflowInv, WorkflowKept
  <2> QED BY <2>5, <2>6 DEF WorkflowInv
<1>3. ASSUME NEW r \in out, Workflows!Arrives(r),
             \/ Workflows!saveDraft(r) \/ Workflows!createVersion(r) \/ Workflows!publish(r) \/ Workflows!rollback(r)
             \/ Workflows!run(r) \/ Workflows!retryRun(r) \/ Workflows!publishAsSkill(r)
             \/ Workflows!promoteWorkflowSkill(r) \/ Workflows!createTemplate(r) \/ Workflows!personalTplDelete(r)
      PROVE  WorkflowInv' /\ WorkflowKept(db')
  <2>1. r.by \in Workflows!Users /\ (r.op = "retry" => r.seen \in DOMAIN db.runs)
    BY DEF WorkflowInv, WorkflowNet
  <2>2. WorkflowData(db') /\ WorkflowKept(db')
    BY <1>3, <2>1, WorkflowRoutesKeep DEF WorkflowInv
  <2> DEFINE B == Workflows!(-)(net.out, Workflows!SetToBag({r}))
  <2>3. net' = [out |-> B, made |-> net.made]
    BY <1>3 DEF Workflows!Arrives, WorkflowInv, WorkflowNet
  <2>4. DOMAIN B \subseteq out
    BY DEF Workflows!(-), Workflows!SetToBag, Workflows!BagToSet
  <2> HIDE DEF B
  <2>5. Workflows!BagToSet(net'.out) \subseteq out
    BY <2>3, <2>4 DEF Workflows!BagToSet
  <2>6. WorkflowNet'
    BY <2>2, <2>3, <2>5 DEF WorkflowInv, WorkflowNet, WorkflowKept
  <2> QED BY <2>2, <2>6 DEF WorkflowInv
<1> QED BY <1>1, <1>2, <1>3 DEF Workflows!Next

LEMMA WorkflowHolds == WorkflowInv => Workflows!WritesGoverned /\ Workflows!RetriesDescend
<1> SUFFICES ASSUME WorkflowInv PROVE Workflows!WritesGoverned /\ Workflows!RetriesDescend
  OBVIOUS
<1>1. DOMAIN Workflows!buildInitialWorkflowVersions = 1..3
  BY DEF Workflows!buildInitialWorkflowVersions
<1>2. \A v \in DOMAIN db.versions \ DOMAIN Workflows!buildInitialWorkflowVersions :
         db.versions[v].status = "published" /\ Workflows!hasExternalWrite(db.versions[v].graph)
            => Workflows!hasSandboxGovernance(db.versions[v].graph)
  BY <1>1 DEF WorkflowInv, WorkflowData, VersionsGood, GraphGoverned
<1>3. \A i \in DOMAIN db.runs : Descends(db.runs, i)
  BY DEF WorkflowInv, WorkflowData, RunsGood
<1>4. SkillsGood(db)
  BY DEF WorkflowInv, WorkflowData
<1>5. Workflows!WritesGoverned
  BY <1>2, <1>3, <1>4 DEF Workflows!WritesGoverned, Descends, SkillsGood, ByAdministrator
<1>6. Workflows!RetriesDescend
  BY <1>3 DEF Workflows!RetriesDescend, Descends
<1> QED BY <1>5, <1>6

\* What is published by hand or run has its governance, though somebody else
\* saves over the shared draft in the meantime, a retry descends from a failed run,
\* and a published version is never written again.
THEOREM WorkflowsStayGoverned ==
    Workflows!Init /\ [][Workflows!Next]_(Workflows!vars)
        => /\ [](Workflows!WritesGoverned /\ Workflows!RetriesDescend)
           /\ [][Workflows!PublishedFixed]_(Workflows!vars)
<1>1. WorkflowKept(db') => Workflows!PublishedFixed
  BY DEF WorkflowKept, Workflows!PublishedFixed
<1>2. WorkflowInv /\ [Workflows!Next]_(Workflows!vars) => WorkflowInv' /\ [Workflows!PublishedFixed]_(Workflows!vars)
  BY <1>1, WorkflowNext
<1> QED BY <1>2, WorkflowInit, WorkflowHolds, PTL

-----------------------------------------------------------------------------
(* Knowledge. *)

Knowledge == INSTANCE KnowledgeDomain WITH Actors <- {"u1"}

DocRow(x) == x = [status |-> x.status, packageId |-> x.packageId]

\* A package has versions, of which the newest alone may be published.
PackageRow(x) ==
    /\ x = [status |-> x.status, documentIds |-> x.documentIds, consumers |-> x.consumers, versions |-> x.versions]
    /\ \E S : x.versions \in Seq(S)
    /\ x.versions # <<>>
    /\ \A i \in DOMAIN x.versions : x.versions[i] = "published" => i = 1

KnowledgeShape(d) ==
    d = [docs |-> d.docs, packages |-> d.packages, bindings |-> d.bindings, profiles |-> d.profiles,
         evaluations |-> d.evaluations, jobs |-> d.jobs, timers |-> d.timers, sources |-> d.sources,
         versionRetention |-> d.versionRetention]

\* Documents name packages that list them.
DocsListed(docs, packages) ==
    \A k \in DOMAIN docs :
        /\ DocRow(docs[k])
        /\ docs[k].packageId # "" =>
              docs[k].packageId \in DOMAIN packages /\ k \in packages[docs[k].packageId].documentIds

PackagesGood(docs, packages) ==
    \A p \in DOMAIN packages : PackageRow(packages[p]) /\ packages[p].documentIds \subseteq DOMAIN docs

\* The version of number n, counted from the oldest, went on line.
OnRecord(versions, n) ==
    n \in 1 .. Len(versions) /\ versions[Len(versions) + 1 - n] \in {"published", "deprecated"}

\* The server's own choice among the versions is one that went on line.
BindingsGood(bindings, packages) ==
    \A b \in bindings :
        /\ b.packageId \in DOMAIN packages
        /\ b.lock = "current" => OnRecord(packages[b.packageId].versions, b.version)

KnowledgeData(d) ==
    /\ KnowledgeShape(d)
    /\ DocsListed(d.docs, d.packages) /\ PackagesGood(d.docs, d.packages) /\ BindingsGood(d.bindings, d.packages)

\* A package that is being created has no row yet and one request.
PackageOnce ==
    /\ net = [out |-> net.out, made |-> net.made]
    /\ \A r \in Knowledge!BagToSet(net.out) : r.op = "createPackage" =>
          /\ r.id \notin DOMAIN db.packages \cup {"default"} /\ net.out[r] = 1
          /\ \A q \in Knowledge!BagToSet(net.out) : q.op = "createPackage" /\ q.id = r.id => q = r

KnowledgeInv == KnowledgeData(db) /\ PackageOnce

\* The packages there are, and those that the request r may make.
PackagesOf(r) == DOMAIN db.packages \cup {"default"} \cup {id \in {r.id} : r.op = "createPackage"}

LEMMA BindingsStay ==
    ASSUME NEW bindings, NEW packages, BindingsGood(bindings, packages), NEW new,
           \A b \in bindings : /\ b.packageId \in DOMAIN new
                               /\ new[b.packageId].versions = packages[b.packageId].versions
    PROVE  BindingsGood(bindings, new)
BY DEF BindingsGood

\* A new version takes the place of the newest, which is deprecated.
LEMMA VersionReplaced ==
    ASSUME NEW S, NEW old \in Seq(S), old # <<>>, \A i \in DOMAIN old : old[i] = "published" => i = 1
    PROVE  LET new == <<"published", "deprecated">> \o Tail(old)
           IN  /\ \E T : new \in Seq(T)
               /\ new # <<>>
               /\ \A i \in DOMAIN new : new[i] = "published" => i = 1
               /\ \A n : OnRecord(old, n) => OnRecord(new, n)
<1> DEFINE two == <<"published", "deprecated">>
           T == S \cup {"published", "deprecated"}
           tail == Tail(old)
           new == two \o tail
<1>1. two \in Seq(T) /\ Len(two) = 2 /\ two[1] = "published" /\ two[2] = "deprecated"
  OBVIOUS
<1>2. /\ old \in Seq(T) /\ Len(old) \in Nat /\ Len(old) >= 1 /\ DOMAIN old = 1 .. Len(old)
  <2>1. old \in Seq(T)
    BY SeqMonotonic
  <2> QED BY <2>1, EmptySeq, LenProperties
<1>3. tail \in Seq(T) /\ Len(tail) = Len(old) - 1 /\ \A i \in 1 .. Len(old) - 1 : tail[i] = old[i + 1]
  BY <1>2, HeadTailProperties
<1> HIDE DEF two, tail, T
<1>4. /\ new \in Seq(T) /\ Len(new) = Len(old) + 1
      /\ \A i \in 1 .. Len(old) + 1 : new[i] = IF i <= 2 THEN two[i] ELSE tail[i - 2]
  <2>1. /\ new \in Seq(T) /\ Len(new) = Len(two) + Len(tail)
        /\ \A i \in 1 .. Len(two) + Len(tail) : new[i] = IF i <= Len(two) THEN two[i] ELSE tail[i - Len(two)]
    BY <1>1, <1>3, ConcatProperties
  <2>2. Len(two) + Len(tail) = Len(old) + 1
    BY <1>1, <1>2, <1>3
  <2> HIDE DEF new
  <2> QED BY <1>1, <2>1, <2>2
<1>5. \A i \in 3 .. Len(old) + 1 : new[i] = old[i - 1]
  BY <1>2, <1>3, <1>4
<1>6. new[1] = "published" /\ new[2] = "deprecated" /\ DOMAIN new = 1 .. Len(old) + 1
  BY <1>1, <1>2, <1>4, LenProperties
<1> HIDE DEF new
<1>7. \A i \in DOMAIN new : new[i] = "published" => i = 1
  <2> SUFFICES ASSUME NEW i \in 1 .. Len(old) + 1, new[i] = "published", i # 1 PROVE FALSE
    BY <1>6
  <2>1. i \in 3 .. Len(old) + 1
    BY <1>2, <1>6
  <2>2. old[i - 1] = "published" /\ i - 1 \in DOMAIN old /\ i - 1 # 1
    BY <1>2, <1>5, <2>1
  <2> QED BY <2>2
<1>8. ASSUME NEW n, OnRecord(old, n) PROVE OnRecord(new, n)
  <2> DEFINE m == Len(old) + 1 - n
  <2>1. n \in 1 .. Len(old) /\ old[m] \in {"published", "deprecated"}
    BY <1>8 DEF OnRecord
  <2>2. Len(new) + 1 - n = m + 1 /\ n \in 1 .. Len(new) /\ m \in 1 .. Len(old)
    BY <1>2, <1>4, <2>1
  <2>3. CASE m = 1
    <3>1. Len(new) + 1 - n = 2
      BY <2>2, <2>3
    <3> QED BY <1>6, <2>2, <3>1 DEF OnRecord
  <2>4. CASE m # 1
    <3>1. m + 1 \in 3 .. Len(old) + 1 /\ (m + 1) - 1 = m
      BY <1>2, <2>2, <2>4
    <3> HIDE DEF m
    <3>2. new[m + 1] = old[m]
      BY <1>5, <3>1
    <3> QED BY <2>1, <2>2, <3>2 DEF OnRecord
  <2> QED BY <2>3, <2>4
<1>9. new # <<>>
  BY <1>6
<1>10. \E U : new \in Seq(U)
  BY <1>4
<1> QED BY <1>7, <1>8, <1>9, <1>10 DEF new, two, tail

\* Rows of the tables nothing here is about.
LEMMA DocsRestated ==
    ASSUME KnowledgeData(db), KnowledgeShape(db'), db'.packages = db.packages, db'.bindings = db.bindings,
           DOMAIN db'.docs = DOMAIN db.docs,
           \A k \in DOMAIN db.docs : DocRow(db'.docs[k]) /\ db'.docs[k].packageId = db.docs[k].packageId
    PROVE  KnowledgeData(db') /\ DOMAIN db'.packages = DOMAIN db.packages
<1>1. DocsListed(db'.docs, db'.packages)
  BY Zenon DEF KnowledgeData, DocsListed
<1>2. PackagesGood(db'.docs, db'.packages) /\ BindingsGood(db'.bindings, db'.packages)
  BY DEF KnowledgeData, PackagesGood
<1> QED BY <1>1, <1>2 DEF KnowledgeData

\* A document's status is written.
LEMMA StatusOfDoc ==
    ASSUME NEW x, DocRow(x), NEW status
    PROVE  DocRow([x EXCEPT !.status = status]) /\ [x EXCEPT !.status = status].packageId = x.packageId
BY DEF DocRow

LEMMA ReindexKeeps ==
    ASSUME KnowledgeData(db), NEW r, Knowledge!reindex(r) \/ Knowledge!Indexed, db' # db
    PROVE  KnowledgeData(db') /\ DOMAIN db'.packages = DOMAIN db.packages
<1> DEFINE Restated(docs) ==
               /\ DOMAIN docs = DOMAIN db.docs
               /\ \A k \in DOMAIN db.docs : \/ docs[k] = db.docs[k]
                                         \/ \E status : docs[k] = [db.docs[k] EXCEPT !.status = status]
<1>1. ASSUME NEW docs, NEW timers, db' = [db EXCEPT !.docs = docs, !.timers = timers], Restated(docs)
      PROVE  KnowledgeData(db') /\ DOMAIN db'.packages = DOMAIN db.packages
  <2> DEFINE first == [db EXCEPT !.docs = docs]
  <2>1. first = [docs |-> docs, packages |-> db.packages, bindings |-> db.bindings, profiles |-> db.profiles,
                 evaluations |-> db.evaluations, jobs |-> db.jobs, timers |-> db.timers, sources |-> db.sources,
                 versionRetention |-> db.versionRetention]
    BY DEF KnowledgeData, KnowledgeShape
  <2>2. db' = [first EXCEPT !.timers = timers]
    BY <1>1
  <2> HIDE DEF first
  <2>3. KnowledgeShape(db') /\ db'.docs = docs /\ db'.packages = db.packages /\ db'.bindings = db.bindings
    BY <2>1, <2>2 DEF KnowledgeShape
  <2>4. \A k \in DOMAIN db.docs : DocRow(docs[k]) /\ docs[k].packageId = db.docs[k].packageId
    <3> SUFFICES ASSUME NEW k \in DOMAIN db.docs PROVE DocRow(docs[k]) /\ docs[k].packageId = db.docs[k].packageId
      OBVIOUS
    <3>1. DocRow(db.docs[k])
      BY Zenon DEF KnowledgeData, DocsListed
    <3>2. CASE docs[k] = db.docs[k]
      BY <3>1, <3>2
    <3>3. ASSUME NEW status, docs[k] = [db.docs[k] EXCEPT !.status = status]
          PROVE  DocRow(docs[k]) /\ docs[k].packageId = db.docs[k].packageId
      BY <3>1, <3>3, StatusOfDoc
    <3> QED BY <1>1, <3>2, <3>3
  <2> QED BY <1>1, <2>3, <2>4, DocsRestated
<1>2. CASE Knowledge!reindex(r)
  <2> DEFINE docs == [d \in DOMAIN db.docs |-> [db.docs[d] EXCEPT !.status = "indexing"]]
             timers == db.timers \cup {DOMAIN db.docs}
  <2>1. db' = [db EXCEPT !.docs = docs, !.timers = timers]
    BY <1>2 DEF Knowledge!reindex, Knowledge!Handle
  <2>2. Restated(docs)
    OBVIOUS
  <2> HIDE DEF docs, timers, Restated
  <2> QED BY Zenon, <1>1, <2>1, <2>2
<1>3. CASE Knowledge!Indexed
  <2>1. PICK ended \in db.timers :
           db' = [db EXCEPT !.docs = [d \in DOMAIN db.docs |->
                                         IF d \in ended THEN [db.docs[d] EXCEPT !.status = "ready"] ELSE db.docs[d]],
                            !.timers = db.timers \ {ended}]
    BY Zenon, <1>3 DEF Knowledge!Indexed
  <2> DEFINE docs == [d \in DOMAIN db.docs |->
                         IF d \in ended THEN [db.docs[d] EXCEPT !.status = "ready"] ELSE db.docs[d]]
             timers == db.timers \ {ended}
  <2>2. Restated(docs)
    <3>1. \A k \in DOMAIN db.docs : docs[k] = db.docs[k] \/ docs[k] = [db.docs[k] EXCEPT !.status = "ready"]
      OBVIOUS
    <3> QED BY <3>1
  <2>3. db' = [db EXCEPT !.docs = docs, !.timers = timers]
    BY <2>1
  <2> HIDE DEF docs, timers, Restated
  <2> QED BY Zenon, <1>1, <2>2, <2>3
<1> QED BY <1>2, <1>3

\* Jobs, evaluations, sources and the retention.
LEMMA AsideKeeps ==
    ASSUME KnowledgeData(db), NEW r, db' # db,
           \/ Knowledge!retryJob(r) \/ Knowledge!runEvaluation(r) \/ Knowledge!createSource(r)
           \/ Knowledge!syncSource(r) \/ Knowledge!patchGovernance(r)
    PROVE  KnowledgeData(db') /\ DOMAIN db'.packages = DOMAIN db.packages
<1>1. \/ \E jobs : db' = [db EXCEPT !.jobs = jobs]
      \/ \E evaluations : db' = [db EXCEPT !.evaluations = evaluations]
      \/ \E sources : db' = [db EXCEPT !.sources = sources]
      \/ \E retention : db' = [db EXCEPT !.versionRetention = retention]
  <2>1. CASE Knowledge!retryJob(r)
    <3> DEFINE jobs == [db.jobs EXCEPT ![r.id] = "running"]
    <3>1. db' = [db EXCEPT !.jobs = jobs]
      BY <2>1 DEF Knowledge!retryJob, Knowledge!Handle
    <3> HIDE DEF jobs
    <3> QED BY <3>1
  <2>2. CASE Knowledge!runEvaluation(r)
    BY <2>2 DEF Knowledge!runEvaluation, Knowledge!Handle
  <2>3. CASE Knowledge!createSource(r)
    BY <2>3 DEF Knowledge!createSource, Knowledge!Handle
  <2>4. CASE Knowledge!syncSource(r)
    <3> DEFINE sources == [db.sources EXCEPT ![r.id] = "healthy"]
    <3>1. db' = [db EXCEPT !.sources = sources]
      BY <2>4 DEF Knowledge!syncSource, Knowledge!Handle
    <3> HIDE DEF sources
    <3> QED BY <3>1
  <2>5. CASE Knowledge!patchGovernance(r)
    BY <2>5 DEF Knowledge!patchGovernance, Knowledge!Handle
  <2> QED BY <2>1, <2>2, <2>3, <2>4, <2>5
<1>2. KnowledgeShape(db') /\ db'.docs = db.docs /\ db'.packages = db.packages /\ db'.bindings = db.bindings
  BY <1>1 DEF KnowledgeData, KnowledgeShape
<1>3. \A k \in DOMAIN db.docs : DocRow(db'.docs[k])
  BY Zenon, <1>2 DEF KnowledgeData, DocsListed
<1> QED BY <1>2, <1>3, DocsRestated

\* Of a package the list is written, or the status.
LEMMA ListWritten ==
    ASSUME NEW x, PackageRow(x), NEW ids
    PROVE  LET y == [x EXCEPT !.documentIds = ids]
           IN  PackageRow(y) /\ y.documentIds = ids /\ y.versions = x.versions
<1> DEFINE y == [x EXCEPT !.documentIds = ids]
<1>1. PICK a, l, c, v : x = [status |-> a, documentIds |-> l, consumers |-> c, versions |-> v]
  BY DEF PackageRow
<1>2. y = [status |-> a, documentIds |-> ids, consumers |-> c, versions |-> v]
  BY <1>1
<1> HIDE DEF y
<1>3. y.documentIds = ids /\ y.versions = x.versions
  BY <1>1, <1>2
<1> QED BY <1>2, <1>3 DEF PackageRow, y

LEMMA StatusWritten ==
    ASSUME NEW x, PackageRow(x), NEW status
    PROVE  LET y == [x EXCEPT !.status = status]
           IN  PackageRow(y) /\ y.documentIds = x.documentIds /\ y.versions = x.versions
<1> DEFINE y == [x EXCEPT !.status = status]
<1>1. PICK a, l, c, v : x = [status |-> a, documentIds |-> l, consumers |-> c, versions |-> v]
  BY DEF PackageRow
<1>2. y = [status |-> status, documentIds |-> l, consumers |-> c, versions |-> v]
  BY <1>1
<1> HIDE DEF y
<1>3. y.documentIds = x.documentIds /\ y.versions = x.versions
  BY <1>1, <1>2
<1> QED BY <1>2, <1>3 DEF PackageRow, y

\* A package that had none of it lists a document, new or moved, and the
\* document names it.
LEMMA DocListed ==
    ASSUME NEW docs, NEW packages, DocsListed(docs, packages), PackagesGood(docs, packages),
           NEW newDocs, NEW newPackages, NEW id, NEW p, DOMAIN newDocs = DOMAIN docs \cup {id},
           DOMAIN packages \subseteq DOMAIN newPackages, p \in DOMAIN newPackages,
           DocRow(newDocs[id]), newDocs[id].packageId = p, \A k \in DOMAIN docs \ {id} : newDocs[k] = docs[k],
           \A q \in DOMAIN newPackages : PackageRow(newPackages[q]),
           \A q \in DOMAIN newPackages \ {p} :
              q \in DOMAIN packages /\ newPackages[q].documentIds = packages[q].documentIds,
           newPackages[p].documentIds = (IF p \in DOMAIN packages THEN packages[p].documentIds ELSE {}) \cup {id}
    PROVE  DocsListed(newDocs, newPackages) /\ PackagesGood(newDocs, newPackages)
<1>1. ASSUME NEW k \in DOMAIN docs \ {id}
      PROVE  /\ DocRow(newDocs[k])
             /\ newDocs[k].packageId # "" =>
                   newDocs[k].packageId \in DOMAIN newPackages /\ k \in newPackages[newDocs[k].packageId].documentIds
  <2>1. /\ DocRow(docs[k]) /\ newDocs[k] = docs[k]
        /\ docs[k].packageId # "" => docs[k].packageId \in DOMAIN packages /\ k \in packages[docs[k].packageId].documentIds
    BY Zenon DEF DocsListed
  <2> QED BY Zenon, <2>1
<1>2. DocsListed(newDocs, newPackages)
  BY Zenon, <1>1 DEF DocsListed
<1>3. PackagesGood(newDocs, newPackages)
  BY DEF PackagesGood
<1> QED BY <1>2, <1>3

LEMMA UploadKeeps ==
    ASSUME KnowledgeData(db), NEW r, Knowledge!uploadDoc(r), db' # db
    PROVE  KnowledgeData(db') /\ DOMAIN db'.packages \subseteq DOMAIN db.packages \cup {"default"}
<1>1. PICK p \in Knowledge!Takers(r, db.packages) :
         db' = [db EXCEPT !.docs = Knowledge!Unshifted(db.docs, r.id, [status |-> "parsing", packageId |-> p]),
                          !.packages = [Knowledge!WithDefault(p) EXCEPT ![p].documentIds = @ \cup {r.id}],
                          !.timers = db.timers \cup {{r.id}}]
  BY Zenon DEF Knowledge!uploadDoc
<1>2. p \in DOMAIN db.packages \cup {"default"}
  <2>1. r.arg \in DOMAIN db.packages \cup {Knowledge!NoPackage}
    BY Zenon DEF Knowledge!uploadDoc
  <2> QED BY <2>1 DEF Knowledge!Takers
<1> DEFINE row == [status |-> "parsing", packageId |-> p]
           docs == Knowledge!Unshifted(db.docs, r.id, row)
           empty == Knowledge!Package("draft", {}, 0)
           with == Knowledge!WithDefault(p)
           packages == [with EXCEPT ![p].documentIds = @ \cup {r.id}]
           timers == db.timers \cup {{r.id}}
           first == [db EXCEPT !.docs = docs]
           second == [first EXCEPT !.packages = packages]
<1>3. KnowledgeShape(db') /\ db'.docs = docs /\ db'.packages = packages /\ db'.bindings = db.bindings
  <2>1. db' = [second EXCEPT !.timers = timers]
    BY <1>1
  <2> HIDE DEF docs, packages, timers
  <2>2. first = [docs |-> docs, packages |-> db.packages, bindings |-> db.bindings, profiles |-> db.profiles,
                 evaluations |-> db.evaluations, jobs |-> db.jobs, timers |-> db.timers, sources |-> db.sources,
                 versionRetention |-> db.versionRetention]
    BY DEF KnowledgeData, KnowledgeShape
  <2> HIDE DEF first
  <2>3. second = [docs |-> docs, packages |-> packages, bindings |-> db.bindings, profiles |-> db.profiles,
                  evaluations |-> db.evaluations, jobs |-> db.jobs, timers |-> db.timers, sources |-> db.sources,
                  versionRetention |-> db.versionRetention]
    BY <2>2
  <2> HIDE DEF second
  <2> QED BY <2>1, <2>3 DEF KnowledgeShape
<1>4. DocRow(row) /\ row.packageId = p
  BY DEF DocRow
<1> HIDE DEF row
<1>5. /\ DOMAIN docs = DOMAIN db.docs \cup {r.id} /\ docs[r.id] = row
      /\ \A k \in DOMAIN db.docs \ {r.id} : docs[k] = db.docs[k]
  BY DEF Knowledge!Unshifted
<1> HIDE DEF docs
<1>6. PackageRow(empty) /\ empty.documentIds = {}
  <2>1. empty = [status |-> "draft", documentIds |-> {}, consumers |-> 0, versions |-> <<"draft">>]
    BY DEF Knowledge!Package
  <2> HIDE DEF empty
  <2>2. \E S : empty.versions \in Seq(S)
    <3>1. empty.versions \in Seq({"draft"})
      BY <2>1
    <3> QED BY <3>1
  <2> QED BY <2>1, <2>2 DEF PackageRow
<1> HIDE DEF empty
<1>7. /\ DOMAIN with = DOMAIN db.packages \cup {p}
      /\ \A q \in DOMAIN with : with[q] = IF q \in DOMAIN db.packages THEN db.packages[q] ELSE empty
  BY DEF Knowledge!WithDefault, Knowledge!Unshifted, empty
<1> HIDE DEF with
<1>8. \A q \in DOMAIN with : PackageRow(with[q])
  BY <1>6, <1>7 DEF KnowledgeData, PackagesGood
<1> DEFINE listed == [with[p] EXCEPT !.documentIds = with[p].documentIds \cup {r.id}]
<1>9. /\ DOMAIN packages = DOMAIN with /\ packages[p] = listed
      /\ \A q \in DOMAIN with \ {p} : packages[q] = with[q]
  BY <1>7
<1> HIDE DEF packages
<1>10. PackageRow(listed) /\ listed.documentIds = with[p].documentIds \cup {r.id} /\ listed.versions = with[p].versions
  <2>1. PackageRow(with[p])
    BY <1>7, <1>8
  <2> QED BY <2>1, ListWritten
<1> HIDE DEF listed
<1>11. DocsListed(docs, packages) /\ PackagesGood(docs, packages)
  <2>1. DocsListed(db.docs, db.packages) /\ PackagesGood(db.docs, db.packages)
    BY DEF KnowledgeData
  <2>2. /\ DOMAIN db.packages \subseteq DOMAIN packages /\ p \in DOMAIN packages
        /\ \A q \in DOMAIN packages : PackageRow(packages[q])
        /\ \A q \in DOMAIN packages \ {p} : q \in DOMAIN db.packages /\ packages[q].documentIds = db.packages[q].documentIds
        /\ packages[p].documentIds = (IF p \in DOMAIN db.packages THEN db.packages[p].documentIds ELSE {}) \cup {r.id}
    BY <1>6, <1>7, <1>8, <1>9, <1>10
  <2> QED BY SMTT(30), <1>4, <1>5, <2>1, <2>2, DocListed
<1>12. BindingsGood(db.bindings, packages)
  <2>1. \A q \in DOMAIN db.packages : q \in DOMAIN packages /\ packages[q].versions = db.packages[q].versions
    BY <1>7, <1>9, <1>10
  <2> QED BY <2>1, BindingsStay DEF KnowledgeData, BindingsGood
<1> QED BY <1>2, <1>3, <1>7, <1>9, <1>11, <1>12 DEF KnowledgeData

\* A deleted document is on no list.
LEMMA DeleteDocKeeps ==
    ASSUME KnowledgeData(db), NEW r, Knowledge!deleteKnowledgeDocsByIds(r), db' # db
    PROVE  KnowledgeData(db') /\ DOMAIN db'.packages = DOMAIN db.packages
<1> DEFINE docs == [d \in DOMAIN db.docs \ {r.id} |-> db.docs[d]]
           packages == [p \in DOMAIN db.packages |->
                           [db.packages[p] EXCEPT !.documentIds = db.packages[p].documentIds \ {r.id}]]
           first == [db EXCEPT !.docs = docs]
           second == [first EXCEPT !.packages = packages]
<1>1. KnowledgeShape(db') /\ db'.docs = docs /\ db'.packages = packages /\ db'.bindings = db.bindings
  <2>1. PICK timers : db' = [db EXCEPT !.docs = docs, !.packages = packages, !.timers = timers]
    BY Zenon DEF Knowledge!deleteKnowledgeDocsByIds, Knowledge!Handle
  <2>2. db' = [second EXCEPT !.timers = timers]
    BY <2>1
  <2> HIDE DEF docs, packages
  <2>3. first = [docs |-> docs, packages |-> db.packages, bindings |-> db.bindings, profiles |-> db.profiles,
                 evaluations |-> db.evaluations, jobs |-> db.jobs, timers |-> db.timers, sources |-> db.sources,
                 versionRetention |-> db.versionRetention]
    BY DEF KnowledgeData, KnowledgeShape
  <2> HIDE DEF first
  <2>4. second = [docs |-> docs, packages |-> packages, bindings |-> db.bindings, profiles |-> db.profiles,
                  evaluations |-> db.evaluations, jobs |-> db.jobs, timers |-> db.timers, sources |-> db.sources,
                  versionRetention |-> db.versionRetention]
    BY <2>3
  <2> HIDE DEF second
  <2> QED BY <2>2, <2>4 DEF KnowledgeShape
<1>2. DOMAIN docs = DOMAIN db.docs \ {r.id} /\ \A k \in DOMAIN docs : docs[k] = db.docs[k]
  OBVIOUS
<1>3. DOMAIN packages = DOMAIN db.packages
  OBVIOUS
<1>4. ASSUME NEW p \in DOMAIN db.packages
      PROVE  /\ PackageRow(packages[p]) /\ packages[p].documentIds = db.packages[p].documentIds \ {r.id}
             /\ packages[p].versions = db.packages[p].versions
  <2> DEFINE ids == db.packages[p].documentIds \ {r.id}
  <2>1. packages[p] = [db.packages[p] EXCEPT !.documentIds = ids] /\ PackageRow(db.packages[p])
    BY DEF KnowledgeData, PackagesGood
  <2> HIDE DEF packages, ids
  <2>2. /\ PackageRow(packages[p]) /\ packages[p].documentIds = ids
        /\ packages[p].versions = db.packages[p].versions
    BY <2>1, ListWritten
  <2> QED BY <2>2 DEF ids
<1> HIDE DEF docs, packages
<1>5. DocsListed(docs, packages)
  BY Zenon, <1>2, <1>3, <1>4 DEF KnowledgeData, DocsListed
<1>6. PackagesGood(docs, packages)
  BY <1>2, <1>3, <1>4 DEF KnowledgeData, PackagesGood
<1>7. BindingsGood(db.bindings, packages)
  BY <1>3, <1>4 DEF KnowledgeData, BindingsGood
<1> QED BY <1>1, <1>3, <1>5, <1>6, <1>7 DEF KnowledgeData

LEMMA PackageCreateKeeps ==
    ASSUME KnowledgeData(db), NEW r, Knowledge!createPackage(r), db' # db, r.id \notin DOMAIN db.packages
    PROVE  KnowledgeData(db') /\ DOMAIN db'.packages = DOMAIN db.packages \cup {r.id}
<1> DEFINE row == Knowledge!Package("draft", {}, 0)
           packages == Knowledge!Unshifted(db.packages, r.id, row)
<1>1. db' = [db EXCEPT !.packages = packages]
  BY DEF Knowledge!createPackage, Knowledge!Handle
<1>2. PackageRow(row) /\ row.documentIds = {}
  <2>1. row = [status |-> "draft", documentIds |-> {}, consumers |-> 0, versions |-> <<"draft">>]
    BY DEF Knowledge!Package
  <2> HIDE DEF row
  <2>2. \E S : row.versions \in Seq(S)
    <3>1. row.versions \in Seq({"draft"})
      BY <2>1
    <3> QED BY <3>1
  <2> QED BY <2>1, <2>2 DEF PackageRow
<1> HIDE DEF row
<1>3. /\ DOMAIN packages = DOMAIN db.packages \cup {r.id} /\ packages[r.id] = row
      /\ \A p \in DOMAIN db.packages : packages[p] = db.packages[p]
  BY DEF Knowledge!Unshifted
<1> HIDE DEF packages
<1>4. KnowledgeShape(db') /\ db'.docs = db.docs /\ db'.packages = packages /\ db'.bindings = db.bindings
  BY <1>1 DEF KnowledgeData, KnowledgeShape
<1>5. DocsListed(db.docs, packages)
  BY Zenon, <1>3 DEF KnowledgeData, DocsListed
<1>6. PackagesGood(db.docs, packages)
  BY <1>2, <1>3 DEF KnowledgeData, PackagesGood
<1>7. BindingsGood(db.bindings, packages)
  BY <1>3 DEF KnowledgeData, BindingsGood
<1> QED BY <1>3, <1>4, <1>5, <1>6, <1>7 DEF KnowledgeData

LEMMA AttachKeeps ==
    ASSUME KnowledgeData(db), NEW r, Knowledge!attach(r), db' # db
    PROVE  KnowledgeData(db') /\ DOMAIN db'.packages = DOMAIN db.packages
<1> DEFINE old == db.packages[r.id]
           grows == r.arg \notin old.documentIds
           status == IF grows /\ old.status = "published" THEN "review" ELSE old.status
           ids == old.documentIds \cup {r.arg}
           doc == [db.docs[r.arg] EXCEPT !.packageId = r.id]
           docs == [db.docs EXCEPT ![r.arg] = doc]
           listed == [old EXCEPT !.documentIds = ids]
           x == [listed EXCEPT !.status = status]
           packages == [db.packages EXCEPT ![r.id] = x]
           first == [db EXCEPT !.docs = docs]
<1>1. /\ r.id \in DOMAIN db.packages /\ r.arg \in DOMAIN db.docs
      /\ db' = [db EXCEPT !.docs[r.arg].packageId = r.id, !.packages[r.id].documentIds = ids,
                          !.packages[r.id].status = status]
  BY DEF Knowledge!attach, Knowledge!Handle, Knowledge!OnPackage
<1> HIDE DEF status, ids
<1>2. PackageRow(x) /\ x.documentIds = ids /\ x.versions = old.versions
  <2>1. PackageRow(old)
    BY <1>1 DEF KnowledgeData, PackagesGood
  <2>2. PackageRow(listed) /\ listed.documentIds = ids /\ listed.versions = old.versions
    <3> HIDE DEF old
    <3> QED BY <2>1, ListWritten
  <2> HIDE DEF listed
  <2> QED BY <2>2, StatusWritten
<1>3. DocRow(doc) /\ doc.packageId = r.id
  <2>1. DocRow(db.docs[r.arg])
    BY Zenon, <1>1 DEF KnowledgeData, DocsListed
  <2> QED BY <2>1 DEF DocRow
<1>4. db' = [first EXCEPT !.packages = packages]
  <2>1. db' = [first EXCEPT !.packages[r.id].documentIds = ids, !.packages[r.id].status = status]
    BY <1>1
  <2>2. first.packages = db.packages
    BY DEF KnowledgeData, KnowledgeShape
  <2> HIDE DEF first
  <2> QED BY <2>1, <2>2
<1>5. KnowledgeShape(db') /\ db'.docs = docs /\ db'.packages = packages /\ db'.bindings = db.bindings
  <2> HIDE DEF docs, packages
  <2>1. first = [docs |-> docs, packages |-> db.packages, bindings |-> db.bindings, profiles |-> db.profiles,
                 evaluations |-> db.evaluations, jobs |-> db.jobs, timers |-> db.timers, sources |-> db.sources,
                 versionRetention |-> db.versionRetention]
    BY DEF KnowledgeData, KnowledgeShape
  <2> HIDE DEF first
  <2> QED BY <1>4, <2>1 DEF KnowledgeShape
<1> HIDE DEF x, doc
<1>6. /\ DOMAIN docs = DOMAIN db.docs \cup {r.arg} /\ docs[r.arg] = doc
      /\ \A k \in DOMAIN db.docs \ {r.arg} : docs[k] = db.docs[k]
  BY <1>1
<1>7. /\ DOMAIN packages = DOMAIN db.packages /\ packages[r.id] = x
      /\ \A p \in DOMAIN db.packages \ {r.id} : packages[p] = db.packages[p]
  BY <1>1
<1> HIDE DEF docs, packages
<1>8. DocsListed(docs, packages) /\ PackagesGood(docs, packages)
  <2>1. DocsListed(db.docs, db.packages) /\ PackagesGood(db.docs, db.packages)
    BY DEF KnowledgeData
  <2>2. /\ \A p \in DOMAIN packages : PackageRow(packages[p])
        /\ \A p \in DOMAIN packages \ {r.id} :
              p \in DOMAIN db.packages /\ packages[p].documentIds = db.packages[p].documentIds
        /\ packages[r.id].documentIds
              = (IF r.id \in DOMAIN db.packages THEN db.packages[r.id].documentIds ELSE {}) \cup {r.arg}
    BY <1>1, <1>2, <1>7, <2>1 DEF PackagesGood, ids
  <2> QED BY <1>1, <1>3, <1>6, <1>7, <2>1, <2>2, DocListed
<1>9. BindingsGood(db.bindings, packages)
  <2>1. \A p \in DOMAIN db.packages : p \in DOMAIN packages /\ packages[p].versions = db.packages[p].versions
    BY <1>2, <1>7
  <2> QED BY <2>1, BindingsStay DEF KnowledgeData, BindingsGood
<1> QED BY <1>5, <1>7, <1>8, <1>9 DEF KnowledgeData

LEMMA ProcessKeeps ==
    ASSUME KnowledgeData(db), NEW r, Knowledge!process(r), db' # db
    PROVE  KnowledgeData(db') /\ DOMAIN db'.packages = DOMAIN db.packages
<1> DEFINE x == [db.packages[r.id] EXCEPT !.status = "review"]
           packages == [db.packages EXCEPT ![r.id] = x]
           jobs == Knowledge!Unshifted(db.jobs, r.id, "running")
           first == [db EXCEPT !.packages = packages]
<1>1. /\ r.id \in DOMAIN db.packages
      /\ db' = [first EXCEPT !.jobs = jobs]
  BY DEF Knowledge!process, Knowledge!Handle, Knowledge!OnPackage
<1>2. PackageRow(x) /\ x.documentIds = db.packages[r.id].documentIds /\ x.versions = db.packages[r.id].versions
  <2>1. PackageRow(db.packages[r.id])
    BY <1>1 DEF KnowledgeData, PackagesGood
  <2> QED BY <2>1, StatusWritten
<1> HIDE DEF x, jobs
<1>3. /\ DOMAIN packages = DOMAIN db.packages /\ packages[r.id] = x
      /\ \A p \in DOMAIN db.packages \ {r.id} : packages[p] = db.packages[p]
  BY <1>1
<1> HIDE DEF packages
<1>4. KnowledgeShape(db') /\ db'.docs = db.docs /\ db'.packages = packages /\ db'.bindings = db.bindings
  <2>1. first = [docs |-> db.docs, packages |-> packages, bindings |-> db.bindings, profiles |-> db.profiles,
                 evaluations |-> db.evaluations, jobs |-> db.jobs, timers |-> db.timers, sources |-> db.sources,
                 versionRetention |-> db.versionRetention]
    BY DEF KnowledgeData, KnowledgeShape
  <2> HIDE DEF first
  <2> QED BY <1>1, <2>1 DEF KnowledgeShape
<1>5. \A p \in DOMAIN db.packages : /\ packages[p].documentIds = db.packages[p].documentIds
                                    /\ packages[p].versions = db.packages[p].versions
  BY <1>2, <1>3
<1>6. DocsListed(db.docs, packages)
  BY Zenon, <1>3, <1>5 DEF KnowledgeData, DocsListed
<1>7. PackagesGood(db.docs, packages)
  BY <1>2, <1>3, <1>5 DEF KnowledgeData, PackagesGood
<1>8. BindingsGood(db.bindings, packages)
  BY <1>3, <1>5 DEF KnowledgeData, BindingsGood
<1> QED BY <1>3, <1>4, <1>6, <1>7, <1>8 DEF KnowledgeData

\* What a package lists when it is published: what it listed, and documents there are.
LEMMA MembersListed ==
    ASSUME KnowledgeData(db), NEW p \in DOMAIN db.packages
    PROVE  /\ db.packages[p].documentIds \subseteq Knowledge!Members(p)
           /\ Knowledge!Members(p) \subseteq DOMAIN db.docs
<1>1. db.packages[p].documentIds \subseteq DOMAIN db.docs
  BY DEF KnowledgeData, PackagesGood
<1> QED BY <1>1 DEF Knowledge!Members

LEMMA PublishKeeps ==
    ASSUME KnowledgeData(db), NEW r, Knowledge!publish(r), db' # db
    PROVE  KnowledgeData(db') /\ DOMAIN db'.packages = DOMAIN db.packages
<1> DEFINE old == db.packages[r.id]
           ids == Knowledge!Members(r.id)
           versions == <<"published", "deprecated">> \o Tail(old.versions)
           ready == Knowledge!Publishable(r.id)
           docs == [d \in DOMAIN db.docs |-> IF d \in ready THEN [db.docs[d] EXCEPT !.status = "published"]
                                                            ELSE db.docs[d]]
           status == [old EXCEPT !.status = "published"]
           listed == [status EXCEPT !.documentIds = ids]
           x == [listed EXCEPT !.versions = versions]
           packages == [db.packages EXCEPT ![r.id] = x]
           first == [db EXCEPT !.packages = packages]
<1>1. /\ r.id \in DOMAIN db.packages
      /\ db' = [db EXCEPT !.packages[r.id].status = "published", !.packages[r.id].documentIds = ids,
                          !.packages[r.id].versions = versions, !.docs = docs]
  BY DEF Knowledge!publish, Knowledge!Handle, Knowledge!OnPackage
<1>2. old.documentIds \subseteq ids /\ ids \subseteq DOMAIN db.docs
  BY <1>1, MembersListed
<1> HIDE DEF ids
<1>3. PackageRow(old)
  BY <1>1 DEF KnowledgeData, PackagesGood
<1>4. /\ \E T : versions \in Seq(T)
      /\ versions # <<>>
      /\ \A i \in DOMAIN versions : versions[i] = "published" => i = 1
      /\ \A n : OnRecord(old.versions, n) => OnRecord(versions, n)
  <2>1. PICK S : old.versions \in Seq(S)
    BY <1>3 DEF PackageRow
  <2>2. old.versions # <<>> /\ \A i \in DOMAIN old.versions : old.versions[i] = "published" => i = 1
    BY <1>3 DEF PackageRow
  <2> HIDE DEF old
  <2> QED BY <2>1, <2>2, VersionReplaced
<1> HIDE DEF versions
<1>5. PackageRow(x) /\ x.documentIds = ids /\ x.versions = versions
  <2>1. PICK a, l, c, v : old = [status |-> a, documentIds |-> l, consumers |-> c, versions |-> v]
    BY <1>3 DEF PackageRow
  <2>2. status = [status |-> "published", documentIds |-> l, consumers |-> c, versions |-> v]
    BY <2>1
  <2> HIDE DEF status
  <2>3. listed = [status |-> "published", documentIds |-> ids, consumers |-> c, versions |-> v]
    BY <2>2
  <2> HIDE DEF listed
  <2>4. x = [status |-> "published", documentIds |-> ids, consumers |-> c, versions |-> versions]
    BY <2>3
  <2> HIDE DEF x
  <2>5. x.documentIds = ids /\ x.versions = versions
    BY <2>4
  <2> QED BY <1>4, <2>4, <2>5 DEF PackageRow
<1>6. db' = [first EXCEPT !.docs = docs]
  <2> HIDE DEF docs
  <2> QED BY <1>1, <1>2
<1>7. \A k \in DOMAIN db.docs : DocRow(docs[k]) /\ docs[k].packageId = db.docs[k].packageId
  <2> SUFFICES ASSUME NEW k \in DOMAIN db.docs PROVE DocRow(docs[k]) /\ docs[k].packageId = db.docs[k].packageId
    OBVIOUS
  <2>1. DocRow(db.docs[k])
    BY Zenon DEF KnowledgeData, DocsListed
  <2>2. docs[k] = db.docs[k] \/ docs[k] = [db.docs[k] EXCEPT !.status = "published"]
    OBVIOUS
  <2>3. ASSUME NEW written, docs[k] = [db.docs[k] EXCEPT !.status = written]
        PROVE  DocRow(docs[k]) /\ docs[k].packageId = db.docs[k].packageId
    <3> HIDE DEF docs
    <3> QED BY <2>1, <2>3, StatusOfDoc
  <2> HIDE DEF docs
  <2> QED BY <2>1, <2>2, <2>3
<1>8. DOMAIN docs = DOMAIN db.docs
  OBVIOUS
<1> HIDE DEF docs
<1>9. /\ DOMAIN packages = DOMAIN db.packages /\ packages[r.id] = x
      /\ \A p \in DOMAIN db.packages \ {r.id} : packages[p] = db.packages[p]
  BY <1>1
<1> HIDE DEF x, packages
<1>10. KnowledgeShape(db') /\ db'.docs = docs /\ db'.packages = packages /\ db'.bindings = db.bindings
  <2>1. first = [docs |-> db.docs, packages |-> packages, bindings |-> db.bindings, profiles |-> db.profiles,
                 evaluations |-> db.evaluations, jobs |-> db.jobs, timers |-> db.timers, sources |-> db.sources,
                 versionRetention |-> db.versionRetention]
    BY DEF KnowledgeData, KnowledgeShape
  <2> HIDE DEF first
  <2> QED BY <1>6, <2>1 DEF KnowledgeShape
<1>11. \A p \in DOMAIN db.packages : /\ PackageRow(packages[p])
                                     /\ db.packages[p].documentIds \subseteq packages[p].documentIds
                                     /\ packages[p].documentIds \subseteq DOMAIN db.docs
  BY <1>2, <1>5, <1>9 DEF KnowledgeData, PackagesGood
<1>12. DocsListed(docs, packages)
  BY Zenon, <1>7, <1>8, <1>9, <1>11 DEF KnowledgeData, DocsListed
<1>13. PackagesGood(docs, packages)
  BY <1>8, <1>9, <1>11 DEF KnowledgeData, PackagesGood
<1>14. BindingsGood(db.bindings, packages)
  <2> SUFFICES ASSUME NEW b \in db.bindings
               PROVE  /\ b.packageId \in DOMAIN packages
                      /\ b.lock = "current" => OnRecord(packages[b.packageId].versions, b.version)
    BY DEF BindingsGood
  <2>1. /\ b.packageId \in DOMAIN db.packages
        /\ b.lock = "current" => OnRecord(db.packages[b.packageId].versions, b.version)
    BY DEF KnowledgeData, BindingsGood
  <2>2. CASE b.packageId = r.id
    BY <1>4, <1>5, <1>9, <2>1, <2>2
  <2>3. CASE b.packageId # r.id
    BY <1>9, <2>1, <2>3
  <2> QED BY <2>2, <2>3
<1> QED BY <1>9, <1>10, <1>12, <1>13, <1>14 DEF KnowledgeData

\* What no document names and nothing is bound to is deleted.
LEMMA DeletePackageKeeps ==
    ASSUME KnowledgeData(db), NEW r, Knowledge!deletePackage(r), db' # db
    PROVE  KnowledgeData(db') /\ DOMAIN db'.packages = DOMAIN db.packages \ {r.id}
<1> DEFINE packages == [p \in DOMAIN db.packages \ {r.id} |-> db.packages[p]]
           docs == [d \in DOMAIN db.docs |-> IF db.docs[d].packageId = r.id
                                             THEN [db.docs[d] EXCEPT !.packageId = ""] ELSE db.docs[d]]
           jobs == [p \in DOMAIN db.jobs \ {r.id} |-> db.jobs[p]]
           profiles == db.profiles \ {r.id}
           evaluations == [p \in DOMAIN db.evaluations \ {r.id} |-> db.evaluations[p]]
           first == [db EXCEPT !.packages = packages]
           second == [first EXCEPT !.docs = docs]
           third == [second EXCEPT !.jobs = jobs]
           fourth == [third EXCEPT !.profiles = profiles]
<1>1. /\ \A b \in db.bindings : b.packageId # r.id
      /\ db' = [db EXCEPT !.packages = packages, !.docs = docs, !.jobs = jobs, !.profiles = profiles,
                          !.evaluations = evaluations]
  BY DEF Knowledge!deletePackage, Knowledge!Handle, Knowledge!NoPackage, Knowledge!NoArg
<1>2. KnowledgeShape(db') /\ db'.docs = docs /\ db'.packages = packages /\ db'.bindings = db.bindings
  <2> HIDE DEF packages, docs, jobs, profiles, evaluations
  <2>1. db' = [fourth EXCEPT !.evaluations = evaluations]
    BY <1>1
  <2>2. first = [docs |-> db.docs, packages |-> packages, bindings |-> db.bindings, profiles |-> db.profiles,
                 evaluations |-> db.evaluations, jobs |-> db.jobs, timers |-> db.timers, sources |-> db.sources,
                 versionRetention |-> db.versionRetention]
    BY DEF KnowledgeData, KnowledgeShape
  <2> HIDE DEF first
  <2>3. second = [docs |-> docs, packages |-> packages, bindings |-> db.bindings, profiles |-> db.profiles,
                  evaluations |-> db.evaluations, jobs |-> db.jobs, timers |-> db.timers, sources |-> db.sources,
                  versionRetention |-> db.versionRetention]
    BY <2>2
  <2> HIDE DEF second
  <2>4. third = [docs |-> docs, packages |-> packages, bindings |-> db.bindings, profiles |-> db.profiles,
                 evaluations |-> db.evaluations, jobs |-> jobs, timers |-> db.timers, sources |-> db.sources,
                 versionRetention |-> db.versionRetention]
    BY <2>3
  <2> HIDE DEF third
  <2>5. fourth = [docs |-> docs, packages |-> packages, bindings |-> db.bindings, profiles |-> profiles,
                  evaluations |-> db.evaluations, jobs |-> jobs, timers |-> db.timers, sources |-> db.sources,
                  versionRetention |-> db.versionRetention]
    BY <2>4
  <2> HIDE DEF fourth
  <2> QED BY <2>1, <2>5 DEF KnowledgeShape
<1>3. /\ DOMAIN packages = DOMAIN db.packages \ {r.id} /\ \A p \in DOMAIN packages : packages[p] = db.packages[p]
      /\ DOMAIN docs = DOMAIN db.docs
  OBVIOUS
<1> HIDE DEF packages
<1>4. ASSUME NEW k \in DOMAIN docs
      PROVE  DocRow(docs[k]) /\ docs[k].packageId = IF db.docs[k].packageId = r.id THEN "" ELSE db.docs[k].packageId
  <2>1. DocRow(db.docs[k])
    BY Zenon DEF KnowledgeData, DocsListed
  <2>2. ASSUME NEW p, docs[k] = [db.docs[k] EXCEPT !.packageId = p]
        PROVE  DocRow(docs[k]) /\ docs[k].packageId = p
    <3>1. PICK a, b : db.docs[k] = [status |-> a, packageId |-> b]
      BY <2>1 DEF DocRow
    <3> HIDE DEF docs
    <3>2. docs[k] = [status |-> a, packageId |-> p]
      BY <2>2, <3>1
    <3> QED BY <3>2 DEF DocRow
  <2>3. /\ db.docs[k].packageId = r.id => docs[k] = [db.docs[k] EXCEPT !.packageId = ""]
        /\ db.docs[k].packageId # r.id => docs[k] = db.docs[k]
    BY Zenon
  <2> HIDE DEF docs
  <2>4. CASE db.docs[k].packageId = r.id
    BY Zenon, <2>2, <2>3, <2>4
  <2>5. CASE db.docs[k].packageId # r.id
    BY Zenon, <2>1, <2>3, <2>5
  <2> QED BY Zenon, <2>4, <2>5
<1> HIDE DEF docs
<1>5. DocsListed(docs, packages)
  <2> SUFFICES ASSUME NEW k \in DOMAIN docs, docs[k].packageId # ""
               PROVE  docs[k].packageId \in DOMAIN packages /\ k \in packages[docs[k].packageId].documentIds
    BY Zenon, <1>4 DEF DocsListed
  <2>1. docs[k].packageId = db.docs[k].packageId /\ docs[k].packageId # r.id
    BY Zenon, <1>4
  <2> QED BY Zenon, <1>3, <2>1 DEF KnowledgeData, DocsListed
<1>6. PackagesGood(docs, packages)
  BY <1>3 DEF KnowledgeData, PackagesGood
<1>7. BindingsGood(db.bindings, packages)
  BY <1>1, <1>3 DEF KnowledgeData, BindingsGood
<1> QED BY <1>2, <1>3, <1>5, <1>6, <1>7 DEF KnowledgeData

\* What is bound is locked to the version in force.
LEMMA BindKeeps ==
    ASSUME KnowledgeData(db), NEW r, Knowledge!bind(r), db' # db
    PROVE  KnowledgeData(db') /\ DOMAIN db'.packages = DOMAIN db.packages
<1> DEFINE old == db.packages[r.id]
           x == [old EXCEPT !.consumers = old.consumers + 1]
           packages == [db.packages EXCEPT ![r.id] = x]
           new == Knowledge!boundVersion(r)
           bindings == db.bindings \cup {new}
           first == [db EXCEPT !.bindings = bindings]
<1>1. /\ r.id \in DOMAIN db.packages /\ Head(old.versions) = "published"
      /\ db' = [db EXCEPT !.bindings = bindings, !.packages[r.id].consumers = old.consumers + 1]
  BY DEF Knowledge!bind, Knowledge!Handle, Knowledge!OnPackage
<1>2. PackageRow(old)
  BY <1>1 DEF KnowledgeData, PackagesGood
<1>3. PackageRow(x) /\ x.documentIds = old.documentIds /\ x.versions = old.versions
  <2>1. PICK a, l, c, v : old = [status |-> a, documentIds |-> l, consumers |-> c, versions |-> v]
    BY <1>2 DEF PackageRow
  <2>2. x = [status |-> a, documentIds |-> l, consumers |-> c + 1, versions |-> v]
    BY <2>1
  <2>3. x.documentIds = old.documentIds /\ x.versions = old.versions
    BY <2>1, <2>2
  <2> HIDE DEF x
  <2> QED BY <1>2, <2>2, <2>3 DEF PackageRow
<1>4. OnRecord(old.versions, Len(old.versions))
  <2>1. PICK S : old.versions \in Seq(S)
    BY <1>2 DEF PackageRow
  <2>2. old.versions # <<>>
    BY <1>2 DEF PackageRow
  <2> DEFINE versions == old.versions
  <2> HIDE DEF versions
  <2>3. Len(versions) \in Nat /\ Len(versions) >= 1 /\ versions[1] = "published"
    BY <1>1, <2>1, <2>2, LenProperties, EmptySeq DEF versions
  <2>4. Len(versions) + 1 - Len(versions) = 1
    BY <2>3
  <2>5. OnRecord(versions, Len(versions))
    BY <2>3, <2>4 DEF OnRecord
  <2> QED BY <2>5 DEF versions
<1>5. db' = [first EXCEPT !.packages = packages]
  <2>1. first.packages = db.packages
    BY DEF KnowledgeData, KnowledgeShape
  <2> HIDE DEF bindings
  <2>2. db' = [first EXCEPT !.packages[r.id].consumers = old.consumers + 1]
    BY <1>1
  <2> HIDE DEF first
  <2> QED BY <2>1, <2>2
<1>6. new.packageId = r.id /\ (new.lock = "current" => new.version = Len(old.versions))
  BY DEF Knowledge!boundVersion
<1>7. /\ DOMAIN packages = DOMAIN db.packages /\ packages[r.id] = x
      /\ \A p \in DOMAIN db.packages \ {r.id} : packages[p] = db.packages[p]
  BY <1>1
<1> HIDE DEF packages, x, new
<1>8. KnowledgeShape(db') /\ db'.docs = db.docs /\ db'.packages = packages /\ db'.bindings = bindings
  <2> HIDE DEF bindings
  <2>1. first = [docs |-> db.docs, packages |-> db.packages, bindings |-> bindings, profiles |-> db.profiles,
                 evaluations |-> db.evaluations, jobs |-> db.jobs, timers |-> db.timers, sources |-> db.sources,
                 versionRetention |-> db.versionRetention]
    BY DEF KnowledgeData, KnowledgeShape
  <2> HIDE DEF first
  <2> QED BY <1>5, <2>1 DEF KnowledgeShape
<1>9. \A p \in DOMAIN db.packages : /\ PackageRow(packages[p])
                                    /\ packages[p].documentIds = db.packages[p].documentIds
                                    /\ packages[p].versions = db.packages[p].versions
  BY <1>3, <1>7 DEF KnowledgeData, PackagesGood
<1>10. DocsListed(db.docs, packages)
  BY Zenon, <1>7, <1>9 DEF KnowledgeData, DocsListed
<1>11. PackagesGood(db.docs, packages)
  BY <1>7, <1>9 DEF KnowledgeData, PackagesGood
<1>12. BindingsGood(bindings, packages)
  <2> SUFFICES ASSUME NEW b \in bindings
               PROVE  /\ b.packageId \in DOMAIN packages
                      /\ b.lock = "current" => OnRecord(packages[b.packageId].versions, b.version)
    BY DEF BindingsGood
  <2>1. CASE b = new
    BY <1>1, <1>3, <1>4, <1>6, <1>7, <2>1
  <2>2. CASE b \in db.bindings
    BY <1>7, <1>9, <2>2 DEF KnowledgeData, BindingsGood
  <2> QED BY <2>1, <2>2
<1> QED BY <1>7, <1>8, <1>10, <1>11, <1>12 DEF KnowledgeData

LEMMA KnowledgeRoutesKeep ==
    ASSUME KnowledgeData(db), NEW r, r.op = "createPackage" => r.id \notin DOMAIN db.packages,
           \/ Knowledge!uploadDoc(r) \/ Knowledge!deleteKnowledgeDocsByIds(r) \/ Knowledge!reindex(r)
           \/ Knowledge!createPackage(r) \/ Knowledge!attach(r) \/ Knowledge!publish(r) \/ Knowledge!process(r)
           \/ Knowledge!deletePackage(r) \/ Knowledge!retryJob(r) \/ Knowledge!runEvaluation(r) \/ Knowledge!bind(r)
           \/ Knowledge!createSource(r) \/ Knowledge!syncSource(r) \/ Knowledge!patchGovernance(r)
    PROVE  KnowledgeData(db') /\ DOMAIN db'.packages \subseteq PackagesOf(r)
<1>1. CASE db' = db
  BY <1>1 DEF PackagesOf
<1>2. CASE db' # db
  <2>1. CASE Knowledge!createPackage(r)
    <3>1. r.op = "createPackage"
      BY <2>1 DEF Knowledge!createPackage
    <3> QED BY <1>2, <2>1, <3>1, PackageCreateKeeps DEF PackagesOf
  <2>2. CASE Knowledge!uploadDoc(r)
    BY <1>2, <2>2, UploadKeeps DEF PackagesOf
  <2>3. CASE Knowledge!deletePackage(r)
    BY <1>2, <2>3, DeletePackageKeeps DEF PackagesOf
  <2>4. CASE Knowledge!deleteKnowledgeDocsByIds(r) \/ Knowledge!reindex(r)
    BY <1>2, <2>4, DeleteDocKeeps, ReindexKeeps DEF PackagesOf
  <2>5. CASE Knowledge!attach(r) \/ Knowledge!publish(r) \/ Knowledge!process(r) \/ Knowledge!bind(r)
    BY <1>2, <2>5, AttachKeeps, PublishKeeps, ProcessKeeps, BindKeeps DEF PackagesOf
  <2>6. CASE \/ Knowledge!retryJob(r) \/ Knowledge!runEvaluation(r) \/ Knowledge!createSource(r)
             \/ Knowledge!syncSource(r) \/ Knowledge!patchGovernance(r)
    BY <1>2, <2>6, AsideKeeps DEF PackagesOf
  <2> QED BY <2>1, <2>2, <2>3, <2>4, <2>5, <2>6
<1> QED BY <1>1, <1>2

LEMMA KnowledgeInit == Knowledge!Init => KnowledgeInv
<1> SUFFICES ASSUME Knowledge!Init PROVE KnowledgeInv
  OBVIOUS
<1> DEFINE k1 == [status |-> "ready", packageId |-> "runbook"]
           k8 == [status |-> "ready", packageId |-> "security"]
           Row(status, ids, n) == [status |-> status, documentIds |-> ids, consumers |-> n, versions |-> <<status>>]
           runbook == Row("published", {"k1"}, 1)
           security == Row("published", {"k8"}, 0)
           review == Row("review", {}, 0)
           bound == [packageId |-> "runbook", version |-> 1, lock |-> "current"]
<1>1. /\ KnowledgeShape(db) /\ db.docs = [k1 |-> k1, k8 |-> k8]
      /\ db.packages = [runbook |-> runbook, security |-> security, review |-> review]
      /\ db.bindings = {bound}
      /\ net = [out |-> Knowledge!EmptyBag, made |-> 0]
  BY DEF Knowledge!Init, Knowledge!mockKnowledgeDocs, Knowledge!mockKnowledgePackages, Knowledge!Package,
         Knowledge!mockKnowledgeBindings, Knowledge!NetInit, KnowledgeShape
<1>2. ASSUME NEW status, NEW ids, NEW n
      PROVE  PackageRow(Row(status, ids, n)) /\ Row(status, ids, n).documentIds = ids
             /\ Row(status, ids, n).versions = <<status>>
  <2> DEFINE x == Row(status, ids, n)
             one == <<status>>
  <2>1. one \in Seq({status}) /\ one # <<>> /\ \A i \in DOMAIN one : i = 1
    OBVIOUS
  <2>2. x = [status |-> status, documentIds |-> ids, consumers |-> n, versions |-> one]
    OBVIOUS
  <2> HIDE DEF x, one
  <2>3. x.documentIds = ids /\ x.versions = one
    BY <2>2
  <2>4. PackageRow(x)
    BY <2>1, <2>2, <2>3 DEF PackageRow
  <2> QED BY <2>3, <2>4 DEF x, one
<1>3. /\ PackageRow(runbook) /\ PackageRow(security) /\ PackageRow(review)
      /\ runbook.documentIds = {"k1"} /\ security.documentIds = {"k8"} /\ review.documentIds = {}
      /\ runbook.versions = <<"published">>
  <2> HIDE DEF Row
  <2> QED BY <1>2
<1>4. DocRow(k1) /\ DocRow(k8) /\ k1.packageId = "runbook" /\ k8.packageId = "security"
  BY DEF DocRow
<1>5. bound.packageId = "runbook" /\ bound.version = 1
  OBVIOUS
<1> HIDE DEF runbook, security, review, bound, k1, k8, Row
<1>6. /\ DOMAIN db.docs = {"k1", "k8"} /\ db.docs["k1"] = k1 /\ db.docs["k8"] = k8
      /\ DOMAIN db.packages = {"runbook", "security", "review"}
      /\ db.packages["runbook"] = runbook /\ db.packages["security"] = security /\ db.packages["review"] = review
  BY <1>1
<1>7. DocsListed(db.docs, db.packages)
  BY Zenon, <1>3, <1>4, <1>6 DEF DocsListed
<1>8. PackagesGood(db.docs, db.packages)
  BY <1>3, <1>6 DEF PackagesGood
<1>9. BindingsGood(db.bindings, db.packages)
  <2>1. OnRecord(<<"published">>, 1)
    BY DEF OnRecord
  <2> QED BY <1>1, <1>3, <1>5, <1>6, <2>1 DEF BindingsGood
<1>10. Knowledge!BagToSet(net.out) = {} /\ net = [out |-> net.out, made |-> net.made]
  BY <1>1 DEF Knowledge!BagToSet, Knowledge!EmptyBag, Knowledge!SetToBag
<1> QED BY <1>1, <1>7, <1>8, <1>9, <1>10 DEF KnowledgeInv, KnowledgeData, PackageOnce

\* A page creates a package under a name that is free and that nobody else asks for.
LEMMA KnowledgeOffers ==
    ASSUME NEW u, NEW r \in Knowledge!Offers(u), r.op = "createPackage"
    PROVE  /\ r.id \notin DOMAIN db.packages \cup {"default"}
           /\ \A q \in Knowledge!BagToSet(net.out) : q.id # r.id
<1>1. r \notin Knowledge!UploadDocModal(u) \cup Knowledge!Assets(u)
  BY DEF Knowledge!UploadDocModal, Knowledge!Assets, Knowledge!When, Knowledge!Req
<1>2. r \notin Knowledge!PackageWorkbench(u)
  <2>1. \A p \in DOMAIN db.packages : r \notin Knowledge!AttachDocsModal(u, p)
    BY DEF Knowledge!AttachDocsModal, Knowledge!Req
  <2>2. \A S : /\ r \notin {Knowledge!Req("process", u, p, Knowledge!NoArg, 0) : p \in S}
               /\ r \notin {Knowledge!Req("publish", u, p, Knowledge!NoArg, 0) : p \in S}
               /\ r \notin {Knowledge!Req("deletePackage", u, p, Knowledge!NoArg, 0) : p \in S}
    BY DEF Knowledge!Req
  <2> QED BY <2>1, <2>2, Zenon DEF Knowledge!PackageWorkbench
<1>3. r \notin Knowledge!ProcessingWorkbench(u) \cup Knowledge!ConnectSourceModal(u)
  BY DEF Knowledge!ProcessingWorkbench, Knowledge!ConnectSourceModal, Knowledge!When, Knowledge!Req
<1>4. r \notin Knowledge!EvaluationSection(u) \cup Knowledge!GovernanceSection(u) \cup Knowledge!PackageClients(u)
  <2>1. r \notin Knowledge!EvaluationSection(u) \cup Knowledge!GovernanceSection(u)
    BY DEF Knowledge!EvaluationSection, Knowledge!GovernanceSection, Knowledge!Req
  <2> DEFINE Named(p) == {Knowledge!Req("bind", u, p, "named", v) : v \in 1 .. Len(db.packages[p].versions) + 1}
             Plain == {Knowledge!Req(op, u, p, Knowledge!NoArg, 0) : op \in {"bind", "deletePackage"}, p \in DOMAIN db.packages}
  <2>2. \A p : r \notin Named(p)
    BY DEF Knowledge!Req
  <2>3. r \notin Plain
    BY DEF Knowledge!Req
  <2>4. Knowledge!PackageClients(u) = Plain \cup UNION {Named(p) : p \in db.profiles \cap DOMAIN db.packages}
    BY SMT DEF Knowledge!PackageClients
  <2> HIDE DEF Named, Plain
  <2> QED BY <2>1, <2>2, <2>3, <2>4
<1>5. r \in Knowledge!NewKnowledgePackageModal(u)
  BY <1>1, <1>2, <1>3, <1>4 DEF Knowledge!Offers, Knowledge!When
<1>6. r.id = "pNew" /\ Knowledge!Vacant("pNew", db.packages)
  BY <1>5 DEF Knowledge!NewKnowledgePackageModal, Knowledge!When, Knowledge!Req
<1> QED BY <1>6 DEF Knowledge!Vacant

LEMMA KnowledgeNext == KnowledgeInv /\ [Knowledge!Next]_(Knowledge!vars) => KnowledgeInv'
<1> SUFFICES ASSUME KnowledgeInv, [Knowledge!Next]_(Knowledge!vars) PROVE KnowledgeInv'
  OBVIOUS
<1> DEFINE out == Knowledge!BagToSet(net.out)
           Names == DOMAIN db.packages \cup {"default"}
<1>1. CASE UNCHANGED Knowledge!vars
  <2>1. db' = db /\ net' = net
    BY <1>1 DEF Knowledge!vars
  <2>2. KnowledgeData(db')
    BY <2>1 DEF KnowledgeInv
  <2>3. PackageOnce'
    BY <2>1 DEF KnowledgeInv, PackageOnce
  <2> QED BY <2>2, <2>3 DEF KnowledgeInv
<1>2. ASSUME NEW u, NEW r \in Knowledge!Offers(u), Knowledge!Ask(r) PROVE KnowledgeInv'
  <2>1. r.op = "createPackage" => r.id \notin Names /\ \A q \in out : q.id # r.id
    BY KnowledgeOffers
  <2> DEFINE B == Knowledge!(+)(net.out, Knowledge!SetToBag({r}))
  <2>2. net' = [out |-> B, made |-> net.made + 1] /\ db' = db
    BY <1>2 DEF Knowledge!Ask
  <2>3. B = [q \in DOMAIN net.out \cup {r} |->
                (IF q \in DOMAIN net.out THEN net.out[q] ELSE 0) + (IF q = r THEN 1 ELSE 0)]
    BY DEF Knowledge!(+), Knowledge!SetToBag
  <2> HIDE DEF B
  <2>4. /\ DOMAIN B = out \cup {r} /\ (\A q \in DOMAIN B \ {r} : net.out[q] = 1 => B[q] = 1)
        /\ r \notin out => B[r] = 1
    BY <2>3 DEF Knowledge!BagToSet
  <2>5. Knowledge!BagToSet(net'.out) = out \cup {r} /\ net'.out = B
    BY <2>2, <2>4 DEF Knowledge!BagToSet
  <2>6. PackageOnce'
    <3> SUFFICES ASSUME NEW q \in out \cup {r}, q.op = "createPackage"
                 PROVE  /\ q.id \notin Names /\ B[q] = 1
                        /\ \A p \in out \cup {r} : p.op = "createPackage" /\ p.id = q.id => p = q
      BY <2>2, <2>5 DEF PackageOnce
    <3>1. CASE q = r
      BY <2>1, <2>4, <3>1
    <3>2. CASE q # r
      BY <2>1, <2>4, <3>2 DEF KnowledgeInv, PackageOnce
    <3> QED BY <3>1, <3>2
  <2>7. KnowledgeData(db')
    BY <2>2 DEF KnowledgeInv
  <2> QED BY <2>6, <2>7 DEF KnowledgeInv
<1>3. CASE Knowledge!Indexed
  <2>1. net' = net
    BY <1>3 DEF Knowledge!Indexed
  <2>2. KnowledgeData(db') /\ DOMAIN db'.packages = DOMAIN db.packages
    BY <1>3, ReindexKeeps DEF KnowledgeInv
  <2>3. PackageOnce'
    BY <2>1, <2>2 DEF KnowledgeInv, PackageOnce
  <2> QED BY <2>2, <2>3 DEF KnowledgeInv
<1>4. ASSUME NEW r \in out, Knowledge!Arrives(r),
             \/ Knowledge!uploadDoc(r) \/ Knowledge!deleteKnowledgeDocsByIds(r) \/ Knowledge!reindex(r)
             \/ Knowledge!createPackage(r) \/ Knowledge!attach(r) \/ Knowledge!publish(r) \/ Knowledge!process(r)
             \/ Knowledge!deletePackage(r) \/ Knowledge!retryJob(r) \/ Knowledge!runEvaluation(r) \/ Knowledge!bind(r)
             \/ Knowledge!createSource(r) \/ Knowledge!syncSource(r) \/ Knowledge!patchGovernance(r)
      PROVE  KnowledgeInv'
  <2>1. r.op = "createPackage" => r.id \notin Names /\ net.out[r] = 1
    BY DEF KnowledgeInv, PackageOnce
  <2>2. KnowledgeData(db') /\ DOMAIN db'.packages \subseteq Names \cup {id \in {r.id} : r.op = "createPackage"}
    <3>1. KnowledgeData(db) /\ (r.op = "createPackage" => r.id \notin DOMAIN db.packages)
      BY <2>1 DEF KnowledgeInv
    <3>2. KnowledgeData(db') /\ DOMAIN db'.packages \subseteq PackagesOf(r)
      BY <1>4, <3>1, KnowledgeRoutesKeep
    <3> QED BY <3>2 DEF PackagesOf
  <2> DEFINE C == [q \in DOMAIN net.out |-> IF q \in {r} THEN net.out[q] - 1 ELSE net.out[q]]
             B == Knowledge!(-)(net.out, Knowledge!SetToBag({r}))
  <2>3. net' = [out |-> B, made |-> net.made]
    BY <1>4 DEF Knowledge!Arrives, KnowledgeInv, PackageOnce
  <2>4. B = [q \in {d \in DOMAIN C : C[d] > 0} |-> C[q]]
    BY DEF Knowledge!(-), Knowledge!SetToBag
  <2> HIDE DEF B
  <2>5. DOMAIN B \subseteq out /\ (\A q \in DOMAIN B \ {r} : B[q] = net.out[q]) /\ \A q \in DOMAIN B : C[q] > 0
    BY <2>4 DEF Knowledge!BagToSet
  <2>6. Knowledge!BagToSet(net'.out) = DOMAIN B /\ net'.out = B
    BY <2>3 DEF Knowledge!BagToSet
  <2>7. r.op = "createPackage" => r \notin DOMAIN B
    <3> SUFFICES ASSUME r.op = "createPackage", r \in DOMAIN B PROVE FALSE
      OBVIOUS
    <3>1. r \in DOMAIN net.out /\ C[r] > 0
      BY <2>5 DEF Knowledge!BagToSet
    <3>2. C[r] = 0
      BY <2>1, <3>1
    <3> QED BY <3>1, <3>2
  <2>8. PackageOnce'
    <3> SUFFICES ASSUME NEW q \in DOMAIN B, q.op = "createPackage"
                 PROVE  /\ q.id \notin DOMAIN db'.packages \cup {"default"} /\ B[q] = 1
                        /\ \A p \in DOMAIN B : p.op = "createPackage" /\ p.id = q.id => p = q
      BY <2>3, <2>6 DEF PackageOnce
    <3>1. /\ q # r /\ q \in out /\ q.id \notin Names /\ net.out[q] = 1
          /\ \A p \in out : p.op = "createPackage" /\ p.id = q.id => p = q
      BY <2>5, <2>7 DEF KnowledgeInv, PackageOnce
    <3>2. r.op = "createPackage" => r.id # q.id
      BY <3>1
    <3> QED BY <2>2, <2>5, <3>1, <3>2
  <2> QED BY <2>2, <2>8 DEF KnowledgeInv
<1> QED BY <1>1, <1>2, <1>3, <1>4 DEF Knowledge!Next

LEMMA KnowledgeHolds == KnowledgeInv => Knowledge!BindingsKept /\ Knowledge!MembershipMirrors
<1> SUFFICES ASSUME KnowledgeInv PROVE Knowledge!BindingsKept /\ Knowledge!MembershipMirrors
  OBVIOUS
<1>1. DocsListed(db.docs, db.packages) /\ PackagesGood(db.docs, db.packages) /\ BindingsGood(db.bindings, db.packages)
  BY DEF KnowledgeInv, KnowledgeData
<1>2. Knowledge!BindingsKept
  BY <1>1 DEF BindingsGood, OnRecord, PackagesGood, PackageRow, Knowledge!BindingsKept
<1>3. Knowledge!MembershipMirrors
  BY Zenon, <1>1 DEF DocsListed, PackagesGood, Knowledge!MembershipMirrors, Knowledge!NoPackage, Knowledge!NoArg
<1> QED BY <1>2, <1>3

\* What the server locked a consumer to is a version that went on line and whose
\* package stays, whatever versions other clients name, and documents and packages
\* name each other, though uploads, attachments, publications and removals
\* overtake each other and a timer ends when its documents may be gone.
THEOREM KnowledgeStaysBound ==
    Knowledge!Init /\ [][Knowledge!Next]_(Knowledge!vars) => [](Knowledge!BindingsKept /\ Knowledge!MembershipMirrors)
BY KnowledgeInit, KnowledgeNext, KnowledgeHolds, PTL

-----------------------------------------------------------------------------
(* Skills. *)

Skills == INSTANCE SkillDomain WITH Actors <- {"u1"}

AssetRow(x) ==
    x = [high |-> x.high, life |-> x.life, version |-> x.version, cleared |-> x.cleared, origin |-> x.origin]

\* Nobody has to answer for the skill, or nobody is asked to.
Vouched(x) == AssetRow(x) /\ (x.cleared \/ x.origin \in {"import", "create"})

SkillsShape(d) ==
    d = [skills |-> d.skills, asset |-> d.asset, perms |-> d.perms, catalog |-> d.catalog, health |-> d.health,
         integrations |-> d.integrations, bindings |-> d.bindings, log |-> d.log]

\* The skills that are vouched for, and the list, which holds no other.
ClearedIds(asset) == {id \in DOMAIN asset : Vouched(asset[id])}

ListCleared(skills, asset) == skills \in Seq(ClearedIds(asset))

SkillsInv == SkillsShape(db) /\ ListCleared(db.skills, db.asset)

\* The tables beside the list and its rows.
LEMMA SkillsBeside ==
    ASSUME SkillsInv, NEW d, SkillsShape(d), d.skills = db.skills, d.asset = db.asset, NEW r,
           db' = Skills!Logged(d, r)
    PROVE  SkillsInv'
<1> DEFINE e == [op |-> r.op, by |-> r.by, id |-> r.id, arg |-> r.arg]
           log == Append(d.log, e)
<1>1. db' = [d EXCEPT !.log = log]
  BY DEF Skills!Logged
<1> HIDE DEF log
<1>2. SkillsShape(db') /\ db'.skills = d.skills /\ db'.asset = d.asset
  BY <1>1 DEF SkillsShape
<1> QED BY <1>2 DEF SkillsInv

\* A skill that is vouched for goes in front.
LEMMA SkillAddedKeeps ==
    ASSUME SkillsInv, NEW x, Vouched(x)
    PROVE  SkillsShape(Skills!Added(db, x)) /\ ListCleared(Skills!Added(db, x).skills, Skills!Added(db, x).asset)
<1> DEFINE id == Skills!NewId
           one == <<id>>
           skills == one \o db.skills
           asset == Skills!Unshifted(db.asset, id, x)
           perms == db.perms \cup {id}
           d == Skills!Added(db, x)
           first == [db EXCEPT !.skills = skills]
           second == [first EXCEPT !.asset = asset]
<1>1. SkillsShape(d) /\ d.skills = skills /\ d.asset = asset
  <2>1. d = [second EXCEPT !.perms = perms]
    BY DEF Skills!Added
  <2> HIDE DEF d, skills, asset, perms
  <2>2. first = [skills |-> skills, asset |-> db.asset, perms |-> db.perms, catalog |-> db.catalog,
                 health |-> db.health, integrations |-> db.integrations, bindings |-> db.bindings, log |-> db.log]
    BY DEF SkillsInv, SkillsShape
  <2> HIDE DEF first
  <2>3. second = [skills |-> skills, asset |-> asset, perms |-> db.perms, catalog |-> db.catalog,
                  health |-> db.health, integrations |-> db.integrations, bindings |-> db.bindings, log |-> db.log]
    BY <2>2
  <2> HIDE DEF second
  <2> QED BY <2>1, <2>3 DEF SkillsShape
<1> HIDE DEF id
<1>2. /\ DOMAIN asset = DOMAIN db.asset \cup {id} /\ asset[id] = x
      /\ \A i \in DOMAIN db.asset \ {id} : asset[i] = db.asset[i]
  BY DEF Skills!Unshifted
<1> HIDE DEF asset
<1>3. ClearedIds(db.asset) \subseteq ClearedIds(asset) /\ id \in ClearedIds(asset)
  BY <1>2 DEF ClearedIds
<1>4. skills \in Seq(ClearedIds(asset))
  <2>1. db.skills \in Seq(ClearedIds(asset))
    BY <1>3, SeqMonotonic DEF SkillsInv, ListCleared
  <2>2. one \in Seq(ClearedIds(asset))
    BY <1>3
  <2> HIDE DEF one
  <2> QED BY <2>1, <2>2, ConcatProperties
<1> HIDE DEF d
<1>5. SkillsShape(d) /\ ListCleared(d.skills, d.asset)
  BY <1>1, <1>4 DEF ListCleared
<1> QED BY <1>5 DEF d

LEMMA SkillsStoreKeep ==
    ASSUME SkillsInv, NEW r, db' # db,
           \/ Skills!install(r) \/ Skills!skillsCreate(r) \/ Skills!skillsImport(r)
           \/ Skills!importPackage(r) \/ Skills!mcpConnections(r)
    PROVE  SkillsInv'
<1>1. ASSUME NEW high, NEW cleared, NEW origin, cleared \/ origin \in {"import", "create"}
      PROVE  Vouched(Skills!skillAsset(high, cleared, origin))
  <2> DEFINE x == Skills!skillAsset(high, cleared, origin)
             life == "enabled"
  <2>1. x = [high |-> high, life |-> life, version |-> 1, cleared |-> cleared, origin |-> origin]
    BY DEF Skills!skillAsset
  <2> HIDE DEF x, life
  <2>2. AssetRow(x) /\ x.cleared = cleared /\ x.origin = origin
    BY <2>1 DEF AssetRow
  <2>3. Vouched(x)
    BY <1>1, <2>2 DEF Vouched
  <2> QED BY <2>3 DEF x
<1>2. ASSUME NEW x, Vouched(x), NEW integrations,
             \/ db' = Skills!Logged(Skills!Added(db, x), r)
             \/ db' = Skills!Logged([Skills!Added(db, x) EXCEPT !.integrations = integrations], r)
      PROVE  SkillsInv'
  <2> DEFINE d == Skills!Added(db, x)
             e == [d EXCEPT !.integrations = integrations]
             event == [op |-> r.op, by |-> r.by, id |-> r.id, arg |-> r.arg]
  <2>1. SkillsShape(d) /\ ListCleared(d.skills, d.asset)
    BY <1>2, SkillAddedKeeps
  <2> HIDE DEF d
  <2>2. SkillsShape(e) /\ e.skills = d.skills /\ e.asset = d.asset
    BY <2>1 DEF SkillsShape
  <2> HIDE DEF e
  <2>3. \E f \in {d, e} : \E log : db' = [f EXCEPT !.log = log]
    <3>1. db' = Skills!Logged(d, r) \/ db' = Skills!Logged(e, r)
      BY <1>2 DEF d, e
    <3>2. \A f : Skills!Logged(f, r) = [f EXCEPT !.log = Append(f.log, event)]
      BY DEF Skills!Logged
    <3> HIDE DEF event
    <3> QED BY <3>1, <3>2
  <2>4. SkillsShape(db') /\ db'.skills = d.skills /\ db'.asset = d.asset
    BY <2>1, <2>2, <2>3 DEF SkillsShape
  <2> QED BY <2>1, <2>4 DEF SkillsInv
<1>3. CASE Skills!install(r)
  <2> DEFINE e == db.catalog[r.id]
             cleared == ~Skills!needsApproval(e) \/ r.arg = "ticket"
             store == "store"
             x == Skills!skillAsset(e.high, cleared, store)
  <2>1. db' = Skills!Logged(Skills!Added(db, x), r) /\ cleared
    BY <1>3, Zenon DEF Skills!install, Skills!Handle
  <2> HIDE DEF cleared, store
  <2>2. Vouched(x)
    BY <1>1, <2>1
  <2> HIDE DEF x
  <2> QED BY <1>2, <2>1, <2>2
<1>4. CASE Skills!skillsCreate(r)
  <2> DEFINE high == r.arg = "high"
             cleared == r.arg # "high"
             x == Skills!skillAsset(high, cleared, "create")
  <2>1. db' = Skills!Logged(Skills!Added(db, x), r)
    BY <1>4, Zenon DEF Skills!skillsCreate, Skills!Handle
  <2> HIDE DEF high, cleared
  <2>2. Vouched(x)
    BY <1>1
  <2> HIDE DEF x
  <2> QED BY <1>2, <2>1, <2>2
<1>5. CASE Skills!skillsImport(r)
  <2> DEFINE high == r.arg = "high"
             cleared == r.arg # "high"
             x == Skills!skillAsset(high, cleared, "import")
  <2>1. \E integrations : db' = Skills!Logged([Skills!Added(db, x) EXCEPT !.integrations = integrations], r)
    BY <1>5, Zenon DEF Skills!skillsImport, Skills!Handle
  <2> HIDE DEF high, cleared
  <2>2. Vouched(x)
    BY <1>1
  <2> HIDE DEF x
  <2> QED BY <1>2, <2>1, <2>2
<1>6. ASSUME Skills!importPackage(r) \/ Skills!mcpConnections(r)
      PROVE  SkillsInv'
  <2> DEFINE x == Skills!skillAsset(FALSE, TRUE, "package")
             y == Skills!skillAsset(FALSE, TRUE, "connection")
  <2>1. \/ \E integrations : db' = Skills!Logged([Skills!Added(db, x) EXCEPT !.integrations = integrations], r)
        \/ \E integrations : db' = Skills!Logged([Skills!Added(db, y) EXCEPT !.integrations = integrations], r)
    <3>1. CASE Skills!importPackage(r)
      BY <3>1, Zenon DEF Skills!importPackage, Skills!Handle
    <3>2. CASE Skills!mcpConnections(r)
      BY <3>2, Zenon DEF Skills!mcpConnections, Skills!Handle
    <3> QED BY <1>6, <3>1, <3>2
  <2>2. Vouched(x) /\ Vouched(y)
    BY <1>1
  <2> HIDE DEF x, y
  <2> QED BY <1>2, <2>1, <2>2
<1> QED BY <1>3, <1>4, <1>5, <1>6

\* The last of the list goes, whichever was asked for.
LEMMA UninstallKeeps ==
    ASSUME SkillsInv, NEW r, db' # db, Skills!uninstall(r)
    PROVE  SkillsInv'
<1> DEFINE skills == Skills!Front(db.skills)
           perms == db.perms \ {r.id}
           first == [db EXCEPT !.skills = skills]
           d == [first EXCEPT !.perms = perms]
<1>1. /\ r.id \in {db.skills[i] : i \in DOMAIN db.skills}
      /\ db' = Skills!Logged([db EXCEPT !.skills = skills, !.perms = perms], r)
  BY DEF Skills!uninstall, Skills!Handle, Skills!Present, Skills!installed, Skills!Range
<1>2. skills \in Seq(ClearedIds(db.asset))
  <2>1. db.skills \in Seq(ClearedIds(db.asset)) /\ DOMAIN db.skills = 1 .. Len(db.skills)
    BY LenProperties DEF SkillsInv, ListCleared
  <2>2. db.skills # <<>>
    BY <1>1
  <2>3. \A i \in 1 .. Len(db.skills) - 1 : db.skills[i] \in ClearedIds(db.asset)
    BY <2>1, ElementOfSeq
  <2>4. SubSeq(db.skills, 1, Len(db.skills) - 1) \in Seq(ClearedIds(db.asset))
    BY <2>1, <2>2, <2>3, SubSeqProperties, LenProperties
  <2> QED BY <2>4 DEF Skills!Front
<1> HIDE DEF skills, perms
<1>3. db' = Skills!Logged(d, r)
  BY <1>1
<1>4. SkillsShape(d) /\ d.skills = skills /\ d.asset = db.asset
  <2>1. first = [skills |-> skills, asset |-> db.asset, perms |-> db.perms, catalog |-> db.catalog,
                 health |-> db.health, integrations |-> db.integrations, bindings |-> db.bindings, log |-> db.log]
    BY DEF SkillsInv, SkillsShape
  <2> HIDE DEF first
  <2> QED BY <2>1 DEF SkillsShape
<1> HIDE DEF d
<1> DEFINE event == [op |-> r.op, by |-> r.by, id |-> r.id, arg |-> r.arg]
           log == Append(d.log, event)
<1>5. db' = [d EXCEPT !.log = log]
  BY <1>3 DEF Skills!Logged
<1> HIDE DEF log
<1>6. SkillsShape(db') /\ db'.skills = skills /\ db'.asset = db.asset
  BY <1>4, <1>5 DEF SkillsShape
<1> QED BY <1>2, <1>6 DEF SkillsInv, ListCleared

\* A new version or another life leaves a skill vouched for.
LEMMA SkillWritten ==
    ASSUME SkillsInv, NEW r, db' # db, Skills!upgrade(r) \/ Skills!lifecycle(r)
    PROVE  SkillsInv'
<1> DEFINE old == db.asset[r.id]
<1>1. ASSUME NEW x, NEW asset, asset = [db.asset EXCEPT ![r.id] = x],
             AssetRow(x), x.cleared = old.cleared, x.origin = old.origin,
             db' = Skills!Logged([db EXCEPT !.asset = asset], r)
      PROVE  SkillsInv'
  <2> DEFINE d == [db EXCEPT !.asset = asset]
             event == [op |-> r.op, by |-> r.by, id |-> r.id, arg |-> r.arg]
             log == Append(d.log, event)
  <2>1. SkillsShape(d) /\ d.skills = db.skills /\ d.asset = asset
    BY DEF SkillsInv, SkillsShape
  <2>2. db' = [d EXCEPT !.log = log]
    BY <1>1 DEF Skills!Logged
  <2> HIDE DEF d, log
  <2>3. SkillsShape(db') /\ db'.skills = db.skills /\ db'.asset = asset
    BY <2>1, <2>2 DEF SkillsShape
  <2>4. ClearedIds(db.asset) \subseteq ClearedIds(asset)
    BY <1>1 DEF ClearedIds, Vouched
  <2>5. db.skills \in Seq(ClearedIds(asset))
    BY <2>4, SeqMonotonic DEF SkillsInv, ListCleared
  <2> QED BY <2>3, <2>5 DEF SkillsInv, ListCleared
<1>2. r.id \in DOMAIN db.asset /\ AssetRow(old)
  <2>1. r.id \in {db.skills[i] : i \in DOMAIN db.skills}
    BY DEF Skills!upgrade, Skills!lifecycle, Skills!Handle, Skills!Present, Skills!installed, Skills!Range
  <2>2. \A i \in DOMAIN db.skills : db.skills[i] \in ClearedIds(db.asset)
    BY ElementOfSeq, LenProperties DEF SkillsInv, ListCleared
  <2> QED BY <2>1, <2>2 DEF ClearedIds, Vouched
<1>3. PICK h, l, v, c, o : old = [high |-> h, life |-> l, version |-> v, cleared |-> c, origin |-> o]
  BY <1>2 DEF AssetRow
<1>4. CASE Skills!upgrade(r)
  <2> DEFINE x == [old EXCEPT !.version = old.version + 1]
             asset == [db.asset EXCEPT ![r.id] = x]
  <2>1. db' = Skills!Logged([db EXCEPT !.asset = asset], r)
    BY <1>4 DEF Skills!upgrade, Skills!Handle
  <2>2. x = [high |-> h, life |-> l, version |-> old.version + 1, cleared |-> c, origin |-> o]
    BY <1>3
  <2> HIDE DEF x
  <2>3. AssetRow(x) /\ x.cleared = old.cleared /\ x.origin = old.origin
    BY <1>3, <2>2 DEF AssetRow
  <2> QED BY <1>1, <2>1, <2>3
<1>5. CASE Skills!lifecycle(r)
  <2> DEFINE x == [old EXCEPT !.life = r.arg]
             asset == [db.asset EXCEPT ![r.id] = x]
  <2>1. db' = Skills!Logged([db EXCEPT !.asset = asset], r)
    BY <1>5 DEF Skills!lifecycle, Skills!Handle
  <2>2. x = [high |-> h, life |-> r.arg, version |-> v, cleared |-> c, origin |-> o]
    BY <1>3
  <2> HIDE DEF x
  <2>3. AssetRow(x) /\ x.cleared = old.cleared /\ x.origin = old.origin
    BY <1>3, <2>2 DEF AssetRow
  <2> QED BY <1>1, <2>1, <2>3
<1> QED BY <1>4, <1>5

\* Catalogue, integrations, health and bindings.
LEMMA SkillsAsideKeep ==
    ASSUME SkillsInv, NEW r, db' # db,
           \/ Skills!permissions(r) \/ Skills!catalogPublish(r) \/ Skills!catalogSync(r) \/ Skills!integrationTest(r)
           \/ Skills!integrationDiscover(r) \/ Skills!integrationLifecycle(r)
           \/ Skills!governanceSkillAction(r) \/ Skills!capabilityTarget(r)
    PROVE  SkillsInv'
<1>1. ASSUME NEW t, \/ db' = Skills!Logged(db, r)
                    \/ db' = Skills!Logged([db EXCEPT !.catalog = t], r)
                    \/ db' = Skills!Logged([db EXCEPT !.integrations = t], r)
                    \/ db' = Skills!Logged([db EXCEPT !.health = t], r)
                    \/ db' = Skills!Logged([db EXCEPT !.bindings = t], r)
      PROVE  SkillsInv'
  <2>1. PICK d \in {db, [db EXCEPT !.catalog = t], [db EXCEPT !.integrations = t], [db EXCEPT !.health = t],
                    [db EXCEPT !.bindings = t]} : db' = Skills!Logged(d, r)
    BY <1>1
  <2>2. SkillsShape(d) /\ d.skills = db.skills /\ d.asset = db.asset
    BY <2>1 DEF SkillsInv, SkillsShape
  <2> QED BY <2>1, <2>2, SkillsBeside
<1>2. CASE Skills!permissions(r)
  <2>1. db' = Skills!Logged(db, r)
    BY <1>2 DEF Skills!permissions, Skills!Handle
  <2> QED BY <1>1, <2>1
<1>3. CASE Skills!catalogPublish(r)
  <2> DEFINE row == [high |-> db.asset[r.id].high, trusted |-> FALSE, vulnerabilities |-> 0, blocked |-> FALSE,
                     scope |-> IF r.op = "promote" THEN "workspace" ELSE "global"]
             t == Skills!Unshifted(db.catalog, Skills!NewEntry, row)
  <2>1. db' = Skills!Logged([db EXCEPT !.catalog = t], r)
    BY <1>3 DEF Skills!catalogPublish, Skills!Handle
  <2> HIDE DEF t
  <2> QED BY <1>1, <2>1
<1>4. CASE Skills!catalogSync(r)
  <2> DEFINE t == Skills!Unshifted(db.catalog, Skills!NewEntry, Skills!Entry(FALSE, 0, FALSE))
  <2>1. db' = Skills!Logged([db EXCEPT !.catalog = t], r)
    BY <1>4 DEF Skills!catalogSync, Skills!Handle
  <2> HIDE DEF t
  <2> QED BY <1>1, <2>1
<1>5. CASE Skills!integrationTest(r)
  <2> DEFINE i == db.integrations[r.id]
             failed == [db.integrations EXCEPT ![r.id].status = "failed"]
             tested == [db.integrations EXCEPT ![r.id].status = IF i.status \in {"draft", "validating", "failed"}
                                                                THEN "enabled" ELSE i.status]
  <2>1. \/ db' = Skills!Logged([db EXCEPT !.integrations = failed], r)
        \/ db' = Skills!Logged([db EXCEPT !.integrations = tested], r)
    <3>1. \/ db' = Skills!Logged([db EXCEPT !.integrations[r.id].status = "failed"], r)
          \/ db' = Skills!Logged([db EXCEPT !.integrations[r.id].status =
                                     IF i.status \in {"draft", "validating", "failed"} THEN "enabled"
                                     ELSE i.status], r)
      BY <1>5 DEF Skills!integrationTest, Skills!Handle
    <3> QED BY <3>1
  <2> HIDE DEF failed, tested
  <2> QED BY <1>1, <2>1
<1>6. CASE Skills!integrationDiscover(r)
  <2> DEFINE i == db.integrations[r.id]
             status == IF i.approval /\ i.production THEN "pending_approval" ELSE "enabled"
             t == [db.integrations EXCEPT ![r.id].status = status]
  <2>1. db' = Skills!Logged([db EXCEPT !.integrations = t], r)
    <3>1. db' = Skills!Logged([db EXCEPT !.integrations[r.id].status = status], r)
      BY <1>6 DEF Skills!integrationDiscover, Skills!Handle
    <3> HIDE DEF status
    <3> QED BY <3>1
  <2> HIDE DEF t
  <2> QED BY <1>1, <2>1
<1>7. CASE Skills!governanceSkillAction(r)
  <2> DEFINE status == CASE r.op = "revalidate" -> "healthy" [] r.op = "isolate" -> "quarantined"
                         [] r.op = "pause" -> "paused"
             t == [db.health EXCEPT ![r.id] = status]
  <2>1. db' = Skills!Logged([db EXCEPT !.health = t], r)
    <3>1. db' = Skills!Logged([db EXCEPT !.health[r.id] = status], r)
      BY <1>7 DEF Skills!governanceSkillAction, Skills!Handle
    <3> HIDE DEF status
    <3> QED BY <3>1
  <2> HIDE DEF t
  <2> QED BY <1>1, <2>1
<1>8. CASE Skills!capabilityTarget(r)
  <2> DEFINE more == db.bindings \cup {<<r.arg, r.id>>}
             fewer == db.bindings \ {<<r.arg, r.id>>}
  <2>1. \/ db' = Skills!Logged([db EXCEPT !.bindings = more], r)
        \/ db' = Skills!Logged([db EXCEPT !.bindings = fewer], r)
    BY <1>8 DEF Skills!capabilityTarget, Skills!Handle
  <2> HIDE DEF more, fewer
  <2> QED BY <1>1, <2>1
<1>9. CASE Skills!integrationLifecycle(r)
  <2> DEFINE no == FALSE
             settled == [db.integrations EXCEPT ![r.id].status = r.arg]
             opened == [db.integrations EXCEPT ![r.id].approval = no]
  <2>1. \/ db' = Skills!Logged([db EXCEPT !.integrations = settled], r)
        \/ db' = Skills!Logged([db EXCEPT !.integrations = opened], r)
    BY <1>9 DEF Skills!integrationLifecycle, Skills!Handle
  <2> HIDE DEF settled, opened
  <2> QED BY <1>1, <2>1
<1> QED BY <1>2, <1>3, <1>4, <1>5, <1>6, <1>7, <1>8, <1>9

LEMMA SkillsInit == Skills!Init => SkillsInv
<1> SUFFICES ASSUME Skills!Init PROVE SkillsInv
  OBVIOUS
<1>1. SkillsShape(db) /\ db.skills = Skills!mockSkills
      /\ db.asset = [id \in Skills!Range(Skills!mockSkills) |-> Skills!skillAsset(id = "s2", TRUE, "store")]
  BY DEF Skills!Init, SkillsShape
<1>2. ASSUME NEW id \in Skills!Range(Skills!mockSkills) PROVE id \in ClearedIds(db.asset)
  <2> DEFINE high == id = "s2"
             life == "enabled"
             x == Skills!skillAsset(high, TRUE, "store")
  <2>1. id \in DOMAIN db.asset /\ db.asset[id] = x
    BY <1>1
  <2>2. x = [high |-> high, life |-> life, version |-> 1, cleared |-> TRUE, origin |-> "store"]
    BY DEF Skills!skillAsset
  <2> HIDE DEF x, high, life
  <2>3. Vouched(x)
    BY <2>2 DEF AssetRow, Vouched
  <2> QED BY <2>1, <2>3 DEF ClearedIds
<1>3. /\ Skills!mockSkills \in Seq({"s1", "s2", "s12"}) /\ Skills!Range(Skills!mockSkills) = {"s1", "s2", "s12"}
  BY DEF Skills!mockSkills, Skills!Range
<1>4. Skills!mockSkills \in Seq(ClearedIds(db.asset))
  BY <1>2, <1>3, SeqMonotonic
<1> QED BY <1>1, <1>4 DEF SkillsInv, ListCleared

LEMMA SkillsNext == SkillsInv /\ [Skills!Next]_(Skills!vars) => SkillsInv'
<1> SUFFICES ASSUME SkillsInv, [Skills!Next]_(Skills!vars) PROVE SkillsInv'
  OBVIOUS
<1>1. CASE db' = db
  BY <1>1 DEF SkillsInv
<1>2. CASE db' # db
  <2>1. PICK r : \/ Skills!install(r) \/ Skills!uninstall(r) \/ Skills!upgrade(r) \/ Skills!lifecycle(r)
                 \/ Skills!permissions(r) \/ Skills!catalogPublish(r) \/ Skills!catalogSync(r)
                 \/ Skills!skillsCreate(r) \/ Skills!skillsImport(r) \/ Skills!importPackage(r)
                 \/ Skills!mcpConnections(r) \/ Skills!integrationTest(r) \/ Skills!integrationDiscover(r)
                 \/ Skills!integrationLifecycle(r) \/ Skills!governanceSkillAction(r)
                 \/ Skills!capabilityTarget(r)
    BY <1>2 DEF Skills!Next, Skills!vars, Skills!Ask
  <2> QED BY <1>2, <2>1, SkillsStoreKeep, UninstallKeeps, SkillWritten, SkillsAsideKeep
<1> QED BY <1>1, <1>2

LEMMA SkillsHold == SkillsInv => Skills!InstalledCleared
<1> SUFFICES ASSUME SkillsInv, NEW i \in DOMAIN db.skills PROVE Vouched(db.asset[db.skills[i]])
  BY Zenon DEF Vouched, Skills!InstalledCleared, Skills!installed, Skills!Range
<1>1. db.skills[i] \in ClearedIds(db.asset)
  BY ElementOfSeq, LenProperties DEF SkillsInv, ListCleared
<1> QED BY <1>1 DEF ClearedIds

\* What a review was asked for has its ticket, unless it was imported or made in the
\* workspace: an entry that was promoted, synchronised or installed before is asked
\* for again.
THEOREM SkillsStayCleared == Skills!Init /\ [][Skills!Next]_(Skills!vars) => []Skills!InstalledCleared
BY SkillsInit, SkillsNext, SkillsHold, PTL

\* What waits for an approval is in production, asks for one and stands for no
\* skill that could be gone; and a new row takes the name of none.
IntegrationRow(x) == x = [status |-> x.status, production |-> x.production, approval |-> x.approval, skill |-> x.skill]

IntegrationWaits(x) ==
    /\ x.status = "pending_approval" => x.approval /\ x.production
    /\ x.production => x.skill = Skills!NoArg

\* The integrations that somebody had changed.
Amended(log) == {log[k].id : k \in {j \in DOMAIN log : log[j].op = "amend"}}

IntegrationsGood(t, asset, amended) ==
    /\ DOMAIN t \subseteq {"gitlab", "itsm", "diagnosis"} \cup DOMAIN asset
    /\ \A i \in DOMAIN t : IntegrationRow(t[i]) /\ (i \in amended \/ IntegrationWaits(t[i]))

Awaited(t, u, amended) ==
    \A i \in DOMAIN t : t[i].status = "pending_approval" => i \in amended \/ u[i].status = "pending_approval"

Event(r) == [op |-> r.op, by |-> r.by, id |-> r.id, arg |-> r.arg]

ApprovalInv ==
    /\ SkillsInv /\ IntegrationsGood(db.integrations, db.asset, Amended(db.log))
    /\ \E S : db.log \in Seq(S)

\* What the route of r does to the queue, when its order is one to change an integration and when not.
AwaitStep(r, amended) ==
    /\ IntegrationsGood(db'.integrations, db'.asset, amended)
    /\ Awaited(db.integrations, db'.integrations, amended)
    /\ db'.log = Append(db.log, Event(r))

LEMMA AmendedGrows ==
    ASSUME NEW S, NEW log \in Seq(S), NEW r, NEW more, more = Append(log, Event(r))
    PROVE  /\ Amended(log) \subseteq Amended(more)
           /\ r.op = "amend" => r.id \in Amended(more)
           /\ \E T : more \in Seq(T)
<1> DEFINE e == Event(r)
           T == S \cup {e}
<1>1. log \in Seq(T) /\ e \in T
  BY SeqMonotonic
<1>2. e.op = r.op /\ e.id = r.id
  BY DEF Event
<1> HIDE DEF e, T
<1>3. /\ more \in Seq(T) /\ Len(log) \in Nat /\ DOMAIN log = 1 .. Len(log) /\ DOMAIN more = 1 .. Len(log) + 1
      /\ \A i \in 1 .. Len(log) : more[i] = log[i]
      /\ more[Len(log) + 1] = e
  BY <1>1, AppendProperties, LenProperties DEF e
<1>4. DOMAIN log \subseteq DOMAIN more /\ Len(log) + 1 \in DOMAIN more
  BY <1>3
<1>5. Amended(log) \subseteq Amended(more)
  BY <1>3, <1>4 DEF Amended
<1>6. ASSUME r.op = "amend" PROVE r.id \in Amended(more)
  BY <1>2, <1>3, <1>4, <1>6 DEF Amended
<1> QED BY <1>3, <1>5, <1>6

LEMMA IntegrationAdded ==
    ASSUME NEW t, NEW asset, NEW amended, IntegrationsGood(t, asset, amended), NEW id \in Skills!NewNames, id \notin DOMAIN asset,
           NEW x, IntegrationRow(x), IntegrationWaits(x), NEW wider, DOMAIN wider = DOMAIN asset \cup {id},
           NEW u, u = Skills!Unshifted(t, id, x)
    PROVE  IntegrationsGood(u, wider, amended) /\ Awaited(t, u, amended)
<1>1. /\ DOMAIN u = DOMAIN t \cup {id} /\ u[id] = x
      /\ \A i \in DOMAIN t : i # id => u[i] = t[i]
  BY DEF Skills!Unshifted
<1>2. id \notin DOMAIN t
  BY DEF IntegrationsGood, Skills!NewNames
<1>3. \A i \in DOMAIN t : u[i] = t[i]
  BY <1>1, <1>2
<1> QED BY <1>1, <1>3 DEF IntegrationsGood, Awaited

LEMMA IntegrationWritten ==
    ASSUME NEW t, NEW asset, NEW amended, IntegrationsGood(t, asset, amended), NEW i, NEW status,
           i \in DOMAIN t \ amended => /\ status = "pending_approval" => t[i].approval /\ t[i].production
                                       /\ t[i].status = "pending_approval" => status = "pending_approval",
           NEW x, x = [t[i] EXCEPT !.status = status], NEW u, u = [t EXCEPT ![i] = x]
    PROVE  IntegrationsGood(u, asset, amended) /\ Awaited(t, u, amended)
<1>1. DOMAIN u = DOMAIN t /\ \A j \in DOMAIN t : u[j] = IF j = i THEN x ELSE t[j]
  OBVIOUS
<1>2. ASSUME i \in DOMAIN t
      PROVE  IntegrationRow(x) /\ (i \in amended \/ IntegrationWaits(x)) /\ x.status = status
  <2>1. IntegrationRow(t[i]) /\ (i \in amended \/ IntegrationWaits(t[i]))
    BY <1>2 DEF IntegrationsGood
  <2>2. x.status = status /\ x.production = t[i].production /\ x.approval = t[i].approval /\ x.skill = t[i].skill
        /\ IntegrationRow(x)
    BY <2>1 DEF IntegrationRow
  <2> QED BY <1>2, <2>1, <2>2 DEF IntegrationWaits
<1> QED BY <1>1, <1>2 DEF IntegrationsGood, Awaited

\* A new skill has a number of its own.
LEMMA NewNumber ==
    ASSUME Skills!NameLeft
    PROVE  Skills!NewId \in Skills!NewNames /\ Skills!NewId \notin DOMAIN db.asset
BY DEF Skills!NameLeft, Skills!NewId

LEMMA AddedIs ==
    ASSUME SkillsInv, NEW x
    PROVE  /\ SkillsShape(Skills!Added(db, x)) /\ Skills!Added(db, x).integrations = db.integrations
           /\ DOMAIN Skills!Added(db, x).asset = DOMAIN db.asset \cup {Skills!NewId}
           /\ Skills!Added(db, x).log = db.log
<1> DEFINE id == Skills!NewId
           skills == <<id>> \o db.skills
           asset == Skills!Unshifted(db.asset, id, x)
           perms == db.perms \cup {id}
           d == Skills!Added(db, x)
<1>1. d = [db EXCEPT !.skills = skills, !.asset = asset, !.perms = perms]
  BY DEF Skills!Added
<1>2. DOMAIN asset = DOMAIN db.asset \cup {id}
  BY DEF Skills!Unshifted
<1> HIDE DEF d, skills, asset, perms, id
<1>3. d = [skills |-> skills, asset |-> asset, perms |-> perms, catalog |-> db.catalog,
           health |-> db.health, integrations |-> db.integrations, bindings |-> db.bindings, log |-> db.log]
  BY <1>1 DEF SkillsInv, SkillsShape
<1>4. SkillsShape(d) /\ d.integrations = db.integrations /\ d.asset = asset /\ d.log = db.log
  BY <1>3 DEF SkillsShape
<1> QED BY <1>2, <1>4 DEF d, id

LEMMA LoggedIs ==
    ASSUME NEW d, SkillsShape(d), NEW r
    PROVE  /\ Skills!Logged(d, r).integrations = d.integrations /\ Skills!Logged(d, r).asset = d.asset
           /\ Skills!Logged(d, r).log = Append(d.log, Event(r))
<1> DEFINE log == Append(d.log, Event(r))
<1>1. Skills!Logged(d, r) = [d EXCEPT !.log = log]
  BY DEF Skills!Logged, Event
<1> HIDE DEF log
<1>2. /\ Skills!Logged(d, r).integrations = d.integrations /\ Skills!Logged(d, r).asset = d.asset
      /\ Skills!Logged(d, r).log = log
  BY <1>1 DEF SkillsShape
<1> QED BY <1>2 DEF log

\* Skills that come in.
LEMMA StoreAwaits ==
    ASSUME ApprovalInv, NEW r, db' # db,
           \/ Skills!install(r) \/ Skills!skillsCreate(r) \/ Skills!skillsImport(r)
           \/ Skills!importPackage(r) \/ Skills!mcpConnections(r)
    PROVE  AwaitStep(r, Amended(db.log))
<1>1. Skills!NewId \in Skills!NewNames /\ Skills!NewId \notin DOMAIN db.asset
  BY NewNumber DEF Skills!install, Skills!skillsCreate, Skills!skillsImport, Skills!importPackage, Skills!mcpConnections
<1>2. CASE Skills!install(r) \/ Skills!skillsCreate(r)
  <2>1. \E x : db' = Skills!Logged(Skills!Added(db, x), r)
    BY <1>2, Zenon DEF Skills!install, Skills!skillsCreate, Skills!Handle
  <2>2. /\ db'.integrations = db.integrations /\ DOMAIN db'.asset = DOMAIN db.asset \cup {Skills!NewId}
        /\ db'.log = Append(db.log, Event(r))
    BY <2>1, AddedIs, LoggedIs DEF ApprovalInv
  <2> QED BY <2>2 DEF AwaitStep, ApprovalInv, IntegrationsGood, Awaited
<1>3. ASSUME NEW skill, NEW status, status # "pending_approval", NEW approval, NEW x,
             db' = Skills!Logged([Skills!Added(db, x) EXCEPT
                       !.integrations = Skills!Unshifted(@, Skills!NewId, Skills!NewIntegration(skill, status, approval))], r)
      PROVE  AwaitStep(r, Amended(db.log))
  <2> DEFINE no == FALSE
             row == [status |-> status, production |-> no, approval |-> approval, skill |-> skill]
             t == Skills!Unshifted(db.integrations, Skills!NewId, row)
             d == Skills!Added(db, x)
  <2>1. /\ SkillsShape(d) /\ d.integrations = db.integrations /\ d.log = db.log
        /\ DOMAIN d.asset = DOMAIN db.asset \cup {Skills!NewId}
    BY AddedIs DEF ApprovalInv
  <2>2. Skills!NewIntegration(skill, status, approval) = row
    BY DEF Skills!NewIntegration
  <2>3. ~ no
    OBVIOUS
  <2> HIDE DEF no
  <2>4. IntegrationRow(row) /\ IntegrationWaits(row)
    BY <1>3, <2>3 DEF IntegrationRow, IntegrationWaits
  <2> HIDE DEF row
  <2>5. db' = Skills!Logged([d EXCEPT !.integrations = t], r)
    BY <1>3, <2>1, <2>2
  <2>6. IntegrationsGood(t, d.asset, Amended(db.log)) /\ Awaited(db.integrations, t, Amended(db.log))
    BY <1>1, <2>1, <2>4, IntegrationAdded DEF ApprovalInv
  <2> DEFINE e == [d EXCEPT !.integrations = t]
  <2> HIDE DEF t, d
  <2>7. SkillsShape(e) /\ e.integrations = t /\ e.asset = d.asset /\ e.log = db.log
    BY <2>1 DEF SkillsShape
  <2> HIDE DEF e
  <2>8. db' = Skills!Logged(e, r)
    BY <2>5 DEF e
  <2>9. db'.integrations = t /\ db'.asset = d.asset /\ db'.log = Append(db.log, Event(r))
    BY <2>7, <2>8, LoggedIs
  <2> QED BY <2>6, <2>9 DEF AwaitStep
<1>4. CASE Skills!skillsImport(r)
  BY <1>3, <1>4 DEF Skills!skillsImport, Skills!Handle
<1>5. CASE Skills!importPackage(r)
  BY <1>3, <1>5 DEF Skills!importPackage, Skills!Handle
<1>6. CASE Skills!mcpConnections(r)
  BY <1>3, <1>6 DEF Skills!mcpConnections, Skills!Handle
<1> QED BY <1>2, <1>4, <1>5, <1>6

\* Skills that go or change.
LEMMA ListedAwaits ==
    ASSUME ApprovalInv, NEW r, db' # db, Skills!uninstall(r) \/ Skills!upgrade(r) \/ Skills!lifecycle(r)
    PROVE  AwaitStep(r, Amended(db.log))
<1>1. ASSUME NEW d, SkillsShape(d), d.integrations = db.integrations, DOMAIN d.asset = DOMAIN db.asset,
             d.log = db.log, db' = Skills!Logged(d, r)
      PROVE  AwaitStep(r, Amended(db.log))
  <2>1. /\ db'.integrations = db.integrations /\ DOMAIN db'.asset = DOMAIN db.asset
        /\ db'.log = Append(db.log, Event(r))
    BY <1>1, LoggedIs
  <2> QED BY <2>1 DEF AwaitStep, ApprovalInv, IntegrationsGood, Awaited
<1>2. CASE Skills!uninstall(r)
  <2> DEFINE skills == Skills!Front(db.skills)
             perms == db.perms \ {r.id}
             d == [db EXCEPT !.skills = skills, !.perms = perms]
  <2>1. db' = Skills!Logged(d, r)
    BY <1>2 DEF Skills!uninstall, Skills!Handle
  <2> DEFINE first == [db EXCEPT !.skills = skills]
  <2> HIDE DEF skills, perms
  <2>4. first = [skills |-> skills, asset |-> db.asset, perms |-> db.perms, catalog |-> db.catalog,
             health |-> db.health, integrations |-> db.integrations, bindings |-> db.bindings, log |-> db.log]
    BY DEF ApprovalInv, SkillsInv, SkillsShape
  <2>5. d = [first EXCEPT !.perms = perms]
    OBVIOUS
  <2> HIDE DEF first, d
  <2>2. d = [skills |-> skills, asset |-> db.asset, perms |-> perms, catalog |-> db.catalog,
             health |-> db.health, integrations |-> db.integrations, bindings |-> db.bindings, log |-> db.log]
    BY <2>4, <2>5
  <2>3. SkillsShape(d) /\ d.integrations = db.integrations /\ d.asset = db.asset /\ d.log = db.log
    BY <2>2 DEF SkillsShape
  <2> QED BY <1>1, <2>1, <2>3
<1>3. ASSUME NEW asset, DOMAIN asset = DOMAIN db.asset, db' = Skills!Logged([db EXCEPT !.asset = asset], r)
      PROVE  AwaitStep(r, Amended(db.log))
  <2> DEFINE d == [db EXCEPT !.asset = asset]
  <2>1. SkillsShape(d) /\ d.integrations = db.integrations /\ d.asset = asset /\ d.log = db.log
    BY DEF ApprovalInv, SkillsInv, SkillsShape
  <2>2. db' = Skills!Logged(d, r)
    BY <1>3
  <2> HIDE DEF d
  <2> QED BY <1>1, <1>3, <2>1, <2>2
<1>4. CASE Skills!upgrade(r)
  <2> DEFINE asset == [db.asset EXCEPT ![r.id].version = @ + 1]
  <2>1. db' = Skills!Logged([db EXCEPT !.asset = asset], r)
    BY <1>4 DEF Skills!upgrade, Skills!Handle
  <2>2. DOMAIN asset = DOMAIN db.asset
    OBVIOUS
  <2> HIDE DEF asset
  <2> QED BY <1>3, <2>1, <2>2
<1>5. CASE Skills!lifecycle(r)
  <2> DEFINE asset == [db.asset EXCEPT ![r.id].life = r.arg]
  <2>1. db' = Skills!Logged([db EXCEPT !.asset = asset], r)
    BY <1>5 DEF Skills!lifecycle, Skills!Handle
  <2>2. DOMAIN asset = DOMAIN db.asset
    OBVIOUS
  <2> HIDE DEF asset
  <2> QED BY <1>3, <2>1, <2>2
<1> QED BY <1>2, <1>4, <1>5

\* Tests and discoveries, and what touches no integration.
LEMMA AsideAwaits ==
    ASSUME ApprovalInv, NEW r, db' # db,
           \/ Skills!permissions(r) \/ Skills!catalogPublish(r) \/ Skills!catalogSync(r) \/ Skills!integrationTest(r)
           \/ Skills!integrationDiscover(r) \/ Skills!governanceSkillAction(r) \/ Skills!capabilityTarget(r)
    PROVE  AwaitStep(r, Amended(db.log))
<1>1. ASSUME NEW t, \/ db' = Skills!Logged(db, r)
                    \/ db' = Skills!Logged([db EXCEPT !.catalog = t], r)
                    \/ db' = Skills!Logged([db EXCEPT !.health = t], r)
                    \/ db' = Skills!Logged([db EXCEPT !.bindings = t], r)
      PROVE  AwaitStep(r, Amended(db.log))
  <2>1. PICK d \in {db, [db EXCEPT !.catalog = t], [db EXCEPT !.health = t], [db EXCEPT !.bindings = t]} :
            db' = Skills!Logged(d, r)
    BY <1>1
  <2>2. SkillsShape(d) /\ d.integrations = db.integrations /\ d.asset = db.asset /\ d.log = db.log
    BY <2>1 DEF ApprovalInv, SkillsInv, SkillsShape
  <2>3. db'.integrations = db.integrations /\ db'.asset = db.asset /\ db'.log = Append(db.log, Event(r))
    BY <2>1, <2>2, LoggedIs
  <2> QED BY <2>3 DEF AwaitStep, ApprovalInv, IntegrationsGood, Awaited
<1> DEFINE i == db.integrations[r.id]
<1>2. ASSUME NEW status,
             r.id \in DOMAIN db.integrations \ Amended(db.log) =>
                 /\ status = "pending_approval" => i.approval /\ i.production
                 /\ i.status = "pending_approval" => status = "pending_approval",
             db' = Skills!Logged([db EXCEPT !.integrations[r.id].status = status], r)
      PROVE  AwaitStep(r, Amended(db.log))
  <2> DEFINE x == [i EXCEPT !.status = status]
             t == [db.integrations EXCEPT ![r.id] = x]
  <2>1. db' = Skills!Logged([db EXCEPT !.integrations = t], r)
    BY <1>2
  <2>2. IntegrationsGood(t, db.asset, Amended(db.log)) /\ Awaited(db.integrations, t, Amended(db.log))
    BY <1>2, IntegrationWritten DEF ApprovalInv
  <2>3. SkillsShape(db)
    BY DEF ApprovalInv, SkillsInv
  <2> DEFINE e == [db EXCEPT !.integrations = t]
  <2> HIDE DEF t
  <2>4. SkillsShape(e) /\ e.integrations = t /\ e.asset = db.asset /\ e.log = db.log
    BY <2>3 DEF SkillsShape
  <2> HIDE DEF e
  <2>5. db' = Skills!Logged(e, r)
    BY <2>1 DEF e
  <2>6. db'.integrations = t /\ db'.asset = db.asset /\ db'.log = Append(db.log, Event(r))
    BY <2>4, <2>5, LoggedIs
  <2> QED BY <2>2, <2>6 DEF AwaitStep
<1>3. ASSUME r.id \in DOMAIN db.integrations \ Amended(db.log), i.status = "pending_approval"
      PROVE  i.approval /\ i.production /\ i.skill = Skills!NoArg
  BY <1>3 DEF ApprovalInv, IntegrationsGood, IntegrationWaits
<1>4. CASE Skills!integrationTest(r)
  <2> DEFINE status == IF i.status \in {"draft", "validating", "failed"} THEN "enabled" ELSE i.status
             failed == "failed"
  <2>1. /\ i.skill # Skills!NoArg /\ db' = Skills!Logged([db EXCEPT !.integrations[r.id].status = failed], r)
        \/ db' = Skills!Logged([db EXCEPT !.integrations[r.id].status = status], r)
    BY <1>4 DEF Skills!integrationTest, Skills!Handle
  <2>2. i.status = "pending_approval" => status = "pending_approval"
    OBVIOUS
  <2>3. r.id \in DOMAIN db.integrations \ Amended(db.log) =>
            (status = "pending_approval" => i.approval /\ i.production)
    <3>1. status = "pending_approval" => i.status = "pending_approval"
      OBVIOUS
    <3> QED BY <1>3, <3>1
  <2>4. failed # "pending_approval"
    OBVIOUS
  <2> HIDE DEF status, failed, i
  <2> QED BY <1>2, <1>3, <2>1, <2>2, <2>3, <2>4
<1>5. CASE Skills!integrationDiscover(r)
  <2> DEFINE status == IF i.approval /\ i.production THEN "pending_approval" ELSE "enabled"
  <2>1. db' = Skills!Logged([db EXCEPT !.integrations[r.id].status = status], r)
    BY <1>5 DEF Skills!integrationDiscover, Skills!Handle
  <2>2. status = "pending_approval" => i.approval /\ i.production
    OBVIOUS
  <2>3. r.id \in DOMAIN db.integrations \ Amended(db.log) /\ i.status = "pending_approval" => status = "pending_approval"
    BY <1>3
  <2> HIDE DEF status, i
  <2> QED BY <1>2, <2>1, <2>2, <2>3
<1>6. CASE Skills!permissions(r)
  <2>1. db' = Skills!Logged(db, r)
    BY <1>6 DEF Skills!permissions, Skills!Handle
  <2> QED BY <1>1, <2>1
<1>7. CASE Skills!catalogPublish(r) \/ Skills!catalogSync(r)
  <2> DEFINE row == [high |-> db.asset[r.id].high, trusted |-> FALSE, vulnerabilities |-> 0, blocked |-> FALSE,
                     scope |-> IF r.op = "promote" THEN "workspace" ELSE "global"]
             t == Skills!Unshifted(db.catalog, Skills!NewEntry, row)
             s == Skills!Unshifted(db.catalog, Skills!NewEntry, Skills!Entry(FALSE, 0, FALSE))
  <2>1. \/ db' = Skills!Logged([db EXCEPT !.catalog = t], r)
        \/ db' = Skills!Logged([db EXCEPT !.catalog = s], r)
    BY <1>7 DEF Skills!catalogPublish, Skills!catalogSync, Skills!Handle
  <2> HIDE DEF t, s
  <2> QED BY <1>1, <2>1
<1>8. CASE Skills!governanceSkillAction(r)
  <2> DEFINE status == CASE r.op = "revalidate" -> "healthy" [] r.op = "isolate" -> "quarantined"
                         [] r.op = "pause" -> "paused"
             t == [db.health EXCEPT ![r.id] = status]
  <2>1. db' = Skills!Logged([db EXCEPT !.health = t], r)
    <3>1. db' = Skills!Logged([db EXCEPT !.health[r.id] = status], r)
      BY <1>8 DEF Skills!governanceSkillAction, Skills!Handle
    <3> HIDE DEF status
    <3> QED BY <3>1
  <2> HIDE DEF t
  <2> QED BY <1>1, <2>1
<1>9. CASE Skills!capabilityTarget(r)
  <2> DEFINE more == db.bindings \cup {<<r.arg, r.id>>}
             fewer == db.bindings \ {<<r.arg, r.id>>}
  <2>1. \/ db' = Skills!Logged([db EXCEPT !.bindings = more], r)
        \/ db' = Skills!Logged([db EXCEPT !.bindings = fewer], r)
    BY <1>9 DEF Skills!capabilityTarget, Skills!Handle
  <2> HIDE DEF more, fewer
  <2> QED BY <1>1, <2>1
<1> QED BY <1>4, <1>5, <1>6, <1>7, <1>8, <1>9

\* An order to change an integration, which is on record from then on.
LEMMA AmendAwaits ==
    ASSUME ApprovalInv, NEW r, db' # db, Skills!integrationLifecycle(r)
    PROVE  r.op = "amend" /\ AwaitStep(r, Amended(db.log) \cup {r.id})
<1> DEFINE i == db.integrations[r.id]
           free == Amended(db.log) \cup {r.id}
<1>0. r.op = "amend" /\ SkillsShape(db) /\ IntegrationsGood(db.integrations, db.asset, Amended(db.log))
  BY DEF Skills!integrationLifecycle, ApprovalInv, SkillsInv
<1>1. ASSUME NEW x, IntegrationRow(i) => IntegrationRow(x), NEW t, t = [db.integrations EXCEPT ![r.id] = x],
             db' = Skills!Logged([db EXCEPT !.integrations = t], r)
      PROVE  AwaitStep(r, free)
  <2> DEFINE e == [db EXCEPT !.integrations = t]
  <2>1. SkillsShape(e) /\ e.integrations = t /\ e.asset = db.asset /\ e.log = db.log
    BY <1>0 DEF SkillsShape
  <2> HIDE DEF e
  <2>2. db' = Skills!Logged(e, r)
    BY <1>1 DEF e
  <2>3. db'.integrations = t /\ db'.asset = db.asset /\ db'.log = Append(db.log, Event(r))
    BY <2>1, <2>2, LoggedIs
  <2>4. /\ DOMAIN t = DOMAIN db.integrations /\ (r.id \in DOMAIN t => t[r.id] = x)
        /\ \A j \in DOMAIN t : j # r.id => t[j] = db.integrations[j]
    BY <1>1
  <2> HIDE DEF free
  <2>5. \A j \in DOMAIN t : IntegrationRow(t[j]) /\ (j \in free \/ IntegrationWaits(t[j]))
    BY <1>0, <1>1, <2>4 DEF IntegrationsGood, free
  <2>6. IntegrationsGood(t, db.asset, free)
    BY <1>0, <2>4, <2>5 DEF IntegrationsGood
  <2>7. Awaited(db.integrations, t, free)
    BY <2>4 DEF Awaited, free
  <2> QED BY <2>3, <2>6, <2>7 DEF AwaitStep
<1>2. CASE db' = Skills!Logged([db EXCEPT !.integrations[r.id].status = r.arg], r)
  <2> DEFINE x == [i EXCEPT !.status = r.arg]
             t == [db.integrations EXCEPT ![r.id] = x]
  <2>1. db' = Skills!Logged([db EXCEPT !.integrations = t], r)
    BY <1>2
  <2>2. IntegrationRow(i) => IntegrationRow(x)
    BY DEF IntegrationRow
  <2>3. t = [db.integrations EXCEPT ![r.id] = x]
    OBVIOUS
  <2> HIDE DEF x, t
  <2>4. AwaitStep(r, free)
    BY <1>1, <2>1, <2>2, <2>3
  <2> QED BY <1>0, <2>4
<1>3. CASE db' = Skills!Logged([db EXCEPT !.integrations[r.id].approval = FALSE], r)
  <2> DEFINE no == FALSE
             x == [i EXCEPT !.approval = no]
             t == [db.integrations EXCEPT ![r.id] = x]
  <2>1. db' = Skills!Logged([db EXCEPT !.integrations = t], r)
    BY <1>3
  <2> HIDE DEF no
  <2>2. IntegrationRow(i) => IntegrationRow(x)
    BY DEF IntegrationRow
  <2>3. t = [db.integrations EXCEPT ![r.id] = x]
    OBVIOUS
  <2> HIDE DEF x, t
  <2>4. AwaitStep(r, free)
    BY <1>1, <2>1, <2>2, <2>3
  <2> QED BY <1>0, <2>4
<1>4. \/ db' = Skills!Logged([db EXCEPT !.integrations[r.id].status = r.arg], r)
      \/ db' = Skills!Logged([db EXCEPT !.integrations[r.id].approval = FALSE], r)
  BY Zenon DEF Skills!integrationLifecycle, Skills!Handle
<1> QED BY <1>0, <1>2, <1>3, <1>4

LEMMA ApprovalInit == Skills!Init => ApprovalInv
<1> SUFFICES ASSUME Skills!Init PROVE IntegrationsGood(db.integrations, db.asset, Amended(db.log)) /\ db.log = <<>>
  <2>1. <<>> \in Seq({})
    OBVIOUS
  <2> QED BY <2>1, SkillsInit DEF ApprovalInv
<1> DEFINE t == Skills!mockSkillIntegrations
           no == FALSE
<1>1. db.integrations = t /\ db.log = <<>>
  BY DEF Skills!Init
<1>2. t = [gitlab |-> [status |-> "enabled", production |-> TRUE, approval |-> TRUE, skill |-> Skills!NoArg],
           itsm |-> [status |-> "pending_approval", production |-> TRUE, approval |-> TRUE, skill |-> Skills!NoArg],
           diagnosis |-> [status |-> "failed", production |-> no, approval |-> no, skill |-> "s2"]]
  BY DEF Skills!mockSkillIntegrations
<1>3. ASSUME NEW status, NEW yes, yes = TRUE, NEW x,
             x = [status |-> status, production |-> yes, approval |-> yes, skill |-> Skills!NoArg]
      PROVE  IntegrationRow(x) /\ IntegrationWaits(x)
  <2>1. IntegrationRow(x) /\ x.production = yes /\ x.approval = yes /\ x.skill = Skills!NoArg
    BY <1>3 DEF IntegrationRow
  <2> QED BY <1>3, <2>1 DEF IntegrationWaits
<1>4. ~ no
  OBVIOUS
<1> HIDE DEF no, t
<1>5. DOMAIN t = {"gitlab", "itsm", "diagnosis"}
  BY <1>2
<1>6. IntegrationRow(t["gitlab"]) /\ IntegrationWaits(t["gitlab"])
  <2> DEFINE yes == TRUE
             x == [status |-> "enabled", production |-> yes, approval |-> yes, skill |-> Skills!NoArg]
  <2>1. yes = TRUE /\ t["gitlab"] = x
    BY <1>2
  <2> HIDE DEF yes, t
  <2> QED BY <1>3, <2>1
<1>7. IntegrationRow(t["itsm"]) /\ IntegrationWaits(t["itsm"])
  <2> DEFINE yes == TRUE
             x == [status |-> "pending_approval", production |-> yes, approval |-> yes, skill |-> Skills!NoArg]
  <2>1. yes = TRUE /\ t["itsm"] = x
    BY <1>2
  <2> HIDE DEF yes, t
  <2> QED BY <1>3, <2>1
<1>8. IntegrationRow(t["diagnosis"]) /\ IntegrationWaits(t["diagnosis"])
  <2> DEFINE x == [status |-> "failed", production |-> no, approval |-> no, skill |-> "s2"]
  <2>1. t["diagnosis"] = x
    BY <1>2
  <2>2. IntegrationRow(x) /\ x.production = no /\ x.status = "failed"
    BY DEF IntegrationRow
  <2> HIDE DEF x
  <2> QED BY <1>4, <2>1, <2>2 DEF IntegrationWaits
<1> QED BY <1>1, <1>5, <1>6, <1>7, <1>8 DEF IntegrationsGood

LEMMA ApprovalNext == ApprovalInv /\ [Skills!Next]_(Skills!vars) => ApprovalInv' /\ Skills!ApprovalAwaited
<1> SUFFICES ASSUME ApprovalInv, [Skills!Next]_(Skills!vars) PROVE ApprovalInv' /\ Skills!ApprovalAwaited
  OBVIOUS
<1>0. SkillsInv'
  BY SkillsNext DEF ApprovalInv
<1>1. CASE db' = db
  BY <1>0, <1>1 DEF ApprovalInv, Skills!ApprovalAwaited
<1>2. CASE db' # db
  <2>1. PICK r : \/ Skills!install(r) \/ Skills!uninstall(r) \/ Skills!upgrade(r) \/ Skills!lifecycle(r)
                 \/ Skills!permissions(r) \/ Skills!catalogPublish(r) \/ Skills!catalogSync(r)
                 \/ Skills!skillsCreate(r) \/ Skills!skillsImport(r) \/ Skills!importPackage(r)
                 \/ Skills!mcpConnections(r) \/ Skills!integrationTest(r) \/ Skills!integrationDiscover(r)
                 \/ Skills!integrationLifecycle(r) \/ Skills!governanceSkillAction(r)
                 \/ Skills!capabilityTarget(r)
    BY <1>2 DEF Skills!Next, Skills!vars, Skills!Ask
  <2>2. \/ AwaitStep(r, Amended(db.log))
        \/ r.op = "amend" /\ AwaitStep(r, Amended(db.log) \cup {r.id})
    BY <1>2, <2>1, StoreAwaits, ListedAwaits, AsideAwaits, AmendAwaits
  <2>3. db'.log = Append(db.log, Event(r))
    BY <2>2 DEF AwaitStep
  <2>4. /\ Amended(db.log) \subseteq Amended(db'.log) /\ (r.op = "amend" => r.id \in Amended(db'.log))
        /\ \E S : db'.log \in Seq(S)
    BY <2>3, AmendedGrows DEF ApprovalInv
  <2>5. /\ IntegrationsGood(db'.integrations, db'.asset, Amended(db'.log))
        /\ Awaited(db.integrations, db'.integrations, Amended(db'.log))
    BY <2>2, <2>4 DEF AwaitStep, IntegrationsGood, Awaited
  <2>6. Skills!ApprovalAwaited
    BY <2>5 DEF Awaited, Amended, Skills!ApprovalAwaited
  <2>7. ApprovalInv'
    BY <1>0, <2>4, <2>5 DEF ApprovalInv
  <2> QED BY <2>6, <2>7
<1> QED BY <1>1, <1>2

\* An integration that writes in production and waits for its approval is enabled by
\* none of the buttons, neither by a test nor by another discovery, until an order to
\* change that integration is on record: one route writes whatever it is told.
THEOREM ApprovalsAreAwaited == Skills!Init /\ [][Skills!Next]_(Skills!vars) => [][Skills!ApprovalAwaited]_(Skills!vars)
BY ApprovalInit, ApprovalNext, PTL

-----------------------------------------------------------------------------
(* Controlled tasks, for any accounts and any number of requests under way. *)
(* Of a request the proofs use what its button put in it, for a decision    *)
(* that there was an approval to decide and for a creation that its task is *)
(* not there yet, never the version the page showed.                        *)

Tasks == INSTANCE TaskDomain WITH Actors <- StaffActors

\* Who works on tasks and with employees has an account.
StaffAccounts == StaffActors \subseteq Users

TaskIds == {"assist", "overdue", "plain", "new"}
TaskOps == {"create", "transition", "approve", "takeover", "retry"}
TaskArgs == Tasks!Stages \cup {"approved", "rejected", Tasks!NoArg}
TaskEvent == [op : TaskOps, by : Tasks!Users, id : TaskIds, arg : TaskArgs]
TaskTables == UNION {[S -> Tasks!ControlledTask] : S \in SUBSET TaskIds}

TaskRequestSet == [op : TaskOps, by : Tasks!Users, id : TaskIds, arg : TaskArgs, seen : Nat]

\* What the buttons put into a request.
TaskWellFormed(r) ==
    /\ r \in TaskRequestSet
    /\ r.op = "transition" => r.arg \in Tasks!Stages
    /\ r.op = "approve" => r.arg \in {"approved", "rejected"}
    /\ r.op = "retry" => r.arg = Tasks!NoArg
    /\ r.op = "create" => r.id \in Tasks!NewIds

TaskDataOK == db \in [tasks : TaskTables, log : Seq(TaskEvent)]

TaskNetShape == net = [out |-> net.out, made |-> net.made]

TaskNetOK == TaskNetShape /\ \A r \in Tasks!BagToSet(net.out) : TaskWellFormed(r)

RequiredMarked ==
    \A id \in DOMAIN db.tasks : db.tasks[id].required <=> db.tasks[id].approval # "not_required"

\* An administrator told the task id to start.
Permitted(id) ==
    \E i \in DOMAIN db.log :
        /\ db.log[i].id = id /\ Tasks!isAdministrator(db.log[i].by)
        /\ <<db.log[i].op, db.log[i].arg>> \in {<<"retry", Tasks!NoArg>>, <<"approve", "approved">>}

\* What an approved task needs for the next move.
ApprovedIsLogged ==
    \A id \in DOMAIN db.tasks :
        db.tasks[id].required /\ db.tasks[id].approval = "approved" => Permitted(id)

\* Whoever asks for a decision saw an approval to decide.
AskedToDecide ==
    \A r \in Tasks!BagToSet(net.out) : r.op = "approve" => r.id \in DOMAIN db.tasks /\ db.tasks[r.id].required

\* An event is about a task that is there.
EventsKnown == \A i \in DOMAIN db.log : db.log[i].id \in DOMAIN db.tasks

\* A task that is being created has no row and one request.
CreatedOnce ==
    \A r \in Tasks!BagToSet(net.out) : r.op = "create" =>
        /\ r.id \notin DOMAIN db.tasks /\ net.out[r] = 1
        /\ \A q \in Tasks!BagToSet(net.out) : q.op = "create" /\ q.id = r.id => q = r

TaskGood ==
    /\ TaskDataOK /\ Tasks!TasksAudited /\ EventsKnown /\ RequiredMarked /\ ApprovedIsLogged
    /\ Tasks!RunsAfterApproval /\ Tasks!StatusFollowsStage

TaskInv == TaskGood /\ TaskNetOK /\ AskedToDecide /\ CreatedOnce

\* Tasks stay, none comes to need an approval or ceases to, and a new one is
\* the one r creates.
RequiredKept(r) ==
    /\ \A id \in DOMAIN db.tasks : id \in DOMAIN db'.tasks /\ db'.tasks[id].required = db.tasks[id].required
    /\ \A id \in DOMAIN db'.tasks : id \in DOMAIN db.tasks \/ (r.op = "create" /\ id = r.id)

LEMMA TaskCounted == \A S : Tasks!Cardinality(S) = Cardinality(S)
BY DEF Tasks!Cardinality, Cardinality

LEMMA StatusTyped ==
    \A stage \in Tasks!Stages : Tasks!statusFor(stage) \in {"pending", "in_progress", "review", "completed", "archived"}
BY DEF Tasks!statusFor, Tasks!Stages

LEMMA NewTaskTyped ==
    ASSUME NEW u \in Tasks!Users, NEW stage \in Tasks!Stages, NEW risk \in {"none", "overdue", "failed"},
           NEW dispatch \in {"none", "assign", "assist"}
    PROVE  /\ Tasks!controlledTask(u, stage, risk, dispatch) \in Tasks!ControlledTask
           /\ Tasks!controlledTask(u, stage, risk, dispatch).status = Tasks!statusFor(stage)
           /\ Tasks!controlledTask(u, stage, risk, dispatch).required <=> dispatch = "assist"
           /\ Tasks!controlledTask(u, stage, risk, dispatch).approval =
                 IF dispatch = "assist" THEN "pending" ELSE "not_required"
           /\ Tasks!controlledTask(u, stage, risk, dispatch).stage = stage
           /\ Tasks!controlledTask(u, stage, risk, dispatch).version = 1
           /\ Tasks!controlledTask(u, stage, risk, dispatch).audits = 0
BY StatusTyped DEF Tasks!controlledTask, Tasks!ControlledTask

LEMMA TaskTableShape ==
    ASSUME TaskDataOK
    PROVE  /\ db.tasks \in [DOMAIN db.tasks -> Tasks!ControlledTask] /\ DOMAIN db.tasks \subseteq TaskIds
           /\ db.log \in Seq(TaskEvent) /\ DOMAIN db.log = 1..Len(db.log) /\ Len(db.log) \in Nat
BY DEF TaskDataOK, TaskTables

\* One event of the log more.
LEMMA Counting ==
    ASSUME NEW r, db.log \in Seq(TaskEvent), db'.log = Append(db.log, [op |-> r.op, by |-> r.by, id |-> r.id, arg |-> r.arg])
    PROVE  \A id : /\ Tasks!Cardinality(Tasks!Events(id)) \in Nat
                   /\ Tasks!Cardinality(Tasks!Events(id)')
                          = IF id = r.id THEN Tasks!Cardinality(Tasks!Events(id)) + 1 ELSE Tasks!Cardinality(Tasks!Events(id))
<1> DEFINE e == [op |-> r.op, by |-> r.by, id |-> r.id, arg |-> r.arg]
           n == Len(db.log)
<1>1. /\ n \in Nat /\ DOMAIN db.log = 1..n /\ DOMAIN db'.log = 1..(n + 1)
      /\ (\A i \in 1..n : db'.log[i] = db.log[i]) /\ db'.log[n + 1] = e
  BY DEF TaskEvent
<1>2. e.id = r.id
  OBVIOUS
<1> HIDE DEF e, n
<1> SUFFICES ASSUME NEW id
             PROVE  /\ Tasks!Cardinality(Tasks!Events(id)) \in Nat
                    /\ Tasks!Cardinality(Tasks!Events(id)')
                           = IF id = r.id THEN Tasks!Cardinality(Tasks!Events(id)) + 1 ELSE Tasks!Cardinality(Tasks!Events(id))
  OBVIOUS
<1>3. Tasks!Events(id) \subseteq 1..n /\ IsFiniteSet(1..n)
  BY <1>1, FS_Interval DEF Tasks!Events
<1>4. IsFiniteSet(Tasks!Events(id)) /\ Tasks!Cardinality(Tasks!Events(id)) \in Nat
  BY <1>3, TaskCounted, FS_Subset, FS_CardinalityType
<1>5. n + 1 \notin Tasks!Events(id)
  BY <1>1, <1>3
<1>6. CASE id = r.id
  <2>1. Tasks!Events(id)' = Tasks!Events(id) \cup {n + 1}
    BY <1>1, <1>2, <1>6 DEF Tasks!Events
  <2> QED BY <1>4, <1>5, <1>6, <2>1, TaskCounted, FS_AddElement
<1>7. CASE id # r.id
  <2>1. Tasks!Events(id)' = Tasks!Events(id)
    BY <1>1, <1>2, <1>7 DEF Tasks!Events
  <2> QED BY <1>4, <1>7, <2>1
<1> QED BY <1>6, <1>7

LEMMA TaskLogging ==
    ASSUME NEW r, db.log \in Seq(TaskEvent), db'.log = Append(db.log, [op |-> r.op, by |-> r.by, id |-> r.id, arg |-> r.arg])
    PROVE  \A i \in DOMAIN db'.log : (i \in DOMAIN db.log /\ db'.log[i] = db.log[i]) \/ db'.log[i].id = r.id
<1> DEFINE e == [op |-> r.op, by |-> r.by, id |-> r.id, arg |-> r.arg]
           n == Len(db.log)
<1>1. /\ n \in Nat /\ DOMAIN db.log = 1..n /\ DOMAIN db'.log = 1..(n + 1)
      /\ (\A i \in 1..n : db'.log[i] = db.log[i]) /\ db'.log[n + 1] = e
  BY DEF TaskEvent
<1>2. e.id = r.id
  OBVIOUS
<1> HIDE DEF e, n
<1> QED BY <1>1, <1>2

\* What every route of one task that does not throw has done: one task is
\* replaced and the event is the last of the log.
LEMMA TaskWritten ==
    ASSUME TaskDataOK, NEW r, TaskWellFormed(r), r.id \in DOMAIN db.tasks, NEW t \in Tasks!ControlledTask,
           db' = Tasks!Logged([db EXCEPT !.tasks[r.id] = t], r)
    PROVE  /\ TaskDataOK'
           /\ DOMAIN db'.tasks = DOMAIN db.tasks /\ db'.tasks[r.id] = t
           /\ \A id \in DOMAIN db.tasks \ {r.id} : db'.tasks[id] = db.tasks[id]
           /\ \A id \in TaskIds : Permitted(id) => Permitted(id)'
           /\ Tasks!isAdministrator(r.by) /\ <<r.op, r.arg>> \in {<<"retry", Tasks!NoArg>>, <<"approve", "approved">>}
                  => Permitted(r.id)'
<1> DEFINE e == [op |-> r.op, by |-> r.by, id |-> r.id, arg |-> r.arg]
           T == [db.tasks EXCEPT ![r.id] = t]
           L == Append(db.log, e)
<1>1. db' = [tasks |-> T, log |-> L]
  BY DEF TaskDataOK, Tasks!Logged
<1>2. e \in TaskEvent
  BY DEF TaskWellFormed, TaskRequestSet, TaskEvent
<1>3. T \in [DOMAIN db.tasks -> Tasks!ControlledTask] /\ DOMAIN db.tasks \in SUBSET TaskIds
  BY TaskTableShape
<1>4. T \in TaskTables /\ DOMAIN T = DOMAIN db.tasks /\ T[r.id] = t
      /\ \A id \in DOMAIN db.tasks \ {r.id} : T[id] = db.tasks[id]
  BY <1>3 DEF TaskTables
<1>5. L \in Seq(TaskEvent) /\ Len(L) = Len(db.log) + 1 /\ DOMAIN L = 1..(Len(db.log) + 1)
      /\ (\A i \in 1..Len(db.log) : L[i] = db.log[i]) /\ L[Len(db.log) + 1] = e
  BY <1>2, TaskTableShape
<1>6. DOMAIN db.log = 1..Len(db.log) /\ Len(db.log) \in Nat
  BY TaskTableShape
<1>e. e.op = r.op /\ e.by = r.by /\ e.id = r.id /\ e.arg = r.arg
  OBVIOUS
<1> HIDE DEF e, T, L
<1>7. TaskDataOK'
  BY <1>1, <1>4, <1>5 DEF TaskDataOK
<1>8. DOMAIN db'.tasks = DOMAIN db.tasks /\ db'.tasks[r.id] = t
      /\ \A id \in DOMAIN db.tasks \ {r.id} : db'.tasks[id] = db.tasks[id]
  BY <1>1, <1>4
<1>9. /\ DOMAIN db.log \subseteq DOMAIN db'.log /\ \A i \in DOMAIN db.log : db'.log[i] = db.log[i]
      /\ Len(db.log) + 1 \in DOMAIN db'.log /\ db'.log[Len(db.log) + 1] = e
  BY <1>1, <1>5, <1>6
<1>10. \A id \in TaskIds : Permitted(id) => Permitted(id)'
  BY <1>9 DEF Permitted
<1>11. Tasks!isAdministrator(r.by) /\ <<r.op, r.arg>> \in {<<"retry", Tasks!NoArg>>, <<"approve", "approved">>}
         => Permitted(r.id)'
  BY <1>9, <1>e DEF Permitted
<1> QED BY <1>7, <1>8, <1>10, <1>11

\* A route of one task keeps the invariant when the task it writes satisfies it.
LEMMA TaskReplaced ==
    ASSUME TaskGood, NEW r, TaskWellFormed(r), r.id \in DOMAIN db.tasks, NEW t \in Tasks!ControlledTask,
           db' = Tasks!Logged([db EXCEPT !.tasks[r.id] = t], r),
           t.required = db.tasks[r.id].required, t.required <=> t.approval # "not_required",
           t.status = Tasks!statusFor(t.stage), t.version = db.tasks[r.id].version + 1, t.audits = db.tasks[r.id].audits + 1,
           t.required /\ (t.approval = "approved" \/ t.stage \in {"running", "completed"})
               => \/ Permitted(r.id)
                  \/ Tasks!isAdministrator(r.by) /\ <<r.op, r.arg>> \in {<<"retry", Tasks!NoArg>>, <<"approve", "approved">>}
    PROVE  TaskGood' /\ RequiredKept(r)
<1>1. /\ TaskDataOK'
      /\ DOMAIN db'.tasks = DOMAIN db.tasks /\ db'.tasks[r.id] = t
      /\ \A id \in DOMAIN db.tasks \ {r.id} : db'.tasks[id] = db.tasks[id]
      /\ \A id \in TaskIds : Permitted(id) => Permitted(id)'
      /\ Tasks!isAdministrator(r.by) /\ <<r.op, r.arg>> \in {<<"retry", Tasks!NoArg>>, <<"approve", "approved">>}
             => Permitted(r.id)'
  BY TaskWritten DEF TaskGood
<1>2. DOMAIN db.tasks \subseteq TaskIds
  BY TaskTableShape DEF TaskGood
<1>3. \A id \in DOMAIN db.tasks : Permitted(id) => Permitted(id)'
  BY <1>1, <1>2
<1>4. RequiredMarked'
  BY <1>1 DEF TaskGood, RequiredMarked
<1>5. ApprovedIsLogged'
  BY <1>1, <1>3 DEF TaskGood, ApprovedIsLogged
<1>6. \A id \in DOMAIN db'.tasks : db'.tasks[id].required /\ db'.tasks[id].stage \in {"running", "completed"}
         => Permitted(id)'
  <2>1. \A id \in DOMAIN db.tasks : db.tasks[id].required /\ db.tasks[id].stage \in {"running", "completed"} => Permitted(id)
    BY DEF TaskGood, Tasks!RunsAfterApproval, Permitted
  <2> QED BY <1>1, <1>3, <2>1
<1>7. Tasks!RunsAfterApproval'
  BY <1>6 DEF Tasks!RunsAfterApproval, Permitted
<1>8. Tasks!StatusFollowsStage'
  BY <1>1 DEF TaskGood, Tasks!StatusFollowsStage
<1>9. RequiredKept(r)
  BY <1>1 DEF RequiredKept
<1>10. db'.log = Append(db.log, [op |-> r.op, by |-> r.by, id |-> r.id, arg |-> r.arg])
  BY TaskTableShape DEF TaskGood, TaskDataOK, Tasks!Logged
<1>11. db.log \in Seq(TaskEvent) /\ db.tasks[r.id].audits \in Nat
  BY TaskTableShape DEF TaskGood, Tasks!ControlledTask
<1>12. \A id : /\ Tasks!Cardinality(Tasks!Events(id)) \in Nat
               /\ Tasks!Cardinality(Tasks!Events(id)')
                      = IF id = r.id THEN Tasks!Cardinality(Tasks!Events(id)) + 1 ELSE Tasks!Cardinality(Tasks!Events(id))
  BY <1>10, <1>11, Counting
<1>13. Tasks!TasksAudited'
  <2> SUFFICES ASSUME NEW id \in DOMAIN db'.tasks
               PROVE  /\ db'.tasks[id].version = db'.tasks[id].audits + (IF id \in Tasks!NewIds THEN 0 ELSE 1)
                      /\ db'.tasks[id].audits = Tasks!Cardinality(Tasks!Events(id)')
    BY DEF Tasks!TasksAudited, Tasks!NewIds
  <2>1. /\ db.tasks[id].version = db.tasks[id].audits + (IF id \in Tasks!NewIds THEN 0 ELSE 1)
        /\ db.tasks[id].audits = Tasks!Cardinality(Tasks!Events(id))
    BY <1>1 DEF TaskGood, Tasks!TasksAudited
  <2>2. CASE id = r.id
    BY <1>1, <1>11, <1>12, <2>1, <2>2
  <2>3. CASE id # r.id
    BY <1>1, <1>12, <2>1, <2>3
  <2> QED BY <2>2, <2>3
<1>14. EventsKnown'
  <2>1. \A i \in DOMAIN db'.log : (i \in DOMAIN db.log /\ db'.log[i] = db.log[i]) \/ db'.log[i].id = r.id
    BY <1>10, <1>11, TaskLogging
  <2> QED BY <1>1, <2>1 DEF TaskGood, EventsKnown
<1> QED BY <1>1, <1>4, <1>5, <1>7, <1>8, <1>9, <1>13, <1>14 DEF TaskGood

\* What is known of the task a request names, and of what write adds.
LEMMA TaskKnown ==
    ASSUME TaskGood, NEW id \in DOMAIN db.tasks
    PROVE  /\ db.tasks[id] \in Tasks!ControlledTask
           /\ db.tasks[id].required <=> db.tasks[id].approval # "not_required"
           /\ db.tasks[id].status = Tasks!statusFor(db.tasks[id].stage)
           /\ db.tasks[id].required /\ (db.tasks[id].approval = "approved" \/ db.tasks[id].stage \in {"running", "completed"})
                 => Permitted(id)
<1>1. db.tasks[id] \in Tasks!ControlledTask
  BY TaskTableShape DEF TaskGood
<1> QED BY <1>1 DEF TaskGood, RequiredMarked, Tasks!StatusFollowsStage, ApprovedIsLogged, Tasks!RunsAfterApproval, Permitted

LEMMA TaskWriteKeeps ==
    ASSUME NEW t \in Tasks!ControlledTask
    PROVE  /\ Tasks!write(t) \in Tasks!ControlledTask /\ Tasks!write(t).required = t.required /\ Tasks!write(t).approval = t.approval
           /\ Tasks!write(t).stage = t.stage /\ Tasks!write(t).status = t.status
           /\ Tasks!write(t).version = t.version + 1 /\ Tasks!write(t).audits = t.audits + 1
<1> DEFINE t1 == [t EXCEPT !.version = @ + 1]
           t2 == [t1 EXCEPT !.audits = @ + 1]
<1>1. t1 \in Tasks!ControlledTask /\ t1.required = t.required /\ t1.approval = t.approval
      /\ t1.stage = t.stage /\ t1.status = t.status /\ t1.audits = t.audits /\ t1.version = t.version + 1
  BY DEF Tasks!ControlledTask
<1>2. Tasks!write(t) = t2
  BY DEF Tasks!write, Tasks!ControlledTask
<1> HIDE DEF t1
<1>3. t2 \in Tasks!ControlledTask /\ t2.required = t1.required /\ t2.approval = t1.approval
      /\ t2.stage = t1.stage /\ t2.status = t1.status /\ t2.version = t1.version /\ t2.audits = t1.audits + 1
  BY <1>1 DEF Tasks!ControlledTask
<1> QED BY <1>1, <1>2, <1>3

\* A route that throws.
LEMMA TaskThrown ==
    ASSUME TaskGood, NEW r, db' = db
    PROVE  TaskGood' /\ RequiredKept(r)
<1>1. TaskDataOK' /\ EventsKnown' /\ RequiredMarked' /\ Tasks!StatusFollowsStage' /\ RequiredKept(r)
  BY DEF TaskGood, TaskDataOK, EventsKnown, RequiredMarked, Tasks!StatusFollowsStage, RequiredKept
<1>2. ApprovedIsLogged' /\ Tasks!RunsAfterApproval'
  BY DEF TaskGood, ApprovedIsLogged, Tasks!RunsAfterApproval, Permitted
<1>3. Tasks!TasksAudited'
  BY DEF TaskGood, Tasks!TasksAudited, Tasks!Events
<1> QED BY <1>1, <1>2, <1>3 DEF TaskGood

\* What the four routes write.
LEMMA MovedTyped ==
    ASSUME NEW t \in Tasks!ControlledTask, NEW stage \in Tasks!Stages
    PROVE  LET new == Tasks!write(Tasks!moved(t, stage))
           IN  /\ new \in Tasks!ControlledTask /\ new.required = t.required /\ new.approval = t.approval
               /\ new.stage = stage /\ new.status = Tasks!statusFor(stage)
               /\ new.version = t.version + 1 /\ new.audits = t.audits + 1
<1>1. /\ Tasks!moved(t, stage) \in Tasks!ControlledTask /\ Tasks!moved(t, stage).required = t.required
      /\ Tasks!moved(t, stage).approval = t.approval
      /\ Tasks!moved(t, stage).stage = stage /\ Tasks!moved(t, stage).status = Tasks!statusFor(stage)
      /\ Tasks!moved(t, stage).version = t.version /\ Tasks!moved(t, stage).audits = t.audits
  BY StatusTyped DEF Tasks!moved, Tasks!ControlledTask
<1> QED BY <1>1, TaskWriteKeeps

LEMMA TakenTyped ==
    ASSUME NEW t \in Tasks!ControlledTask
    PROVE  LET new == Tasks!write(Tasks!taken(t))
           IN  /\ new \in Tasks!ControlledTask /\ new.required = t.required /\ new.approval = t.approval
               /\ new.stage = "human_action" /\ new.status = Tasks!statusFor("human_action")
               /\ new.version = t.version + 1 /\ new.audits = t.audits + 1
<1>1. /\ Tasks!taken(t) \in Tasks!ControlledTask /\ Tasks!taken(t).required = t.required /\ Tasks!taken(t).approval = t.approval
      /\ Tasks!taken(t).stage = "human_action" /\ Tasks!taken(t).status = Tasks!statusFor("human_action")
      /\ Tasks!taken(t).version = t.version /\ Tasks!taken(t).audits = t.audits
  BY DEF Tasks!taken, Tasks!ControlledTask, Tasks!Stages, Tasks!statusFor
<1> QED BY <1>1, TaskWriteKeeps

LEMMA AgainTyped ==
    ASSUME NEW t \in Tasks!ControlledTask
    PROVE  LET new == Tasks!write(Tasks!again(t))
           IN  /\ new \in Tasks!ControlledTask /\ new.required = t.required /\ new.approval = t.approval
               /\ new.stage = "running" /\ new.status = Tasks!statusFor("running")
               /\ new.version = t.version + 1 /\ new.audits = t.audits + 1
<1> DEFINE first == [t EXCEPT !.risk = "none", !.retries = t.retries + 1, !.paused = FALSE]
           second == [first EXCEPT !.stage = "running", !.status = "in_progress"]
<1>1. Tasks!again(t) = second
  BY DEF Tasks!again, Tasks!ControlledTask
<1>2. t.retries + 1 \in Nat
  BY DEF Tasks!ControlledTask
<1>3. first \in Tasks!ControlledTask /\ first.required = t.required /\ first.approval = t.approval
      /\ first.version = t.version /\ first.audits = t.audits
  BY <1>2 DEF Tasks!ControlledTask
<1>4. Tasks!statusFor("running") = "in_progress" /\ "running" \in Tasks!Stages
  BY DEF Tasks!statusFor, Tasks!Stages
<1> HIDE DEF first
<1>5. /\ second \in Tasks!ControlledTask /\ second.required = first.required /\ second.approval = first.approval
      /\ second.stage = "running" /\ second.status = "in_progress"
      /\ second.version = first.version /\ second.audits = first.audits
  BY <1>3, <1>4 DEF Tasks!ControlledTask
<1> HIDE DEF second
<1> QED BY <1>1, <1>3, <1>4, <1>5, TaskWriteKeeps

LEMMA DecidedTyped ==
    ASSUME NEW t \in Tasks!ControlledTask, t.status = Tasks!statusFor(t.stage), NEW verdict \in {"approved", "rejected"}
    PROVE  LET new == Tasks!write(Tasks!decided(t, verdict))
           IN  /\ new \in Tasks!ControlledTask /\ new.required = t.required /\ new.approval = verdict
               /\ new.status = Tasks!statusFor(new.stage) /\ new.stage \in {t.stage, "pending"}
               /\ new.version = t.version + 1 /\ new.audits = t.audits + 1
<1> DEFINE help == t.dispatch = "assist"
           back == help /\ verdict = "approved"
           assist == IF ~help THEN t.assist ELSE IF back THEN "accepted" ELSE "rejected"
           stage == IF back THEN "pending" ELSE t.stage
           status == IF back THEN "pending" ELSE t.status
           first == [t EXCEPT !.approval = verdict, !.assist = assist]
           second == [first EXCEPT !.stage = stage, !.status = status]
<1>1. /\ assist \in {"none", "pending", "accepted", "rejected"} /\ stage \in Tasks!Stages
      /\ status \in {"pending", "in_progress", "review", "completed", "archived"}
      /\ status = Tasks!statusFor(stage) /\ stage \in {t.stage, "pending"}
  BY DEF Tasks!ControlledTask, Tasks!Stages, Tasks!statusFor
<1>2. Tasks!decided(t, verdict) = second
  BY DEF Tasks!decided, Tasks!ControlledTask
<1> HIDE DEF assist, stage, status
<1>3. first \in Tasks!ControlledTask /\ first.required = t.required /\ first.approval = verdict
      /\ first.version = t.version /\ first.audits = t.audits
  BY ZenonT(40), <1>1 DEF Tasks!ControlledTask
<1> HIDE DEF first
<1>4. /\ second \in Tasks!ControlledTask /\ second.required = first.required /\ second.approval = first.approval
      /\ second.stage = stage /\ second.status = status
      /\ second.version = first.version /\ second.audits = first.audits
  BY ZenonT(40), <1>1, <1>3 DEF Tasks!ControlledTask
<1> HIDE DEF second
<1> QED BY <1>1, <1>2, <1>3, <1>4, TaskWriteKeeps

(* One lemma for each route. *)

LEMMA TransitionKeeps ==
    ASSUME TaskGood, NEW r, TaskWellFormed(r), Tasks!transition(r)
    PROVE  TaskGood' /\ RequiredKept(r)
<1> DEFINE old == db.tasks[r.id]
           new == Tasks!write(Tasks!moved(old, r.arg))
<1>1. CASE ~(Tasks!InScope(r) /\ ~Tasks!Refused(db.tasks[r.id], r.arg))
  BY <1>1, TaskThrown DEF Tasks!transition, Tasks!Handle
<1>2. CASE Tasks!InScope(r) /\ ~Tasks!Refused(db.tasks[r.id], r.arg)
  <2>1. r.id \in DOMAIN db.tasks /\ r.arg \in Tasks!Stages
    BY <1>2 DEF Tasks!InScope, TaskWellFormed, Tasks!transition
  <2>2. db' = Tasks!Logged([db EXCEPT !.tasks[r.id] = new], r)
    BY <1>2, <2>1 DEF Tasks!transition, Tasks!Handle
  <2>3. /\ old \in Tasks!ControlledTask /\ (old.required <=> old.approval # "not_required")
        /\ old.required /\ old.approval = "approved" => Permitted(r.id)
    BY <2>1, TaskKnown
  <2>4. old.required /\ r.arg \in {"running", "completed"} => old.approval = "approved"
    BY <1>2 DEF Tasks!Refused
  <2>5. /\ new \in Tasks!ControlledTask /\ new.required = old.required /\ new.approval = old.approval
        /\ new.stage = r.arg /\ new.status = Tasks!statusFor(r.arg)
        /\ new.version = old.version + 1 /\ new.audits = old.audits + 1
    BY <2>1, <2>3, MovedTyped
  <2> HIDE DEF new
  <2> QED BY <2>1, <2>2, <2>3, <2>4, <2>5, TaskReplaced
<1> QED BY <1>1, <1>2

\* Accepting help puts the task back to pending; that it may run next is in the log.
LEMMA TaskApproveKeeps ==
    ASSUME TaskGood, NEW r, TaskWellFormed(r), Tasks!approve(r), r.id \in DOMAIN db.tasks, db.tasks[r.id].required
    PROVE  TaskGood' /\ RequiredKept(r)
<1> DEFINE old == db.tasks[r.id]
           new == Tasks!write(Tasks!decided(old, r.arg))
<1>1. CASE ~(Tasks!InScope(r) /\ Tasks!isAdministrator(r.by))
  BY <1>1, TaskThrown DEF Tasks!approve, Tasks!Handle
<1>2. CASE Tasks!InScope(r) /\ Tasks!isAdministrator(r.by)
  <2>1. r.op = "approve" /\ r.arg \in {"approved", "rejected"}
    BY DEF TaskWellFormed, Tasks!approve
  <2>2. db' = Tasks!Logged([db EXCEPT !.tasks[r.id] = new], r)
    BY <1>2 DEF Tasks!approve, Tasks!Handle
  <2>3. /\ old \in Tasks!ControlledTask /\ old.status = Tasks!statusFor(old.stage) /\ old.required
        /\ old.required /\ old.stage \in {"running", "completed"} => Permitted(r.id)
    BY TaskKnown
  <2>4. /\ new \in Tasks!ControlledTask /\ new.required = old.required /\ new.approval = r.arg
        /\ new.status = Tasks!statusFor(new.stage) /\ new.stage \in {old.stage, "pending"}
        /\ new.version = old.version + 1 /\ new.audits = old.audits + 1
    BY <2>1, <2>3, DecidedTyped
  <2>5. r.arg = "approved" => <<r.op, r.arg>> \in {<<"retry", Tasks!NoArg>>, <<"approve", "approved">>}
    BY <2>1
  <2> HIDE DEF new
  <2> QED BY <1>2, <2>1, <2>2, <2>3, <2>4, <2>5, TaskReplaced
<1> QED BY <1>1, <1>2

LEMMA TakeoverKeeps ==
    ASSUME TaskGood, NEW r, TaskWellFormed(r), Tasks!takeover(r)
    PROVE  TaskGood' /\ RequiredKept(r)
<1> DEFINE old == db.tasks[r.id]
           new == Tasks!write(Tasks!taken(old))
<1>1. CASE ~(Tasks!InScope(r) /\ Tasks!isAdministrator(r.by))
  BY <1>1, TaskThrown DEF Tasks!takeover, Tasks!Handle
<1>2. CASE Tasks!InScope(r) /\ Tasks!isAdministrator(r.by)
  <2>1. r.id \in DOMAIN db.tasks
    BY <1>2 DEF Tasks!InScope
  <2>2. db' = Tasks!Logged([db EXCEPT !.tasks[r.id] = new], r)
    BY <1>2, <2>1 DEF Tasks!takeover, Tasks!Handle
  <2>3. /\ old \in Tasks!ControlledTask /\ (old.required <=> old.approval # "not_required")
        /\ old.required /\ old.approval = "approved" => Permitted(r.id)
    BY <2>1, TaskKnown
  <2>4. /\ new \in Tasks!ControlledTask /\ new.required = old.required /\ new.approval = old.approval
        /\ new.stage = "human_action" /\ new.status = Tasks!statusFor("human_action")
        /\ new.version = old.version + 1 /\ new.audits = old.audits + 1
    BY <2>3, TakenTyped
  <2> HIDE DEF new
  <2> QED BY <2>1, <2>2, <2>3, <2>4, TaskReplaced
<1> QED BY <1>1, <1>2

\* A retry starts the task whatever became of its approval, and is in the log.
LEMMA RetryKeeps ==
    ASSUME TaskGood, NEW r, TaskWellFormed(r), Tasks!retry(r)
    PROVE  TaskGood' /\ RequiredKept(r)
<1> DEFINE old == db.tasks[r.id]
           new == Tasks!write(Tasks!again(old))
           allowed == /\ Tasks!InScope(r) /\ Tasks!isAdministrator(r.by)
                      /\ db.tasks[r.id].stage = "risk" \/ db.tasks[r.id].risk # "none"
<1>1. CASE ~allowed
  BY <1>1, TaskThrown DEF Tasks!retry, Tasks!Handle
<1>2. CASE allowed
  <2>1. r.id \in DOMAIN db.tasks /\ Tasks!isAdministrator(r.by) /\ r.op = "retry" /\ r.arg = Tasks!NoArg
    BY <1>2 DEF Tasks!InScope, TaskWellFormed, Tasks!retry
  <2>2. db' = Tasks!Logged([db EXCEPT !.tasks[r.id] = new], r)
    BY <1>2 DEF Tasks!retry, Tasks!Handle
  <2>3. old \in Tasks!ControlledTask /\ (old.required <=> old.approval # "not_required")
    BY <2>1, TaskKnown
  <2>4. /\ new \in Tasks!ControlledTask /\ new.required = old.required /\ new.approval = old.approval
        /\ new.stage = "running" /\ new.status = Tasks!statusFor("running")
        /\ new.version = old.version + 1 /\ new.audits = old.audits + 1
    BY <2>3, AgainTyped
  <2>5. <<r.op, r.arg>> \in {<<"retry", Tasks!NoArg>>, <<"approve", "approved">>}
    BY <2>1
  <2> HIDE DEF new
  <2> QED BY <2>1, <2>2, <2>3, <2>4, <2>5, TaskReplaced
<1> QED BY <1>1, <1>2

\* A task that is created waits for nothing and is pending.
LEMMA TaskCreateKeeps ==
    ASSUME TaskGood, NEW r, TaskWellFormed(r), Tasks!create(r), r.id \notin DOMAIN db.tasks
    PROVE  TaskGood' /\ RequiredKept(r)
<1> DEFINE c == [Tasks!write(Tasks!controlledTask(r.by, "pending", "none", "none")) EXCEPT !.version = 1]
           e == [op |-> r.op, by |-> r.by, id |-> r.id, arg |-> r.arg]
           T == [id \in DOMAIN db.tasks \cup {r.id} |-> IF id \in DOMAIN db.tasks THEN db.tasks[id] ELSE c]
           L == Append(db.log, e)
<1>1. CASE ~Tasks!Admitted(r, "plain")
  BY <1>1, TaskThrown DEF Tasks!create, Tasks!Handle
<1>2. CASE Tasks!Admitted(r, "plain")
  <2>1. db' = [tasks |-> T, log |-> L]
    BY <1>2 DEF Tasks!create, Tasks!Handle, Tasks!Logged, TaskGood, TaskDataOK
  <2>2. r.id \in TaskIds /\ r.by \in Tasks!Users /\ e \in TaskEvent
    BY DEF TaskWellFormed, TaskRequestSet, TaskEvent
  <2>3. /\ c \in Tasks!ControlledTask /\ c.status = Tasks!statusFor(c.stage) /\ ~c.required /\ c.approval = "not_required"
        /\ c.version = 1 /\ c.audits = 1
    <3> DEFINE k == Tasks!controlledTask(r.by, "pending", "none", "none")
    <3>1. "pending" \in Tasks!Stages
      BY DEF Tasks!Stages
    <3>2. /\ k \in Tasks!ControlledTask /\ k.status = Tasks!statusFor(k.stage) /\ ~k.required /\ k.approval = "not_required"
          /\ k.audits = 0
      BY <2>2, <3>1, NewTaskTyped
    <3> HIDE DEF k
    <3>3. /\ Tasks!write(k) \in Tasks!ControlledTask /\ Tasks!write(k).status = Tasks!statusFor(Tasks!write(k).stage) /\ ~Tasks!write(k).required
          /\ Tasks!write(k).approval = "not_required" /\ Tasks!write(k).audits = 1
      BY <3>2, TaskWriteKeeps
    <3>4. \A w \in Tasks!ControlledTask :
             LET v == [w EXCEPT !.version = 1]
             IN  /\ v \in Tasks!ControlledTask /\ v.status = w.status /\ v.stage = w.stage /\ v.required = w.required
                 /\ v.approval = w.approval /\ v.version = 1 /\ v.audits = w.audits
      BY DEF Tasks!ControlledTask
    <3> QED BY <3>3, <3>4 DEF k
  <2> HIDE DEF c
  <2>4. db.tasks \in [DOMAIN db.tasks -> Tasks!ControlledTask] /\ DOMAIN db.tasks \subseteq TaskIds
        /\ db.log \in Seq(TaskEvent) /\ DOMAIN db.log = 1..Len(db.log) /\ Len(db.log) \in Nat
    BY TaskTableShape DEF TaskGood
  <2>5. /\ DOMAIN T = DOMAIN db.tasks \cup {r.id}
        /\ \A id \in DOMAIN db.tasks : T[id] = db.tasks[id]
        /\ \A id \in DOMAIN T \ DOMAIN db.tasks : T[id] = c
        /\ T \in [DOMAIN db.tasks \cup {r.id} -> Tasks!ControlledTask]
    BY <2>3, <2>4
  <2>6. T \in TaskTables
    BY ZenonT(40), <2>2, <2>4, <2>5 DEF TaskTables
  <2>7. L \in Seq(TaskEvent) /\ DOMAIN L = 1..(Len(db.log) + 1) /\ \A i \in 1..Len(db.log) : L[i] = db.log[i]
    BY <2>2, <2>4
  <2> HIDE DEF T, L
  <2>8. TaskDataOK'
    BY <2>1, <2>6, <2>7 DEF TaskDataOK
  <2>9. DOMAIN db.log \subseteq DOMAIN db'.log /\ \A i \in DOMAIN db.log : db'.log[i] = db.log[i]
    BY <2>1, <2>4, <2>7
  <2>10. \A id \in DOMAIN db.tasks : Permitted(id) => Permitted(id)'
    BY <2>9 DEF Permitted
  <2>11. /\ DOMAIN db'.tasks = DOMAIN db.tasks \cup {r.id}
         /\ \A id \in DOMAIN db.tasks : db'.tasks[id] = db.tasks[id]
         /\ \A id \in DOMAIN db'.tasks \ DOMAIN db.tasks : db'.tasks[id] = c
    BY <2>1, <2>5
  <2>12. RequiredMarked' /\ Tasks!StatusFollowsStage' /\ RequiredKept(r)
    BY <2>3, <2>11 DEF TaskGood, RequiredMarked, Tasks!StatusFollowsStage, RequiredKept, Tasks!create
  <2>13. ApprovedIsLogged'
    BY <2>3, <2>10, <2>11 DEF TaskGood, ApprovedIsLogged
  <2>14. \A id \in DOMAIN db'.tasks : db'.tasks[id].required /\ db'.tasks[id].stage \in {"running", "completed"}
           => Permitted(id)'
    <3>1. \A id \in DOMAIN db.tasks : db.tasks[id].required /\ db.tasks[id].stage \in {"running", "completed"}
             => Permitted(id)
      BY DEF TaskGood, Tasks!RunsAfterApproval, Permitted
    <3> QED BY <2>3, <2>10, <2>11, <3>1
  <2>15. Tasks!RunsAfterApproval'
    BY <2>14 DEF Tasks!RunsAfterApproval, Permitted
  <2>16. db'.log = Append(db.log, e) /\ r.id \in Tasks!NewIds
    BY <2>1 DEF L, TaskWellFormed, Tasks!create
  <2>17. Tasks!TasksAudited'
    <3>1. \A id : Tasks!Cardinality(Tasks!Events(id)')
                      = IF id = r.id THEN Tasks!Cardinality(Tasks!Events(id)) + 1 ELSE Tasks!Cardinality(Tasks!Events(id))
      BY <2>4, <2>16, Counting
    <3>2. Tasks!Events(r.id) = {}
      BY DEF Tasks!Events, TaskGood, EventsKnown
    <3>3. Tasks!Cardinality(Tasks!Events(r.id)') = 1
      BY <3>1, <3>2, TaskCounted, FS_EmptySet
    <3> SUFFICES ASSUME NEW id \in DOMAIN db'.tasks
                 PROVE  /\ db'.tasks[id].version = db'.tasks[id].audits + (IF id \in Tasks!NewIds THEN 0 ELSE 1)
                        /\ db'.tasks[id].audits = Tasks!Cardinality(Tasks!Events(id)')
      BY DEF Tasks!TasksAudited, Tasks!NewIds
    <3>4. CASE id = r.id
      BY <2>3, <2>11, <2>16, <3>3, <3>4
    <3>5. CASE id # r.id
      <4>1. id \in DOMAIN db.tasks
        BY <2>11, <3>5
      <4> QED BY <2>11, <3>1, <3>5, <4>1 DEF TaskGood, Tasks!TasksAudited
    <3> QED BY <3>4, <3>5
  <2>18. EventsKnown'
    <3>1. \A i \in DOMAIN db'.log : (i \in DOMAIN db.log /\ db'.log[i] = db.log[i]) \/ db'.log[i].id = r.id
      BY <2>4, <2>16, TaskLogging
    <3> QED BY <2>11, <3>1 DEF TaskGood, EventsKnown
  <2> QED BY <2>8, <2>12, <2>13, <2>15, <2>17, <2>18 DEF TaskGood
<1> QED BY <1>1, <1>2

(* Requests under way. *)

LEMMA TaskAsked ==
    ASSUME NEW r, Tasks!Ask(r)
    PROVE  /\ db' = db /\ TaskNetShape' /\ Tasks!BagToSet(net'.out) = Tasks!BagToSet(net.out) \cup {r}
           /\ \A q \in Tasks!BagToSet(net.out) \ {r} : net.out[q] = 1 => net'.out[q] = 1
           /\ r \notin Tasks!BagToSet(net.out) => net'.out[r] = 1
<1> DEFINE B == Tasks!(+)(net.out, Tasks!SetToBag({r}))
<1>1. net' = [out |-> B, made |-> net.made + 1] /\ db' = db
  BY DEF Tasks!Ask
<1>2. B = [q \in DOMAIN net.out \cup {r} |-> (IF q \in DOMAIN net.out THEN net.out[q] ELSE 0) + (IF q = r THEN 1 ELSE 0)]
  BY DEF Tasks!(+), Tasks!SetToBag
<1> HIDE DEF B
<1>3. DOMAIN B = DOMAIN net.out \cup {r} /\ \A q \in DOMAIN B \ {r} : net.out[q] = 1 => B[q] = 1
  BY <1>2
<1>4. r \notin DOMAIN net.out => B[r] = 1
  BY <1>2
<1>5. net'.out = B /\ TaskNetShape'
  BY <1>1 DEF TaskNetShape
<1> QED BY <1>1, <1>3, <1>4, <1>5 DEF Tasks!BagToSet

LEMMA TaskArrived ==
    ASSUME NEW r, Tasks!Arrives(r), TaskNetShape
    PROVE  /\ TaskNetShape' /\ Tasks!BagToSet(net'.out) \subseteq Tasks!BagToSet(net.out)
           /\ \A q \in Tasks!BagToSet(net'.out) \ {r} : net'.out[q] = net.out[q]
           /\ net.out[r] = 1 => r \notin Tasks!BagToSet(net'.out)
<1> DEFINE C == [q \in DOMAIN net.out |-> IF q \in {r} THEN net.out[q] - 1 ELSE net.out[q]]
           B == Tasks!(-)(net.out, Tasks!SetToBag({r}))
<1>1. net' = [out |-> B, made |-> net.made]
  BY DEF Tasks!Arrives, TaskNetShape
<1>2. B = [q \in {d \in DOMAIN C : C[d] > 0} |-> C[q]]
  BY DEF Tasks!(-), Tasks!SetToBag
<1> HIDE DEF B
<1>3. net'.out = B /\ TaskNetShape'
  BY <1>1 DEF TaskNetShape
<1>4. DOMAIN B \subseteq DOMAIN net.out /\ (\A q \in DOMAIN B \ {r} : B[q] = net.out[q])
      /\ \A q \in DOMAIN B : C[q] > 0
  BY <1>2
<1>5. ASSUME net.out[r] = 1, r \in DOMAIN B PROVE FALSE
  <2>1. r \in DOMAIN net.out /\ C[r] > 0
    BY <1>4, <1>5
  <2>2. C[r] = 0
    BY <1>5, <2>1
  <2> QED BY <2>1, <2>2
<1> QED BY <1>3, <1>4, <1>5 DEF Tasks!BagToSet

\* Nobody is making a task of this name, and none is there.
TaskUnused(id) == id \notin DOMAIN db.tasks /\ \A q \in Tasks!BagToSet(net.out) : q.id # id

LEMMA TaskOffersTyped ==
    ASSUME StaffAccounts, TaskGood, NEW u \in StaffActors, NEW r \in Tasks!Offers(u)
    PROVE  /\ TaskWellFormed(r) /\ (r.op = "create" => TaskUnused(r.id))
           /\ r.op = "approve" => r.id \in DOMAIN db.tasks /\ db.tasks[r.id].required
<1>1. u \in Tasks!Users
  BY DEF StaffAccounts, Tasks!Users, Tasks!RoleOf, Users, RoleOf
<1>2. \A id \in DOMAIN db.tasks : id \in TaskIds /\ db.tasks[id] \in Tasks!ControlledTask /\ db.tasks[id].version \in Nat
  BY TaskTableShape DEF TaskGood, Tasks!ControlledTask
<1>3. \A id \in TaskIds, stage \in Tasks!Stages, seen \in Nat : TaskWellFormed(Tasks!Req("transition", u, id, stage, seen))
  BY <1>1 DEF TaskWellFormed, TaskRequestSet, Tasks!Req, TaskOps, TaskArgs
<1>4. \A id \in TaskIds, op \in {"takeover", "retry"}, seen \in Nat : TaskWellFormed(Tasks!Req(op, u, id, Tasks!NoArg, seen))
  BY <1>1 DEF TaskWellFormed, TaskRequestSet, Tasks!Req, TaskOps, TaskArgs
<1>5. \A id \in TaskIds, verdict \in {"approved", "rejected"}, seen \in Nat : TaskWellFormed(Tasks!Req("approve", u, id, verdict, seen))
  BY <1>1 DEF TaskWellFormed, TaskRequestSet, Tasks!Req, TaskOps, TaskArgs
<1>6. ASSUME NEW id \in DOMAIN db.tasks, r \in Tasks!TaskLifecycleBoard(u, id)
      PROVE  TaskWellFormed(r) /\ r.op \notin {"approve", "create"}
  BY SMTT(30), <1>2, <1>3, <1>6 DEF Tasks!TaskLifecycleBoard, Tasks!Stages, Tasks!Req
<1>7. ASSUME NEW id \in DOMAIN db.tasks, r \in Tasks!PrimaryRequest(u, id)
      PROVE  TaskWellFormed(r) /\ r.op \notin {"approve", "create"}
  BY <1>2, <1>3, <1>4, <1>7 DEF Tasks!PrimaryRequest, Tasks!getPrimaryAction, Tasks!Stages, Tasks!Req
<1>8. ASSUME NEW id \in DOMAIN db.tasks, r \in Tasks!Governance(u, id)
      PROVE  TaskWellFormed(r) /\ r.op # "create" /\ (r.op = "approve" => r.id = id /\ db.tasks[id].approval = "pending")
  BY <1>2, <1>4, <1>5, <1>8 DEF Tasks!Governance, Tasks!Req
<1>9. \A id \in DOMAIN db.tasks : db.tasks[id].approval = "pending" => db.tasks[id].required
  BY DEF TaskGood, RequiredMarked
<1>10. CASE \E id \in DOMAIN db.tasks : r \in Tasks!TaskLifecycleBoard(u, id) \cup Tasks!TaskLifecycleDrawer(u, id)
  BY <1>6, <1>7, <1>8, <1>9, <1>10 DEF Tasks!TaskLifecycleDrawer
<1>11. CASE \E id \in Tasks!NewIds : Tasks!Vacant(id, db.tasks) /\ r = Tasks!Req("create", u, id, Tasks!NoArg, 0)
  BY <1>1, <1>11
     DEF Tasks!NewIds, TaskIds, Tasks!Req, Tasks!Vacant, TaskUnused, TaskWellFormed, TaskRequestSet, TaskOps, TaskArgs
<1>12. \/ \E id \in DOMAIN db.tasks : r \in Tasks!TaskLifecycleBoard(u, id) \cup Tasks!TaskLifecycleDrawer(u, id)
       \/ \E id \in Tasks!NewIds : Tasks!Vacant(id, db.tasks) /\ r = Tasks!Req("create", u, id, Tasks!NoArg, 0)
  BY DEF Tasks!Offers
<1> QED BY <1>10, <1>11, <1>12

LEMMA TaskInit == Tasks!Init => TaskInv
<1> SUFFICES ASSUME Tasks!Init PROVE TaskInv
  OBVIOUS
<1>1. db = [tasks |-> Tasks!mockTasks, log |-> <<>>] /\ net = [out |-> Tasks!EmptyBag, made |-> 0]
  BY DEF Tasks!Init, Tasks!NetInit
<1>2. /\ DOMAIN Tasks!mockTasks = {"assist", "overdue", "plain"}
      /\ Tasks!mockTasks.assist = Tasks!controlledTask("u1", "human_action", "none", "assist")
      /\ Tasks!mockTasks.overdue = Tasks!controlledTask("u1", "running", "overdue", "none")
      /\ Tasks!mockTasks.plain = Tasks!controlledTask("u1", "pending", "none", "assign")
      /\ Tasks!mockTasks = [id \in DOMAIN Tasks!mockTasks |-> Tasks!mockTasks[id]]
  BY DEF Tasks!mockTasks
<1>3. "u1" \in Tasks!Users /\ {"human_action", "running", "pending"} \subseteq Tasks!Stages
  BY DEF Tasks!Users, Tasks!RoleOf, Tasks!Stages
<1>4. \A id \in DOMAIN Tasks!mockTasks :
         /\ Tasks!mockTasks[id] \in Tasks!ControlledTask
         /\ Tasks!mockTasks[id].status = Tasks!statusFor(Tasks!mockTasks[id].stage)
         /\ Tasks!mockTasks[id].required <=> Tasks!mockTasks[id].approval # "not_required"
         /\ Tasks!mockTasks[id].required => Tasks!mockTasks[id].approval = "pending" /\ Tasks!mockTasks[id].stage = "human_action"
  <2>1. /\ Tasks!mockTasks.assist \in Tasks!ControlledTask /\ Tasks!mockTasks.overdue \in Tasks!ControlledTask
        /\ Tasks!mockTasks.plain \in Tasks!ControlledTask
    BY <1>2, <1>3, NewTaskTyped
  <2>2. /\ Tasks!mockTasks.assist.approval = "pending" /\ Tasks!mockTasks.assist.required /\ Tasks!mockTasks.assist.stage = "human_action"
        /\ Tasks!mockTasks.overdue.approval = "not_required" /\ ~Tasks!mockTasks.overdue.required
        /\ Tasks!mockTasks.plain.approval = "not_required" /\ ~Tasks!mockTasks.plain.required
    BY <1>2, <1>3, NewTaskTyped
  <2>3. \A id \in DOMAIN Tasks!mockTasks : Tasks!mockTasks[id].status = Tasks!statusFor(Tasks!mockTasks[id].stage)
    BY <1>2 DEF Tasks!controlledTask
  <2> QED BY <1>2, <2>1, <2>2, <2>3
<1>5. TaskDataOK
  <2>1. Tasks!mockTasks \in [{"assist", "overdue", "plain"} -> Tasks!ControlledTask]
    BY <1>2, <1>4
  <2>2. Tasks!mockTasks \in TaskTables
    BY <2>1 DEF TaskTables, TaskIds
  <2> QED BY <1>1, <2>2 DEF TaskDataOK
<1>a. Tasks!TasksAudited /\ EventsKnown
  <2>1. \A id \in DOMAIN Tasks!mockTasks : Tasks!mockTasks[id].version = 1 /\ Tasks!mockTasks[id].audits = 0 /\ id \notin Tasks!NewIds
    BY <1>2, <1>3, NewTaskTyped DEF Tasks!NewIds
  <2>2. DOMAIN db.log = {} /\ \A id : Tasks!Events(id) = {}
    BY <1>1 DEF Tasks!Events
  <2>3. \A id : Tasks!Cardinality(Tasks!Events(id)) = 0
    BY <2>2, TaskCounted, FS_EmptySet
  <2> QED BY <1>1, <2>1, <2>2, <2>3 DEF Tasks!TasksAudited, EventsKnown
<1>6. TaskGood
  BY <1>1, <1>4, <1>5, <1>a
     DEF TaskGood, RequiredMarked, ApprovedIsLogged, Tasks!RunsAfterApproval, Tasks!StatusFollowsStage
<1>7. Tasks!BagToSet(net.out) = {}
  BY <1>1 DEF Tasks!BagToSet, Tasks!EmptyBag, Tasks!SetToBag
<1>8. TaskNetOK /\ AskedToDecide /\ CreatedOnce
  BY <1>1, <1>7 DEF TaskNetOK, TaskNetShape, AskedToDecide, CreatedOnce
<1> QED BY <1>6, <1>8 DEF TaskInv

LEMMA TaskNext == StaffAccounts /\ TaskInv /\ [Tasks!Next]_(Tasks!vars) => TaskInv'
<1> SUFFICES ASSUME StaffAccounts, TaskInv, [Tasks!Next]_(Tasks!vars) PROVE TaskInv'
  OBVIOUS
<1> USE DEF TaskInv
<1>1. CASE UNCHANGED Tasks!vars
  <2>1. db' = db /\ net' = net
    BY <1>1 DEF Tasks!vars
  <2>2. TaskGood'
    BY <2>1, TaskThrown
  <2> QED BY <2>1, <2>2 DEF TaskNetOK, TaskNetShape, TaskWellFormed, AskedToDecide, CreatedOnce
<1>2. ASSUME NEW u \in StaffActors, NEW r \in Tasks!Offers(u), Tasks!Ask(r) PROVE TaskInv'
  <2>1. /\ TaskWellFormed(r) /\ (r.op = "create" => TaskUnused(r.id))
        /\ r.op = "approve" => r.id \in DOMAIN db.tasks /\ db.tasks[r.id].required
    BY TaskOffersTyped
  <2>2. /\ db' = db /\ TaskNetShape' /\ Tasks!BagToSet(net'.out) = Tasks!BagToSet(net.out) \cup {r}
        /\ \A q \in Tasks!BagToSet(net.out) \ {r} : net.out[q] = 1 => net'.out[q] = 1
        /\ r \notin Tasks!BagToSet(net.out) => net'.out[r] = 1
    BY <1>2, TaskAsked
  <2>3. TaskGood'
    BY <2>2, TaskThrown
  <2>4. TaskNetOK'
    BY <2>1, <2>2 DEF TaskNetOK, TaskWellFormed
  <2>5. AskedToDecide'
    BY <2>1, <2>2 DEF AskedToDecide
  <2>6. CreatedOnce'
    <3> SUFFICES ASSUME NEW q \in Tasks!BagToSet(net'.out), q.op = "create"
                 PROVE  /\ q.id \notin DOMAIN db'.tasks /\ net'.out[q] = 1
                        /\ \A p \in Tasks!BagToSet(net'.out) : p.op = "create" /\ p.id = q.id => p = q
      BY DEF CreatedOnce
    <3>1. CASE q = r
      BY <2>1, <2>2, <3>1 DEF TaskUnused
    <3>2. CASE q # r
      BY <2>1, <2>2, <3>2 DEF TaskUnused, CreatedOnce
    <3> QED BY <3>1, <3>2
  <2> QED BY <2>3, <2>4, <2>5, <2>6
<1>3. ASSUME NEW r \in Tasks!BagToSet(net.out), Tasks!Arrives(r),
             Tasks!create(r) \/ Tasks!transition(r) \/ Tasks!approve(r) \/ Tasks!takeover(r) \/ Tasks!retry(r)
      PROVE  TaskInv'
  <2>1. /\ TaskWellFormed(r) /\ (r.op = "create" => r.id \notin DOMAIN db.tasks /\ net.out[r] = 1)
        /\ r.op = "approve" => r.id \in DOMAIN db.tasks /\ db.tasks[r.id].required
    BY DEF TaskNetOK, AskedToDecide, CreatedOnce
  <2>2. /\ TaskNetShape' /\ Tasks!BagToSet(net'.out) \subseteq Tasks!BagToSet(net.out)
        /\ \A q \in Tasks!BagToSet(net'.out) \ {r} : net'.out[q] = net.out[q]
        /\ net.out[r] = 1 => r \notin Tasks!BagToSet(net'.out)
    BY <1>3, TaskArrived DEF TaskNetOK
  <2>3. (Tasks!approve(r) => r.op = "approve") /\ (Tasks!create(r) => r.op = "create")
    BY DEF Tasks!approve, Tasks!create
  <2>4. TaskGood' /\ RequiredKept(r)
    BY <1>3, <2>1, <2>3, TaskCreateKeeps, TransitionKeeps, TaskApproveKeeps, TakeoverKeeps, RetryKeeps
  <2>5. TaskNetOK'
    BY <2>2 DEF TaskNetOK, TaskWellFormed
  <2>6. AskedToDecide'
    BY <2>2, <2>4 DEF AskedToDecide, RequiredKept
  <2>7. CreatedOnce'
    <3> SUFFICES ASSUME NEW q \in Tasks!BagToSet(net'.out), q.op = "create"
                 PROVE  /\ q.id \notin DOMAIN db'.tasks /\ net'.out[q] = 1
                        /\ \A p \in Tasks!BagToSet(net'.out) : p.op = "create" /\ p.id = q.id => p = q
      BY DEF CreatedOnce
    <3>1. q \in Tasks!BagToSet(net.out)
      BY <2>2
    <3>2. q # r
      <4>1. CASE r.op = "create"
        BY <2>1, <2>2, <4>1
      <4>2. CASE r.op # "create"
        BY <4>2
      <4> QED BY <4>1, <4>2
    <3>3. q.id \notin DOMAIN db.tasks /\ net.out[q] = 1
          /\ \A p \in Tasks!BagToSet(net.out) : p.op = "create" /\ p.id = q.id => p = q
      BY <3>1 DEF CreatedOnce
    <3>4. q.id \notin DOMAIN db'.tasks
      <4>1. r.op = "create" => r.id # q.id
        BY <3>2, <3>3
      <4> QED BY <2>4, <3>3, <4>1 DEF RequiredKept
    <3> QED BY <2>2, <3>2, <3>3, <3>4
  <2> QED BY <2>4, <2>5, <2>6, <2>7
<1> QED BY <1>1, <1>2, <1>3 DEF Tasks!Next

\* A task that needs an approval runs or ends only after an administrator
\* approved it or told it to try again, the status other pages count by is the
\* one of the stage, and every change leaves its event, in the task and in the
\* log, for any accounts and whatever requests overtake each other.
THEOREM TasksStayControlled ==
    ASSUME StaffAccounts
    PROVE  Tasks!Init /\ [][Tasks!Next]_(Tasks!vars)
               => [](Tasks!TypeOK /\ Tasks!RunsAfterApproval /\ Tasks!StatusFollowsStage /\ Tasks!TasksAudited)
<1>1. TaskInv => Tasks!TypeOK
  BY TaskTableShape DEF TaskInv, TaskGood, RequiredMarked, Tasks!TypeOK
<1>2. TaskInv => Tasks!RunsAfterApproval /\ Tasks!StatusFollowsStage /\ Tasks!TasksAudited
  BY DEF TaskInv, TaskGood
<1>3. TaskInv /\ [Tasks!Next]_(Tasks!vars) => TaskInv'
  BY TaskNext
<1> QED BY <1>1, <1>2, <1>3, TaskInit, PTL

-----------------------------------------------------------------------------
(* Digital employees, for any accounts and any number of requests under     *)
(* way.  The proofs take nothing from the page but the shape of the         *)
(* request: whatever an employee has become by the time it arrives, a       *)
(* release that was withdrawn or rejected stays so until another is asked.  *)

Employees == INSTANCE EmployeeDomain WITH Actors <- StaffActors

EmployeeSpec == Employees!Init /\ [][Employees!Next]_(Employees!vars)

EmployeeIds == {"secops", "guard", "change", "eAdopted", "eNew", "certified", "review", "department"}
EmployeeOps == {"adopt", "govern", "publishTemplate", "create", "configure", "assemble", "evaluate", "release",
        "withdraw", "reject", "lifecycle"}
EmployeeArgs == {"certified", "deprecated", "placeholder", "production", "passed", "failed",
         "active", "paused", "quarantined", Employees!NoArg}
EmployeeEvent == [op : EmployeeOps, by : Employees!Users, id : EmployeeIds, arg : EmployeeArgs]

EmployeeRequestSet == [op : EmployeeOps, by : Employees!Users, id : EmployeeIds, arg : EmployeeArgs, seen : Nat]

EmployeeTable(Row) == UNION {[S -> Row] : S \in SUBSET EmployeeIds}

EmployeeVersions == Seq(Employees!DigitalEmployeeConfigurationVersion)

EmployeeDataOK ==
    db \in [employees : EmployeeTable(Employees!DigitalEmployee),
            templates : EmployeeTable(Employees!DigitalEmployeeTemplate),
            adoptions : EmployeeTable(Employees!Lifecycles), versions : EmployeeTable(EmployeeVersions),
            log : Seq(EmployeeEvent)]

\* What the buttons put into a request.
EmployeeWellFormed(r) ==
    /\ r \in EmployeeRequestSet
    /\ r.arg = "active" => r.op = "lifecycle"
    /\ r.op = "adopt" => r.id = "eAdopted" /\ r.arg = "certified"
    /\ r.op = "create" => r.id = "eNew"
    /\ r.op = "govern" => r.arg \in {"certified", "deprecated"} /\ r.id \in DOMAIN db.templates
    /\ r.op = "configure" => r.arg \in {"placeholder", "production"}
    /\ r.op \in {"configure", "assemble"} => r.seen \in 0..2
    /\ r.op = "lifecycle" => r.arg \in {"active", "paused", "quarantined"}

EmployeeNetShape == net = [out |-> net.out, made |-> net.made]

EmployeeNetOK == EmployeeNetShape /\ \A r \in Employees!BagToSet(net.out) : EmployeeWellFormed(r)

\* In service only under a release, which nobody signed for himself but an administrator.
EmployeeSound(e) ==
    /\ e.lifecycle \in Employees!InService => e.release = "released"
    /\ e.approver = e.by /\ e.by # Employees!NoArg => Employees!isAdministrator(e.by)

EmployeesSound == \A id \in DOMAIN db.employees : EmployeeSound(db.employees[id])

TakingBack == {"withdraw", "reject"}

\* A release of id was asked for at i or after.
AskedAgain(log, id, i) == \E k \in i..Len(log) : log[k].op = "release" /\ log[k].id = id

\* What was withdrawn or rejected is not released unless it was asked for again.
TakenBackStays ==
    \A i \in DOMAIN db.log : db.log[i].op \in TakingBack =>
        /\ db.log[i].id \in DOMAIN db.employees
        /\ db.employees[db.log[i].id].release = "not_released" \/ AskedAgain(db.log, db.log[i].id, i)

NoneRevived ==
    \A i, j \in DOMAIN db.log :
        /\ i < j /\ db.log[i].id = db.log[j].id
        /\ db.log[i].op \in TakingBack /\ db.log[j].arg = "active"
        => \E k \in i..j : db.log[k].op = "release" /\ db.log[k].id = db.log[j].id

\* Only the employee made from a template has a record of its adoption.
AdoptedOnly == DOMAIN db.adoptions \subseteq {"eAdopted"} \cap DOMAIN db.employees

CertifiedThere == "certified" \in DOMAIN db.templates

EmployeeGood ==
    /\ EmployeeDataOK /\ EmployeesSound /\ TakenBackStays /\ NoneRevived
    /\ AdoptedOnly /\ CertifiedThere /\ Employees!RecordsMirror

EmployeeInv == EmployeeGood /\ EmployeeNetOK

LEMMA EmployeeCounted == \A S : Employees!Cardinality(S) = Cardinality(S)
BY DEF Employees!Cardinality, Cardinality

(* Tables and the log. *)

LEMMA EmployeeTableShape ==
    ASSUME NEW Row, NEW f \in EmployeeTable(Row)
    PROVE  f \in [DOMAIN f -> Row] /\ DOMAIN f \in SUBSET EmployeeIds
BY DEF EmployeeTable

LEMMA EmployeeReplaced ==
    ASSUME NEW Row, NEW f \in EmployeeTable(Row), NEW id \in DOMAIN f, NEW row \in Row
    PROVE  LET g == [f EXCEPT ![id] = row]
           IN  /\ g \in EmployeeTable(Row) /\ DOMAIN g = DOMAIN f /\ g[id] = row
               /\ \A x \in DOMAIN f \ {id} : g[x] = f[x]
<1>1. f \in [DOMAIN f -> Row] /\ DOMAIN f \in SUBSET EmployeeIds
  BY EmployeeTableShape
<1>2. [f EXCEPT ![id] = row] \in [DOMAIN f -> Row]
  BY <1>1
<1> QED BY <1>1, <1>2 DEF EmployeeTable

LEMMA EmployeePut ==
    ASSUME NEW Row, NEW f \in EmployeeTable(Row), NEW id \in EmployeeIds, NEW row \in Row
    PROVE  Employees!Unshifted(f, id, row) \in EmployeeTable(Row)
<1>1. f \in [DOMAIN f -> Row] /\ DOMAIN f \cup {id} \in SUBSET EmployeeIds
  BY EmployeeTableShape
<1>2. Employees!Unshifted(f, id, row) \in [DOMAIN f \cup {id} -> Row]
  BY <1>1 DEF Employees!Unshifted
<1> QED BY <1>1, <1>2 DEF EmployeeTable

EmployeeEntry(x) == [op |-> x.op, by |-> x.by, id |-> x.id, arg |-> x.arg]

LEMMA EmployeeLogGrows ==
    ASSUME NEW log \in Seq(EmployeeEvent), NEW x \in EmployeeRequestSet
    PROVE  LET new == Append(log, EmployeeEntry(x))
           IN  /\ new \in Seq(EmployeeEvent) /\ Len(log) \in Nat /\ Len(new) = Len(log) + 1
               /\ DOMAIN log = 1..Len(log) /\ DOMAIN new = 1..(Len(log) + 1)
               /\ \A i \in 1..Len(log) : new[i] = log[i]
               /\ new[Len(log) + 1].op = x.op /\ new[Len(log) + 1].id = x.id /\ new[Len(log) + 1].arg = x.arg
<1> DEFINE e == EmployeeEntry(x)
<1>1. e \in EmployeeEvent /\ e.op = x.op /\ e.id = x.id /\ e.arg = x.arg
  BY DEF EmployeeEntry, EmployeeRequestSet, EmployeeEvent
<1> HIDE DEF e
<1>2. /\ Len(log) \in Nat /\ DOMAIN log = 1..Len(log) /\ Len(Append(log, e)) = Len(log) + 1
      /\ Append(log, e) \in Seq(EmployeeEvent) /\ DOMAIN Append(log, e) = 1..(Len(log) + 1)
      /\ (\A i \in 1..Len(log) : Append(log, e)[i] = log[i]) /\ Append(log, e)[Len(log) + 1] = e
  BY <1>1
<1> QED BY <1>1, <1>2 DEF e

\* The tables, one by one.
LEMMA EmployeeDataShape ==
    ASSUME EmployeeDataOK
    PROVE  /\ db.employees \in EmployeeTable(Employees!DigitalEmployee)
           /\ db.templates \in EmployeeTable(Employees!DigitalEmployeeTemplate)
           /\ db.adoptions \in EmployeeTable(Employees!Lifecycles) /\ db.versions \in EmployeeTable(EmployeeVersions)
           /\ db.log \in Seq(EmployeeEvent)
           /\ db = [employees |-> db.employees, templates |-> db.templates, adoptions |-> db.adoptions,
                    versions |-> db.versions, log |-> db.log]
BY DEF EmployeeDataOK

(* What a route may do to the rows. *)

EmployeeRowsStay ==
    /\ DOMAIN db.employees \subseteq DOMAIN db'.employees
    /\ DOMAIN db.templates \subseteq DOMAIN db'.templates

\* What is not released is released only when x asks for it.
ReleasesKept(x) ==
    \A id \in DOMAIN db.employees :
        db.employees[id].release = "not_released" /\ ~(x.op = "release" /\ x.id = id)
            => db'.employees[id].release = "not_released"

\* What x takes back is not released, and what it puts to work was asked for.
EmployeeEntitled(x) ==
    /\ x.op \in TakingBack => x.id \in DOMAIN db.employees /\ db'.employees[x.id].release = "not_released"
    /\ x.arg = "active" =>
          x.op = "lifecycle" /\ x.id \in DOMAIN db.employees /\ db.employees[x.id].release # "not_released"

LEMMA EmployeeThrown ==
    ASSUME EmployeeGood, db' = db
    PROVE  EmployeeGood' /\ EmployeeRowsStay
<1>1. TakenBackStays'
  BY DEF EmployeeGood, TakenBackStays, AskedAgain
<1> QED BY <1>1 DEF EmployeeGood, EmployeeDataOK, EmployeesSound, EmployeeSound, NoneRevived, AdoptedOnly,
   CertifiedThere, Employees!RecordsMirror, EmployeeRowsStay

LEMMA EmployeePreserved ==
    ASSUME EmployeeGood, NEW x \in EmployeeRequestSet, EmployeeDataOK', db'.log = Append(db.log, EmployeeEntry(x)),
           EmployeesSound', EmployeeRowsStay, ReleasesKept(x), EmployeeEntitled(x),
               AdoptedOnly', Employees!RecordsMirror'
    PROVE  EmployeeGood'
<1> DEFINE n == Len(db.log)
<1>1. /\ n \in Nat /\ Len(db'.log) = n + 1 /\ DOMAIN db.log = 1..n /\ DOMAIN db'.log = 1..(n + 1)
      /\ \A i \in 1..n : db'.log[i] = db.log[i]
      /\ db'.log[n + 1].op = x.op /\ db'.log[n + 1].id = x.id /\ db'.log[n + 1].arg = x.arg
  BY EmployeeDataShape, EmployeeLogGrows DEF EmployeeGood
<1> HIDE DEF n
<1>2. \A i \in 1..n : \A id : AskedAgain(db.log, id, i) => AskedAgain(db'.log, id, i)
  <2> SUFFICES ASSUME NEW i \in 1..n, NEW id, NEW k \in i..n, db.log[k].op = "release" /\ db.log[k].id = id
               PROVE  \E m \in i..(n + 1) : db'.log[m].op = "release" /\ db'.log[m].id = id
    BY <1>1 DEF AskedAgain, n
  <2> QED BY <1>1
<1>3. TakenBackStays'
  <2> SUFFICES ASSUME NEW i \in DOMAIN db'.log, db'.log[i].op \in TakingBack
               PROVE  /\ db'.log[i].id \in DOMAIN db'.employees
                      /\ \/ db'.employees[db'.log[i].id].release = "not_released"
                         \/ AskedAgain(db'.log, db'.log[i].id, i)
    BY DEF TakenBackStays, AskedAgain
  <2>1. CASE i \in 1..n
    <3> DEFINE id == db.log[i].id
    <3>1. /\ db'.log[i].id = id /\ id \in DOMAIN db.employees
          /\ db.employees[id].release = "not_released" \/ AskedAgain(db.log, id, i)
      BY <1>1, <2>1 DEF EmployeeGood, TakenBackStays
    <3>2. CASE AskedAgain(db.log, id, i)
      <4>1. AskedAgain(db'.log, id, i)
        BY <1>2, <2>1, <3>2
      <4> QED BY <3>1, <4>1 DEF EmployeeRowsStay
    <3>3. CASE db.employees[id].release = "not_released" /\ x.op = "release" /\ x.id = id
      <4>1. AskedAgain(db'.log, id, i)
        BY <1>1, <2>1, <3>3 DEF AskedAgain
      <4> QED BY <3>1, <4>1 DEF EmployeeRowsStay
    <3>4. CASE db.employees[id].release = "not_released" /\ ~(x.op = "release" /\ x.id = id)
      BY <3>1, <3>4 DEF EmployeeRowsStay, ReleasesKept
    <3> QED BY <3>1, <3>2, <3>3, <3>4
  <2>2. CASE i = n + 1
    BY <1>1, <2>2 DEF EmployeeEntitled, EmployeeRowsStay
  <2> QED BY <1>1, <2>1, <2>2
<1>4. NoneRevived'
  <2> SUFFICES ASSUME NEW i \in DOMAIN db'.log, NEW j \in DOMAIN db'.log, i < j, db'.log[i].id = db'.log[j].id,
                      db'.log[i].op \in TakingBack, db'.log[j].arg = "active"
               PROVE  \E k \in i..j : db'.log[k].op = "release" /\ db'.log[k].id = db'.log[j].id
    BY DEF NoneRevived
  <2>1. i \in 1..n /\ db'.log[i] = db.log[i]
    BY <1>1
  <2>2. CASE j \in 1..n
    <3>1. PICK k \in i..j : db.log[k].op = "release" /\ db.log[k].id = db.log[j].id
      BY <1>1, <2>1, <2>2 DEF EmployeeGood, NoneRevived
    <3>2. k \in 1..n
      BY <1>1, <2>1, <2>2
    <3> QED BY <1>1, <2>2, <3>1, <3>2
  <2>3. CASE j = n + 1
    <3>1. db.log[i].id = x.id /\ db.employees[x.id].release # "not_released"
      BY <1>1, <2>1, <2>3 DEF EmployeeEntitled
    <3>2. AskedAgain(db.log, x.id, i)
      BY <1>1, <2>1, <3>1 DEF EmployeeGood, TakenBackStays
    <3>3. PICK k \in i..n : db.log[k].op = "release" /\ db.log[k].id = x.id
      BY <3>2 DEF AskedAgain, n
    <3>4. k \in 1..n /\ k \in i..j
      BY <1>1, <2>1, <2>3
    <3> QED BY <1>1, <2>3, <3>3, <3>4
  <2> QED BY <1>1, <2>2, <2>3
<1>5. CertifiedThere'
  BY DEF EmployeeGood, CertifiedThere, EmployeeRowsStay
<1> QED BY <1>3, <1>4, <1>5 DEF EmployeeGood

(* One lemma for each route. *)

LEMMA SavedKeeps ==
    ASSUME EmployeeGood, NEW x \in EmployeeRequestSet, x.id \in DOMAIN db.employees,
           NEW e \in Employees!DigitalEmployee, EmployeeSound(e),
           db' = Employees!Saved(e, x),
           x.op # "release" /\ db.employees[x.id].release = "not_released" => e.release = "not_released",
           x.op \in TakingBack => e.release = "not_released",
           x.arg = "active" => x.op = "lifecycle" /\ db.employees[x.id].release # "not_released"
    PROVE  EmployeeGood' /\ EmployeeRowsStay
<1> DEFINE T == [db.employees EXCEPT ![x.id] = e]
           A == [id \in DOMAIN db.adoptions |-> IF id = x.id THEN e.lifecycle ELSE db.adoptions[id]]
<1>1. db' = [employees |-> T, templates |-> db.templates, adoptions |-> A, versions |-> db.versions,
             log |-> Append(db.log, EmployeeEntry(x))]
  BY EmployeeDataShape DEF EmployeeGood, Employees!Saved, Employees!Logged, EmployeeEntry
<1>2. /\ T \in EmployeeTable(Employees!DigitalEmployee) /\ DOMAIN T = DOMAIN db.employees /\ T[x.id] = e
      /\ \A id \in DOMAIN db.employees \ {x.id} : T[id] = db.employees[id]
  BY EmployeeDataShape, EmployeeReplaced DEF EmployeeGood
<1>3. A \in EmployeeTable(Employees!Lifecycles) /\ DOMAIN A = DOMAIN db.adoptions
  <2>1. db.adoptions \in [DOMAIN db.adoptions -> Employees!Lifecycles] /\ DOMAIN db.adoptions \in SUBSET EmployeeIds
    BY EmployeeDataShape, EmployeeTableShape DEF EmployeeGood
  <2>2. e.lifecycle \in Employees!Lifecycles
    BY DEF Employees!DigitalEmployee
  <2>3. A \in [DOMAIN db.adoptions -> Employees!Lifecycles]
    BY <2>1, <2>2
  <2> QED BY <2>1, <2>3 DEF EmployeeTable
<1>4. \A id \in DOMAIN A : A[id] = T[id].lifecycle
  BY <1>2 DEF EmployeeGood, Employees!RecordsMirror, AdoptedOnly
<1> HIDE DEF T, A
<1>5. EmployeeDataOK'
  BY <1>1, <1>2, <1>3, EmployeeDataShape, EmployeeLogGrows DEF EmployeeGood, EmployeeDataOK
<1>6. EmployeesSound' /\ EmployeeRowsStay /\ ReleasesKept(x) /\ EmployeeEntitled(x)
  BY <1>1, <1>2 DEF EmployeeGood, EmployeesSound, EmployeeRowsStay, ReleasesKept, EmployeeEntitled
<1>7. AdoptedOnly' /\ Employees!RecordsMirror'
  BY <1>1, <1>2, <1>3, <1>4 DEF EmployeeGood, AdoptedOnly, Employees!RecordsMirror
<1> QED BY <1>1, <1>5, <1>6, <1>7, EmployeePreserved

LEMMA FreshTyped ==
    ASSUME NEW template \in {Employees!NoArg, "certified"}
    PROVE  /\ Employees!Fresh(template) \in Employees!DigitalEmployee /\ EmployeeSound(Employees!Fresh(template))
           /\ Employees!Fresh(template).lifecycle = "draft" /\ Employees!Fresh(template).release = "not_released"
<1> DEFINE duties == template # Employees!NoArg
           caps == IF template = Employees!NoArg THEN 0 ELSE 1
           e == [template |-> template, env |-> "sandbox", lifecycle |-> "draft",
                 profile |-> FALSE, duties |-> duties, contract |-> FALSE, caps |-> caps, modes |-> 0,
                 eval |-> "not_started", release |-> "not_released",
                         by |-> Employees!NoArg, approver |-> Employees!NoArg,
                 control |-> Employees!NoArg]
<1>1. duties \in BOOLEAN /\ caps \in 0..2
  OBVIOUS
<1>2. Employees!Fresh(template) = e
  BY DEF Employees!Fresh
<1> HIDE DEF duties, caps
<1>3. e \in Employees!DigitalEmployee
  BY <1>1 DEF Employees!DigitalEmployee, Employees!Lifecycles
<1>4. e.lifecycle = "draft" /\ e.release = "not_released" /\ e.by = Employees!NoArg
  OBVIOUS
<1> HIDE DEF e
<1> QED BY <1>2, <1>3, <1>4 DEF EmployeeSound, Employees!InService

LEMMA EmployeeTemplatesKeep ==
    ASSUME EmployeeGood, NEW r, EmployeeWellFormed(r), Employees!publishTemplate(r) \/ Employees!govern(r)
    PROVE  EmployeeGood' /\ EmployeeRowsStay
<1>1. CASE db' = db
  BY <1>1, EmployeeThrown
<1>2. ASSUME NEW T \in EmployeeTable(Employees!DigitalEmployeeTemplate), DOMAIN db.templates \subseteq DOMAIN T,
             db' = Employees!Logged([db EXCEPT !.templates = T], r)
      PROVE  EmployeeGood' /\ EmployeeRowsStay
  <2>1. db' = [employees |-> db.employees, templates |-> T, adoptions |-> db.adoptions, versions |-> db.versions,
               log |-> Append(db.log, EmployeeEntry(r))]
    BY <1>2, EmployeeDataShape DEF EmployeeGood, Employees!Logged, EmployeeEntry
  <2>2. r \in EmployeeRequestSet /\ r.op \notin TakingBack /\ r.arg # "active"
    BY DEF EmployeeWellFormed, TakingBack, Employees!publishTemplate, Employees!govern
  <2>3. EmployeeDataOK'
    BY <2>1, <2>2, EmployeeDataShape, EmployeeLogGrows DEF EmployeeGood, EmployeeDataOK
  <2>4. EmployeesSound' /\ EmployeeRowsStay /\ ReleasesKept(r) /\ EmployeeEntitled(r)
    BY <1>2, <2>1, <2>2 DEF EmployeeGood, EmployeesSound, EmployeeRowsStay, ReleasesKept, EmployeeEntitled
  <2>5. AdoptedOnly' /\ Employees!RecordsMirror'
    BY <2>1 DEF EmployeeGood, AdoptedOnly, Employees!RecordsMirror
  <2> QED BY <2>1, <2>2, <2>3, <2>4, <2>5, EmployeePreserved
<1>3. CASE Employees!publishTemplate(r) /\ db' # db
  <2> DEFINE row == [status |-> "certified", adopted |-> 0]
             T == Employees!Unshifted(db.templates, r.id, row)
  <2>1. db' = Employees!Logged([db EXCEPT !.templates = T], r)
    BY <1>3 DEF Employees!publishTemplate, Employees!Handle
  <2>2. row \in Employees!DigitalEmployeeTemplate /\ r.id \in EmployeeIds
    BY DEF Employees!DigitalEmployeeTemplate, EmployeeWellFormed, EmployeeRequestSet
  <2> HIDE DEF row
  <2>3. T \in EmployeeTable(Employees!DigitalEmployeeTemplate) /\ DOMAIN db.templates \subseteq DOMAIN T
    BY <2>2, EmployeeDataShape, EmployeePut DEF EmployeeGood, Employees!Unshifted
  <2> HIDE DEF T
  <2> QED BY <1>2, <2>1, <2>3
<1>4. CASE Employees!govern(r) /\ db' # db
  <2> DEFINE row == [db.templates[r.id] EXCEPT !.status = r.arg]
             T == [db.templates EXCEPT ![r.id] = row]
  <2>1. db' = Employees!Logged([db EXCEPT !.templates = T], r)
    BY <1>4, EmployeeDataShape DEF EmployeeGood, Employees!govern, Employees!Handle
  <2>2. r.id \in DOMAIN db.templates /\ r.arg \in {"certified", "deprecated"}
    BY <1>4 DEF Employees!govern, EmployeeWellFormed
  <2>3. row \in Employees!DigitalEmployeeTemplate
    <3>1. db.templates[r.id] \in Employees!DigitalEmployeeTemplate
      BY <2>2, EmployeeDataShape, EmployeeTableShape DEF EmployeeGood
    <3> QED BY <2>2, <3>1 DEF Employees!DigitalEmployeeTemplate
  <2> HIDE DEF row
  <2>4. T \in EmployeeTable(Employees!DigitalEmployeeTemplate) /\ DOMAIN db.templates \subseteq DOMAIN T
    BY <2>2, <2>3, EmployeeDataShape, EmployeeReplaced DEF EmployeeGood
  <2> HIDE DEF T
  <2> QED BY <1>2, <2>1, <2>4
<1> QED BY <1>1, <1>3, <1>4

\* A template brings a draft and the record of its adoption.
LEMMA AdoptKeeps ==
    ASSUME EmployeeGood, NEW r, EmployeeWellFormed(r), Employees!adopt(r)
    PROVE  EmployeeGood' /\ EmployeeRowsStay
<1> DEFINE e == Employees!Fresh(r.arg)
           T == Employees!Unshifted(db.employees, r.id, e)
           row == [db.templates[r.arg] EXCEPT !.adopted = @ + 1]
           M == [db.templates EXCEPT ![r.arg] = row]
           A == Employees!Unshifted(db.adoptions, r.id, "draft")
           admitted == Employees!Admitted(r, "plain") /\ db.templates[r.arg].status # "deprecated"
<1>1. CASE ~admitted
  BY <1>1, EmployeeThrown DEF Employees!adopt, Employees!Handle
<1>2. CASE admitted
  <2>1. db' = [employees |-> T, templates |-> M, adoptions |-> A, versions |-> db.versions,
               log |-> Append(db.log, EmployeeEntry(r))]
    BY <1>2, EmployeeDataShape DEF EmployeeGood, Employees!adopt, Employees!Handle, Employees!Logged, EmployeeEntry
  <2>2. /\ r \in EmployeeRequestSet /\ r.id = "eAdopted" /\ r.id \in EmployeeIds /\ r.arg = "certified"
        /\ r.op \notin TakingBack
        /\ r.arg \in DOMAIN db.templates
    BY DEF Employees!adopt, EmployeeWellFormed, EmployeeRequestSet, TakingBack, EmployeeGood, CertifiedThere
  <2>3. e \in Employees!DigitalEmployee /\ EmployeeSound(e) /\ e.lifecycle = "draft" /\ e.release = "not_released"
    BY <2>2, FreshTyped
  <2>4. row \in Employees!DigitalEmployeeTemplate
    <3>1. db.templates[r.arg] \in Employees!DigitalEmployeeTemplate
      BY <2>2, EmployeeDataShape, EmployeeTableShape DEF EmployeeGood
    <3> QED BY <3>1 DEF Employees!DigitalEmployeeTemplate
  <2>5. "draft" \in Employees!Lifecycles
    BY DEF Employees!Lifecycles
  <2> HIDE DEF e, row
  <2>6. T \in EmployeeTable(Employees!DigitalEmployee) /\ A \in EmployeeTable(Employees!Lifecycles)
    BY <2>2, <2>3, <2>5, EmployeeDataShape, EmployeePut DEF EmployeeGood
  <2>7. M \in EmployeeTable(Employees!DigitalEmployeeTemplate) /\ DOMAIN M = DOMAIN db.templates
    BY <2>2, <2>4, EmployeeDataShape, EmployeeReplaced DEF EmployeeGood
  <2>8. /\ DOMAIN T = DOMAIN db.employees \cup {r.id} /\ T[r.id] = e
        /\ \A id \in DOMAIN db.employees \ {r.id} : T[id] = db.employees[id]
        /\ DOMAIN A = DOMAIN db.adoptions \cup {r.id} /\ A[r.id] = "draft"
        /\ \A id \in DOMAIN db.adoptions \ {r.id} : A[id] = db.adoptions[id]
    BY DEF Employees!Unshifted
  <2> HIDE DEF T, M, A
  <2>9. EmployeeDataOK'
    BY <2>1, <2>2, <2>6, <2>7, EmployeeDataShape, EmployeeLogGrows DEF EmployeeGood, EmployeeDataOK
  <2>10. EmployeesSound' /\ EmployeeRowsStay /\ ReleasesKept(r) /\ EmployeeEntitled(r)
    BY <2>1, <2>2, <2>3, <2>7, <2>8 DEF EmployeeGood, EmployeesSound, EmployeeRowsStay, ReleasesKept, EmployeeEntitled
  <2>11. AdoptedOnly' /\ Employees!RecordsMirror'
    <3>1. DOMAIN A = {"eAdopted"} /\ A["eAdopted"] = T["eAdopted"].lifecycle /\ "eAdopted" \in DOMAIN T
      BY <2>2, <2>3, <2>8 DEF EmployeeGood, AdoptedOnly
    <3> QED BY <2>1, <3>1 DEF EmployeeGood, AdoptedOnly, Employees!RecordsMirror
  <2> QED BY <2>1, <2>2, <2>9, <2>10, <2>11, EmployeePreserved
<1> QED BY <1>1, <1>2

LEMMA CreateKeeps ==
    ASSUME EmployeeGood, NEW r, EmployeeWellFormed(r), Employees!createEmployee(r)
    PROVE  EmployeeGood' /\ EmployeeRowsStay
<1> DEFINE e == Employees!Fresh(Employees!NoArg)
           T == Employees!Unshifted(db.employees, r.id, e)
<1>1. CASE ~Employees!Admitted(r, "plain")
  BY <1>1, EmployeeThrown DEF Employees!createEmployee, Employees!Handle
<1>2. CASE Employees!Admitted(r, "plain")
  <2>1. db' = [employees |-> T, templates |-> db.templates, adoptions |-> db.adoptions, versions |-> db.versions,
               log |-> Append(db.log, EmployeeEntry(r))]
    BY <1>2, EmployeeDataShape DEF EmployeeGood, Employees!createEmployee, Employees!Handle, Employees!Logged,
       EmployeeEntry
  <2>2. r \in EmployeeRequestSet /\ r.id = "eNew" /\ r.id \in EmployeeIds /\ r.op \notin TakingBack /\ r.arg # "active"
    BY DEF Employees!createEmployee, EmployeeWellFormed, EmployeeRequestSet, TakingBack
  <2>3. e \in Employees!DigitalEmployee /\ EmployeeSound(e) /\ e.lifecycle = "draft" /\ e.release = "not_released"
    BY FreshTyped
  <2> HIDE DEF e
  <2>4. T \in EmployeeTable(Employees!DigitalEmployee)
    BY <2>2, <2>3, EmployeeDataShape, EmployeePut DEF EmployeeGood
  <2>5. /\ DOMAIN T = DOMAIN db.employees \cup {r.id} /\ T[r.id] = e
        /\ \A id \in DOMAIN db.employees \ {r.id} : T[id] = db.employees[id]
    BY DEF Employees!Unshifted
  <2> HIDE DEF T
  <2>6. EmployeeDataOK'
    BY <2>1, <2>2, <2>4, EmployeeDataShape, EmployeeLogGrows DEF EmployeeGood, EmployeeDataOK
  <2>7. EmployeesSound' /\ EmployeeRowsStay /\ ReleasesKept(r) /\ EmployeeEntitled(r)
    BY <2>1, <2>2, <2>3, <2>5 DEF EmployeeGood, EmployeesSound, EmployeeRowsStay, ReleasesKept, EmployeeEntitled
  <2>8. AdoptedOnly' /\ Employees!RecordsMirror'
    BY <2>1, <2>2, <2>5 DEF EmployeeGood, AdoptedOnly, Employees!RecordsMirror
  <2> QED BY <2>1, <2>2, <2>6, <2>7, <2>8, EmployeePreserved
<1> QED BY <1>1, <1>2

\* The current versions of a history.
EmployeeCurrent(v) == {i \in DOMAIN v : v[i] = "current"}

LEMMA RevisedTyped ==
    ASSUME EmployeeGood, NEW id \in EmployeeIds
    PROVE  /\ Employees!Revised(id) \in EmployeeTable(EmployeeVersions)
           /\ \A x \in DOMAIN Employees!Revised(id) : Employees!Cardinality(EmployeeCurrent(Employees!Revised(id)[x])) = 1
<1> DEFINE v == IF id \in DOMAIN db.versions THEN db.versions[id] ELSE <<>>
           past == [i \in DOMAIN v |-> "superseded"]
           next == Append(past, "current")
           n == Len(v)
<1>1. db.versions \in EmployeeTable(EmployeeVersions) /\ db.versions \in [DOMAIN db.versions -> EmployeeVersions]
  BY EmployeeDataShape, EmployeeTableShape DEF EmployeeGood
<1>2. v \in EmployeeVersions
  BY <1>1 DEF EmployeeVersions
<1>3. n \in Nat /\ DOMAIN v = 1..n
  BY <1>2 DEF EmployeeVersions
<1>4. Employees!Revised(id) = Employees!Unshifted(db.versions, id, next)
  BY DEF Employees!Revised
<1> HIDE DEF v, n
<1>5. past \in EmployeeVersions /\ Len(past) = n /\ DOMAIN past = 1..n
  BY <1>3 DEF EmployeeVersions, Employees!DigitalEmployeeConfigurationVersion
<1>6. /\ next \in EmployeeVersions /\ DOMAIN next = 1..(n + 1) /\ next[n + 1] = "current"
      /\ \A i \in 1..n : next[i] = "superseded"
  <2>1. "current" \in Employees!DigitalEmployeeConfigurationVersion /\ \A i \in 1..n : past[i] = "superseded"
    BY <1>3 DEF Employees!DigitalEmployeeConfigurationVersion
  <2> HIDE DEF past
  <2> QED BY <1>3, <1>5, <2>1 DEF EmployeeVersions
<1> HIDE DEF next
<1>7. Employees!Cardinality(EmployeeCurrent(next)) = 1
  <2>1. EmployeeCurrent(next) = {n + 1}
    BY <1>3, <1>6 DEF EmployeeCurrent
  <2> QED BY <2>1, EmployeeCounted, FS_Singleton
<1>8. Employees!Revised(id) \in EmployeeTable(EmployeeVersions)
  BY <1>1, <1>4, <1>6, EmployeePut
<1>9. \A x \in DOMAIN db.versions : Employees!Cardinality(EmployeeCurrent(db.versions[x])) = 1
  BY DEF EmployeeGood, Employees!RecordsMirror, EmployeeCurrent
<1> QED BY <1>4, <1>7, <1>8, <1>9 DEF Employees!Unshifted

\* A form changes what the employee is, never whether it serves.
LEMMA ConfiguredTyped ==
    ASSUME NEW e \in Employees!DigitalEmployee, NEW r, EmployeeWellFormed(r), r.op \in {"configure", "assemble"}
    PROVE  LET new == Employees!applyDigitalEmployeeConfiguration(e, r)
           IN  /\ new \in Employees!DigitalEmployee /\ new.lifecycle = e.lifecycle /\ new.release = e.release
               /\ new.by = e.by /\ new.approver = e.approver
<1> DEFINE first == [e EXCEPT !.modes = r.seen, !.contract = TRUE]
<1>1. r.seen \in 0..2
  BY DEF EmployeeWellFormed
<1>2. /\ first \in Employees!DigitalEmployee /\ first.lifecycle = e.lifecycle /\ first.release = e.release
      /\ first.by = e.by /\ first.approver = e.approver
  BY <1>1 DEF Employees!DigitalEmployee
<1>3. CASE r.op = "assemble"
  <2> DEFINE second == [first EXCEPT !.caps = r.seen]
  <2>1. Employees!applyDigitalEmployeeConfiguration(e, r) = second
    BY <1>3 DEF Employees!applyDigitalEmployeeConfiguration, Employees!DigitalEmployee
  <2> HIDE DEF first
  <2>2. /\ second \in Employees!DigitalEmployee /\ second.lifecycle = first.lifecycle /\ second.release = first.release
        /\ second.by = first.by /\ second.approver = first.approver
    BY <1>1, <1>2 DEF Employees!DigitalEmployee
  <2> QED BY <1>2, <2>1, <2>2
<1>4. CASE r.op = "configure" /\ r.arg = "placeholder"
  BY <1>2, <1>4 DEF Employees!applyDigitalEmployeeConfiguration
<1>5. CASE r.op = "configure" /\ r.arg = "production"
  <2> DEFINE second == [first EXCEPT !.profile = TRUE, !.duties = TRUE, !.env = r.arg]
  <2>1. Employees!applyDigitalEmployeeConfiguration(e, r) = second
    BY <1>5 DEF Employees!applyDigitalEmployeeConfiguration, Employees!DigitalEmployee
  <2> HIDE DEF first
  <2>2. /\ second \in Employees!DigitalEmployee /\ second.lifecycle = first.lifecycle /\ second.release = first.release
        /\ second.by = first.by /\ second.approver = first.approver
    BY <1>2, <1>5 DEF Employees!DigitalEmployee
  <2> QED BY <1>2, <2>1, <2>2
<1> QED BY <1>3, <1>4, <1>5 DEF EmployeeWellFormed

LEMMA ConfigureKeeps ==
    ASSUME EmployeeGood, NEW r, EmployeeWellFormed(r), Employees!configure(r)
    PROVE  EmployeeGood' /\ EmployeeRowsStay
<1> DEFINE old == db.employees[r.id]
           e == Employees!applyDigitalEmployeeConfiguration(old, r)
           T == [db.employees EXCEPT ![r.id] = e]
           V == Employees!Revised(r.id)
<1>1. CASE ~Employees!Writable(r)
  BY <1>1, EmployeeThrown DEF Employees!configure, Employees!Handle
<1>2. CASE Employees!Writable(r)
  <2>1. db' = [employees |-> T, templates |-> db.templates, adoptions |-> db.adoptions, versions |-> V,
               log |-> Append(db.log, EmployeeEntry(r))]
    BY <1>2, EmployeeDataShape DEF EmployeeGood, Employees!configure, Employees!Handle, Employees!Logged,
       EmployeeEntry
  <2>2. /\ r \in EmployeeRequestSet /\ r.op \notin TakingBack /\ r.op # "release" /\ r.arg # "active"
        /\ r.id \in DOMAIN db.employees /\ r.id \in EmployeeIds
    BY <1>2 DEF Employees!configure, EmployeeWellFormed, EmployeeRequestSet, TakingBack, Employees!Writable
  <2>3. old \in Employees!DigitalEmployee /\ EmployeeSound(old)
    BY <2>2, EmployeeDataShape, EmployeeTableShape DEF EmployeeGood, EmployeesSound
  <2>4. /\ e \in Employees!DigitalEmployee /\ e.lifecycle = old.lifecycle /\ e.release = old.release
        /\ e.by = old.by /\ e.approver = old.approver
    BY <2>3, ConfiguredTyped DEF Employees!configure
  <2>5. EmployeeSound(e)
    BY <2>3, <2>4 DEF EmployeeSound
  <2> HIDE DEF e
  <2>6. /\ T \in EmployeeTable(Employees!DigitalEmployee) /\ DOMAIN T = DOMAIN db.employees /\ T[r.id] = e
        /\ \A id \in DOMAIN db.employees \ {r.id} : T[id] = db.employees[id]
    BY <2>2, <2>4, EmployeeDataShape, EmployeeReplaced DEF EmployeeGood
  <2>7. V \in EmployeeTable(EmployeeVersions) /\ \A x \in DOMAIN V : Employees!Cardinality(EmployeeCurrent(V[x])) = 1
    BY <2>2, RevisedTyped
  <2> HIDE DEF T, V
  <2>8. EmployeeDataOK'
    BY <2>1, <2>2, <2>6, <2>7, EmployeeDataShape, EmployeeLogGrows DEF EmployeeGood, EmployeeDataOK
  <2>9. EmployeesSound' /\ EmployeeRowsStay /\ ReleasesKept(r) /\ EmployeeEntitled(r)
    BY <2>1, <2>2, <2>4, <2>5, <2>6 DEF EmployeeGood, EmployeesSound, EmployeeRowsStay, ReleasesKept, EmployeeEntitled
  <2>10. AdoptedOnly' /\ Employees!RecordsMirror'
    <3>1. \A id \in DOMAIN db.adoptions : db.adoptions[id] = T[id].lifecycle
      BY <2>2, <2>4, <2>6 DEF EmployeeGood, Employees!RecordsMirror, AdoptedOnly
    <3> QED BY <2>1, <2>6, <2>7, <3>1 DEF EmployeeGood, AdoptedOnly, Employees!RecordsMirror, EmployeeCurrent
  <2> QED BY <2>1, <2>2, <2>8, <2>9, <2>10, EmployeePreserved
<1> QED BY <1>1, <1>2

\* What the evaluation, the release and what follows it write.
LEMMA EvaluateKeeps ==
    ASSUME EmployeeGood, NEW r, EmployeeWellFormed(r), Employees!evaluate(r)
    PROVE  EmployeeGood' /\ EmployeeRowsStay
<1> DEFINE old == db.employees[r.id]
           passed == old.duties /\ old.caps > 0
           result == IF passed THEN "passed" ELSE "failed"
           next == IF passed /\ old.lifecycle = "draft" THEN "testing" ELSE old.lifecycle
           e == [old EXCEPT !.eval = result, !.lifecycle = next]
           x == [r EXCEPT !.arg = result]
<1>1. CASE ~Employees!Writable(r)
  BY <1>1, EmployeeThrown DEF Employees!evaluate, Employees!Handle
<1>2. CASE Employees!Writable(r)
  <2>1. db' = Employees!Saved(e, x)
    BY <1>2 DEF Employees!evaluate, Employees!Handle
  <2>2. r \in EmployeeRequestSet /\ r.op = "evaluate" /\ r.id \in DOMAIN db.employees
    BY <1>2 DEF Employees!evaluate, EmployeeWellFormed, Employees!Writable
  <2>3. old \in Employees!DigitalEmployee /\ EmployeeSound(old)
    BY <2>2, EmployeeDataShape, EmployeeTableShape DEF EmployeeGood, EmployeesSound
  <2>4. /\ result \in {"passed", "failed"} /\ next \in Employees!Lifecycles
        /\ (next \in Employees!InService => old.lifecycle \in Employees!InService)
    BY <2>3 DEF Employees!DigitalEmployee, Employees!Lifecycles, Employees!InService
  <2> HIDE DEF result, next
  <2>5. /\ e \in Employees!DigitalEmployee /\ e.lifecycle = next /\ e.release = old.release
        /\ e.by = old.by /\ e.approver = old.approver
    BY <2>3, <2>4 DEF Employees!DigitalEmployee
  <2>6. EmployeeSound(e)
    BY <2>3, <2>4, <2>5 DEF EmployeeSound
  <2>7. x \in EmployeeRequestSet /\ x.op = "evaluate" /\ x.id = r.id /\ x.arg # "active"
    BY <2>2, <2>4 DEF EmployeeRequestSet, EmployeeArgs
  <2> HIDE DEF e, x
  <2> QED BY <2>1, <2>2, <2>5, <2>6, <2>7, SavedKeeps DEF TakingBack
<1> QED BY <1>1, <1>2

LEMMA EmployeeNamesTyped == Employees!NoArg \notin Employees!Users
BY DEF Employees!NoArg, Employees!Users, Employees!RoleOf

\* A row whose release, signatures and lifecycle change together.
Rewritten(old, lifecycle, rel, by, approver) ==
    [old EXCEPT !.lifecycle = lifecycle, !.release = rel, !.by = by, !.approver = approver]

LEMMA ReleaseTyped ==
    ASSUME NEW old \in Employees!DigitalEmployee, NEW lifecycle \in Employees!Lifecycles,
           NEW rel \in {"not_released", "pending_approval", "released"},
           NEW by \in Employees!Users \cup {Employees!NoArg}, NEW approver \in Employees!Users \cup {Employees!NoArg}
    PROVE  LET e == Rewritten(old, lifecycle, rel, by, approver)
           IN  /\ e \in Employees!DigitalEmployee /\ e.lifecycle = lifecycle /\ e.release = rel
               /\ e.by = by /\ e.approver = approver
<1> DEFINE first == [old EXCEPT !.lifecycle = lifecycle, !.release = rel]
           second == [first EXCEPT !.by = by, !.approver = approver]
<1>1. first \in Employees!DigitalEmployee /\ first.lifecycle = lifecycle /\ first.release = rel
  BY DEF Employees!DigitalEmployee
<1>2. Rewritten(old, lifecycle, rel, by, approver) = second
  BY DEF Rewritten, Employees!DigitalEmployee
<1> HIDE DEF first
<1>3. /\ second \in Employees!DigitalEmployee /\ second.lifecycle = first.lifecycle /\ second.release = first.release
      /\ second.by = by /\ second.approver = approver
  BY <1>1 DEF Employees!DigitalEmployee
<1> QED BY <1>1, <1>2, <1>3

LEMMA ReleaseKeeps ==
    ASSUME EmployeeGood, NEW r, EmployeeWellFormed(r), Employees!release(r)
    PROVE  EmployeeGood' /\ EmployeeRowsStay
<1> DEFINE old == db.employees[r.id]
           asks == old.env # "sandbox" /\ ~Employees!isAdministrator(r.by)
           signs == old.env # "sandbox" /\ Employees!isAdministrator(r.by)
           lifecycle == IF asks THEN "pending_approval" ELSE "active"
           rel == IF asks THEN "pending_approval" ELSE "released"
           approver == IF signs THEN r.by ELSE Employees!NoArg
           e == [old EXCEPT !.lifecycle = lifecycle, !.release = rel, !.by = r.by, !.approver = approver]
           allowed == Employees!Writable(r) /\ Employees!Ready(old)
                       /\ ~(old.release = "released" /\ old.lifecycle = "active")
<1>1. CASE ~allowed
  BY <1>1, EmployeeThrown DEF Employees!release, Employees!Handle
<1>2. CASE allowed
  <2>1. db' = Employees!Saved(e, r)
    BY <1>2 DEF Employees!release, Employees!Handle
  <2>2. /\ r \in EmployeeRequestSet /\ r.op = "release" /\ r.arg # "active"
        /\ r.id \in DOMAIN db.employees /\ r.by \in Employees!Users
    BY <1>2 DEF Employees!release, EmployeeWellFormed, Employees!Writable, EmployeeRequestSet
  <2>3. old \in Employees!DigitalEmployee
    BY <2>2, EmployeeDataShape, EmployeeTableShape DEF EmployeeGood
  <2>4. /\ lifecycle \in Employees!Lifecycles /\ rel \in {"not_released", "pending_approval", "released"}
        /\ approver \in Employees!Users \cup {Employees!NoArg}
        /\ (lifecycle \in Employees!InService => rel = "released")
        /\ approver = r.by => Employees!isAdministrator(r.by)
    BY <2>2, EmployeeNamesTyped DEF Employees!Lifecycles, Employees!InService
  <2> HIDE DEF lifecycle, rel, approver
  <2>5. /\ e \in Employees!DigitalEmployee /\ e.lifecycle = lifecycle /\ e.release = rel
        /\ e.by = r.by /\ e.approver = approver
    <3>1. e = Rewritten(old, lifecycle, rel, r.by, approver)
      BY DEF Rewritten
    <3> HIDE DEF e
    <3> QED BY SMTT(30), <2>2, <2>3, <2>4, <3>1, ReleaseTyped
  <2> HIDE DEF e
  <2>6. EmployeeSound(e)
    BY <2>4, <2>5 DEF EmployeeSound
  <2> QED BY <2>1, <2>2, <2>5, <2>6, SavedKeeps DEF TakingBack
<1> QED BY <1>1, <1>2

\* Who takes a release back need not look whether another was asked for in between.
LEMMA TakenBackKeeps ==
    ASSUME EmployeeGood, NEW r, EmployeeWellFormed(r), Employees!withdraw(r) \/ Employees!reject(r)
    PROVE  EmployeeGood' /\ EmployeeRowsStay
<1> DEFINE old == db.employees[r.id]
<1>1. CASE db' = db
  BY <1>1, EmployeeThrown
<1>2. ASSUME NEW lifecycle \in {"testing", "draft"}, Employees!Writable(r),
             db' = Employees!Saved([old EXCEPT !.release = "not_released", !.by = Employees!NoArg,
                     !.approver = Employees!NoArg,
                                     !.lifecycle = lifecycle], r)
      PROVE  EmployeeGood' /\ EmployeeRowsStay
  <2> DEFINE e == [old EXCEPT !.release = "not_released", !.by = Employees!NoArg,
          !.approver = Employees!NoArg, !.lifecycle = lifecycle]
             f == Rewritten(old, lifecycle, "not_released", Employees!NoArg, Employees!NoArg)
  <2>1. /\ r \in EmployeeRequestSet /\ r.op \in TakingBack /\ r.arg # "active" /\ r.op # "release"
        /\ r.id \in DOMAIN db.employees
    BY <1>2 DEF Employees!withdraw, Employees!reject, EmployeeWellFormed, Employees!Writable, TakingBack
  <2>2. old \in Employees!DigitalEmployee
    BY <2>1, EmployeeDataShape, EmployeeTableShape DEF EmployeeGood
  <2>3. e = f
    BY <2>2 DEF Employees!DigitalEmployee, Rewritten
  <2>4. lifecycle \in Employees!Lifecycles /\ lifecycle \notin Employees!InService
    BY DEF Employees!Lifecycles, Employees!InService
  <2>5. /\ f \in Employees!DigitalEmployee /\ f.lifecycle = lifecycle
        /\ f.release = "not_released" /\ f.by = Employees!NoArg
    <3> DEFINE no == Employees!NoArg
               kept == "not_released"
    <3>1. /\ no \in Employees!Users \cup {Employees!NoArg}
          /\ kept \in {"not_released", "pending_approval", "released"}
      OBVIOUS
    <3> HIDE DEF no, kept, old
    <3>2. LET g == Rewritten(old, lifecycle, kept, no, no)
          IN  g \in Employees!DigitalEmployee /\ g.lifecycle = lifecycle /\ g.release = kept /\ g.by = no
      BY <2>2, <2>4, <3>1, ReleaseTyped
    <3> QED BY <3>2 DEF no, kept, old
  <2>6. db' = Employees!Saved(e, r)
    BY <1>2
  <2> HIDE DEF e, f
  <2>7. EmployeeSound(e)
    BY <2>3, <2>4, <2>5 DEF EmployeeSound
  <2> QED BY <2>1, <2>3, <2>5, <2>6, <2>7, SavedKeeps
<1>3. CASE Employees!withdraw(r) /\ db' # db
  <2> DEFINE lifecycle == IF old.eval = "passed" THEN "testing" ELSE "draft"
  <2>1. /\ Employees!Writable(r)
       
        /\ db' = Employees!Saved([old EXCEPT !.release = "not_released", !.by = Employees!NoArg,
                !.approver = Employees!NoArg,
                                   !.lifecycle = lifecycle], r)
    BY <1>3 DEF Employees!withdraw, Employees!Handle
  <2>2. lifecycle \in {"testing", "draft"}
    OBVIOUS
  <2> HIDE DEF lifecycle
  <2> QED BY Zenon, <1>2, <2>1, <2>2
<1>4. CASE Employees!reject(r) /\ db' # db
  <2>1. /\ Employees!Writable(r)
       
        /\ db' = Employees!Saved([old EXCEPT !.release = "not_released", !.by = Employees!NoArg,
                !.approver = Employees!NoArg,
                                   !.lifecycle = "testing"], r)
    BY <1>4 DEF Employees!reject, Employees!Handle
  <2> QED BY <1>2, <2>1
<1> QED BY <1>1, <1>3, <1>4

LEMMA ActivateKeeps ==
    ASSUME EmployeeGood, NEW r, EmployeeWellFormed(r), Employees!activate(r)
    PROVE  EmployeeGood' /\ EmployeeRowsStay
<1> DEFINE old == db.employees[r.id]
           resumed == [old EXCEPT !.lifecycle = "active", !.control = "resumed"]
           confirmed == [old EXCEPT !.lifecycle = "active", !.release = "released", !.approver = r.by]
           allowed == Employees!Writable(r) /\ (Employees!Resume(old, r) \/ Employees!Confirm(old, r))
<1>1. CASE ~allowed
  BY <1>1, EmployeeThrown DEF Employees!activate, Employees!Handle
<1>2. CASE allowed
  <2>1. /\ r \in EmployeeRequestSet /\ r.op = "lifecycle" /\ r.id \in DOMAIN db.employees /\ r.by \in Employees!Users
    BY <1>2 DEF Employees!activate, EmployeeWellFormed, Employees!Writable, EmployeeRequestSet
  <2>2. old \in Employees!DigitalEmployee /\ EmployeeSound(old)
    BY <2>1, EmployeeDataShape, EmployeeTableShape DEF EmployeeGood, EmployeesSound
  <2>3. "active" \in Employees!Lifecycles /\ old.release # "not_released"
    BY <1>2 DEF Employees!Lifecycles, Employees!Resume, Employees!Confirm
  <2>4. CASE Employees!Resume(old, r)
    <3>1. db' = Employees!Saved(resumed, r)
      BY <1>2, <2>4 DEF Employees!activate, Employees!Handle
    <3>2. /\ resumed \in Employees!DigitalEmployee /\ resumed.release = old.release
          /\ resumed.by = old.by /\ resumed.approver = old.approver
      BY <2>2, <2>3 DEF Employees!DigitalEmployee
    <3> HIDE DEF resumed
    <3>3. EmployeeSound(resumed)
      BY <2>2, <2>4, <3>2 DEF EmployeeSound, Employees!Resume
    <3> QED BY <2>1, <2>3, <3>1, <3>2, <3>3, SavedKeeps DEF TakingBack
  <2>5. CASE ~Employees!Resume(old, r)
    <3>1. db' = Employees!Saved(confirmed, r)
      BY <1>2, <2>5 DEF Employees!activate, Employees!Handle
    <3>2. /\ confirmed \in Employees!DigitalEmployee /\ confirmed.release = "released"
          /\ confirmed.by = old.by /\ confirmed.approver = r.by
      BY <2>1, <2>2, <2>3 DEF Employees!DigitalEmployee
    <3> HIDE DEF confirmed
    <3>3. EmployeeSound(confirmed)
      BY <1>2, <2>5, <3>2 DEF EmployeeSound, Employees!Confirm
    <3> QED BY <2>1, <2>3, <3>1, <3>2, <3>3, SavedKeeps DEF TakingBack
  <2> QED BY <2>4, <2>5
<1> QED BY <1>1, <1>2

LEMMA HaltKeeps ==
    ASSUME EmployeeGood, NEW r, EmployeeWellFormed(r), Employees!halt(r)
    PROVE  EmployeeGood' /\ EmployeeRowsStay
<1> DEFINE old == db.employees[r.id]
           e == [old EXCEPT !.lifecycle = r.arg, !.control = r.arg]
           allowed == Employees!Writable(r) /\ Employees!isAdministrator(r.by) /\ old.lifecycle \in {"active", "paused"}
<1>1. CASE ~allowed
  BY <1>1, EmployeeThrown DEF Employees!halt, Employees!Handle
<1>2. CASE allowed
  <2>1. db' = Employees!Saved(e, r)
    BY <1>2 DEF Employees!halt, Employees!Handle
  <2>2. /\ r \in EmployeeRequestSet /\ r.op = "lifecycle" /\ r.id \in DOMAIN db.employees
        /\ r.arg \in {"paused", "quarantined"}
    BY <1>2 DEF Employees!halt, EmployeeWellFormed, Employees!Writable
  <2>3. old \in Employees!DigitalEmployee /\ EmployeeSound(old)
    BY <2>2, EmployeeDataShape, EmployeeTableShape DEF EmployeeGood, EmployeesSound
  <2>4. /\ e \in Employees!DigitalEmployee /\ e.release = old.release /\ e.by = old.by /\ e.approver = old.approver
    BY <2>2, <2>3 DEF Employees!DigitalEmployee, Employees!Lifecycles
  <2> HIDE DEF e
  <2>5. EmployeeSound(e)
    BY <1>2, <2>3, <2>4 DEF EmployeeSound, Employees!InService
  <2> QED BY <2>1, <2>2, <2>4, <2>5, SavedKeeps DEF TakingBack
<1> QED BY <1>1, <1>2

\* Every route keeps the invariant of the tables.
LEMMA RoutesKeep ==
    ASSUME EmployeeGood, NEW r, EmployeeWellFormed(r),
           \/ Employees!publishTemplate(r) \/ Employees!govern(r) \/ Employees!adopt(r) \/ Employees!createEmployee(r)
           \/ Employees!configure(r)
           \/ Employees!evaluate(r) \/ Employees!release(r) \/ Employees!withdraw(r) \/ Employees!reject(r)
           \/ Employees!activate(r)
           \/ Employees!halt(r)
    PROVE  EmployeeGood' /\ EmployeeRowsStay
<1>1. CASE Employees!publishTemplate(r) \/ Employees!govern(r)
        \/ Employees!adopt(r) \/ Employees!createEmployee(r) \/ Employees!configure(r)
  BY <1>1, EmployeeTemplatesKeep, AdoptKeeps, CreateKeeps, ConfigureKeeps
<1>2. CASE Employees!evaluate(r) \/ Employees!release(r)
        \/ Employees!withdraw(r) \/ Employees!reject(r) \/ Employees!activate(r) \/ Employees!halt(r)
  BY <1>2, EvaluateKeeps, ReleaseKeeps, TakenBackKeeps, ActivateKeeps, HaltKeeps
<1> QED BY <1>1, <1>2

(* Requests under way. *)

LEMMA EmployeeAsked ==
    ASSUME NEW r, Employees!Ask(r)
    PROVE  db' = db /\ EmployeeNetShape' /\ Employees!BagToSet(net'.out) = Employees!BagToSet(net.out) \cup {r}
<1>1. net' = [out |-> Employees!(+)(net.out, Employees!SetToBag({r})), made |-> net.made + 1]
  BY DEF Employees!Ask
<1>2. net'.out = Employees!(+)(net.out, Employees!SetToBag({r})) /\ EmployeeNetShape'
  BY <1>1 DEF EmployeeNetShape
<1>3. DOMAIN Employees!(+)(net.out, Employees!SetToBag({r})) = DOMAIN net.out \cup {r}
  BY DEF Employees!(+), Employees!SetToBag, Employees!BagToSet
<1> QED BY <1>2, <1>3 DEF Employees!Ask, Employees!BagToSet

LEMMA EmployeeArrived ==
    ASSUME NEW r, Employees!Arrives(r), EmployeeNetShape
    PROVE  EmployeeNetShape' /\ Employees!BagToSet(net'.out) \subseteq Employees!BagToSet(net.out)
<1>1. net'.out = Employees!(-)(net.out, Employees!SetToBag({r})) /\ EmployeeNetShape'
  BY DEF Employees!Arrives, EmployeeNetShape
<1>2. DOMAIN Employees!(-)(net.out, Employees!SetToBag({r})) \subseteq DOMAIN net.out
  BY DEF Employees!(-), Employees!SetToBag
<1> QED BY <1>1, <1>2 DEF Employees!BagToSet

LEMMA EmployeeOffersTyped ==
    ASSUME StaffAccounts, EmployeeGood, NEW u \in StaffActors, NEW r \in Employees!Offers(u)
    PROVE  EmployeeWellFormed(r)
<1>1. u \in Employees!Users
  BY DEF StaffAccounts, Employees!Users, Employees!RoleOf, Users, RoleOf
<1>2. /\ DOMAIN db.employees \subseteq EmployeeIds /\ DOMAIN db.templates \subseteq EmployeeIds
      /\ \A id \in DOMAIN db.employees : db.employees[id] \in Employees!DigitalEmployee
  <2>1. /\ db.employees \in [DOMAIN db.employees -> Employees!DigitalEmployee]
        /\ DOMAIN db.employees \in SUBSET EmployeeIds
    BY EmployeeDataShape, EmployeeTableShape DEF EmployeeGood
  <2>2. DOMAIN db.templates \in SUBSET EmployeeIds
    BY EmployeeDataShape, EmployeeTableShape DEF EmployeeGood
  <2> QED BY <2>1, <2>2
<1>a. Employees!NoArg # "active" /\ Employees!NoArg # "certified" /\ Employees!NoArg \in EmployeeArgs
  BY DEF Employees!NoArg, EmployeeArgs
<1>3. ASSUME r \in Employees!EmployeePlaza(u) PROVE EmployeeWellFormed(r)
  BY <1>1, <1>2, <1>3 DEF Employees!EmployeePlaza, EmployeeWellFormed, EmployeeRequestSet, Employees!Req,
     EmployeeOps, EmployeeArgs, EmployeeIds
<1>4. ASSUME r \in Employees!PublishDepartmentTemplateModal(u) \cup Employees!CreateEmployeeModal(u)
      PROVE EmployeeWellFormed(r)
  <2>1. \/ r = Employees!Req("publishTemplate", u, "department", Employees!NoArg, 0)
        \/ r = Employees!Req("create", u, "eNew", Employees!NoArg, 0)
    BY <1>4 DEF Employees!PublishDepartmentTemplateModal, Employees!CreateEmployeeModal, Employees!When
  <2> QED BY <1>1, <1>a, <2>1 DEF EmployeeWellFormed, EmployeeRequestSet, Employees!Req, EmployeeOps, EmployeeIds
<1>5. ASSUME NEW id \in DOMAIN db.employees, r \in Employees!EmployeeConfigurationWorkbench(u, id)
      PROVE EmployeeWellFormed(r)
  <2> DEFINE n == Employees!resolveBoundaryPolicy(db.employees[id])
  <2>1. n \in 0..2
    BY <1>2 DEF Employees!resolveBoundaryPolicy, Employees!DigitalEmployee
  <2>2. (\E arg \in {"placeholder", "production"} : r = Employees!Req("configure", u, id, arg, n))
        \/ (\E m \in {1, 2} : r = Employees!Req("assemble", u, id, Employees!NoArg, m))
    BY <1>5 DEF Employees!EmployeeConfigurationWorkbench
  <2> HIDE DEF n
  <2>3. n \in Nat /\ \A m \in {1, 2} : m \in Nat /\ m \in 0..2
    BY <2>1
  <2>4. \A arg \in {"placeholder", "production"} : EmployeeWellFormed(Employees!Req("configure", u, id, arg, n))
    BY <1>1, <1>2, <2>1, <2>3 DEF EmployeeWellFormed, EmployeeRequestSet, Employees!Req, EmployeeOps, EmployeeArgs
  <2>5. \A m \in {1, 2} : EmployeeWellFormed(Employees!Req("assemble", u, id, Employees!NoArg, m))
    BY <1>1, <1>2, <1>a, <2>3 DEF EmployeeWellFormed, EmployeeRequestSet, Employees!Req, EmployeeOps
  <2> QED BY <2>2, <2>4, <2>5
<1>6. ASSUME NEW id \in DOMAIN db.employees, r \in Employees!ContextualEmployeeDetail(u, id) PROVE EmployeeWellFormed(r)
  <2>1. (\E op \in {"evaluate", "release", "withdraw", "reject"} : r = Employees!Req(op, u, id, Employees!NoArg, 0))
        \/ r = Employees!Req("lifecycle", u, id, "active", 0)
    BY <1>6 DEF Employees!ContextualEmployeeDetail
  <2>2. \A op \in {"evaluate", "release", "withdraw", "reject"}
          : EmployeeWellFormed(Employees!Req(op, u, id, Employees!NoArg, 0))
    BY <1>1, <1>2, <1>a DEF EmployeeWellFormed, EmployeeRequestSet, Employees!Req, EmployeeOps
  <2>3. EmployeeWellFormed(Employees!Req("lifecycle", u, id, "active", 0))
    BY <1>1, <1>2 DEF EmployeeWellFormed, EmployeeRequestSet, Employees!Req, EmployeeOps, EmployeeArgs
  <2> QED BY <2>1, <2>2, <2>3
<1>7. ASSUME NEW id \in DOMAIN db.employees, r \in Employees!OperationsDisposeModal(u, id) PROVE EmployeeWellFormed(r)
  <2>1. \E arg \in {"active", "paused", "quarantined"}, seen \in {0, 1}
          : r = Employees!Req("lifecycle", u, id, arg, seen)
    BY <1>7 DEF Employees!OperationsDisposeModal
  <2> QED BY <1>1, <1>2, <2>1 DEF EmployeeWellFormed, EmployeeRequestSet, Employees!Req, EmployeeOps, EmployeeArgs
<1> QED BY <1>3, <1>4, <1>5, <1>6, <1>7 DEF Employees!Offers

LEMMA EmployeeSeedTyped ==
    ASSUME NEW env \in {"sandbox", "staging", "production"}
    PROVE  /\ Employees!Configured(env) \in Employees!DigitalEmployee /\ Employees!Configured(env).by = Employees!NoArg
           /\ Employees!Configured(env).lifecycle = "testing"
<1> DEFINE one == 1
           k == Employees!Fresh(Employees!NoArg)
           k1 == [k EXCEPT !.env = env, !.profile = TRUE, !.duties = TRUE]
           k2 == [k1 EXCEPT !.contract = TRUE, !.caps = one, !.modes = one]
           k3 == [k2 EXCEPT !.eval = "passed", !.lifecycle = "testing"]
<1>1. k \in Employees!DigitalEmployee /\ k.by = Employees!NoArg
  BY FreshTyped DEF Employees!Fresh
<1>2. Employees!Configured(env) = k3
  BY <1>1 DEF Employees!Configured, Employees!DigitalEmployee
<1>3. one \in 0..2 /\ "testing" \in Employees!Lifecycles
  BY DEF Employees!Lifecycles
<1> HIDE DEF k, one
<1>4. k1 \in Employees!DigitalEmployee /\ k1.by = Employees!NoArg
  BY ZenonT(40), <1>1 DEF Employees!DigitalEmployee
<1> HIDE DEF k1
<1>5. k2 \in Employees!DigitalEmployee /\ k2.by = Employees!NoArg
  BY <1>3, <1>4 DEF Employees!DigitalEmployee
<1> HIDE DEF k2
<1>6. k3 \in Employees!DigitalEmployee /\ k3.by = Employees!NoArg /\ k3.lifecycle = "testing"
  BY <1>3, <1>5 DEF Employees!DigitalEmployee
<1> QED BY <1>2, <1>6

LEMMA EmployeeInit == Employees!Init => EmployeeInv
<1> SUFFICES ASSUME Employees!Init PROVE EmployeeInv
  OBVIOUS
<1> DEFINE secops == [Employees!Configured("staging") EXCEPT !.lifecycle = "pending_approval",
        !.release = "pending_approval"]
           guard == Employees!Configured("staging")
           change == [Employees!Configured("sandbox") EXCEPT !.eval = "not_started", !.lifecycle = "draft"]
           E == [secops |-> secops, guard |-> guard, change |-> change]
           certified == [status |-> "certified", adopted |-> 0]
           review == [status |-> "review", adopted |-> 0]
           T == [certified |-> certified, review |-> review]
           A == [id \in {} |-> Employees!NoArg]
           V == [id \in DOMAIN E |-> <<"current">>]
<1>1. /\ db = [employees |-> E, templates |-> T, adoptions |-> A, versions |-> V, log |-> <<>>]
      /\ net = [out |-> Employees!EmptyBag, made |-> 0]
  BY DEF Employees!Init, Employees!NetInit, Employees!mockDigitalEmployees, Employees!mockDigitalEmployeeTemplates
<1>2. /\ secops \in Employees!DigitalEmployee /\ EmployeeSound(secops)
      /\ guard \in Employees!DigitalEmployee /\ EmployeeSound(guard)
      /\ change \in Employees!DigitalEmployee /\ EmployeeSound(change)
  <2> DEFINE staged == Employees!Configured("staging")
             boxed == Employees!Configured("sandbox")
  <2>1. /\ staged \in Employees!DigitalEmployee /\ staged.by = Employees!NoArg /\ staged.lifecycle = "testing"
        /\ boxed \in Employees!DigitalEmployee /\ boxed.by = Employees!NoArg
    BY EmployeeSeedTyped
  <2> HIDE DEF staged, boxed
  <2>2. {"pending_approval", "draft"} \subseteq Employees!Lifecycles
    BY DEF Employees!Lifecycles
  <2>3. LET e == [staged EXCEPT !.lifecycle = "pending_approval", !.release = "pending_approval"]
        IN  e \in Employees!DigitalEmployee /\ EmployeeSound(e)
    BY <2>1, <2>2 DEF Employees!DigitalEmployee, EmployeeSound, Employees!InService
  <2>4. LET e == [boxed EXCEPT !.eval = "not_started", !.lifecycle = "draft"]
        IN  e \in Employees!DigitalEmployee /\ EmployeeSound(e)
    BY ZenonT(40), <2>1, <2>2 DEF Employees!DigitalEmployee, EmployeeSound, Employees!InService
  <2>5. EmployeeSound(staged)
    BY <2>1 DEF EmployeeSound, Employees!InService
  <2> QED BY <2>1, <2>3, <2>4, <2>5 DEF staged, boxed
<1>3. certified \in Employees!DigitalEmployeeTemplate /\ review \in Employees!DigitalEmployeeTemplate
  BY DEF Employees!DigitalEmployeeTemplate
<1> HIDE DEF secops, guard, change, certified, review
<1>4. /\ E \in [{"secops", "guard", "change"} -> Employees!DigitalEmployee] /\ DOMAIN E = {"secops", "guard", "change"}
      /\ \A id \in DOMAIN E : EmployeeSound(E[id])
      /\ T \in [{"certified", "review"} -> Employees!DigitalEmployeeTemplate] /\ DOMAIN T = {"certified", "review"}
  BY <1>2, <1>3
<1> HIDE DEF E, T
<1>5. A \in [{} -> Employees!Lifecycles] /\ DOMAIN A = {}
  OBVIOUS
<1>6. /\ V \in [{"secops", "guard", "change"} -> EmployeeVersions] /\ DOMAIN V = DOMAIN E
      /\ \A id \in DOMAIN V : Employees!Cardinality({i \in DOMAIN V[id] : V[id][i] = "current"}) = 1
  <2> DEFINE first == <<"current">>
  <2>1. first \in EmployeeVersions /\ {i \in DOMAIN first : first[i] = "current"} = {1}
    BY DEF EmployeeVersions, Employees!DigitalEmployeeConfigurationVersion
  <2> HIDE DEF first
  <2> QED BY ZenonT(40), <1>4, <2>1, EmployeeCounted, FS_Singleton DEF first
<1> HIDE DEF A, V
<1>7. /\ {"secops", "guard", "change"} \in SUBSET EmployeeIds /\ {"certified", "review"} \in SUBSET EmployeeIds
      /\ {} \in SUBSET EmployeeIds
  BY DEF EmployeeIds
<1>8. /\ E \in EmployeeTable(Employees!DigitalEmployee) /\ T \in EmployeeTable(Employees!DigitalEmployeeTemplate)
      /\ A \in EmployeeTable(Employees!Lifecycles) /\ V \in EmployeeTable(EmployeeVersions)
  BY <1>4, <1>5, <1>6, <1>7 DEF EmployeeTable
<1>9. EmployeeDataOK
  BY <1>1, <1>8 DEF EmployeeDataOK
<1>10. db.log = <<>> /\ DOMAIN db.log = {}
  BY <1>1
<1>11. TakenBackStays /\ NoneRevived
  BY <1>10 DEF TakenBackStays, NoneRevived
<1>12. EmployeesSound /\ AdoptedOnly /\ CertifiedThere /\ Employees!RecordsMirror
  BY ZenonT(40), <1>1, <1>4, <1>5, <1>6 DEF EmployeesSound, AdoptedOnly, CertifiedThere, Employees!RecordsMirror
<1>13. Employees!BagToSet(net.out) = {}
  BY <1>1 DEF Employees!BagToSet, Employees!EmptyBag, Employees!SetToBag
<1> QED BY <1>1, <1>9, <1>11, <1>12, <1>13 DEF EmployeeInv, EmployeeGood, EmployeeNetOK, EmployeeNetShape

LEMMA EmployeeNext == StaffAccounts /\ EmployeeInv /\ [Employees!Next]_(Employees!vars) => EmployeeInv'
<1> SUFFICES ASSUME StaffAccounts, EmployeeInv, [Employees!Next]_(Employees!vars) PROVE EmployeeInv'
  OBVIOUS
<1> USE DEF EmployeeInv
<1>1. CASE UNCHANGED Employees!vars
  <2>1. db' = db /\ net' = net
    BY <1>1 DEF Employees!vars
  <2>2. EmployeeGood'
    BY <2>1, EmployeeThrown
  <2> QED BY <2>1, <2>2 DEF EmployeeNetOK, EmployeeNetShape, EmployeeWellFormed
<1>2. ASSUME NEW u \in StaffActors, NEW r \in Employees!Offers(u), Employees!Ask(r) PROVE EmployeeInv'
  <2>1. EmployeeWellFormed(r)
    BY EmployeeOffersTyped
  <2>2. db' = db /\ EmployeeNetShape' /\ Employees!BagToSet(net'.out) = Employees!BagToSet(net.out) \cup {r}
    BY <1>2, EmployeeAsked
  <2>3. EmployeeGood'
    BY <2>2, EmployeeThrown
  <2>4. EmployeeNetOK'
    BY <2>1, <2>2 DEF EmployeeNetOK, EmployeeWellFormed
  <2> QED BY <2>3, <2>4
<1>3. ASSUME NEW r \in Employees!BagToSet(net.out), Employees!Arrives(r),
             \/ Employees!publishTemplate(r) \/ Employees!govern(r) \/ Employees!adopt(r)
             \/ Employees!createEmployee(r)
             \/ Employees!configure(r)
             \/ Employees!evaluate(r) \/ Employees!release(r) \/ Employees!withdraw(r) \/ Employees!reject(r)
             \/ Employees!activate(r)
             \/ Employees!halt(r)
      PROVE  EmployeeInv'
  <2>1. EmployeeWellFormed(r)
    BY DEF EmployeeNetOK
  <2>2. EmployeeNetShape' /\ Employees!BagToSet(net'.out) \subseteq Employees!BagToSet(net.out)
    BY <1>3, EmployeeArrived DEF EmployeeNetOK
  <2>3. EmployeeGood' /\ EmployeeRowsStay
    BY <1>3, <2>1, RoutesKeep
  <2>4. EmployeeNetOK'
    BY <2>2, <2>3 DEF EmployeeNetOK, EmployeeWellFormed, EmployeeRowsStay
  <2> QED BY <2>3, <2>4
<1> QED BY <1>1, <1>2, <1>3 DEF Employees!Next

\* The rows of the employees keep the shapes the client declares.
THEOREM EmployeesAreTyped ==
    ASSUME StaffAccounts
    PROVE  EmployeeSpec => []Employees!TypeOK
<1>1. EmployeeInv => Employees!TypeOK
  <2> SUFFICES ASSUME EmployeeDataOK PROVE Employees!TypeOK
    BY DEF EmployeeInv, EmployeeGood
  <2>1. /\ db.employees \in [DOMAIN db.employees -> Employees!DigitalEmployee]
        /\ db.templates \in [DOMAIN db.templates -> Employees!DigitalEmployeeTemplate]
        /\ db.versions \in [DOMAIN db.versions -> EmployeeVersions]
    BY EmployeeDataShape, EmployeeTableShape
  <2> QED BY <2>1 DEF Employees!TypeOK, EmployeeVersions
<1>2. EmployeeInv /\ [Employees!Next]_(Employees!vars) => EmployeeInv'
  BY EmployeeNext
<1> QED BY <1>1, <1>2, EmployeeInit, PTL DEF EmployeeSpec

\* An employee is in service only under a release, and a release that was
\* withdrawn or rejected is not confirmed by a request that was under way.
THEOREM ServesOnlyUnderRelease ==
    ASSUME StaffAccounts
    PROVE  EmployeeSpec => []Employees!ServesUnderRelease
<1>1. EmployeeInv => Employees!ServesUnderRelease
  <2>1. ASSUME EmployeeInv PROVE \A i, j \in DOMAIN db.log :
          /\ i < j /\ db.log[i].id = db.log[j].id
          /\ db.log[i].op \in {"withdraw", "reject"} /\ db.log[j].arg = "active"
          => \E k \in i..j : db.log[k].op = "release" /\ db.log[k].id = db.log[j].id
    BY <2>1 DEF EmployeeInv, EmployeeGood, NoneRevived, TakingBack
  <2>2. ASSUME EmployeeInv PROVE \A id \in DOMAIN db.employees :
          db.employees[id].lifecycle \in Employees!InService => db.employees[id].release = "released"
    BY <2>2 DEF EmployeeInv, EmployeeGood, EmployeesSound, EmployeeSound
  <2> QED BY <2>1, <2>2 DEF Employees!ServesUnderRelease
<1>2. EmployeeInv /\ [Employees!Next]_(Employees!vars) => EmployeeInv'
  BY EmployeeNext
<1> QED BY <1>1, <1>2, EmployeeInit, PTL DEF EmployeeSpec

\* A user's own release is signed by somebody else.
THEOREM ReleaseAlwaysCountersigned ==
    ASSUME StaffAccounts
    PROVE  EmployeeSpec => []Employees!ReleaseCountersigned
<1>1. EmployeeInv => Employees!ReleaseCountersigned
  BY DEF EmployeeInv, EmployeeGood, EmployeesSound, EmployeeSound, Employees!ReleaseCountersigned
<1>2. EmployeeInv /\ [Employees!Next]_(Employees!vars) => EmployeeInv'
  BY EmployeeNext
<1> QED BY <1>1, <1>2, EmployeeInit, PTL DEF EmployeeSpec

\* The record of an adoption mirrors the employee, and one version is current.
THEOREM RecordsAlwaysMirror ==
    ASSUME StaffAccounts
    PROVE  EmployeeSpec => []Employees!RecordsMirror
<1>1. EmployeeInv => Employees!RecordsMirror
  BY DEF EmployeeInv, EmployeeGood
<1>2. EmployeeInv /\ [Employees!Next]_(Employees!vars) => EmployeeInv'
  BY EmployeeNext
<1> QED BY <1>1, <1>2, EmployeeInit, PTL DEF EmployeeSpec
=============================================================================
