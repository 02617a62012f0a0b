----------------------------- MODULE ConsoleApi -----------------------------
(***************************************************************************)
(* What every page of the console has in common.  A page offers a request  *)
(* when its guard holds of what it shows; the request reaches the handler  *)
(* later, in any order, when the data may have moved on: the age of a      *)
(* cached query and the travel of the request are one delay.  A handler    *)
(* runs in one step after its simulated latency, and either throws, which  *)
(* changes nothing, or changes the tables and writes the audit log.        *)
(* Each domain module gives db its tables, the requests its pages offer    *)
(* and one action per route.                                               *)
(***************************************************************************)
EXTENDS Naturals, SequencesExt

CONSTANTS
    Actors,        \* the accounts that use the console
    MaxRequests,   \* bound: the requests that are ever made
    MaxInFlight    \* bound: the requests under way at once

ASSUME BoundsAssumption == {MaxRequests, MaxInFlight} \subseteq Nat

VARIABLES
    db,    \* the tables of the domain, and log: the audit events
    net    \* the requests under way, as a bag, and how many were made

vars == <<db, net>>

\* The accounts the tokens and test headers stand for: two administrators.
RoleOf == [u1 |-> "admin", u2 |-> "user", u3 |-> "auditor", u4 |-> "admin"]
Users == DOMAIN RoleOf

ASSUME ActorsAssumption == Actors \subseteq Users

isAdministrator(u) == RoleOf[u] = "admin"

roleCanMutate(u) == RoleOf[u] # "auditor"

\* The permissions some handler asks for by name.
rolePermissions ==
    [admin   |-> {"workspace.write", "workflow.write", "workflow.execute", "access.write", "release.approve",
                 "audit.read", "audit.export"},
     user    |-> {"workflow.write", "workflow.execute"},
     auditor |-> {"audit.read", "audit.export"}]

May(u, permission) == permission \in rolePermissions[RoleOf[u]]

NoArg == ""

\* A button that is there when cond holds.
When(cond, requests) == IF cond THEN requests ELSE {}

\* A row of this name can still be made, and nobody is making it: bounds the
\* rows a page creates, whose real names are fresh.
Vacant(id, table) == id \notin DOMAIN table /\ \A r \in BagToSet(net.out) : r.id # id

\* A row made under the name id goes before the others of its table: what looks
\* the name up finds this one.
Unshifted(table, id, row) == [x \in DOMAIN table \cup {id} |-> IF x = id THEN row ELSE table[x]]

\* A request: what is asked of which row, with what argument and value seen.
Req(op, u, id, arg, seen) == [op |-> op, by |-> u, id |-> id, arg |-> arg, seen |-> seen]

\* The gate in front of every route.  platform: models, channels and access;
\* publish: a publication; countersign: a signature under a memory candidate.
Admitted(r, area) ==
    CASE RoleOf[r.by] = "auditor" -> area = "countersign"
      [] RoleOf[r.by] = "user" -> area \notin {"platform", "publish"}
      [] OTHER -> TRUE

NetInit == net = [out |-> EmptyBag, made |-> 0]

\* The bounds leave room for another request.
MayAsk == net.made < MaxRequests /\ BagCardinality(net.out) < MaxInFlight

\* A page sends r; useApiMutation does not wait for other requests of the page.
Ask(r) ==
    /\ net' = [out |-> net.out (+) SetToBag({r}), made |-> net.made + 1]
    /\ UNCHANGED db

\* r arrives; its answer makes the pages fetch again.
Arrives(r) == net' = [net EXCEPT !.out = @ (-) SetToBag({r})]

\* What a handler does with an admitted request: throw, or write.
Handle(guard, new) == db' = IF guard THEN new ELSE db

\* The audit event of r, newest last.
Logged(d, r) == [d EXCEPT !.log = Append(@, [op |-> r.op, by |-> r.by, id |-> r.id, arg |-> r.arg])]

InLog(ops, id) == \E i \in DOMAIN db.log : db.log[i].op \in ops /\ db.log[i].id = id

\* Who did one of ops to id.
Doers(ops, id) ==
    {db.log[i].by : i \in {j \in DOMAIN db.log : db.log[j].op \in ops /\ db.log[j].id = id}}
=============================================================================
