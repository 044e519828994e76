----------------------------- MODULE DeskAccess -----------------------------
(***************************************************************************)
(* Who may do what at the Desk: people and their roles                     *)
(* (desk-core/src/people.ts, identity.ts), requests for a capability       *)
(* (desk-app/src/api/request.ts), and the supervisor's screen that grants, *)
(* revokes, promotes and disables (desk-app/src/api/team.ts).              *)
(*                                                                         *)
(* Each call is one HTTP request.  Every query is awaited and none of the  *)
(* handlers opens a transaction, so an action is one query with the code   *)
(* up to the next one, and calls interleave between queries.               *)
(*                                                                         *)
(* Left out: departments, limits and names (values no decision here reads),*)
(* the audit log, the directory of the shell (everyone is active there),   *)
(* and calls refused before their first write.                             *)
(***************************************************************************)
EXTENDS Integers, Sequences, FiniteSets

CONSTANTS
  People,        \* everyone the login gate may let in
  FirstManagers, \* the people seeded as management
  Subjects,      \* bound: the people whose capabilities are in question
  Capabilities,  \* the catalogue
  Other,         \* "other": something outside the catalogue
  Nobody,        \* no caller
  Slots,         \* slots of concurrent HTTP requests
  MaxRows        \* bound: rows of desk.access_request

ASSUME AccessAssumption ==
  /\ FirstManagers \subseteq People
  /\ FirstManagers # {}
  /\ Subjects \subseteq People
  /\ Other \notin Capabilities
  /\ Nobody \notin People
  /\ MaxRows \in Nat

VARIABLES
  role, active,  \* desk.person
  requests,      \* desk.access_request, in the order of the ids
  grants,        \* desk.grant
  due,           \* per call: the query it is about to run
  by,            \* per admitted call: who called, as whoAmI answered
  pair,          \* per call: the person and the capability it is about
  row,           \* per call: the id of the request it decides, or 0
  revoked,       \* history: the grants a supervisor ever took away
  torn,          \* history: requests whose decision a failed query cut in two
  raced          \* history: the pairs two openings asked for at once

person == <<role, active>>
call == <<due, by, pair, row>>
hist == <<revoked, torn, raced>>
accessVars == <<person, requests, grants, call, hist>>

-----------------------------------------------------------------------------
Pairs == People \X (Capabilities \cup {Other})

NoPair == <<Nobody, Other>>

Roles == {"none", "member", "management"}

Statuses == {"pending", "granted", "denied"}

Requests == [of : Pairs, status : Statuses]

Queries == {"idle", "checking", "inserting", "admitted", "granting", "denying",
            "recording", "revoking", "closing", "settling"}

AccessTypeOK ==
  /\ role \in [People -> Roles]
  /\ active \in [People -> BOOLEAN]
  /\ requests \in Seq(Requests)
  /\ grants \subseteq People \X Capabilities
  /\ due \in [Slots -> Queries]
  /\ by \in [Slots -> People \cup {Nobody}]
  /\ pair \in [Slots -> Pairs \cup {NoPair}]
  /\ row \in [Slots -> 0 .. Len(requests)]
  /\ revoked \subseteq People \X Capabilities
  /\ torn \subseteq DOMAIN requests
  /\ raced \subseteq Pairs

(* The migration seeds the first people; everyone else is a row once they  *)
(* have been here.                                                         *)
AccessInit ==
  /\ role = [p \in People |-> IF p \in FirstManagers THEN "management" ELSE "none"]
  /\ active = [p \in People |-> TRUE]
  /\ requests = << >>
  /\ grants = {}
  /\ due = [k \in Slots |-> "idle"]
  /\ by = [k \in Slots |-> Nobody]
  /\ pair = [k \in Slots |-> NoPair]
  /\ row = [k \in Slots |-> 0]
  /\ revoked = {}
  /\ torn = {}
  /\ raced = {}

-----------------------------------------------------------------------------
(* Shorthands.                                                             *)

(* whoAmI: a known person whose account is not switched off.               *)
WhoAmI(p) == role[p] # "none" /\ active[p]

(* The caller's role is read once, when the call comes.                    *)
IsManager(p) == role[p] = "management"

Managers == {p \in People : IsManager(p) /\ active[p]}

Pending(i) == requests[i].status = "pending"

PendingFor(x) == {i \in DOMAIN requests : requests[i].of = x /\ Pending(i)}

Inserting(x) == {k \in Slots : due[k] = "inserting" /\ pair[k] = x}

(* The call goes on to its next query; its caller is only written down.    *)
Hold(k, query, x, i) ==
  /\ due' = [due EXCEPT ![k] = query]
  /\ pair' = [pair EXCEPT ![k] = x]
  /\ row' = [row EXCEPT ![k] = i]
  /\ by' = [by EXCEPT ![k] = Nobody]

(* The call answers; its slot may serve another.                           *)
Reply(k) ==
  /\ due' = [due EXCEPT ![k] = "idle"]
  /\ by' = [by EXCEPT ![k] = Nobody]
  /\ pair' = [pair EXCEPT ![k] = NoPair]
  /\ row' = [row EXCEPT ![k] = 0]

-----------------------------------------------------------------------------
(* People.                                                                 *)

(* ensurePerson: an unknown address becomes a member; the insert leaves an *)
(* existing row as it is.                                                  *)
EnsurePerson(p) ==
  /\ role[p] = "none"
  /\ role' = [role EXCEPT ![p] = "member"]
  /\ UNCHANGED <<active, requests, grants, call, hist>>

-----------------------------------------------------------------------------
(* POST request.                                                           *)

(* A wish outside the catalogue is not looked up before it is stored.      *)
Open(k, p, c) ==
  /\ due[k] = "idle"
  /\ WhoAmI(p)
  /\ due' = [due EXCEPT ![k] = IF c = Other THEN "inserting" ELSE "checking"]
  /\ pair' = [pair EXCEPT ![k] = <<p, c>>]
  /\ UNCHANGED <<person, requests, grants, by, row, hist>>

(* Mutant: a second request for the same capability is not looked for.     *)
CheckNothing(k) ==
  /\ due[k] = "checking"
  /\ Hold(k, "inserting", pair[k], 0)
  /\ UNCHANGED <<person, requests, grants, hist>>

(* select ... where status='pending': a second request is not stored.      *)
CheckPending(k) ==
  LET x == pair[k]
  IN  /\ due[k] = "checking"
      /\ \/ /\ PendingFor(x) # {}
            /\ Reply(k)
            /\ UNCHANGED raced
         \/ /\ PendingFor(x) = {}
            /\ Hold(k, "inserting", x, 0)
            /\ raced' = IF Inserting(x) = {} THEN raced ELSE raced \cup {x}
      /\ UNCHANGED <<person, requests, grants, revoked, torn>>

InsertRequest(k) ==
  /\ due[k] = "inserting"
  /\ Len(requests) < MaxRows
  /\ requests' = Append(requests, [of |-> pair[k], status |-> "pending"])
  /\ Reply(k)
  /\ UNCHANGED <<person, grants, hist>>

-----------------------------------------------------------------------------
(* PATCH request and POST team: the supervisor.                            *)

(* Both begin with whoAmI and the role it answers.                         *)
Admit(k, m) ==
  /\ due[k] = "idle"
  /\ WhoAmI(m)
  /\ IsManager(m)
  /\ due' = [due EXCEPT ![k] = "admitted"]
  /\ by' = [by EXCEPT ![k] = m]
  /\ UNCHANGED <<person, requests, grants, pair, row, hist>>

(* Mutant: a wish outside the catalogue may be granted.                    *)
GrantableAlways(i) == TRUE

(* A wish outside the catalogue has nothing to grant.                      *)
Grantable(i) == requests[i].of[2] # Other

(* The row is read, and only a pending one may be decided.                 *)
ReadToDecide(k, i) ==
  /\ due[k] = "admitted"
  /\ Pending(i)
  /\ \/ Grantable(i) /\ Hold(k, "granting", requests[i].of, i)
     \/ Hold(k, "denying", requests[i].of, i)
  /\ UNCHANGED <<person, requests, grants, hist>>

(* Mutant: the decision is on record and the capability is not given.      *)
MarkGrantedOnly(k) ==
  /\ due[k] = "granting"
  /\ requests' = [requests EXCEPT ![row[k]].status = "granted"]
  /\ Reply(k)
  /\ UNCHANGED <<person, grants, hist>>

(* The update does not ask again whether the row is still pending.         *)
MarkGranted(k) ==
  /\ due[k] = "granting"
  /\ requests' = [requests EXCEPT ![row[k]].status = "granted"]
  /\ Hold(k, "recording", pair[k], row[k])
  /\ UNCHANGED <<person, grants, hist>>

MarkDenied(k) ==
  /\ due[k] = "denying"
  /\ requests' = [requests EXCEPT ![row[k]].status = "denied"]
  /\ Reply(k)
  /\ UNCHANGED <<person, grants, hist>>

(* insert into desk.grant ... on conflict do nothing.                      *)
RecordGrant(k) ==
  /\ due[k] = "recording"
  /\ grants' = grants \cup {pair[k]}
  /\ Reply(k)
  /\ UNCHANGED <<person, requests, hist>>

(* revoke: the row only names the pair, whatever its status is.            *)
ReadToRevoke(k, i) ==
  /\ due[k] = "admitted"
  /\ Hold(k, "revoking", requests[i].of, i)
  /\ UNCHANGED <<person, requests, grants, hist>>

DeleteGrant(k) ==
  /\ due[k] = "revoking"
  /\ grants' = grants \ {pair[k]}
  /\ revoked' = revoked \cup (grants \cap {pair[k]})
  /\ Hold(k, "closing", pair[k], row[k])
  /\ UNCHANGED <<person, requests, torn, raced>>

CloseRevoked(k) ==
  /\ due[k] = "closing"
  /\ requests' = [requests EXCEPT ![row[k]].status = "denied"]
  /\ Reply(k)
  /\ UNCHANGED <<person, grants, hist>>

-----------------------------------------------------------------------------
(* POST team.                                                              *)

TeamGrant(k, p, c) ==
  /\ due[k] = "admitted"
  /\ grants' = grants \cup {<<p, c>>}
  /\ Hold(k, "settling", <<p, c>>, 0)
  /\ UNCHANGED <<person, requests, hist>>

(* The requests for what was just granted stop waiting.                    *)
SettleRequests(k) ==
  /\ due[k] = "settling"
  /\ requests' = [i \in DOMAIN requests |->
                    IF i \in PendingFor(pair[k])
                    THEN [requests[i] EXCEPT !.status = "granted"] ELSE requests[i]]
  /\ Reply(k)
  /\ UNCHANGED <<person, grants, hist>>

TeamRevoke(k, p, c) ==
  /\ due[k] = "admitted"
  /\ grants' = grants \ {<<p, c>>}
  /\ revoked' = revoked \cup (grants \cap {<<p, c>>})
  /\ Reply(k)
  /\ UNCHANGED <<person, requests, torn, raced>>

(* Mutant: a supervisor may step down or switch the own account off.       *)
SparesCallerNever(k, p, stays) == TRUE

(* cannotDemoteSelf, cannotDisableSelf.                                    *)
SparesCaller(k, p, stays) == p = by[k] => stays

(* An update of a person who has no row changes nothing.                   *)
SetRole(k, p, r) ==
  /\ due[k] = "admitted"
  /\ SparesCaller(k, p, r = "management")
  /\ role' = IF role[p] = "none" THEN role ELSE [role EXCEPT ![p] = r]
  /\ Reply(k)
  /\ UNCHANGED <<active, requests, grants, hist>>

SetActive(k, p, on) ==
  /\ due[k] = "admitted"
  /\ SparesCaller(k, p, FALSE)
  /\ active' = IF role[p] = "none" THEN active ELSE [active EXCEPT ![p] = on]
  /\ Reply(k)
  /\ UNCHANGED <<role, requests, grants, hist>>

-----------------------------------------------------------------------------
(* A query fails: the call answers 500 and what it wrote so far stays.     *)
CallFails(k) ==
  /\ due[k] # "idle"
  /\ torn' = IF due[k] = "recording" THEN torn \cup {row[k]} ELSE torn
  /\ Reply(k)
  /\ UNCHANGED <<person, requests, grants, revoked, raced>>

-----------------------------------------------------------------------------
RequestCall(k) ==
  \/ \E p \in Subjects, c \in Capabilities \cup {Other} : Open(k, p, c)
  \/ CheckPending(k) \/ InsertRequest(k)

DecisionCall(k) ==
  \/ \E m \in People : Admit(k, m)
  \/ \E i \in DOMAIN requests : ReadToDecide(k, i) \/ ReadToRevoke(k, i)
  \/ MarkGranted(k) \/ MarkDenied(k) \/ RecordGrant(k)
  \/ DeleteGrant(k) \/ CloseRevoked(k)

TeamCall(k) ==
  \/ \E p \in Subjects, c \in Capabilities : TeamGrant(k, p, c) \/ TeamRevoke(k, p, c)
  \/ SettleRequests(k)
  \/ \E p \in People, r \in {"member", "management"} : SetRole(k, p, r)
  \/ \E p \in People, on \in BOOLEAN : SetActive(k, p, on)

AccessNext ==
  \/ \E p \in People : EnsurePerson(p)
  \/ \E k \in Slots : RequestCall(k) \/ DecisionCall(k) \/ TeamCall(k) \/ CallFails(k)

AccessSpec == AccessInit /\ [][AccessNext]_accessVars

-----------------------------------------------------------------------------
(* Safety.                                                                 *)

(* A granted request gave its capability (request.ts: "granting really     *)
(* grants"): the grant is there, is being recorded, was taken away since,  *)
(* or a failed query tore the decision in two.                             *)
GrantedIsGiven ==
  \A i \in DOMAIN requests : requests[i].status = "granted" =>
    \/ requests[i].of \in grants \cup revoked
    \/ \E k \in Slots : due[k] = "recording" /\ row[k] = i
    \/ i \in torn

(* A person waits for a capability in one row at most, unless two openings *)
(* of that very pair passed the look-up together.                          *)
OneRowUnlessRaced ==
  \A x \in People \X Capabilities :
    Cardinality(PendingFor(x)) + Cardinality(Inserting(x)) <= 1 \/ x \in raced

(* The last supervisor is removed only by somebody who had ceased to be a  *)
(* supervisor since that call was admitted: nobody alone locks the company *)
(* out of its own screen (team.ts, cannotDemoteSelf).                      *)
LastManagerFallsToStaleCall ==
  [][Managers # {} /\ Managers' = {} =>
       \E k \in Slots : due[k] = "admitted" /\ by[k] \notin Managers]_accessVars

=============================================================================
