-------------------------- MODULE DeskAccessProofs --------------------------
(* Proofs about DeskAccess, for every set of people, capabilities and      *)
(* concurrent calls, and every number of requests.                         *)
EXTENDS DeskAccess, SequenceTheorems, FiniteSetTheorems, TLAPS

-----------------------------------------------------------------------------
(* What the three writes do to desk.access_request.                        *)

LEMMA FunctionIsSeq ==
  ASSUME NEW S, NEW n \in Nat, NEW f \in [1 .. n -> S]
  PROVE  f \in Seq(S) /\ Len(f) = n
  OBVIOUS

(* An update of one row by its id.                                         *)
LEMMA MarkOne ==
  ASSUME NEW s \in Seq(Requests), NEW i \in DOMAIN s, NEW v \in Statuses,
         NEW t, t = [s EXCEPT ![i].status = v]
  PROVE  /\ t \in Seq(Requests)
         /\ Len(t) = Len(s)
         /\ DOMAIN t = DOMAIN s
         /\ \A j \in DOMAIN s : t[j].of = s[j].of
         /\ \A j \in DOMAIN s : t[j].status = IF j = i THEN v ELSE s[j].status
<1> DEFINE e == [s[i] EXCEPT !.status = v]
<1>1. DOMAIN s = 1 .. Len(s) /\ s[i] \in Requests
  BY LenProperties, ElementOfSeq
<1>2. e \in Requests /\ e.of = s[i].of /\ e.status = v
  BY <1>1 DEF Requests
<1>3. /\ t \in Seq(Requests)
      /\ Len(t) = Len(s)
      /\ \A j \in 1 .. Len(s) : t[j] = IF j = i THEN e ELSE s[j]
  BY <1>1, <1>2, ExceptSeq
<1>4. DOMAIN t = DOMAIN s
  OBVIOUS
<1> QED
  BY <1>1, <1>2, <1>3, <1>4

(* The rows that wait for one pair are settled at once.                    *)
LEMMA MarkMany ==
  ASSUME NEW s \in Seq(Requests), NEW I \in SUBSET (DOMAIN s), NEW t,
         t = [i \in DOMAIN s |->
                IF i \in I THEN [s[i] EXCEPT !.status = "granted"] ELSE s[i]]
  PROVE  /\ t \in Seq(Requests)
         /\ Len(t) = Len(s)
         /\ DOMAIN t = DOMAIN s
         /\ \A j \in DOMAIN s : t[j].of = s[j].of
         /\ \A j \in DOMAIN s : t[j].status = IF j \in I THEN "granted" ELSE s[j].status
<1>1. Len(s) \in Nat /\ DOMAIN s = 1 .. Len(s) /\ \A i \in DOMAIN s : s[i] \in Requests
  BY LenProperties, ElementOfSeq
<1>2. \A i \in DOMAIN s : /\ t[i] \in Requests
                          /\ t[i].of = s[i].of
                          /\ t[i].status = IF i \in I THEN "granted" ELSE s[i].status
  BY <1>1 DEF Requests, Statuses
<1>3. t \in [1 .. Len(s) -> Requests]
  BY <1>1, <1>2
<1>4. t \in Seq(Requests) /\ Len(t) = Len(s)
  BY <1>1, <1>3, FunctionIsSeq
<1> QED
  BY <1>1, <1>2, <1>4

(* A new row is the last one.                                              *)
LEMMA AddOne ==
  ASSUME NEW s \in Seq(Requests), NEW r \in Requests, NEW t, t = Append(s, r)
  PROVE  /\ t \in Seq(Requests)
         /\ Len(t) = Len(s) + 1
         /\ DOMAIN s \subseteq DOMAIN t
         /\ \A j \in DOMAIN s : t[j] = s[j]
         /\ \A j \in DOMAIN t : j \in DOMAIN s \/ t[j] = r
<1>1. Len(s) \in Nat /\ DOMAIN s = 1 .. Len(s)
  BY LenProperties
<1>2. /\ t \in Seq(Requests)
      /\ Len(t) = Len(s) + 1
      /\ \A i \in 1 .. Len(s) : t[i] = s[i]
      /\ t[Len(s) + 1] = r
  BY AppendProperties
<1>3. DOMAIN t = 1 .. Len(s) + 1
  BY <1>2, LenProperties
<1> QED
  BY <1>1, <1>2, <1>3

-----------------------------------------------------------------------------
(* What a call in flight knows.  AccessTypeOK alone is not inductive: that a     *)
(* call marks an existing row, and grants something of the catalogue, was  *)
(* established by an earlier query of the same call.                       *)

Deciding == {"granting", "denying", "recording", "revoking", "closing"}

CallsKnowTheirRow ==
  \A k \in Slots : due[k] \in Deciding =>
    row[k] \in DOMAIN requests /\ requests[row[k]].of = pair[k]

CallsGrantFromCatalogue ==
  \A k \in Slots : due[k] \in {"granting", "recording"} => pair[k] \in People \X Capabilities

CallsAskForThemselves ==
  \A k \in Slots : due[k] \in {"checking", "inserting"} => pair[k] \in Pairs

SettledWasGranted ==
  \A k \in Slots : due[k] = "settling" => pair[k] \in grants \cup revoked

CallInv ==
  /\ CallsKnowTheirRow
  /\ CallsGrantFromCatalogue
  /\ CallsAskForThemselves
  /\ SettledWasGranted

AccessInv == AccessTypeOK /\ CallInv

(* A wish outside the catalogue never becomes a capability, and is never   *)
(* told as granted (request-decision.test.ts), whatever calls overlap.     *)
OtherIsNeverGranted ==
  /\ \A p \in People : <<p, Other>> \notin grants
  /\ \A i \in DOMAIN requests : requests[i].of[2] = Other => requests[i].status # "granted"

LEMMA AccessInvInit == AccessInit => AccessInv /\ GrantedIsGiven /\ OtherIsNeverGranted
<1> SUFFICES ASSUME AccessInit PROVE AccessInv /\ GrantedIsGiven /\ OtherIsNeverGranted
  OBVIOUS
<1>1. requests \in Seq(Requests) /\ DOMAIN requests = {} /\ Len(requests) = 0
  BY EmptySeq DEF AccessInit
<1>2. AccessTypeOK
  BY <1>1 DEF AccessInit, AccessTypeOK, Roles, Queries
<1>3. CallInv
  BY DEF AccessInit, CallInv, CallsKnowTheirRow, CallsGrantFromCatalogue, CallsAskForThemselves,
         SettledWasGranted, Deciding
<1> QED
  BY <1>1, <1>2, <1>3 DEF AccessInit, AccessInv, GrantedIsGiven, OtherIsNeverGranted

(* The rows of a typed table.                                              *)
LEMMA Rows ==
  ASSUME AccessTypeOK
  PROVE  /\ Len(requests) \in Nat
         /\ DOMAIN requests = 1 .. Len(requests)
         /\ \A i \in DOMAIN requests : requests[i].of \in Pairs /\ requests[i].status \in Statuses
<1>1. requests \in Seq(Requests)
  BY DEF AccessTypeOK
<1>2. Len(requests) \in Nat /\ DOMAIN requests = 1 .. Len(requests)
  BY <1>1, LenProperties
<1>3. \A i \in DOMAIN requests : requests[i] \in Requests
  BY <1>1, <1>2, ElementOfSeq
<1> QED
  BY <1>2, <1>3 DEF Requests

-----------------------------------------------------------------------------
(* Every step preserves the invariant.                                     *)

(* A step that writes no request and moves one call.                       *)
LEMMA QueryStep ==
  ASSUME AccessInv, NEW k \in Slots,
         \/ \E p \in People, c \in Capabilities \cup {Other} : Open(k, p, c)
         \/ CheckPending(k)
         \/ \E m \in People : Admit(k, m)
         \/ \E i \in DOMAIN requests : ReadToDecide(k, i) \/ ReadToRevoke(k, i)
         \/ RecordGrant(k)
         \/ DeleteGrant(k)
         \/ CallFails(k)
  PROVE  AccessInv'
<1> USE Rows DEF AccessInv, CallInv, CallsKnowTheirRow, CallsGrantFromCatalogue,
                 CallsAskForThemselves, SettledWasGranted, Deciding, AccessTypeOK, Queries, NoPair,
                 person, call, hist, Hold, Reply
<1>1. ASSUME NEW p \in People, NEW c \in Capabilities \cup {Other}, Open(k, p, c)
      PROVE AccessInv'
  <2>1. <<p, c>> \in Pairs
    BY DEF Pairs
  <2> QED
    BY <1>1, <2>1 DEF Open
<1>2. CASE CheckPending(k)
  <2>1. pair[k] \in Pairs
    BY <1>2 DEF CheckPending
  <2>2. CASE Reply(k) /\ UNCHANGED raced
    BY <1>2, <2>2 DEF CheckPending
  <2>3. CASE /\ Hold(k, "inserting", pair[k], 0)
             /\ raced' \in {raced, raced \cup {pair[k]}}
    <3>1. raced' \subseteq Pairs
      BY <2>1, <2>3
    <3>2. UNCHANGED <<role, active, requests, grants, revoked, torn>>
      BY <1>2 DEF CheckPending
    <3> QED
      BY <2>1, <2>3, <3>1, <3>2
  <2> QED
    BY <1>2, <2>2, <2>3 DEF CheckPending
<1>3. ASSUME NEW m \in People, Admit(k, m) PROVE AccessInv'
  BY <1>3 DEF Admit
<1>4. ASSUME NEW i \in DOMAIN requests, ReadToDecide(k, i) PROVE AccessInv'
  <2>1. Grantable(i) => requests[i].of \in People \X Capabilities
    BY DEF Grantable, Pairs
  <2>2. requests[i].of \in Pairs /\ i \in 0 .. Len(requests)
    OBVIOUS
  <2>3. CASE Grantable(i) /\ Hold(k, "granting", requests[i].of, i)
    BY <1>4, <2>1, <2>2, <2>3 DEF ReadToDecide
  <2>4. CASE Hold(k, "denying", requests[i].of, i)
    BY <1>4, <2>2, <2>4 DEF ReadToDecide
  <2> QED
    BY <1>4, <2>3, <2>4 DEF ReadToDecide
<1>5. ASSUME NEW i \in DOMAIN requests, ReadToRevoke(k, i) PROVE AccessInv'
  BY <1>5 DEF ReadToRevoke
<1>6. CASE RecordGrant(k)
  BY <1>6 DEF RecordGrant
<1>7. CASE DeleteGrant(k)
  BY <1>7 DEF DeleteGrant
<1>8. CASE CallFails(k)
  BY <1>8 DEF CallFails
<1> QED
  BY <1>1, <1>2, <1>3, <1>4, <1>5, <1>6, <1>7, <1>8

(* A step of the team's screen that writes no request.                     *)
LEMMA TeamStep ==
  ASSUME AccessInv, NEW k \in Slots,
         \/ \E p \in People, c \in Capabilities : TeamGrant(k, p, c) \/ TeamRevoke(k, p, c)
         \/ \E p \in People, r \in {"member", "management"} : SetRole(k, p, r)
         \/ \E p \in People, on \in BOOLEAN : SetActive(k, p, on)
  PROVE  AccessInv'
<1> USE Rows DEF AccessInv, CallInv, CallsKnowTheirRow, CallsGrantFromCatalogue,
                 CallsAskForThemselves, SettledWasGranted, Deciding, AccessTypeOK, Queries, NoPair,
                 Roles, person, call, hist, Hold, Reply
<1>1. ASSUME NEW p \in People, NEW c \in Capabilities, TeamGrant(k, p, c) PROVE AccessInv'
  <2>1. <<p, c>> \in Pairs
    BY DEF Pairs
  <2> QED
    BY <1>1, <2>1 DEF TeamGrant
<1>2. ASSUME NEW p \in People, NEW c \in Capabilities, TeamRevoke(k, p, c) PROVE AccessInv'
  BY <1>2 DEF TeamRevoke
<1>3. ASSUME NEW p \in People, NEW r \in {"member", "management"}, SetRole(k, p, r)
      PROVE AccessInv'
  BY <1>3 DEF SetRole
<1>4. ASSUME NEW p \in People, NEW on \in BOOLEAN, SetActive(k, p, on) PROVE AccessInv'
  BY <1>4 DEF SetActive
<1> QED
  BY <1>1, <1>2, <1>3, <1>4

(* A new request.                                                          *)
LEMMA InsertStep ==
  ASSUME AccessInv, NEW k \in Slots, InsertRequest(k)
  PROVE  AccessInv'
<1> DEFINE r == [of |-> pair[k], status |-> "pending"]
<1> USE DEF AccessInv
<1>1. r \in Requests
  BY DEF InsertRequest, CallInv, CallsAskForThemselves, Requests, Statuses
<1>2. requests \in Seq(Requests) /\ requests' = Append(requests, r)
  BY DEF AccessTypeOK, InsertRequest
<1>3. /\ requests' \in Seq(Requests)
      /\ Len(requests') = Len(requests) + 1
      /\ DOMAIN requests \subseteq DOMAIN requests'
      /\ \A j \in DOMAIN requests : requests'[j] = requests[j]
  BY <1>1, <1>2, AddOne
<1>4. AccessTypeOK'
  BY <1>3, Rows DEF InsertRequest, AccessTypeOK, Reply, Queries, NoPair, person, hist
<1>5. CallInv'
  BY <1>3 DEF InsertRequest, CallInv, CallsKnowTheirRow, CallsGrantFromCatalogue,
              CallsAskForThemselves, SettledWasGranted, Deciding, AccessTypeOK, Reply, person, hist
<1> QED
  BY <1>4, <1>5

(* The rows that change keep their ids and what they ask for.              *)
LEMMA MarkStep ==
  ASSUME AccessInv, NEW k \in Slots,
         MarkGranted(k) \/ MarkDenied(k) \/ CloseRevoked(k) \/ SettleRequests(k)
  PROVE  /\ AccessInv'
         /\ DOMAIN requests' = DOMAIN requests
         /\ \A j \in DOMAIN requests : requests'[j].of = requests[j].of
<1> USE DEF AccessInv
<1>1. requests \in Seq(Requests)
  BY DEF AccessTypeOK
<1>2. /\ requests' \in Seq(Requests)
      /\ Len(requests') = Len(requests)
      /\ DOMAIN requests' = DOMAIN requests
      /\ \A j \in DOMAIN requests : requests'[j].of = requests[j].of
  <2>1. CASE MarkGranted(k) \/ MarkDenied(k) \/ CloseRevoked(k)
    <3>1. row[k] \in DOMAIN requests
      BY <2>1 DEF MarkGranted, MarkDenied, CloseRevoked, CallInv, CallsKnowTheirRow, Deciding
    <3>2. PICK v \in Statuses : requests' = [requests EXCEPT ![row[k]].status = v]
      <4>1. \/ requests' = [requests EXCEPT ![row[k]].status = "granted"]
            \/ requests' = [requests EXCEPT ![row[k]].status = "denied"]
        BY <2>1 DEF MarkGranted, MarkDenied, CloseRevoked
      <4> QED
        BY <4>1 DEF Statuses
    <3> QED
      BY <1>1, <3>1, <3>2, MarkOne
  <2>2. CASE SettleRequests(k)
    <3>1. PendingFor(pair[k]) \in SUBSET (DOMAIN requests)
      BY DEF PendingFor
    <3>2. requests' = [i \in DOMAIN requests |->
                         IF i \in PendingFor(pair[k])
                         THEN [requests[i] EXCEPT !.status = "granted"] ELSE requests[i]]
      BY <2>2 DEF SettleRequests
    <3> QED
      BY <1>1, <3>1, <3>2, MarkMany
  <2> QED
    BY <2>1, <2>2
<1>3. \/ Reply(k)
      \/ due[k] = "granting" /\ Hold(k, "recording", pair[k], row[k])
  BY DEF MarkGranted, MarkDenied, CloseRevoked, SettleRequests
<1>4. UNCHANGED <<person, grants, hist>>
  BY DEF MarkGranted, MarkDenied, CloseRevoked, SettleRequests
<1>5. row[k] \in 0 .. Len(requests) /\ pair[k] \in Pairs \cup {NoPair}
  BY DEF AccessTypeOK
<1>6. CASE Reply(k)
  <2>1. AccessTypeOK'
    BY <1>2, <1>4, <1>5, <1>6, Rows DEF AccessTypeOK, Reply, Queries, NoPair, person, hist
  <2>2. CallInv'
    BY <1>2, <1>4, <1>6 DEF CallInv, CallsKnowTheirRow, CallsGrantFromCatalogue,
       CallsAskForThemselves, SettledWasGranted, Deciding, AccessTypeOK, Reply, person, hist
  <2> QED
    BY <1>2, <2>1, <2>2
<1>7. CASE due[k] = "granting" /\ Hold(k, "recording", pair[k], row[k])
  <2>1. AccessTypeOK'
    BY <1>2, <1>4, <1>5, <1>7, Rows DEF AccessTypeOK, Hold, Queries, person, hist
  <2>2. CallInv'
    BY <1>2, <1>4, <1>7 DEF CallInv, CallsKnowTheirRow, CallsGrantFromCatalogue,
       CallsAskForThemselves, SettledWasGranted, Deciding, AccessTypeOK, Hold, person, hist
  <2> QED
    BY <1>2, <2>1, <2>2
<1> QED
  BY <1>3, <1>6, <1>7

LEMMA AccessStep == AccessInv /\ [AccessNext]_accessVars => AccessInv'
<1> SUFFICES ASSUME AccessInv, [AccessNext]_accessVars PROVE AccessInv'
  OBVIOUS
<1>1. ASSUME NEW p \in People, EnsurePerson(p) PROVE AccessInv'
  BY <1>1 DEF EnsurePerson, AccessInv, CallInv, CallsKnowTheirRow, CallsGrantFromCatalogue,
     CallsAskForThemselves, SettledWasGranted, Deciding, AccessTypeOK, Roles, call, hist
<1>2. ASSUME NEW k \in Slots, RequestCall(k) PROVE AccessInv'
  <2>1. CASE InsertRequest(k)
    BY <2>1, InsertStep
  <2> QED
    BY <1>2, <2>1, QueryStep, AccessAssumption DEF RequestCall
<1>3. ASSUME NEW k \in Slots, DecisionCall(k) PROVE AccessInv'
  <2>1. CASE MarkGranted(k) \/ MarkDenied(k) \/ CloseRevoked(k)
    BY <2>1, MarkStep
  <2> QED
    BY <1>3, <2>1, QueryStep DEF DecisionCall
<1>4. ASSUME NEW k \in Slots, TeamCall(k) PROVE AccessInv'
  <2>1. CASE SettleRequests(k)
    BY <2>1, MarkStep
  <2> QED
    BY <1>4, <2>1, TeamStep, AccessAssumption DEF TeamCall
<1>5. ASSUME NEW k \in Slots, CallFails(k) PROVE AccessInv'
  BY <1>5, QueryStep
<1>6. CASE UNCHANGED accessVars
  BY <1>6 DEF accessVars, AccessInv, CallInv, CallsKnowTheirRow, CallsGrantFromCatalogue,
     CallsAskForThemselves, SettledWasGranted, Deciding, AccessTypeOK, person, call, hist
<1> QED
  BY <1>1, <1>2, <1>3, <1>4, <1>5, <1>6 DEF AccessNext

(* Every variable keeps its type: in particular a call that marks a        *)
(* request marks one that exists, and nothing outside the catalogue ever   *)
(* enters desk.grant.                                                      *)
THEOREM AccessTypeCorrect == AccessSpec => []AccessTypeOK
<1>1. AccessSpec => []AccessInv
  BY AccessInvInit, AccessStep, PTL DEF AccessSpec
<1>2. AccessInv => AccessTypeOK
  BY DEF AccessInv
<1> QED
  BY <1>1, <1>2, PTL

-----------------------------------------------------------------------------
(* A granted request gave its capability.                                  *)

(* Enough for a step to preserve it: whatever is newly granted is given or *)
(* being recorded, nothing given is forgotten, and a call that stops       *)
(* recording has recorded or was torn.                                     *)
LEMMA GivenFrame ==
  ASSUME AccessInv, GrantedIsGiven,
         \A i \in DOMAIN requests' : requests'[i].status = "granted" =>
           \/ /\ i \in DOMAIN requests
              /\ requests[i].status = "granted" /\ requests'[i].of = requests[i].of
           \/ requests'[i].of \in grants' \cup revoked'
           \/ \E k \in Slots : due'[k] = "recording" /\ row'[k] = i,
         grants \cup revoked \subseteq grants' \cup revoked',
         torn \subseteq torn',
         \A k \in Slots : due[k] = "recording" =>
           \/ due'[k] = "recording" /\ row'[k] = row[k]
           \/ pair[k] \in grants'
           \/ row[k] \in torn'
  PROVE  GrantedIsGiven'
<1>1. SUFFICES ASSUME NEW i \in DOMAIN requests, requests[i].status = "granted",
                      i \in DOMAIN requests', requests'[i].of = requests[i].of
               PROVE  \/ requests[i].of \in grants' \cup revoked'
                      \/ \E k \in Slots : due'[k] = "recording" /\ row'[k] = i
                      \/ i \in torn'
  BY DEF GrantedIsGiven
<1>2. CASE requests[i].of \in grants \cup revoked \/ i \in torn
  BY <1>2
<1>3. ASSUME NEW k \in Slots, due[k] = "recording", row[k] = i
      PROVE  \/ requests[i].of \in grants' \cup revoked'
             \/ \E c \in Slots : due'[c] = "recording" /\ row'[c] = i
             \/ i \in torn'
  <2>1. requests[i].of = pair[k]
    BY <1>3 DEF AccessInv, CallInv, CallsKnowTheirRow, Deciding
  <2> QED
    BY <1>3, <2>1
<1> QED
  BY <1>1, <1>2, <1>3 DEF GrantedIsGiven

LEMMA GivenStep == AccessInv /\ GrantedIsGiven /\ [AccessNext]_accessVars => GrantedIsGiven'
<1> SUFFICES ASSUME AccessInv, GrantedIsGiven, [AccessNext]_accessVars PROVE GrantedIsGiven'
  OBVIOUS
<1> USE DEF person, call, hist
<1>a. due \in [Slots -> Queries] /\ row \in [Slots -> 0 .. Len(requests)] /\ DOMAIN row = Slots
  BY DEF AccessInv, AccessTypeOK
<1>1. ASSUME NEW k \in Slots, InsertRequest(k) PROVE GrantedIsGiven'
  <2> DEFINE r == [of |-> pair[k], status |-> "pending"]
  <2>1. r \in Requests /\ requests \in Seq(Requests) /\ requests' = Append(requests, r)
    BY <1>1 DEF InsertRequest, AccessInv, CallInv, CallsAskForThemselves, AccessTypeOK,
                Requests, Statuses
  <2>2. /\ \A j \in DOMAIN requests : requests'[j] = requests[j]
        /\ \A j \in DOMAIN requests' : j \in DOMAIN requests \/ requests'[j] = r
    BY <2>1, AddOne
  <2> QED
    BY <1>a, <1>1, <2>2, GivenFrame DEF InsertRequest, Reply
<1>2. ASSUME NEW k \in Slots, MarkGranted(k) PROVE GrantedIsGiven'
  <2>1. requests \in Seq(Requests) /\ row[k] \in DOMAIN requests
    BY <1>2 DEF MarkGranted, AccessInv, AccessTypeOK, CallInv, CallsKnowTheirRow, Deciding
  <2>2. /\ DOMAIN requests' = DOMAIN requests
        /\ \A j \in DOMAIN requests : requests'[j].of = requests[j].of
        /\ \A j \in DOMAIN requests : j # row[k] => requests'[j].status = requests[j].status
    BY <1>2, <2>1, MarkOne DEF MarkGranted, Statuses
  <2>3. due'[k] = "recording" /\ row'[k] = row[k]
    BY <1>a, <1>2 DEF MarkGranted, Hold
  <2> QED
    BY <1>a, <1>2, <2>2, <2>3, GivenFrame DEF MarkGranted, Hold
<1>3. ASSUME NEW k \in Slots, MarkDenied(k) \/ CloseRevoked(k) PROVE GrantedIsGiven'
  <2>1. requests \in Seq(Requests) /\ row[k] \in DOMAIN requests
    BY <1>3 DEF MarkDenied, CloseRevoked, AccessInv, AccessTypeOK, CallInv, CallsKnowTheirRow, Deciding
  <2>2. requests' = [requests EXCEPT ![row[k]].status = "denied"]
    BY <1>3 DEF MarkDenied, CloseRevoked
  <2>3. /\ DOMAIN requests' = DOMAIN requests
        /\ \A j \in DOMAIN requests : requests'[j].of = requests[j].of
        /\ \A j \in DOMAIN requests : requests'[j].status = "granted"
                                        => requests[j].status = "granted"
    BY <2>1, <2>2, MarkOne DEF Statuses
  <2> QED
    BY <1>a, <1>3, <2>3, GivenFrame DEF MarkDenied, CloseRevoked, Reply
<1>4. ASSUME NEW k \in Slots, SettleRequests(k) PROVE GrantedIsGiven'
  <2>1. requests \in Seq(Requests) /\ pair[k] \in grants \cup revoked
    BY <1>4 DEF SettleRequests, AccessInv, AccessTypeOK, CallInv, SettledWasGranted
  <2>2. /\ DOMAIN requests' = DOMAIN requests
        /\ \A j \in DOMAIN requests : requests'[j].of = requests[j].of
    BY <1>4, MarkStep
  <2>3. \A j \in DOMAIN requests : requests'[j].status = "granted"
          => requests[j].status = "granted" \/ requests[j].of = pair[k]
    BY <1>4 DEF SettleRequests, PendingFor
  <2> QED
    BY <1>a, <1>4, <2>1, <2>2, <2>3, GivenFrame DEF SettleRequests, Reply
<1>5. ASSUME NEW k \in Slots, DeleteGrant(k) PROVE GrantedIsGiven'
  BY <1>a, <1>5, GivenFrame DEF DeleteGrant, Hold
<1>6. ASSUME NEW k \in Slots, NEW p \in People, NEW c \in Capabilities, TeamRevoke(k, p, c)
      PROVE GrantedIsGiven'
  BY <1>a, <1>6, GivenFrame DEF TeamRevoke, Reply
<1>7. ASSUME NEW k \in Slots, RecordGrant(k) PROVE GrantedIsGiven'
  BY <1>a, <1>7, GivenFrame DEF RecordGrant, Reply
<1>8. ASSUME NEW k \in Slots, CallFails(k) PROVE GrantedIsGiven'
  BY <1>a, <1>8, GivenFrame DEF CallFails, Reply
<1>9. ASSUME NEW k \in Slots, NEW p \in People, NEW c \in Capabilities, TeamGrant(k, p, c)
      PROVE GrantedIsGiven'
  BY <1>a, <1>9, GivenFrame DEF TeamGrant, Hold
<1>10. ASSUME NEW k \in Slots, NEW p \in People,
              \/ \E c \in Capabilities \cup {Other} : Open(k, p, c)
              \/ \E r \in {"member", "management"} : SetRole(k, p, r)
              \/ \E on \in BOOLEAN : SetActive(k, p, on)
              \/ Admit(k, p)
       PROVE GrantedIsGiven'
  BY <1>a, <1>10, GivenFrame DEF Open, SetRole, SetActive, Admit, Reply
<1>11. ASSUME NEW k \in Slots,
              \/ CheckPending(k)
              \/ \E i \in DOMAIN requests : ReadToDecide(k, i) \/ ReadToRevoke(k, i)
       PROVE GrantedIsGiven'
  BY <1>a, <1>11, GivenFrame DEF CheckPending, ReadToDecide, ReadToRevoke, Reply, Hold
<1>12. CASE (\E p \in People : EnsurePerson(p)) \/ UNCHANGED accessVars
  BY <1>12 DEF EnsurePerson, accessVars, GrantedIsGiven
<1>13. ASSUME NEW k \in Slots, RequestCall(k) \/ DecisionCall(k) \/ TeamCall(k)
       PROVE GrantedIsGiven'
  BY <1>1, <1>2, <1>3, <1>4, <1>5, <1>6, <1>7, <1>9, <1>10, <1>11, <1>13, AccessAssumption
  DEF RequestCall, DecisionCall, TeamCall
<1> QED
  BY <1>8, <1>12, <1>13 DEF AccessNext

(* A request that is granted has given its capability, or a failed query   *)
(* cut the decision in two, whatever calls overlap.                        *)
THEOREM GrantsAreGiven == AccessSpec => []GrantedIsGiven
<1>1. AccessInit => AccessInv /\ GrantedIsGiven
  BY AccessInvInit
<1>2. AccessInv /\ GrantedIsGiven /\ [AccessNext]_accessVars => (AccessInv /\ GrantedIsGiven)'
  BY AccessStep, GivenStep
<1> QED
  BY <1>1, <1>2, PTL DEF AccessSpec

-----------------------------------------------------------------------------
(* A wish outside the catalogue is never granted.                          *)

(* The half about the requests; AccessTypeOK is the half about the grants.       *)
OtherWaits ==
  \A i \in DOMAIN requests : requests[i].of[2] = Other => requests[i].status # "granted"

LEMMA OtherStep == AccessInv /\ OtherWaits /\ [AccessNext]_accessVars => OtherWaits'
<1> SUFFICES ASSUME AccessInv, OtherWaits, [AccessNext]_accessVars PROVE OtherWaits'
  OBVIOUS
<1>1. ASSUME NEW k \in Slots, InsertRequest(k) PROVE OtherWaits'
  <2> DEFINE r == [of |-> pair[k], status |-> "pending"]
  <2>1. r \in Requests /\ requests \in Seq(Requests) /\ requests' = Append(requests, r)
    BY <1>1 DEF InsertRequest, AccessInv, CallInv, CallsAskForThemselves, AccessTypeOK,
                Requests, Statuses
  <2>2. /\ \A j \in DOMAIN requests : requests'[j] = requests[j]
        /\ \A j \in DOMAIN requests' : j \in DOMAIN requests \/ requests'[j] = r
    BY <2>1, AddOne
  <2> QED
    BY <2>2 DEF OtherWaits
<1>2. ASSUME NEW k \in Slots, MarkGranted(k) PROVE OtherWaits'
  <2>1. /\ requests \in Seq(Requests) /\ row[k] \in DOMAIN requests
        /\ requests[row[k]].of = pair[k] /\ pair[k] \in People \X Capabilities
    BY <1>2 DEF MarkGranted, AccessInv, AccessTypeOK, CallInv, CallsKnowTheirRow,
                CallsGrantFromCatalogue, Deciding
  <2>2. /\ DOMAIN requests' = DOMAIN requests
        /\ \A j \in DOMAIN requests : requests'[j].of = requests[j].of
        /\ \A j \in DOMAIN requests : j # row[k] => requests'[j].status = requests[j].status
    BY <1>2, <2>1, MarkOne DEF MarkGranted, Statuses
  <2>3. pair[k][2] # Other
    BY <2>1, AccessAssumption
  <2> QED
    BY <2>1, <2>2, <2>3 DEF OtherWaits
<1>3. ASSUME NEW k \in Slots, MarkDenied(k) \/ CloseRevoked(k) PROVE OtherWaits'
  <2>1. requests \in Seq(Requests) /\ row[k] \in DOMAIN requests
    BY <1>3 DEF MarkDenied, CloseRevoked, AccessInv, AccessTypeOK, CallInv, CallsKnowTheirRow, Deciding
  <2>2. requests' = [requests EXCEPT ![row[k]].status = "denied"]
    BY <1>3 DEF MarkDenied, CloseRevoked
  <2>3. /\ DOMAIN requests' = DOMAIN requests
        /\ \A j \in DOMAIN requests : requests'[j].of = requests[j].of
        /\ \A j \in DOMAIN requests : requests'[j].status = "granted"
                                        => requests[j].status = "granted"
    BY <2>1, <2>2, MarkOne DEF Statuses
  <2> QED
    BY <2>3 DEF OtherWaits
<1>4. ASSUME NEW k \in Slots, SettleRequests(k) PROVE OtherWaits'
  <2>1. pair[k] \in People \X Capabilities
    BY <1>4 DEF SettleRequests, AccessInv, AccessTypeOK, CallInv, SettledWasGranted
  <2>2. /\ DOMAIN requests' = DOMAIN requests
        /\ \A j \in DOMAIN requests : requests'[j].of = requests[j].of
    BY <1>4, MarkStep
  <2>3. \A j \in DOMAIN requests : requests'[j].status = "granted"
          => requests[j].status = "granted" \/ requests[j].of = pair[k]
    BY <1>4 DEF SettleRequests, PendingFor
  <2>4. pair[k][2] # Other
    BY <2>1, AccessAssumption
  <2> QED
    BY <2>2, <2>3, <2>4 DEF OtherWaits
<1>5. CASE UNCHANGED requests
  BY <1>5 DEF OtherWaits
<1>6. ASSUME NEW k \in Slots, RequestCall(k) PROVE OtherWaits'
  BY <1>1, <1>5, <1>6 DEF RequestCall, Open, CheckPending
<1>7. ASSUME NEW k \in Slots, DecisionCall(k) PROVE OtherWaits'
  BY <1>2, <1>3, <1>5, <1>7
  DEF DecisionCall, Admit, ReadToDecide, ReadToRevoke, RecordGrant, DeleteGrant
<1>8. ASSUME NEW k \in Slots, TeamCall(k) PROVE OtherWaits'
  BY <1>4, <1>5, <1>8 DEF TeamCall, TeamGrant, TeamRevoke, SetRole, SetActive
<1> QED
  BY <1>5, <1>6, <1>7, <1>8 DEF AccessNext, EnsurePerson, CallFails, accessVars

(* A wish outside the catalogue is never a grant and is never told as      *)
(* granted, for any number of overlapping decisions.                       *)
THEOREM OtherStaysAWish == AccessSpec => []OtherIsNeverGranted
<1>1. AccessInit => AccessInv /\ OtherWaits
  BY AccessInvInit DEF OtherIsNeverGranted, OtherWaits
<1>2. AccessInv /\ OtherWaits /\ [AccessNext]_accessVars => (AccessInv /\ OtherWaits)'
  BY AccessStep, OtherStep
<1>3. AccessInv /\ OtherWaits => OtherIsNeverGranted
  <2> SUFFICES ASSUME AccessInv, OtherWaits PROVE OtherIsNeverGranted
    OBVIOUS
  <2>1. grants \subseteq People \X Capabilities
    BY DEF AccessInv, AccessTypeOK
  <2> QED
    BY <2>1, AccessAssumption DEF OtherWaits, OtherIsNeverGranted
<1> QED
  BY <1>1, <1>2, <1>3, PTL DEF AccessSpec

-----------------------------------------------------------------------------
(* The last supervisor.                                                    *)

(* A step that leaves no supervisor is made by a call whose caller was     *)
(* admitted as one and is one no longer.                                   *)
LEMMA LastManagerStep ==
  AccessInv /\ [AccessNext]_accessVars =>
    (Managers # {} /\ Managers' = {}
       => \E k \in Slots : due[k] = "admitted" /\ by[k] \notin Managers)
<1> SUFFICES ASSUME AccessInv, [AccessNext]_accessVars, Managers # {}, Managers' = {}
             PROVE  \E k \in Slots : due[k] = "admitted" /\ by[k] \notin Managers
  OBVIOUS
<1>1. role \in [People -> Roles] /\ active \in [People -> BOOLEAN]
  BY DEF AccessInv, AccessTypeOK
<1>2. ASSUME NEW k \in Slots, NEW p \in People, NEW r \in {"member", "management"},
             SetRole(k, p, r), by[k] \in Managers
      PROVE FALSE
  <2>1. by[k] \in Managers'
    BY <1>1, <1>2 DEF SetRole, SparesCaller, Managers, IsManager
  <2> QED
    BY <2>1
<1>3. ASSUME NEW k \in Slots, NEW p \in People, NEW on \in BOOLEAN,
             SetActive(k, p, on), by[k] \in Managers
      PROVE FALSE
  <2>1. by[k] # p
    BY <1>3 DEF SetActive, SparesCaller
  <2>2. role' = role /\ active'[by[k]] = active[by[k]]
    BY <1>1, <1>3, <2>1 DEF SetActive
  <2>3. by[k] \in Managers'
    BY <1>3, <2>2 DEF Managers, IsManager
  <2> QED
    BY <2>3
<1>4. CASE UNCHANGED person
  BY <1>4 DEF person, Managers, IsManager
<1>5. ASSUME NEW p \in People, EnsurePerson(p) PROVE FALSE
  <2>1. Managers \subseteq Managers'
    BY <1>1, <1>5 DEF EnsurePerson, Managers, IsManager
  <2> QED
    BY <2>1
<1>6. ASSUME NEW k \in Slots, RequestCall(k) \/ DecisionCall(k) \/ CallFails(k)
      PROVE UNCHANGED person
  BY <1>6 DEF RequestCall, DecisionCall, CallFails, Open, CheckPending, InsertRequest,
     Admit, ReadToDecide, ReadToRevoke, MarkGranted, MarkDenied, RecordGrant, DeleteGrant,
     CloseRevoked
<1>7. ASSUME NEW k \in Slots, TeamCall(k)
      PROVE \/ UNCHANGED person
            \/ due[k] = "admitted" /\ by[k] \notin Managers
  BY <1>2, <1>3, <1>7 DEF TeamCall, TeamGrant, TeamRevoke, SettleRequests, SetRole, SetActive
<1> QED
  BY <1>4, <1>5, <1>6, <1>7 DEF AccessNext, accessVars

(* Nobody who is a supervisor removes the last one.                        *)
THEOREM LastManagerIsSpared == AccessSpec => LastManagerFallsToStaleCall
<1>1. AccessSpec => []AccessInv
  BY AccessInvInit, AccessStep, PTL DEF AccessSpec
<1>2. AccessInv /\ [AccessNext]_accessVars =>
        [Managers # {} /\ Managers' = {} =>
           \E k \in Slots : due[k] = "admitted" /\ by[k] \notin Managers]_accessVars
  BY LastManagerStep
<1> QED
  BY <1>1, <1>2, PTL DEF AccessSpec, LastManagerFallsToStaleCall

-----------------------------------------------------------------------------
(* One row per pair.                                                       *)

(* What the sum of two cardinalities says, without counting: nothing waits *)
(* twice, is being inserted twice, or both.  Unlike the sum it can be      *)
(* compared before and after a step.                                       *)
WaitsOnce(x) ==
  /\ \A i, j \in PendingFor(x) : i = j
  /\ \A k, l \in Inserting(x) : k = l
  /\ PendingFor(x) = {} \/ Inserting(x) = {}

CataloguePairsWaitOnce ==
  \A x \in People \X Capabilities : WaitsOnce(x) \/ x \in raced

LEMMA AtMostOneElement ==
  ASSUME NEW S, \A a, b \in S : a = b
  PROVE  S = {} \/ Cardinality(S) = 1
<1> SUFFICES ASSUME S # {} PROVE Cardinality(S) = 1
  OBVIOUS
<1>1. PICK a : a \in S
  OBVIOUS
<1>2. S = {a}
  BY <1>1
<1> QED
  BY <1>2, FS_Singleton

LEMMA WaitsOnceCounts ==
  ASSUME NEW x, WaitsOnce(x)
  PROVE  Cardinality(PendingFor(x)) + Cardinality(Inserting(x)) <= 1
<1>1. \A S : (\A a, b \in S : a = b) => Cardinality(S) \in {0, 1}
  BY FS_EmptySet, AtMostOneElement
<1>2. Cardinality(PendingFor(x)) \in {0, 1} /\ Cardinality(Inserting(x)) \in {0, 1}
  BY <1>1 DEF WaitsOnce
<1>3. Cardinality(PendingFor(x)) = 0 \/ Cardinality(Inserting(x)) = 0
  BY FS_EmptySet DEF WaitsOnce
<1>4. \A m, n \in {0, 1} : m = 0 \/ n = 0 => m + n <= 1
  OBVIOUS
<1> QED
  BY <1>2, <1>3, <1>4

(* A step that neither makes a row wait nor lets a call past the look-up.  *)
LEMMA WaitsOnceFrame ==
  ASSUME NEW x, WaitsOnce(x),
         PendingFor(x)' \subseteq PendingFor(x),
         Inserting(x)' \subseteq Inserting(x)
  PROVE  WaitsOnce(x)'
  BY DEF WaitsOnce

LEMMA PairWaitsOnceStep ==
  ASSUME AccessInv, [AccessNext]_accessVars, NEW x \in People \X Capabilities,
         x \in raced \/ WaitsOnce(x)
  PROVE  x \in raced' \/ WaitsOnce(x)'
<1> USE DEF person, call, hist
<1>a. /\ due \in [Slots -> Queries] /\ pair \in [Slots -> Pairs \cup {NoPair}]
      /\ requests \in Seq(Requests)
  BY DEF AccessInv, AccessTypeOK
<1>b. raced \subseteq raced'
  BY DEF AccessNext, RequestCall, DecisionCall, TeamCall, CallFails, EnsurePerson, Open, CheckPending,
     InsertRequest, Admit, ReadToDecide, ReadToRevoke, MarkGranted, MarkDenied, RecordGrant,
     DeleteGrant, CloseRevoked, TeamGrant, TeamRevoke, SettleRequests, SetRole, SetActive, accessVars
<1>c. SUFFICES ASSUME WaitsOnce(x) PROVE x \in raced' \/ WaitsOnce(x)'
  BY <1>b
<1>1. ASSUME NEW k \in Slots, NEW p \in People, NEW c \in Capabilities \cup {Other}, Open(k, p, c)
      PROVE WaitsOnce(x)'
  <2>1. \A l \in Slots : due'[l] = "inserting" /\ pair'[l] = x
                          => due[l] = "inserting" /\ pair[l] = x
    <3>1. CASE c = Other
      BY <1>a, <1>1, <3>1, AccessAssumption DEF Open
    <3>2. CASE c # Other
      BY <1>a, <1>1, <3>2 DEF Open
    <3> QED
      BY <3>1, <3>2
  <2> QED
    BY <1>1, <1>c, <2>1, WaitsOnceFrame DEF Open, PendingFor, Pending, Inserting
<1>2. ASSUME NEW k \in Slots, CheckPending(k) PROVE x \in raced' \/ WaitsOnce(x)'
  <2>1. PendingFor(x)' = PendingFor(x)
    BY <1>2 DEF CheckPending, PendingFor, Pending
  <2>2. CASE pair[k] # x \/ Reply(k)
    <3>1. Inserting(x)' \subseteq Inserting(x)
      BY <1>a, <1>2, <2>2 DEF CheckPending, Reply, Hold, Inserting
    <3> QED
      BY <1>c, <2>1, <3>1, WaitsOnceFrame
  <2>3. CASE /\ pair[k] = x /\ PendingFor(x) = {} /\ Hold(k, "inserting", x, 0)
             /\ raced' = IF Inserting(x) = {} THEN raced ELSE raced \cup {x}
    <3>1. CASE Inserting(x) = {}
      <4>1. \A l \in Inserting(x)' : l = k
        BY <1>a, <2>3, <3>1 DEF Hold, Inserting
      <4> QED
        BY <2>1, <2>3, <4>1 DEF WaitsOnce
    <3> QED
      BY <2>3, <3>1
  <2> QED
    BY <1>2, <2>2, <2>3 DEF CheckPending
<1>3. ASSUME NEW k \in Slots, InsertRequest(k) PROVE WaitsOnce(x)'
  <2> DEFINE r == [of |-> pair[k], status |-> "pending"]
  <2>1. r \in Requests /\ requests' = Append(requests, r)
    BY <1>3 DEF InsertRequest, AccessInv, CallInv, CallsAskForThemselves, Requests, Statuses
  <2>2. /\ requests' \in Seq(Requests)
        /\ Len(requests') = Len(requests) + 1
        /\ \A j \in DOMAIN requests : requests'[j] = requests[j]
        /\ \A j \in DOMAIN requests' : j \in DOMAIN requests \/ requests'[j] = r
    BY <1>a, <2>1, AddOne
  <2>3. /\ Len(requests) \in Nat /\ DOMAIN requests = 1 .. Len(requests)
        /\ DOMAIN requests' = 1 .. Len(requests')
    BY <1>a, <2>2, LenProperties
  <2>4. due[k] = "inserting" /\ due' = [due EXCEPT ![k] = "idle"] /\ pair' = [pair EXCEPT ![k] = NoPair]
    BY <1>3 DEF InsertRequest, Reply
  <2>5. Inserting(x)' \subseteq Inserting(x) /\ k \notin Inserting(x)'
    BY <1>a, <2>4 DEF Inserting
  <2>6. CASE pair[k] # x
    <3>1. PendingFor(x)' \subseteq PendingFor(x)
      BY <2>2, <2>3, <2>6 DEF PendingFor, Pending
    <3> QED
      BY <1>c, <2>5, <3>1, WaitsOnceFrame
  <2>7. CASE pair[k] = x
    <3>1. k \in Inserting(x)
      BY <2>4, <2>7 DEF Inserting
    <3>2. PendingFor(x) = {} /\ Inserting(x)' = {}
      BY <1>c, <2>5, <3>1 DEF WaitsOnce
    <3>3. \A i \in PendingFor(x)' : i = Len(requests) + 1
      BY <2>2, <2>3, <3>2 DEF PendingFor, Pending
    <3> QED
      BY <3>2, <3>3 DEF WaitsOnce
  <2> QED
    BY <2>6, <2>7
<1>4. ASSUME NEW k \in Slots,
             MarkGranted(k) \/ MarkDenied(k) \/ CloseRevoked(k) \/ SettleRequests(k)
      PROVE WaitsOnce(x)'
  <2>1. /\ DOMAIN requests' = DOMAIN requests
        /\ \A j \in DOMAIN requests : requests'[j].of = requests[j].of
    BY <1>4, MarkStep
  <2>2. \A j \in DOMAIN requests : requests'[j].status = "pending"
                                     => requests[j].status = "pending"
    <3>1. ASSUME NEW v \in {"granted", "denied"}, row[k] \in DOMAIN requests,
                 requests' = [requests EXCEPT ![row[k]].status = v]
          PROVE \A j \in DOMAIN requests : requests'[j].status = "pending"
                                             => requests[j].status = "pending"
      BY <1>a, <3>1, MarkOne DEF Statuses
    <3>2. CASE MarkGranted(k) \/ MarkDenied(k) \/ CloseRevoked(k)
      <4>1. row[k] \in DOMAIN requests
        BY <3>2 DEF MarkGranted, MarkDenied, CloseRevoked, AccessInv, CallInv,
                    CallsKnowTheirRow, Deciding
      <4>2. \/ requests' = [requests EXCEPT ![row[k]].status = "granted"]
            \/ requests' = [requests EXCEPT ![row[k]].status = "denied"]
        BY <3>2 DEF MarkGranted, MarkDenied, CloseRevoked
      <4> QED
        BY <3>1, <4>1, <4>2
    <3>3. CASE SettleRequests(k)
      <4>1. PendingFor(pair[k]) \in SUBSET (DOMAIN requests)
        BY DEF PendingFor
      <4>2. requests' = [i \in DOMAIN requests |->
                           IF i \in PendingFor(pair[k])
                           THEN [requests[i] EXCEPT !.status = "granted"] ELSE requests[i]]
        BY <3>3 DEF SettleRequests
      <4> QED
        BY <1>a, <4>1, <4>2, MarkMany
    <3> QED
      BY <1>4, <3>2, <3>3
  <2>3. PendingFor(x)' \subseteq PendingFor(x)
    BY <2>1, <2>2 DEF PendingFor, Pending
  <2>4. Inserting(x)' \subseteq Inserting(x)
    BY <1>a, <1>4 DEF MarkGranted, MarkDenied, CloseRevoked, SettleRequests, Hold, Reply, Inserting
  <2> QED
    BY <1>c, <2>3, <2>4, WaitsOnceFrame
<1>5. ASSUME UNCHANGED requests, Inserting(x)' \subseteq Inserting(x) PROVE WaitsOnce(x)'
  BY <1>c, <1>5, WaitsOnceFrame DEF PendingFor, Pending
<1>6. ASSUME NEW k \in Slots,
             \/ \E m \in People : Admit(k, m)
             \/ \E i \in DOMAIN requests : ReadToDecide(k, i) \/ ReadToRevoke(k, i)
             \/ RecordGrant(k) \/ DeleteGrant(k) \/ CallFails(k)
             \/ \E p \in People, c \in Capabilities : TeamGrant(k, p, c) \/ TeamRevoke(k, p, c)
             \/ \E p \in People, r \in {"member", "management"} : SetRole(k, p, r)
             \/ \E p \in People, on \in BOOLEAN : SetActive(k, p, on)
      PROVE WaitsOnce(x)'
  BY <1>a, <1>5, <1>6 DEF Admit, ReadToDecide, ReadToRevoke, RecordGrant, DeleteGrant, CallFails,
     TeamGrant, TeamRevoke, SetRole, SetActive, Hold, Reply, Inserting
<1>7. CASE (\E p \in People : EnsurePerson(p)) \/ UNCHANGED accessVars
  BY <1>5, <1>7 DEF EnsurePerson, accessVars, Inserting
<1>8. Subjects \subseteq People
  BY AccessAssumption
<1>9. ASSUME NEW k \in Slots, RequestCall(k) PROVE x \in raced' \/ WaitsOnce(x)'
  BY <1>1, <1>2, <1>3, <1>8, <1>9 DEF RequestCall
<1>10. ASSUME NEW k \in Slots, DecisionCall(k) PROVE WaitsOnce(x)'
  BY <1>4, <1>6, <1>10 DEF DecisionCall
<1>11. ASSUME NEW k \in Slots, TeamCall(k) PROVE WaitsOnce(x)'
  BY <1>4, <1>6, <1>8, <1>11 DEF TeamCall
<1> QED
  BY <1>6, <1>7, <1>9, <1>10, <1>11 DEF AccessNext

(* Nobody waits for one capability in two rows, unless two openings of     *)
(* that pair passed the look-up for a pending row together, whatever other *)
(* calls overlap.                                                          *)
THEOREM OneRowEach == AccessSpec => []OneRowUnlessRaced
<1>1. AccessInit => AccessInv /\ CataloguePairsWaitOnce
  <2> SUFFICES ASSUME AccessInit PROVE CataloguePairsWaitOnce
    BY AccessInvInit
  <2>1. DOMAIN requests = {}
    BY EmptySeq DEF AccessInit
  <2>2. \A x : PendingFor(x) = {} /\ Inserting(x) = {}
    BY <2>1 DEF AccessInit, PendingFor, Inserting
  <2> QED
    BY <2>2 DEF CataloguePairsWaitOnce, WaitsOnce
<1>2. AccessInv /\ CataloguePairsWaitOnce /\ [AccessNext]_accessVars => (AccessInv /\ CataloguePairsWaitOnce)'
  <2> SUFFICES ASSUME AccessInv, CataloguePairsWaitOnce, [AccessNext]_accessVars
               PROVE  AccessInv' /\ CataloguePairsWaitOnce'
    OBVIOUS
  <2>1. \A x \in People \X Capabilities : x \in raced' \/ WaitsOnce(x)'
    BY PairWaitsOnceStep DEF CataloguePairsWaitOnce
  <2> QED
    BY <2>1, AccessStep DEF CataloguePairsWaitOnce
<1>3. CataloguePairsWaitOnce => OneRowUnlessRaced
  BY WaitsOnceCounts DEF CataloguePairsWaitOnce, OneRowUnlessRaced
<1> QED
  BY <1>1, <1>2, <1>3, PTL DEF AccessSpec
=============================================================================
