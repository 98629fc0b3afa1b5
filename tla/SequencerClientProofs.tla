------------------------ MODULE SequencerClientProofs -------------------------
(***************************************************************************)
(* SequencerClient keeps its promises for any number of users, RPCs and    *)
(* ids: CInv is inductive, and the properties follow from it.              *)
(***************************************************************************)
EXTENDS SequencerClientInvariant, TLAPS

USE DEF Registry!Creating, Registry!Removing, Registry!Looking, OnSequencer

-----------------------------------------------------------------------------
(* What the steps of the provider and of the users have in common.         *)

\* A step that leaves the registry alone leaves Created and Removed alone.
LEMMA SameRegistry ==
  ASSUME UNCHANGED registry
  PROVE  Created' = Created /\ Removed' = Removed
BY DEF registry, Created, Removed, Performed

\* Sending an RPC performs nothing yet.
LEMMA SendPerformsNothing ==
  ASSUME TypeOK, VerdictInv,
         NEW u \in Users, NEW r \in Requests, NEW o \in Registry!Ops,
         NEW id \in Registry!Ids, Send(u, r, o, id)
  PROVE  /\ op[r] = "none" /\ verdict[r] = "undecided"
         /\ op' = [op EXCEPT ![r] = o]
         /\ target' = [target EXCEPT ![r] = id]
         /\ UNCHANGED <<live, verdict, answer>>
         /\ o \in Registry!Creating => id = NilUUID
         /\ Created' = Created /\ Removed' = Removed
<1>1. op[r] = "none" /\ verdict[r] = "undecided"
  BY DEF Send, Registry!Invoke, VerdictInv
<1>2. op' = [op EXCEPT ![r] = o] /\ target' = [target EXCEPT ![r] = id]
  BY DEF Send, Registry!Invoke, TypeOK
<1>3. UNCHANGED <<live, verdict, answer>>
  BY DEF Send, Registry!Invoke
<1>4. o \in Registry!Creating => id = NilUUID
  BY <1>2 DEF Send, Registry!Invoke, TypeOK
<1>5. Created' = Created /\ Removed' = Removed
  BY <1>1, <1>2, <1>3 DEF Created, Removed, Performed, TypeOK
<1> QED BY <1>1, <1>2, <1>3, <1>4, <1>5

\* A step of the provider changes nothing of what the users wait for.
LEMMA SameWaits ==
  ASSUME WaitInv, UNCHANGED <<op, waiting, requests, outcome>>
  PROVE  WaitInv'
BY DEF WaitInv, Outstanding

-----------------------------------------------------------------------------
(* Sending an RPC.                                                         *)

\* What Send does to each conjunct, whoever sends it and however it waits.
LEMMA SendInv ==
  ASSUME ClientAssumption, CInv,
         NEW u \in Users, NEW r \in Requests, NEW o \in Registry!Ops,
         NEW id \in Created \cup {NilUUID}, Send(u, r, o, id),
         UNCHANGED <<handle, known>>,
         outcome' = IF Awaits(o) THEN outcome
                                 ELSE [outcome EXCEPT ![r] = "returned"],
         waiting' \in [Users -> Requests \cup {None}],
         requests' \in [Users -> SUBSET Requests],
         Outstanding(u)' \subseteq Outstanding(u) \cup {r},
         o = "hello" => r \notin Outstanding(u)',
         waiting'[u] \notin requests'[u],
         \A v \in Users \ {u} :
           waiting'[v] = waiting[v] /\ requests'[v] = requests[v]
  PROVE  CInv'
<1>0. id \in Registry!Ids
  BY DEF CInv, TypeOK, Created, Performed, Registry!Ids
<1>1. /\ op[r] = "none" /\ verdict[r] = "undecided"
      /\ op' = [op EXCEPT ![r] = o]
      /\ target' = [target EXCEPT ![r] = id]
      /\ UNCHANGED <<live, verdict, answer>>
      /\ o \in Registry!Creating => id = NilUUID
      /\ Created' = Created /\ Removed' = Removed
  BY <1>0, SendPerformsNothing DEF CInv
<1>2. gone' = IF id \in live THEN gone ELSE gone \cup {r}
  BY DEF Send
<1>3. TypeOK'
  <2>1. outcome' \in [Requests -> {"pending", "returned", "threw"}]
    BY DEF CInv, TypeOK
  <2> QED BY <1>0, <1>1, <1>2, <2>1 DEF CInv, TypeOK
<1>4. VerdictInv'
  <2>1. ASSUME NEW q \in Requests, q # r
        PROVE  /\ op'[q] = op[q] /\ target'[q] = target[q]
               /\ q \in gone' <=> q \in gone
    BY <1>1, <1>2, <2>1 DEF CInv, TypeOK
  <2>2. op'[r] = o /\ target'[r] = id /\ o # "none"
    BY <1>1 DEF CInv, TypeOK, Registry!Ops
  <2> QED BY <1>1, <2>1, <2>2 DEF CInv, VerdictInv
<1>5. IdInv'
  BY <1>1 DEF CInv, TypeOK, IdInv
<1>6. NameInv'
  <2>1. r \notin gone /\ (id \in live => id \in Created)
    BY <1>1 DEF CInv, VerdictInv, IdInv
  <2> QED BY <1>1, <1>2, <2>1 DEF CInv, TypeOK, NameInv
<1>7. OutcomeInv'
  <2>1. ASSUME NEW q \in Requests, q # r
        PROVE  op'[q] = op[q] /\ outcome'[q] = outcome[q]
    BY <1>1, <2>1 DEF CInv, TypeOK
  <2>2. outcome[r] = "pending"
    BY <1>1 DEF CInv, TypeOK, OutcomeInv, VerdictInv
  <2>3. /\ op'[r] = o
        /\ \/ outcome'[r] = "pending"
           \/ o = "hello" /\ outcome'[r] = "returned"
    <3>1. op'[r] = o
      BY <1>1 DEF CInv, TypeOK
    <3>2. CASE o = "hello"
      BY <3>1, <3>2 DEF CInv, TypeOK, Awaits
    <3>3. CASE o # "hello"
      BY <2>2, <3>1, <3>3 DEF Awaits
    <3> QED BY <3>2, <3>3
  <2> QED BY <1>1, <2>1, <2>3 DEF CInv, OutcomeInv
<1>8. WaitInv'
  <2>1. outcome[r] = "pending" /\ \A v \in Users : r \notin Outstanding(v)
    <3>1. outcome[r] = "pending"
      BY <1>1 DEF CInv, TypeOK, OutcomeInv, VerdictInv
    <3> QED BY <1>1, <3>1 DEF CInv, WaitInv
  <2>2. \A v \in Users \ {u} : Outstanding(v)' = Outstanding(v)
    BY DEF Outstanding
  <2>3. \A v \in Users : Outstanding(v) \subseteq Requests
    BY DEF CInv, TypeOK, Outstanding
  <2>4. ASSUME NEW v \in Users, NEW q \in Outstanding(v)'
        PROVE  op'[q] \notin {"none", "hello"} /\ outcome'[q] = "pending"
    <3>1. CASE q = r
      <4>1. o # "hello"
        BY <2>1, <2>2, <2>4, <3>1
      <4> QED BY <1>1, <2>1, <3>1, <4>1 DEF CInv, TypeOK, Registry!Ops, Awaits
    <3>2. CASE q # r
      BY <1>1, <2>2, <2>3, <2>4, <3>2 DEF CInv, TypeOK, WaitInv
    <3> QED BY <3>1, <3>2
  <2>5. \A v \in Users : waiting'[v] \notin requests'[v]
    BY DEF CInv, WaitInv
  <2>6. \A v, w \in Users :
          v # w => Outstanding(v)' \cap Outstanding(w)' = {}
    BY <2>1, <2>2 DEF CInv, WaitInv
  <2> QED BY <2>4, <2>5, <2>6 DEF WaitInv
<1> QED BY <1>3, <1>4, <1>5, <1>6, <1>7, <1>8 DEF CInv

\* Call and the actions made of it send an RPC on an id the user knows.
LEMMA CallInv ==
  ASSUME ClientAssumption, CInv,
         NEW u \in Users, NEW r \in Requests, NEW o \in Registry!Ops,
         NEW id \in Created \cup {NilUUID}, Call(u, r, o, id)
  PROVE  CInv'
<1>1. /\ Send(u, r, o, id)
      /\ UNCHANGED <<handle, requests, known>>
      /\ outcome' = IF Awaits(o) THEN outcome
                                 ELSE [outcome EXCEPT ![r] = "returned"]
  BY DEF Call
<1>2. waiting' \in [Users -> Requests \cup {None}]
  BY DEF Call, CInv, TypeOK
<1>3. requests' \in [Users -> SUBSET Requests]
  BY <1>1 DEF CInv, TypeOK
<1>4. /\ Outstanding(u)' \subseteq Outstanding(u) \cup {r}
      /\ o = "hello" => r \notin Outstanding(u)'
      /\ waiting'[u] \notin requests'[u]
      /\ \A v \in Users \ {u} :
           waiting'[v] = waiting[v] /\ requests'[v] = requests[v]
  <2>1. waiting[u] = None /\ op[r] = "none"
    BY <1>1 DEF Send, Registry!Invoke
  <2>2. r \notin requests[u] /\ None \notin requests[u]
    BY <2>1 DEF CInv, TypeOK, WaitInv, Outstanding, ClientAssumption
  <2>3. waiting' = IF Awaits(o) THEN [waiting EXCEPT ![u] = r] ELSE waiting
    BY DEF Call
  <2> QED
    BY <1>1, <2>1, <2>2, <2>3
       DEF CInv, TypeOK, Outstanding, Awaits, ClientAssumption
<1> QED BY <1>1, <1>2, <1>3, <1>4, SendInv

LEMMA KnownIdsAreCreated ==
  ASSUME CInv
  PROVE  /\ KnownIds \subseteq Created \cup {NilUUID}
         /\ \A u \in Users : handle[u] # None =>
              handle[u] \in Created \cup {NilUUID}
BY DEF CInv, NameInv, KnownIds

LEMMA CreateSequencerInv ==
  ASSUME ClientAssumption, CInv, NEW u \in Users, NEW r \in Requests,
         CreateSequencer(u, r)
  PROVE  CInv'
<1>1. PICK o \in Registry!Creating : Call(u, r, o, NilUUID)
  BY DEF CreateSequencer
<1> QED BY <1>1, CallInv DEF Registry!Ops

LEMMA RemoveSequencerInv ==
  ASSUME ClientAssumption, CInv, NEW u \in Users, NEW r \in Requests,
         RemoveSequencer(u, r)
  PROVE  CInv'
<1>1. PICK o \in Registry!Removing, id \in KnownIds : Call(u, r, o, id)
  BY DEF RemoveSequencer
<1> QED BY <1>1, KnownIdsAreCreated, CallInv DEF Registry!Ops

LEMMA CheckSequencerInv ==
  ASSUME ClientAssumption, CInv, NEW u \in Users, NEW r \in Requests,
         CheckSequencer(u, r)
  PROVE  CInv'
<1>1. PICK id \in KnownIds : Call(u, r, "check", id)
  BY DEF CheckSequencer
<1> QED BY <1>1, KnownIdsAreCreated, CallInv DEF Registry!Ops

LEMMA UseHandleInv ==
  ASSUME ClientAssumption, CInv, NEW u \in Users, NEW r \in Requests,
         UseHandle(u, r)
  PROVE  CInv'
<1>1. PICK o \in {"hello", "sum"} : Call(u, r, o, handle[u])
  BY DEF UseHandle
<1>2. handle[u] # None
  BY DEF UseHandle
<1> QED BY <1>1, <1>2, KnownIdsAreCreated, CallInv DEF Registry!Ops

LEMMA UseHandleAsyncInv ==
  ASSUME ClientAssumption, CInv, NEW u \in Users, NEW r \in Requests,
         UseHandleAsync(u, r)
  PROVE  CInv'
<1>1. Send(u, r, "sum", handle[u]) /\ handle[u] # None
  BY DEF UseHandleAsync
<1>2. UNCHANGED <<handle, known>> /\ Awaits("sum") /\ outcome' = outcome
  BY DEF UseHandleAsync, Awaits
<1>3. waiting' \in [Users -> Requests \cup {None}]
  BY DEF UseHandleAsync, CInv, TypeOK
<1>4. requests' \in [Users -> SUBSET Requests]
  BY DEF UseHandleAsync, CInv, TypeOK
<1>5. /\ Outstanding(u)' \subseteq Outstanding(u) \cup {r}
      /\ waiting'[u] \notin requests'[u]
      /\ \A v \in Users \ {u} :
           waiting'[v] = waiting[v] /\ requests'[v] = requests[v]
  <2>1. /\ waiting[u] = None /\ waiting' = waiting
        /\ requests' = [requests EXCEPT ![u] = @ \cup {r}]
    BY DEF UseHandleAsync, Send
  <2> QED
    BY <2>1 DEF CInv, TypeOK, Outstanding, WaitInv, ClientAssumption
<1> QED
  BY <1>1, <1>2, <1>3, <1>4, <1>5, KnownIdsAreCreated, SendInv
     DEF Registry!Ops

-----------------------------------------------------------------------------
(* What a user does without the provider.                                  *)

LEMMA WaitForInv ==
  ASSUME ClientAssumption, CInv,
         NEW u \in Users, NEW r \in Requests, WaitFor(u, r)
  PROVE  CInv'
<1>1. UNCHANGED <<live, op, target, verdict, answer>>
      /\ UNCHANGED <<handle, outcome, known, gone>>
  BY DEF WaitFor, registry
<1>2. Created' = Created /\ Removed' = Removed
  BY <1>1, SameRegistry DEF registry
<1>3. TypeOK'
  BY <1>1 DEF WaitFor, CInv, TypeOK
<1>4. VerdictInv' /\ IdInv' /\ NameInv' /\ OutcomeInv'
  BY <1>1, <1>2 DEF CInv, VerdictInv, IdInv, NameInv, OutcomeInv
<1>5. WaitInv'
  <2>1. /\ waiting[u] = None /\ r \in requests[u]
        /\ requests' = [requests EXCEPT ![u] = @ \ {r}]
        /\ waiting' = [waiting EXCEPT ![u] = r]
    BY DEF WaitFor
  <2>2. \A v \in Users : Outstanding(v)' = Outstanding(v)
    BY <2>1 DEF CInv, TypeOK, Outstanding, ClientAssumption
  <2>3. \A v \in Users : waiting'[v] \notin requests'[v]
    BY <2>1 DEF CInv, TypeOK, WaitInv
  <2> QED BY <1>1, <2>2, <2>3 DEF CInv, WaitInv
<1> QED BY <1>3, <1>4, <1>5 DEF CInv

LEMMA MakeUncheckedInv ==
  ASSUME CInv, NEW u \in Users, MakeUnchecked(u)
  PROVE  CInv'
<1>1. UNCHANGED <<live, op, target, verdict, answer>>
      /\ UNCHANGED <<waiting, requests, outcome, known, gone>>
  BY DEF MakeUnchecked, registry
<1>2. Created' = Created /\ Removed' = Removed
  BY <1>1, SameRegistry DEF registry
<1>3. PICK id \in KnownIds : handle' = [handle EXCEPT ![u] = id]
  BY DEF MakeUnchecked
<1>4. TypeOK'
  BY <1>1, <1>3 DEF CInv, TypeOK, KnownIds, Registry!Ids
<1>5. NameInv'
  BY <1>1, <1>2, <1>3, KnownIdsAreCreated DEF CInv, TypeOK, NameInv
<1>6. VerdictInv' /\ IdInv' /\ OutcomeInv' /\ WaitInv'
  BY <1>1, <1>2, SameWaits DEF CInv, VerdictInv, IdInv, OutcomeInv
<1> QED BY <1>4, <1>5, <1>6 DEF CInv

\* A response only returns what was performed, and only throws what was not
\* or what the backend reported as failed.
LEMMA ReturnInv ==
  ASSUME ClientAssumption, CInv, NEW u \in Users, Return(u)
  PROVE  CInv'
<1> DEFINE r == waiting[u]
<1>1. r \in Requests /\ answer[r] # "undecided"
  BY DEF Return, CInv, TypeOK
<1>2. PICK success \in Reports(r) :
        /\ outcome' = [outcome EXCEPT ![r] =
                         IF success THEN "returned" ELSE "threw"]
        /\ handle' = IF success /\ op[r] = "check"
                     THEN MadeHandle(u) ELSE handle
        /\ known' = IF success /\ op[r] \in Registry!Creating
                    THEN known \cup {target[r]} ELSE known
  BY DEF Return
<1>3. /\ UNCHANGED <<live, op, target, verdict, answer, requests, gone>>
      /\ waiting' = [waiting EXCEPT ![u] = None]
  BY DEF Return, registry
<1>4. Created' = Created /\ Removed' = Removed
  BY <1>3, SameRegistry DEF registry
<1>5. /\ success \in BOOLEAN
      /\ success => answer[r] = "performed" /\ verdict[r] = "performed"
      /\ ~success => \/ answer[r] # "performed"
                     \/ op[r] \in {"destroy", "sum"} /\ FALSE \in BackendResults
  <2>1. success \in BOOLEAN /\ (success => answer[r] = "performed")
    BY <1>2 DEF Reports, ClientAssumption
  <2>2. answer[r] = "performed" => verdict[r] = "performed"
    BY <1>1 DEF CInv, VerdictInv
  <2>3. ~success => \/ answer[r] # "performed"
                    \/ op[r] \in {"destroy", "sum"} /\ FALSE \in BackendResults
    BY <1>2 DEF Reports
  <2> QED BY <2>1, <2>2, <2>3
<1>6. success /\ op[r] \in Registry!Creating => target[r] \in Created
  BY <1>1, <1>5 DEF Created, Performed
<1>7. success /\ op[r] = "check" => target[r] \in Created \cup {NilUUID}
  BY <1>1 DEF CInv, NameInv
<1>8. TypeOK'
  <2>1. outcome' \in [Requests -> {"pending", "returned", "threw"}]
    BY <1>1, <1>2 DEF CInv, TypeOK
  <2>2. handle' \in [Users -> Registry!Ids \cup {None}]
    BY <1>1, <1>2 DEF CInv, TypeOK, MadeHandle
  <2>3. known' \subseteq Registry!Ids
    BY <1>1, <1>2 DEF CInv, TypeOK
  <2> QED BY <1>3, <2>1, <2>2, <2>3 DEF CInv, TypeOK
<1>9. NameInv'
  <2>1. known' \subseteq Created'
    BY <1>2, <1>4, <1>6 DEF CInv, NameInv
  <2>2. \A v \in Users : handle'[v] \in Created' \cup {NilUUID, None}
    BY <1>2, <1>4, <1>7 DEF CInv, TypeOK, NameInv, MadeHandle
  <2> QED BY <1>3, <1>4, <2>1, <2>2 DEF CInv, NameInv
<1>10. OutcomeInv'
  BY <1>1, <1>2, <1>3, <1>5 DEF CInv, TypeOK, OutcomeInv
<1>11. VerdictInv' /\ IdInv'
  BY <1>3, <1>4 DEF CInv, VerdictInv, IdInv
<1>12. WaitInv'
  <2>1. \A v \in Users \ {u} : Outstanding(v)' = Outstanding(v)
    BY <1>3 DEF CInv, TypeOK, Outstanding
  <2>2. Outstanding(u)' = Outstanding(u) \ {r}
    BY <1>1, <1>3 DEF CInv, TypeOK, WaitInv, Outstanding, ClientAssumption
  <2>3. r \in Outstanding(u)
    BY <1>1 DEF Outstanding
  <2>4. \A v \in Users : r \notin Outstanding(v)'
    BY <2>1, <2>2, <2>3 DEF CInv, WaitInv
  <2>5. \A q \in Requests \ {r} : outcome'[q] = outcome[q]
    BY <1>2 DEF CInv, TypeOK
  <2>6. \A v \in Users : Outstanding(v)' \subseteq Requests
    BY <1>3 DEF CInv, TypeOK, Outstanding, ClientAssumption
  <2>7. \A v \in Users : waiting'[v] \notin requests'[v]
    BY <1>3 DEF CInv, TypeOK, WaitInv, ClientAssumption
  <2>8. \A v \in Users : Outstanding(v)' \subseteq Outstanding(v)
    BY <2>1, <2>2
  <2> QED BY <1>3, <2>4, <2>5, <2>6, <2>7, <2>8 DEF CInv, WaitInv
<1> QED BY <1>8, <1>9, <1>10, <1>11, <1>12 DEF CInv

-----------------------------------------------------------------------------
(* The provider's steps.                                                   *)

\* A step that decides a request without performing it.
LEMMA DecideNothingInv ==
  ASSUME CInv, NEW r \in Requests, NEW v \in {"refused", "not_found"},
         Registry!Decide(r, v), UNCHANGED <<live, target>>, UNCHANGED users,
         v = "refused" => op[r] \notin Registry!Looking,
         v = "not_found" => /\ op[r] \in OnSequencer
                            /\ target[r] \notin live
  PROVE  CInv'
<1>1. /\ op[r] # "none" /\ verdict[r] = "undecided"
      /\ verdict' = [verdict EXCEPT ![r] = v]
      /\ UNCHANGED <<live, target, op, answer>>
      /\ UNCHANGED <<handle, waiting, requests, outcome, known, gone>>
  BY DEF Registry!Decide, users
<1>2. Created' = Created /\ Removed' = Removed
  BY <1>1 DEF CInv, TypeOK, Created, Removed, Performed
<1>3. TypeOK'
  BY <1>1 DEF CInv, TypeOK, Registry!Verdicts
<1>4. VerdictInv'
  BY <1>1 DEF CInv, TypeOK, VerdictInv
<1>5. IdInv'
  BY <1>1, <1>2 DEF CInv, TypeOK, IdInv
<1>6. NameInv' /\ OutcomeInv' /\ WaitInv'
  BY <1>1, <1>2, SameWaits DEF CInv, TypeOK, NameInv, OutcomeInv
<1> QED BY <1>3, <1>4, <1>5, <1>6 DEF CInv

LEMMA FindInv ==
  ASSUME CInv, NEW r \in Requests, Registry!Find(r), UNCHANGED users
  PROVE  CInv'
<1>1. /\ op[r] \in Registry!Looking /\ target[r] \in live
      /\ verdict[r] = "undecided"
      /\ verdict' = [verdict EXCEPT ![r] = "performed"]
      /\ UNCHANGED <<live, target, op, answer>>
      /\ UNCHANGED <<handle, waiting, requests, outcome, known, gone>>
  BY DEF Registry!Find, Registry!Decide, users
<1>2. Created' = Created /\ Removed' = Removed
  BY <1>1 DEF CInv, TypeOK, Created, Removed, Performed
<1>3. TypeOK'
  BY <1>1 DEF CInv, TypeOK, Registry!Verdicts
<1>4. VerdictInv'
  BY <1>1 DEF CInv, TypeOK, VerdictInv
<1>5. IdInv'
  BY <1>1, <1>2 DEF CInv, TypeOK, IdInv
<1>6. NameInv' /\ OutcomeInv' /\ WaitInv'
  BY <1>1, <1>2, SameWaits DEF CInv, TypeOK, NameInv, OutcomeInv
<1> QED BY <1>3, <1>4, <1>5, <1>6 DEF CInv

\* A creation adds an id that was never given, so that no id anyone named
\* while it was not open is opened.
LEMMA CreateInv ==
  ASSUME ClientAssumption, CInv, NEW r \in Requests,
         Registry!Create(r), UNCHANGED users
  PROVE  CInv'
<1>1. /\ op[r] \in Registry!Creating /\ verdict[r] = "undecided"
      /\ verdict' = [verdict EXCEPT ![r] = "performed"]
      /\ UNCHANGED <<op, answer>>
      /\ UNCHANGED <<handle, waiting, requests, outcome, known, gone>>
  BY DEF Registry!Create, Registry!Decide, users
<1>2. PICK id \in UUIDs \ Registry!Given :
        live' = live \cup {id} /\ target' = [target EXCEPT ![r] = id]
  BY DEF Registry!Create
<1>3. id # NilUUID /\ id \notin Created
  BY <1>2 DEF ClientAssumption, Registry!Given, Created, Performed
<1>4. Created' = Created \cup {id} /\ Removed' = Removed
  BY <1>1, <1>2 DEF CInv, TypeOK, Created, Removed, Performed
<1>5. \A q \in Requests : target[q] = id => op[q] \notin Registry!Creating
  BY <1>2 DEF Registry!Given
<1>6. \A q \in Requests : op[q] \in OnSequencer => target[q] # id
  BY <1>3 DEF CInv, NameInv
<1>7. TypeOK'
  BY <1>1, <1>2 DEF CInv, TypeOK, Registry!Ids, Registry!Verdicts
<1>8. VerdictInv'
  BY <1>1, <1>2, <1>3, <1>6 DEF CInv, TypeOK, VerdictInv, Registry!Ops
<1>9. IdInv'
  <2>1. live' = Created' \ Removed' /\ Removed' \subseteq Created'
    BY <1>2, <1>3, <1>4 DEF CInv, IdInv
  <2>2. NilUUID \notin Created'
    BY <1>3, <1>4 DEF CInv, IdInv
  <2>3. ASSUME NEW ops \in {Registry!Creating, Registry!Removing},
               NEW p \in Requests, NEW q \in Requests,
               op'[p] \in ops, verdict'[p] = "performed",
               op'[q] \in ops, verdict'[q] = "performed",
               target'[p] = target'[q]
        PROVE  p = q
    BY <1>1, <1>2, <1>5, <2>3 DEF CInv, TypeOK, IdInv
  <2> QED BY <2>1, <2>2, <2>3 DEF IdInv
<1>10. NameInv'
  BY <1>1, <1>2, <1>4, <1>6 DEF CInv, TypeOK, NameInv
<1>11. OutcomeInv' /\ WaitInv'
  BY <1>1, SameWaits DEF CInv, OutcomeInv
<1> QED BY <1>7, <1>8, <1>9, <1>10, <1>11 DEF CInv

LEMMA RemoveInv ==
  ASSUME CInv, NEW r \in Requests, Registry!Remove(r), UNCHANGED users
  PROVE  CInv'
<1>1. /\ op[r] \in Registry!Removing /\ target[r] \in live
      /\ verdict[r] = "undecided"
      /\ verdict' = [verdict EXCEPT ![r] = "performed"]
      /\ live' = live \ {target[r]}
      /\ UNCHANGED <<target, op, answer>>
      /\ UNCHANGED <<handle, waiting, requests, outcome, known, gone>>
  BY DEF Registry!Remove, Registry!Decide, users
<1>2. Created' = Created /\ Removed' = Removed \cup {target[r]}
  BY <1>1 DEF CInv, TypeOK, Created, Removed, Performed
<1>3. target[r] \in Created /\ target[r] \notin Removed
  BY <1>1 DEF CInv, IdInv
<1>4. TypeOK'
  BY <1>1 DEF CInv, TypeOK, Registry!Verdicts
<1>5. VerdictInv'
  BY <1>1 DEF CInv, TypeOK, VerdictInv
<1>6. IdInv'
  <2>1. live' = Created' \ Removed' /\ Removed' \subseteq Created'
        /\ NilUUID \notin Created'
    BY <1>1, <1>2, <1>3 DEF CInv, IdInv
  <2>2. \A q \in Requests :
          op[q] \in Registry!Removing /\ verdict[q] = "performed"
          => target[q] # target[r]
    BY <1>3 DEF Removed, Performed
  <2>3. ASSUME NEW ops \in {Registry!Creating, Registry!Removing},
               NEW p \in Requests, NEW q \in Requests,
               op'[p] \in ops, verdict'[p] = "performed",
               op'[q] \in ops, verdict'[q] = "performed",
               target'[p] = target'[q]
        PROVE  p = q
    BY <1>1, <2>2, <2>3 DEF CInv, TypeOK, IdInv
  <2> QED BY <2>1, <2>3 DEF IdInv
<1>7. NameInv' /\ OutcomeInv' /\ WaitInv'
  BY <1>1, <1>2, SameWaits DEF CInv, TypeOK, NameInv, OutcomeInv
<1> QED BY <1>4, <1>5, <1>6, <1>7 DEF CInv

LEMMA AnswerInv ==
  ASSUME CInv, NEW r \in Requests, Registry!Answer(r), UNCHANGED users
  PROVE  CInv'
<1>1. /\ answer[r] = "undecided"
      /\ answer' = [answer EXCEPT ![r] = verdict[r]]
      /\ UNCHANGED <<live, op, target, verdict>>
      /\ UNCHANGED <<handle, waiting, requests, outcome, known, gone>>
  BY DEF Registry!Answer, users
<1>2. Created' = Created /\ Removed' = Removed
  BY <1>1 DEF Created, Removed, Performed
<1>3. TypeOK'
  BY <1>1 DEF CInv, TypeOK
<1>4. VerdictInv' /\ IdInv' /\ NameInv'
  BY <1>1, <1>2 DEF CInv, TypeOK, VerdictInv, IdInv, NameInv
<1>5. OutcomeInv' /\ WaitInv'
  BY <1>1, SameWaits DEF CInv, TypeOK, OutcomeInv
<1> QED BY <1>3, <1>4, <1>5 DEF CInv

LEMMA ServeInv ==
  ASSUME ClientAssumption, CInv, NEW r \in Requests, Serve(r)
  PROVE  CInv'
<1>0. UNCHANGED users
  BY DEF Serve
<1>1. CASE Registry!Refuse(r)
  BY <1>0, <1>1, DecideNothingInv DEF Registry!Refuse
<1>2. CASE Registry!Miss(r)
  BY <1>0, <1>2, DecideNothingInv DEF Registry!Miss
<1>3. CASE Registry!Create(r)
  BY <1>0, <1>3, CreateInv
<1>4. CASE Registry!Remove(r)
  BY <1>0, <1>4, RemoveInv
<1>5. CASE Registry!Find(r)
  BY <1>0, <1>5, FindInv
<1>6. CASE Registry!Answer(r)
  BY <1>0, <1>6, AnswerInv
<1> QED BY <1>1, <1>2, <1>3, <1>4, <1>5, <1>6 DEF Serve

-----------------------------------------------------------------------------
(* The invariant, and what follows from it.                                *)

LEMMA InitInv == ASSUME ClientAssumption, Init PROVE CInv
<1>1. Created = {} /\ Removed = {}
  BY DEF Init, Registry!Init, Created, Removed, Performed
<1>2. TypeOK
  BY DEF Init, Registry!Init, TypeOK, Registry!Ids, Registry!Verdicts
<1>3. VerdictInv /\ IdInv
  BY <1>1 DEF Init, Registry!Init, VerdictInv, IdInv
<1>4. NameInv /\ OutcomeInv /\ WaitInv
  BY <1>1
     DEF Init, Registry!Init, NameInv, OutcomeInv, WaitInv, Outstanding,
         ClientAssumption
<1> QED BY <1>2, <1>3, <1>4 DEF CInv

LEMMA StutterInv == ASSUME CInv, UNCHANGED vars PROVE CInv'
<1>1. Created' = Created /\ Removed' = Removed
  BY SameRegistry DEF vars
<1>2. WaitInv'
  BY SameWaits DEF CInv, vars, registry, users
<1>3. TypeOK' /\ VerdictInv' /\ IdInv' /\ NameInv' /\ OutcomeInv'
  BY <1>1
     DEF vars, registry, users, CInv, TypeOK, VerdictInv, IdInv, NameInv,
         OutcomeInv
<1> QED BY <1>2, <1>3 DEF CInv

LEMMA NextInv == ASSUME ClientAssumption, CInv, [Next]_vars PROVE CInv'
<1>1. CASE UNCHANGED vars
  BY <1>1, StutterInv
<1>2. ASSUME NEW u \in Users, NEW r \in Requests,
             \/ CreateSequencer(u, r) \/ RemoveSequencer(u, r)
             \/ CheckSequencer(u, r) \/ UseHandle(u, r)
             \/ UseHandleAsync(u, r) \/ WaitFor(u, r)
      PROVE  CInv'
  BY <1>2, CreateSequencerInv, RemoveSequencerInv, CheckSequencerInv,
     UseHandleInv, UseHandleAsyncInv, WaitForInv
<1>3. ASSUME NEW u \in Users, MakeUnchecked(u) \/ Return(u) PROVE CInv'
  BY <1>3, MakeUncheckedInv, ReturnInv
<1>4. ASSUME NEW r \in Requests, Serve(r) PROVE CInv'
  BY <1>4, ServeInv
<1>5. CASE Over
  BY <1>5, StutterInv DEF Over
<1> QED BY <1>1, <1>2, <1>3, <1>4, <1>5 DEF Next

\* CInv holds in every state.
THEOREM ClientInvariant == Spec => []CInv
BY ClientAssumption, InitInv, NextInv, PTL DEF Spec

\* Users, handles and the registry keep their types.
THEOREM ClientTypes == Spec => []TypeOK
BY ClientInvariant, PTL DEF CInv

\* An operation on what was not open when it began takes no effect, and its
\* caller is told unless it is a hello.
THEOREM StaleUseAlwaysFails == Spec => []StaleUseFails
<1>1. CInv => StaleUseFails
  <2> SUFFICES ASSUME CInv, NEW r \in gone, op[r] \in OnSequencer
               PROVE  /\ verdict[r] # "performed"
                      /\ outcome[r] = "returned" => op[r] = "hello"
    BY DEF StaleUseFails
  <2>1. r \in Requests
    BY DEF CInv, TypeOK
  <2>2. verdict[r] # "performed"
    BY <2>1 DEF CInv, NameInv
  <2> QED BY <2>1, <2>2 DEF CInv, OutcomeInv, VerdictInv
<1> QED BY <1>1, ClientInvariant, PTL

\* An exception of a check, or of a sum whose backend cannot fail, means
\* that the sequencer is gone for good.
THEOREM ThrowAlwaysMeansGone == Spec => []ThrowMeansGone
<1>1. CInv => ThrowMeansGone
  <2> SUFFICES ASSUME CInv, NEW r \in Requests, outcome[r] = "threw",
                      \/ op[r] = "check"
                      \/ op[r] = "sum" /\ FALSE \notin BackendResults
               PROVE  target[r] \notin live
    BY DEF ThrowMeansGone
  <2>1. answer[r] = verdict[r] /\ answer[r] \notin {"undecided", "performed"}
    BY DEF CInv, OutcomeInv, VerdictInv
  <2>2. verdict[r] = "not_found"
    BY <2>1 DEF CInv, VerdictInv, TypeOK, Registry!Verdicts
  <2> QED BY <2>2 DEF CInv, VerdictInv
<1> QED BY <1>1, ClientInvariant, PTL

\* Of all users that close or destroy a sequencer, one at most returns.
THEOREM OneRemovalEver == Spec => []OneRemovalReturns
<1>1. CInv => OneRemovalReturns
  <2> SUFFICES ASSUME CInv PROVE OneRemovalReturns
    OBVIOUS
  <2>1. \A r \in Requests :
          outcome[r] = "returned" /\ op[r] # "hello" =>
            verdict[r] = "performed"
    BY DEF CInv, OutcomeInv, VerdictInv
  <2> QED BY <2>1 DEF CInv, IdInv, OneRemovalReturns
<1> QED BY <1>1, ClientInvariant, PTL

\* What is lost between its sending and its handling is lost to a removal.
THEOREM NothingElseLost == Spec => []LostOnlyToRemoval
<1>1. CInv => LostOnlyToRemoval
  <2> SUFFICES ASSUME CInv, NEW r \in Requests, op[r] \in OnSequencer,
                      verdict[r] = "not_found", r \notin gone
               PROVE  \E q \in Requests :
                        op[q] \in Registry!Removing /\ target[q] = target[r]
                          /\ verdict[q] = "performed"
    BY DEF LostOnlyToRemoval
  <2>1. target[r] \in Created /\ target[r] \notin live
    BY DEF CInv, NameInv, VerdictInv
  <2>2. target[r] \in Removed
    BY <2>1 DEF CInv, IdInv
  <2> QED BY <2>2 DEF Removed, Performed
<1> QED BY <1>1, ClientInvariant, PTL

\* A created sequencer is open until it is removed, and has its own id.
THEOREM CreatedAlwaysUsable == Spec => []CreatedIsUsable
<1>1. CInv => CreatedIsUsable
  <2> SUFFICES ASSUME CInv PROVE CreatedIsUsable
    OBVIOUS
  <2>1. known \ live \subseteq Removed
    BY DEF CInv, NameInv, IdInv
  <2>2. \A id \in known \ live : \E r \in Requests :
          op[r] \in Registry!Removing /\ target[r] = id
            /\ verdict[r] = "performed"
    BY <2>1 DEF Removed, Performed
  <2>3. \A r \in Requests :
          outcome[r] = "returned" /\ op[r] # "hello" =>
            verdict[r] = "performed"
    BY DEF CInv, OutcomeInv, VerdictInv
  <2> QED BY <2>2, <2>3 DEF CInv, IdInv, CreatedIsUsable
<1> QED BY <1>1, ClientInvariant, PTL

\* A user blocks only in an RPC that is answered, for an outcome that nobody
\* has taken or is going to take.
THEOREM NobodyWaitsInVain == Spec => []WaitsForAnswer
<1>1. CInv => WaitsForAnswer
  <2> SUFFICES ASSUME CInv, NEW u \in Users, waiting[u] # None
               PROVE  /\ op[waiting[u]] # "none" /\ Responds(waiting[u])
                      /\ outcome[waiting[u]] = "pending"
                      /\ \A v \in Users :
                           /\ waiting[u] \notin requests[v]
                           /\ waiting[v] = waiting[u] => v = u
    BY DEF WaitsForAnswer
  <2>1. waiting[u] \in Requests /\ waiting[u] \in Outstanding(u)
    BY DEF CInv, TypeOK, Outstanding
  <2>2. \A v \in Users : v # u => waiting[u] \notin Outstanding(v)
    BY <2>1 DEF CInv, WaitInv
  <2> QED BY <2>1, <2>2 DEF CInv, WaitInv, Responds, Outstanding
<1> QED BY <1>1, ClientInvariant, PTL

\* Only a user that waits for a call is told how it ended, but for a hello,
\* which has returned when it is sent.
LEMMA OthersKeepOutcomes ==
  ASSUME CInv, [Next]_vars, ~\E u \in Users : Return(u),
         NEW q \in Requests, outcome[q] # "pending"
  PROVE  outcome'[q] = outcome[q]
<1>1. ASSUME NEW u \in Users, NEW r \in Requests,
             \/ CreateSequencer(u, r) \/ RemoveSequencer(u, r)
             \/ CheckSequencer(u, r) \/ UseHandle(u, r)
      PROVE  outcome'[q] = outcome[q]
  <2>1. PICK o, id : Call(u, r, o, id)
    BY <1>1
       DEF CreateSequencer, RemoveSequencer, CheckSequencer, UseHandle
  <2>2. op[r] = "none"
    BY <2>1 DEF Call, Send, Registry!Invoke
  <2>3. q # r
    BY <2>2 DEF CInv, OutcomeInv, VerdictInv, TypeOK
  <2> QED BY <2>1, <2>3 DEF Call, CInv, TypeOK
<1>2. ASSUME NEW u \in Users, NEW r \in Requests,
             UseHandleAsync(u, r) \/ WaitFor(u, r)
      PROVE  UNCHANGED outcome
  BY <1>2 DEF UseHandleAsync, WaitFor
<1>3. ASSUME NEW u \in Users, MakeUnchecked(u) PROVE UNCHANGED outcome
  BY <1>3 DEF MakeUnchecked
<1>4. ASSUME NEW r \in Requests, Serve(r) PROVE UNCHANGED outcome
  BY <1>4 DEF Serve, users
<1>5. CASE Over \/ UNCHANGED vars
  BY <1>5 DEF Over, vars, users
<1> QED BY <1>1, <1>2, <1>3, <1>4, <1>5 DEF Next

\* A call returns or throws once.
THEOREM OutcomesStay == Spec => OutcomesAreFinal
<1>1. ASSUME CInv, [Next]_vars, NEW r \in Requests, outcome[r] # "pending"
      PROVE  outcome'[r] = outcome[r]
  <2>1. ASSUME NEW u \in Users, Return(u) PROVE outcome'[r] = outcome[r]
    <3>1. waiting[u] # None /\ waiting[u] # r
      BY <1>1, <2>1 DEF Return, CInv, TypeOK, WaitInv, Outstanding
    <3> QED BY <1>1, <2>1, <3>1 DEF Return, CInv, TypeOK
  <2>2. CASE ~\E u \in Users : Return(u)
    BY <1>1, <2>2, OthersKeepOutcomes
  <2> QED BY <2>1, <2>2
<1>2. CInv /\ [Next]_vars =>
        [\A r \in Requests :
           outcome[r] # "pending" => outcome'[r] = outcome[r]]_vars
  BY <1>1
<1> QED BY <1>2, ClientInvariant, PTL DEF Spec, OutcomesAreFinal
=============================================================================
