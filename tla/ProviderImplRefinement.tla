------------------------ MODULE ProviderImplRefinement ------------------------
(***************************************************************************)
(* ProviderImpl implements SequencerRegistry: every step of a handler is,  *)
(* under the refinement mapping, the step of the registry its comment      *)
(* names, or no step.                                                      *)
(***************************************************************************)
EXTENDS ProviderImplProofs

bars == <<liveBar, opBar, targetBar, verdictBar, answerBar>>

\* An empty provider is an empty registry.
LEMMA InitRefines == Init => Registry!Init
  BY DEF Init, Registry!Init, liveBar, opBar, targetBar, verdictBar,
         answerBar, Decided, VerdictOf, Result, Refusals, IsCreate, Creating

\* An RPC that comes in is invoked.
LEMMA ReceiveRefines ==
  ASSUME HandlerInv, NEW r \in Requests, Receive(r)
  PROVE  Registry!Invoke(r)
<1>. USE ProviderAssumption
        DEF HandlerInv, TypeOK, ControlInv, ResultInv, Undecided, Result
<1>1. PICK o \in Ops, t \in Tokens, id \in Ids :
        Accept(r, o, t, id) /\ (o \in Creating \/ o \in Removing \cup Looking)
          /\ (Goto(r, "token") \/ Goto(r, "lock"))
  BY DEF Receive, ReceiveCreate, ReceiveRemove, ReceiveLookup, FreshIds,
         KnownIds, Ids, Ops, Results
<1>2. opBar[r] = "none" /\ opBar' = [opBar EXCEPT ![r] = o]
  BY <1>1 DEF opBar, Accept
<1>3. /\ o \in Creating => targetBar' = [targetBar EXCEPT ![r] = NilUUID]
      /\ o \notin Creating => targetBar' = [targetBar EXCEPT ![r] = id]
  <2>1. /\ result' = result /\ result[r].value = NilUUID
        /\ sequencer_id' = [sequencer_id EXCEPT ![r] = id]
        /\ \A q \in Requests :
             IsCreate(q)' = IF q = r THEN o \in Creating ELSE IsCreate(q)
    BY <1>1 DEF Accept, IsCreate
  <2>2. CASE o \in Creating
    BY <2>1, <2>2 DEF targetBar
  <2>3. CASE o \notin Creating
    BY <2>1, <2>3 DEF targetBar
  <2>. QED
    BY <2>2, <2>3
<1>4. UNCHANGED <<liveBar, verdictBar, answerBar>>
  BY <1>1
     DEF liveBar, verdictBar, answerBar, Decided, Accept, Goto, registryVars
<1>5. targetBar' \in {[targetBar EXCEPT ![r] = i] : i \in Registry!Ids}
  BY <1>1, <1>3 DEF Registry!Ids, Ids
<1>6. opBar'[r] = o /\ (o \in Registry!Creating => targetBar'[r] = NilUUID)
  BY <1>2, <1>3 DEF opBar, targetBar, Registry!Creating, Creating
<1>7. o \in Registry!Ops
  BY DEF Ops, Creating, Removing, Looking, Registry!Ops, Registry!Creating,
         Registry!Removing, Registry!Looking
<1>. QED
  BY <1>2, <1>4, <1>5, <1>6, <1>7 DEF Registry!Invoke

\* The labels a handler passes before its request takes effect, or after it
\* did: nothing of the registry moves.
LEMMA InternalRefines ==
  ASSUME HandlerInv, NEW r \in Requests,
         \/ CheckTokenSize(r) \/ Build(r) \/ Lock(r) \/ FindToRemove(r)
         \/ Destroy(r) \/ CallSum(r) \/ CallHello(r) \/ Unlock(r) \/ Return(r)
  PROVE  UNCHANGED bars
<1>. USE DEF HandlerInv, TypeOK, ControlInv, ResultInv, Undecided, Result, Goto,
             tokenVars, registryVars, localVars
<1>1. UNCHANGED <<liveBar, opBar, answerBar>>
  BY DEF CheckTokenSize, Build, Lock, FindToRemove, Destroy, CallSum,
         CallHello, Unlock, Return, liveBar, opBar, answerBar
<1>2. UNCHANGED targetBar
  <2>1. CASE Destroy(r) \/ CallSum(r)
    BY <2>1
       DEF Destroy, CallSum, SetResult, Reported, targetBar, IsCreate,
           IsRemove, Creating, Removing
  <2>2. CASE ~(Destroy(r) \/ CallSum(r))
    BY <2>2
       DEF CheckTokenSize, Build, Lock, FindToRemove, CallHello, Unlock,
           Return, targetBar, IsCreate
  <2>. QED
    BY <2>1, <2>2
<1>3. UNCHANGED verdictBar
  <2>1. CASE CheckTokenSize(r) \/ Build(r) \/ Lock(r) \/ FindToRemove(r)
    BY <2>1
       DEF CheckTokenSize, AfterToken, Build, Lock, FindToRemove, verdictBar,
           Decided
  <2>2. CASE Destroy(r)
    BY <2>2 DEF Destroy, SetResult, Reported, verdictBar, Decided
  <2>3. CASE CallSum(r)
    BY <2>3
       DEF CallSum, SetResult, Reported, verdictBar, Decided, VerdictOf,
           Refusals
  <2>4. CASE CallHello(r) \/ Unlock(r) \/ Return(r)
    BY <2>4 DEF CallHello, Unlock, Return, verdictBar, Decided
  <2>. QED
    BY <2>1, <2>2, <2>3, <2>4
<1>. QED
  BY <1>1, <1>2, <1>3 DEF bars

\* The comparison of tokens lets a handler pass, or refuses its request.
LEMMA CompareTokenRefines ==
  ASSUME HandlerInv, NEW r \in Requests, CompareToken(r)
  PROVE  Registry!Refuse(r) \/ UNCHANGED bars
<1>. USE DEF HandlerInv, TypeOK, ControlInv, ResultInv, Undecided, Result, Goto,
             tokenVars, registryVars, localVars, CompareToken
<1>1. UNCHANGED <<liveBar, opBar, answerBar, targetBar>>
  BY DEF SetResult, liveBar, opBar, answerBar, targetBar, IsCreate
<1>2. opBar[r] \in Creating \cup Removing /\ verdictBar[r] = "undecided"
  BY DEF opBar, verdictBar, Decided, IsCreate, IsRemove
<1>3. CASE Goto(r, AfterToken(r)) /\ UNCHANGED result
  <2>1. UNCHANGED verdictBar
    BY <1>3 DEF verdictBar, Decided, AfterToken
  <2>. QED
    BY <1>1, <2>1 DEF bars
<1>4. CASE SetResult(r, Result("bad_token")) /\ Goto(r, "respond")
  <2>1. verdictBar' = [verdictBar EXCEPT ![r] = "refused"]
    BY <1>4 DEF SetResult, verdictBar, Decided, VerdictOf, Refusals
  <2>. QED
    BY <1>1, <1>2, <2>1
       DEF Registry!Refuse, Registry!Decide, Registry!Creating,
           Registry!Removing, Creating, Removing
<1>. QED
  BY <1>3, <1>4

\* A configuration or a factory that fails refuses the request.
LEMMA BuildFailsRefines ==
  ASSUME HandlerInv, NEW r \in Requests, BuildFails(r)
  PROVE  Registry!Refuse(r)
<1>. USE DEF HandlerInv, TypeOK, ControlInv, ResultInv, Undecided, Result, Goto,
             tokenVars, registryVars, localVars, BuildFails
<1>1. UNCHANGED <<liveBar, opBar, answerBar, targetBar>>
  BY DEF SetResult, liveBar, opBar, answerBar, targetBar, IsCreate
<1>2. opBar[r] \in Creating /\ verdictBar[r] = "undecided"
  BY DEF opBar, verdictBar, Decided, IsCreate
<1>3. verdictBar' = [verdictBar EXCEPT ![r] = "refused"]
  <2>1. VerdictOf(result'[r]) = "refused" /\ pc'[r] \in {"respond"}
    BY DEF VerdictOf, Refusals, SetResult
  <2>2. ~Decided(r) /\ Decided(r)'
    BY <2>1 DEF Decided
  <2>3. \A q \in Requests \ {r} : /\ Decided(q)' <=> Decided(q)
                                 /\ result'[q] = result[q]
    BY DEF Decided, SetResult
  <2>. QED
    BY <2>1, <2>2, <2>3 DEF verdictBar
<1>. QED
  BY <1>1, <1>2, <1>3
     DEF Registry!Refuse, Registry!Decide, Registry!Creating, Creating

\* A backend that enters the map is a sequencer created under a new id.
LEMMA InsertRefines ==
  ASSUME HandlerInv, NEW r \in Requests, Insert(r)
  PROVE  Registry!Create(r)
<1>. USE ProviderAssumption
        DEF HandlerInv, TypeOK, ControlInv, ResultInv, Undecided, Result, Goto,
            tokenVars, registryVars, localVars, Insert, SetResult, Created
<1>1. IsCreate(r) /\ backend[r] = r /\ sequencer_id[r] \in UUIDs /\ ~Inserted(r)
  BY DEF OwnerInv, IdInv, Inserted
<1>2. /\ opBar[r] \in Creating /\ verdictBar[r] = "undecided"
      /\ UNCHANGED <<opBar, answerBar>>
  BY <1>1 DEF opBar, verdictBar, Decided, IsCreate, answerBar
<1>3. verdictBar' = [verdictBar EXCEPT ![r] = "performed"]
  BY DEF verdictBar, Decided, VerdictOf, Refusals
<1>4. liveBar' = liveBar \cup {sequencer_id[r]}
  BY <1>1 DEF liveBar, Ids
<1>5. targetBar' = [targetBar EXCEPT ![r] = sequencer_id[r]]
  BY <1>1 DEF targetBar, IsCreate
<1>6. sequencer_id[r] \notin Registry!Given
  <2>. SUFFICES ASSUME NEW q \in Requests, IsCreate(q)
                PROVE  result[q].value # sequencer_id[r]
    BY DEF Registry!Given, Registry!Creating, Creating, opBar, targetBar,
           IsCreate
  <2>. QED
    BY <1>1 DEF IdInv, Inserted
<1>. QED
  BY <1>1, <1>2, <1>3, <1>4, <1>5, <1>6
     DEF Registry!Create, Registry!Decide, Registry!Creating, Creating

\* A lookup finds its sequencer when it copies the shared_ptr.
LEMMA FindRefines ==
  ASSUME HandlerInv, NEW r \in Requests, Find(r)
  PROVE  Registry!Find(r)
<1>. USE DEF HandlerInv, TypeOK, ControlInv, ResultInv, Undecided, Result, Goto,
             tokenVars, registryVars, localVars, Find
<1>1. UNCHANGED <<liveBar, opBar, answerBar, targetBar>>
  BY DEF liveBar, opBar, answerBar, targetBar, IsCreate
<1>2. /\ opBar[r] \in Looking /\ verdictBar[r] = "undecided"
      /\ targetBar[r] = sequencer_id[r] /\ sequencer_id[r] \in liveBar
  BY DEF opBar, verdictBar, Decided, targetBar, liveBar, Entry, IsCreate
<1>3. verdictBar' = [verdictBar EXCEPT ![r] = "performed"]
  <2>1. VerdictOf(result'[r]) = "performed" /\ pc'[r] \in {"respond", "call"}
    BY DEF VerdictOf, Refusals
  <2>2. ~Decided(r) /\ Decided(r)'
    BY <2>1 DEF Decided
  <2>3. \A q \in Requests \ {r} : /\ Decided(q)' <=> Decided(q)
                                 /\ result'[q] = result[q]
    BY DEF Decided
  <2>. QED
    BY <2>1, <2>2, <2>3 DEF verdictBar
<1>. QED
  BY <1>1, <1>2, <1>3
     DEF Registry!Find, Registry!Decide, Registry!Looking, Looking

\* A handler that finds no entry has missed it.
LEMMA MissRefines ==
  ASSUME HandlerInv, NEW r \in Requests, Miss(r)
  PROVE  Registry!Miss(r)
<1>. USE DEF HandlerInv, TypeOK, ControlInv, ResultInv, Undecided, Result, Goto,
             tokenVars, registryVars, localVars, Miss, SetResult
<1>1. UNCHANGED <<liveBar, opBar, answerBar, targetBar>>
  BY DEF liveBar, opBar, answerBar, targetBar, IsCreate
<1>2. /\ opBar[r] \in Removing \cup Looking /\ verdictBar[r] = "undecided"
      /\ targetBar[r] = sequencer_id[r] /\ sequencer_id[r] \notin liveBar
  BY DEF opBar, verdictBar, Decided, targetBar, liveBar, Entry, IsCreate, Ops
<1>3. verdictBar' = [verdictBar EXCEPT ![r] = "not_found"]
  BY DEF verdictBar, Decided, VerdictOf, Refusals
<1>. QED
  BY <1>1, <1>2, <1>3
     DEF Registry!Miss, Registry!Decide, Registry!Removing, Registry!Looking,
         Removing, Looking

\* A sequencer is removed when its entry is erased.
LEMMA EraseRefines ==
  ASSUME HandlerInv, NEW r \in Requests, Erase(r)
  PROVE  Registry!Remove(r)
<1>. USE DEF HandlerInv, TypeOK, ControlInv, ResultInv, Undecided, Result, Goto,
             tokenVars, registryVars, localVars, Erase, Erased
<1>1. UNCHANGED <<opBar, answerBar, targetBar>>
  BY DEF opBar, answerBar, targetBar, IsCreate
<1>2. /\ opBar[r] \in Removing /\ verdictBar[r] = "undecided"
      /\ targetBar[r] = sequencer_id[r] /\ sequencer_id[r] \in liveBar
  BY DEF opBar, verdictBar, Decided, targetBar, liveBar, Entry, IsCreate,
         IsRemove, Creating, Removing
<1>3. liveBar' = liveBar \ {sequencer_id[r]}
  BY DEF liveBar
<1>4. verdictBar' = [verdictBar EXCEPT ![r] = "performed"]
  <2>1. VerdictOf(result'[r]) = "performed" /\ pc'[r] \in {"respond"}
    BY DEF VerdictOf, Refusals
  <2>2. ~Decided(r) /\ Decided(r)'
    BY <2>1 DEF Decided
  <2>3. \A q \in Requests \ {r} : /\ Decided(q)' <=> Decided(q)
                                 /\ result'[q] = result[q]
    BY DEF Decided
  <2>. QED
    BY <2>1, <2>2, <2>3 DEF verdictBar
<1>. QED
  BY <1>1, <1>2, <1>3, <1>4
     DEF Registry!Remove, Registry!Decide, Registry!Removing, Removing

\* A request is answered with what it did.
LEMMA RespondRefines ==
  ASSUME HandlerInv, NEW r \in Requests, Respond(r)
  PROVE  Registry!Answer(r)
<1>. USE DEF HandlerInv, TypeOK, ControlInv, ResultInv, Undecided, Result, Goto,
             tokenVars, registryVars, localVars, Respond, AfterRespond
<1>1. UNCHANGED <<liveBar, opBar, targetBar, verdictBar>>
  BY DEF liveBar, opBar, targetBar, verdictBar, Decided, IsCreate
<1>2. answerBar[r] = "undecided" /\ verdictBar[r] # "undecided"
  BY DEF answerBar, verdictBar, Decided, VerdictOf, Refusals
<1>3. answerBar' = [answerBar EXCEPT ![r] = verdictBar[r]]
  BY DEF answerBar, verdictBar, Decided
<1>. QED
  BY <1>1, <1>2, <1>3 DEF Registry!Answer

\* Every step of the provider is a step of the registry, or none.
LEMMA NextRefines ==
  ASSUME HandlerInv, [Next]_vars
  PROVE  [Registry!Next]_(Registry!vars)
<1>1. bars = Registry!vars
  BY DEF bars, Registry!vars
<1>2. ASSUME NEW r \in Requests, Receive(r) PROVE Registry!Next
  BY <1>2, ReceiveRefines DEF Registry!Next
<1>3. ASSUME NEW r \in Requests, Handle(r) PROVE Registry!Next \/ UNCHANGED bars
  BY <1>3, InternalRefines, CompareTokenRefines, BuildFailsRefines,
     InsertRefines, FindRefines, MissRefines, EraseRefines, RespondRefines
     DEF Handle, Registry!Next
<1>4. CASE \/ \E t \in NewTokens : BeginSetToken(t)
           \/ EndSetToken \/ AllServed \/ UNCHANGED vars
  <2>1. UNCHANGED <<m_backends, pc, call, sequencer_id, result, response>>
    BY <1>4
       DEF BeginSetToken, EndSetToken, AllServed, vars, tokenVars,
           registryVars, localVars
  <2>2. UNCHANGED <<liveBar, opBar, answerBar>>
    BY <2>1 DEF liveBar, opBar, answerBar
  <2>3. UNCHANGED <<targetBar, verdictBar>>
    BY <2>1 DEF targetBar, verdictBar, Decided, IsCreate
  <2>. QED
    BY <2>2, <2>3 DEF Registry!vars
<1>. QED
  BY <1>1, <1>2, <1>3, <1>4 DEF Next, Registry!vars, bars

\* Every RPC takes effect atomically between its arrival and its response, for
\* any number of concurrent requests.
THEOREM ProviderLinearizable == Spec => Linearizable
<1>. QED
  BY InitRefines, NextRefines, HandlerInvariant, PTL
     DEF Spec, Linearizable, Registry!Spec
=============================================================================
