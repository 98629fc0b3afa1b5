-------------------------- MODULE ProviderImplProofs --------------------------
(***************************************************************************)
(* Proofs about ProviderImpl, for any number of requests, ids and tokens:  *)
(* IInv is an inductive invariant, and the invariants of ProviderImpl      *)
(* follow from it.                                                         *)
(*                                                                         *)
(* One lemma per action shows that the action preserves HandlerInv, with   *)
(* one step per conjunct.  The two other parts of IInv, which need         *)
(* HandlerInv and of which HandlerInv needs nothing, come after them.      *)
(***************************************************************************)
EXTENDS ProviderImplInvariant, TLAPS

\* The provider starts with an empty map and no handler.
LEMMA InitInv == Init => HandlerInv
<1>. SUFFICES ASSUME Init PROVE HandlerInv
  OBVIOUS
<1>. USE ProviderAssumption DEF Init, Result
<1>1. TypeOK
  BY DEF TypeOK, Ids, Labels, Results, Outcomes
<1>2. MutexInv
  BY DEF MutexInv, Locked
<1>3. ControlInv
  BY DEF ControlInv
<1>4. ResultInv
  BY DEF ResultInv, Inserted
<1>5. IdInv
  BY DEF IdInv, IsCreate, Creating
<1>6. OwnerInv
  BY DEF OwnerInv
<1>7. DestroyedInv
  BY DEF DestroyedInv
<1>8. LifeInv
  BY DEF LifeInv, RemovedOnce, Inserted, Removed
<1>9. TokenInv
  BY DEF TokenInv, TokenSafe, Undisturbed
<1>. QED
  BY <1>1, <1>2, <1>3, <1>4, <1>5, <1>6, <1>7, <1>8, <1>9 DEF HandlerInv

-----------------------------------------------------------------------------
(* The token.                                                              *)

\* An assignment of m_token begins, and disturbs the checks under way.
LEMMA BeginSetTokenInv ==
  ASSUME HandlerInv, NEW t \in NewTokens, BeginSetToken(t)
  PROVE  HandlerInv'
<1>. USE ProviderAssumption DEF HandlerInv, TypeOK, BeginSetToken, registryVars
<1>1. TypeOK' /\ TokenInv'
  BY DEF TokenInv, TokenSafe, Undisturbed, Checking, IsCreate, IsRemove
<1>2. MutexInv' /\ ControlInv' /\ ResultInv' /\ IdInv'
  BY DEF MutexInv, ControlInv, ResultInv, IdInv, IsCreate, IsRemove, Entry,
         Inserted, Created
<1>3. OwnerInv' /\ DestroyedInv'
  BY DEF OwnerInv, DestroyedInv, Owned, IsCreate, Inserted
<1>4. LifeInv'
  BY DEF LifeInv, RemovedOnce, Removed, Inserted, IsRemove
<1>. QED
  BY <1>1, <1>2, <1>3, <1>4

\* The assignment ends: no check that it overlapped counts as undisturbed.
LEMMA EndSetTokenInv ==
  ASSUME HandlerInv, EndSetToken
  PROVE  HandlerInv'
<1>. USE ProviderAssumption
        DEF HandlerInv, TypeOK, EndSetToken, registryVars, localVars
<1>1. TypeOK' /\ TokenInv'
  BY DEF TokenInv, TokenSafe, Undisturbed, Checking, IsCreate, IsRemove
<1>2. MutexInv' /\ ControlInv' /\ ResultInv' /\ IdInv'
  BY DEF MutexInv, ControlInv, ResultInv, IdInv, IsCreate, IsRemove, Entry,
         Inserted, Created
<1>3. OwnerInv' /\ DestroyedInv'
  BY DEF OwnerInv, DestroyedInv, Owned, IsCreate, Inserted
<1>4. LifeInv'
  BY DEF LifeInv, RemovedOnce, Removed, Inserted, IsRemove
<1>. QED
  BY <1>1, <1>2, <1>3, <1>4

-----------------------------------------------------------------------------
(* The handlers.                                                           *)

\* An RPC to create or open comes in and is given an id nobody has.
LEMMA ReceiveCreateInv ==
  ASSUME HandlerInv, NEW r \in Requests, ReceiveCreate(r)
  PROVE  HandlerInv'
<1>. TypeOK /\ MutexInv /\ ControlInv /\ ResultInv /\ IdInv /\ OwnerInv
      /\ DestroyedInv /\ LifeInv /\ TokenInv
  BY DEF HandlerInv
<1>. USE ProviderAssumption
        DEF TypeOK, ReceiveCreate, Goto, tokenVars, registryVars, localVars,
            Accept, FreshIds
<1>1. TypeOK'
  BY DEF Ids, Labels
<1>2. MutexInv'
  BY DEF MutexInv, Locked
<1>3. ControlInv'
  BY DEF ControlInv, IsCreate, IsRemove, Entry, Creating
<1>4. ResultInv'
  BY DEF ResultInv, IsCreate, IsRemove, Undecided, Inserted, Created, Result
<1>5. IdInv'
  BY DEF IdInv, IsCreate
<1>6. OwnerInv'
  BY DEF OwnerInv, ControlInv, IsCreate, Inserted, Owned, Creating
<1>7. DestroyedInv'
  BY DEF DestroyedInv, ControlInv, IsCreate, Inserted, Creating
<1>8. LifeInv'
  <2>1. \A q \in Requests : Removed(q)' <=> Removed(q)
    BY DEF Removed, IsRemove
  <2>2. \A q \in Requests : Inserted(q)' <=> Inserted(q)
    BY DEF Inserted
  <2>3. \A q \in Requests :
          Removed(q) \/ Inserted(q) => sequencer_id'[q] = sequencer_id[q]
    BY DEF Removed, Inserted, ResultInv, Undecided, Result
  <2>. QED BY <2>1, <2>2, <2>3 DEF LifeInv, RemovedOnce, Ids
<1>9. TokenInv'
  BY DEF TokenInv, TokenSafe, Undisturbed, Checking, IsCreate, IsRemove
<1>. QED BY <1>1, <1>2, <1>3, <1>4, <1>5, <1>6, <1>7, <1>8, <1>9 DEF HandlerInv

\* An RPC to close or destroy comes in with an id its client knows.
LEMMA ReceiveRemoveInv ==
  ASSUME HandlerInv, NEW r \in Requests, ReceiveRemove(r)
  PROVE  HandlerInv'
<1>. TypeOK /\ MutexInv /\ ControlInv /\ ResultInv /\ IdInv /\ OwnerInv
      /\ DestroyedInv /\ LifeInv /\ TokenInv
  BY DEF HandlerInv
<1>. USE ProviderAssumption
        DEF TypeOK, ReceiveRemove, Goto, tokenVars, registryVars, localVars,
            Accept, KnownIds
<1>1. TypeOK'
  BY DEF Ids, Labels, Results
<1>2. MutexInv'
  BY DEF MutexInv, Locked
<1>3. ControlInv'
  BY DEF ControlInv, IsCreate, IsRemove, Entry, Removing
<1>4. ResultInv'
  BY DEF ResultInv, IsCreate, IsRemove, Undecided, Inserted, Created, Result
<1>5. IdInv'
  BY DEF IdInv, IsCreate, Creating, Removing
<1>6. OwnerInv'
  BY DEF OwnerInv, ControlInv, IsCreate, Inserted, Owned, Creating
<1>7. DestroyedInv'
  BY DEF DestroyedInv, ControlInv, IsCreate, Inserted, Creating
<1>8. LifeInv'
  <2>1. \A q \in Requests : Removed(q)' <=> Removed(q)
    BY DEF Removed, IsRemove
  <2>2. \A q \in Requests : Inserted(q)' <=> Inserted(q)
    BY DEF Inserted
  <2>3. \A q \in Requests :
          Removed(q) \/ Inserted(q) => sequencer_id'[q] = sequencer_id[q]
    BY DEF Removed, Inserted, ResultInv, ControlInv, Undecided, Result
  <2>. QED BY <2>1, <2>2, <2>3 DEF LifeInv, RemovedOnce, Ids
<1>9. TokenInv'
  BY DEF TokenInv, TokenSafe, Undisturbed, Checking, IsCreate, IsRemove
<1>. QED BY <1>1, <1>2, <1>3, <1>4, <1>5, <1>6, <1>7, <1>8, <1>9 DEF HandlerInv

\* An RPC to check, say hello or compute comes in.
LEMMA ReceiveLookupInv ==
  ASSUME HandlerInv, NEW r \in Requests, ReceiveLookup(r)
  PROVE  HandlerInv'
<1>. TypeOK /\ MutexInv /\ ControlInv /\ ResultInv /\ IdInv /\ OwnerInv
      /\ DestroyedInv /\ LifeInv /\ TokenInv
  BY DEF HandlerInv
<1>. USE ProviderAssumption
        DEF TypeOK, ReceiveLookup, Goto, tokenVars, registryVars, localVars,
            Accept, KnownIds
<1>1. TypeOK'
  BY DEF Ids, Labels, Results
<1>2. MutexInv'
  BY DEF MutexInv, Locked
<1>3. ControlInv'
  BY DEF ControlInv, IsCreate, IsRemove, Entry, Looking
<1>4. ResultInv'
  BY DEF ResultInv, IsCreate, IsRemove, Undecided, Inserted, Created, Result
<1>5. IdInv'
  BY DEF IdInv, IsCreate, Creating, Looking
<1>6. OwnerInv'
  BY DEF OwnerInv, ControlInv, IsCreate, Inserted, Owned, Creating, Looking
<1>7. DestroyedInv'
  BY DEF DestroyedInv, ControlInv, IsCreate, Inserted, Creating
<1>8. LifeInv'
  <2>1. \A q \in Requests : Removed(q)' <=> Removed(q)
    BY DEF Removed, IsRemove
  <2>2. \A q \in Requests : Inserted(q)' <=> Inserted(q)
    BY DEF Inserted
  <2>3. \A q \in Requests :
          Removed(q) \/ Inserted(q) => sequencer_id'[q] = sequencer_id[q]
    BY DEF Removed, Inserted, ResultInv, Undecided, Result
  <2>. QED BY <2>1, <2>2, <2>3 DEF LifeInv, RemovedOnce, Ids
<1>9. TokenInv'
  BY DEF TokenInv, TokenSafe, Undisturbed, Checking, IsCreate, IsRemove,
         Creating, Removing, Looking
<1>. QED BY <1>1, <1>2, <1>3, <1>4, <1>5, <1>6, <1>7, <1>8, <1>9 DEF HandlerInv

\* m_token.size() > 0 is evaluated.
LEMMA CheckTokenSizeInv ==
  ASSUME HandlerInv, NEW r \in Requests, CheckTokenSize(r)
  PROVE  HandlerInv'
<1>. TypeOK /\ MutexInv /\ ControlInv /\ ResultInv /\ IdInv /\ OwnerInv
      /\ DestroyedInv /\ LifeInv /\ TokenInv
  BY DEF HandlerInv
<1>. USE ProviderAssumption
        DEF TypeOK, CheckTokenSize, Goto, tokenVars, registryVars, localVars,
            AfterToken, TokenReads
<1>1. TypeOK'
  BY DEF Labels
<1>2. MutexInv'
  BY DEF MutexInv, Locked
<1>3. ControlInv'
  BY DEF ControlInv, IsCreate, IsRemove, Entry
<1>4. ResultInv'
  BY DEF ResultInv, IsCreate, IsRemove, Undecided, Inserted, Created
<1>5. IdInv'
  BY DEF IdInv, IsCreate
<1>6. OwnerInv'
  BY DEF OwnerInv, IsCreate, Inserted, Owned
<1>7. DestroyedInv'
  BY DEF DestroyedInv, IsCreate, Inserted
<1>8. LifeInv'
  <2>1. \A q \in Requests : Removed(q)' <=> Removed(q)
    BY DEF Removed, IsRemove
  <2>2. \A q \in Requests : Inserted(q)' <=> Inserted(q)
    BY DEF Inserted
  <2>3. \A q \in Requests :
          Removed(q) \/ Inserted(q) => sequencer_id'[q] = sequencer_id[q]
    OBVIOUS
  <2>. QED BY <2>1, <2>2, <2>3 DEF LifeInv, RemovedOnce, Ids
<1>9. TokenInv'
  <2>. SUFFICES ASSUME NEW q \in Requests PROVE TokenSafe(q)'
    BY DEF TokenInv
  <2>1. TokenSafe(q)
    BY DEF TokenInv
  <2>2. CASE q # r
    BY <2>1, <2>2 DEF TokenSafe, Undisturbed, Checking, IsCreate, IsRemove
  <2>3. CASE q = r
    BY <2>1, <2>3
       DEF TokenSafe, Undisturbed, Checking, IsCreate, IsRemove, ResultInv,
           Undecided, Result
  <2>. QED BY <2>2, <2>3
<1>. QED BY <1>1, <1>2, <1>3, <1>4, <1>5, <1>6, <1>7, <1>8, <1>9 DEF HandlerInv

\* m_token != token is evaluated: the handler goes on or is refused.
LEMMA CompareTokenInv ==
  ASSUME HandlerInv, NEW r \in Requests, CompareToken(r)
  PROVE  HandlerInv'
<1>. TypeOK /\ MutexInv /\ ControlInv /\ ResultInv /\ IdInv /\ OwnerInv
      /\ DestroyedInv /\ LifeInv /\ TokenInv
  BY DEF HandlerInv
<1>. USE ProviderAssumption
        DEF TypeOK, CompareToken, Goto, tokenVars, registryVars, localVars,
            AfterToken, TokenReads, Matches, SetResult
<1>a. \A q \in Requests : Inserted(q)' <=> Inserted(q)
  BY DEF Inserted, ResultInv, Undecided, Result
<1>1. TypeOK'
  <2>1. pc' \in [Requests -> Labels]
    BY DEF Labels
  <2>2. Result("bad_token") \in Results
    BY DEF Results, Result, Outcomes, Refusals, Ids
  <2>3. result' \in [Requests -> Results]
    BY <2>2
  <2>. QED BY <2>1, <2>3
<1>2. MutexInv'
  BY DEF MutexInv, Locked
<1>3. ControlInv'
  BY DEF ControlInv, IsCreate, IsRemove, Entry
<1>4. ResultInv'
  BY DEF ControlInv, ResultInv, IsCreate, IsRemove, Undecided, Inserted,
         Created, Refusals, Result
<1>5. IdInv'
  BY DEF IdInv, IsCreate
<1>6. OwnerInv'
  BY <1>a DEF OwnerInv, Owned, IsCreate
<1>7. DestroyedInv'
  BY <1>a DEF DestroyedInv, IsCreate
<1>8. LifeInv'
  <2>1. \A q \in Requests : Removed(q)' <=> Removed(q)
    BY DEF Removed, IsRemove, Result
  <2>2. \A q \in Requests : Inserted(q)' <=> Inserted(q)
    BY DEF Inserted, ResultInv, Undecided, Result
  <2>3. \A q \in Requests :
          Removed(q) \/ Inserted(q) => sequencer_id'[q] = sequencer_id[q]
    OBVIOUS
  <2>. QED BY <2>1, <2>2, <2>3 DEF LifeInv, RemovedOnce, Ids
<1>9. TokenInv'
  <2>. SUFFICES ASSUME NEW q \in Requests PROVE TokenSafe(q)'
    BY DEF TokenInv
  <2>1. TokenSafe(q)
    BY DEF TokenInv
  <2>2. CASE q # r
    BY <2>1, <2>2 DEF TokenSafe, Undisturbed, Checking, IsCreate, IsRemove
  <2>3. CASE q = r
    BY <2>1, <2>3
       DEF TokenSafe, Undisturbed, Checking, IsCreate, IsRemove, ResultInv,
           Undecided, Result
  <2>. QED BY <2>2, <2>3
<1>. QED BY <1>1, <1>2, <1>3, <1>4, <1>5, <1>6, <1>7, <1>8, <1>9 DEF HandlerInv

\* The configuration does not parse, or the factory returns no backend.
LEMMA BuildFailsInv ==
  ASSUME HandlerInv, NEW r \in Requests, BuildFails(r)
  PROVE  HandlerInv'
<1>. TypeOK /\ MutexInv /\ ControlInv /\ ResultInv /\ IdInv /\ OwnerInv
      /\ DestroyedInv /\ LifeInv /\ TokenInv
  BY DEF HandlerInv
<1>. USE ProviderAssumption
        DEF TypeOK, BuildFails, Goto, tokenVars, registryVars, localVars,
            SetResult
<1>a. \A q \in Requests : Inserted(q)' <=> Inserted(q)
  BY DEF Inserted, ResultInv, Undecided, Result
<1>1. TypeOK'
  BY DEF Ids, Labels, Results, Result, Outcomes, Refusals
<1>2. MutexInv'
  BY DEF MutexInv, Locked
<1>3. ControlInv'
  BY DEF ControlInv, IsCreate, IsRemove, Entry
<1>4. ResultInv'
  BY DEF ResultInv, IsCreate, IsRemove, Undecided, Inserted, Created,
         Refusals, Result
<1>5. IdInv'
  BY DEF IdInv, IsCreate
<1>6. OwnerInv'
  BY <1>a DEF OwnerInv, Owned, IsCreate
<1>7. DestroyedInv'
  BY <1>a DEF DestroyedInv, IsCreate
<1>8. LifeInv'
  <2>1. \A q \in Requests : Removed(q)' <=> Removed(q)
    BY DEF Removed, IsRemove, Result
  <2>2. \A q \in Requests : Inserted(q)' <=> Inserted(q)
    BY DEF Inserted, ResultInv, Undecided, Result
  <2>3. \A q \in Requests :
          Removed(q) \/ Inserted(q) => sequencer_id'[q] = sequencer_id[q]
    OBVIOUS
  <2>. QED BY <2>1, <2>2, <2>3 DEF LifeInv, RemovedOnce, Ids
<1>9. TokenInv'
  <2>. SUFFICES ASSUME NEW q \in Requests PROVE TokenSafe(q)'
    BY DEF TokenInv
  <2>1. TokenSafe(q)
    BY DEF TokenInv
  <2>2. CASE q # r
    BY <2>1, <2>2 DEF TokenSafe, Undisturbed, Checking, IsCreate, IsRemove
  <2>3. CASE q = r
    BY <2>1, <2>3
       DEF TokenSafe, Undisturbed, Checking, IsCreate, IsRemove, ResultInv,
           Undecided, Result
  <2>. QED BY <2>2, <2>3
<1>. QED BY <1>1, <1>2, <1>3, <1>4, <1>5, <1>6, <1>7, <1>8, <1>9 DEF HandlerInv

\* The factory returns a backend, owned by the handler alone.
LEMMA BuildInv ==
  ASSUME HandlerInv, NEW r \in Requests, Build(r)
  PROVE  HandlerInv'
<1>. TypeOK /\ MutexInv /\ ControlInv /\ ResultInv /\ IdInv /\ OwnerInv
      /\ DestroyedInv /\ LifeInv /\ TokenInv
  BY DEF HandlerInv
<1>. USE ProviderAssumption
        DEF TypeOK, Build, Goto, tokenVars, registryVars, localVars
<1>1. TypeOK'
  BY DEF Labels
<1>2. MutexInv'
  BY DEF MutexInv, Locked
<1>3. ControlInv'
  BY DEF ControlInv, IsCreate, IsRemove, Entry
<1>4. ResultInv'
  BY DEF ResultInv, IsCreate, IsRemove, Undecided, Inserted, Created
<1>5. IdInv'
  BY DEF IdInv, IsCreate
<1>6. OwnerInv'
  <2>1. IsCreate(r) /\ ~Inserted(r)
    BY DEF ControlInv, ResultInv, Undecided, Inserted, Result
  <2>2. \A b \in deleted : ~Owned(b)'
    BY <2>1 DEF OwnerInv, Owned
  <2>. QED BY <2>1, <2>2 DEF OwnerInv, IsCreate, Inserted
<1>7. DestroyedInv'
  BY DEF DestroyedInv, IsCreate, Inserted
<1>8. LifeInv'
  BY DEF LifeInv, RemovedOnce, Removed, ResultInv, IsRemove, Inserted, Ids
<1>9. TokenInv'
  <2>. SUFFICES ASSUME NEW q \in Requests PROVE TokenSafe(q)'
    BY DEF TokenInv
  <2>1. TokenSafe(q)
    BY DEF TokenInv
  <2>2. CASE q # r
    BY <2>1, <2>2 DEF TokenSafe, Undisturbed, Checking, IsCreate, IsRemove
  <2>3. CASE q = r
    BY <2>1, <2>3 DEF TokenSafe, Undisturbed, Checking, IsCreate, IsRemove
  <2>. QED BY <2>2, <2>3
<1>. QED BY <1>1, <1>2, <1>3, <1>4, <1>5, <1>6, <1>7, <1>8, <1>9 DEF HandlerInv

\* The handler takes m_backends_mtx.
LEMMA LockInv ==
  ASSUME HandlerInv, NEW r \in Requests, Lock(r)
  PROVE  HandlerInv'
<1>. TypeOK /\ MutexInv /\ ControlInv /\ ResultInv /\ IdInv /\ OwnerInv
      /\ DestroyedInv /\ LifeInv /\ TokenInv
  BY DEF HandlerInv
<1>. USE ProviderAssumption
        DEF TypeOK, Lock, Goto, tokenVars, registryVars, localVars, MutexFree
<1>1. TypeOK'
  BY DEF Labels, Locked
<1>2. MutexInv'
  BY DEF MutexInv, Locked
<1>3. ControlInv'
  BY DEF MutexInv, Locked, ControlInv, IsCreate, IsRemove
<1>4. ResultInv'
  BY DEF ResultInv, IsCreate, IsRemove, Undecided, Inserted, Created
<1>5. IdInv'
  BY DEF IdInv, IsCreate
<1>6. OwnerInv'
  BY DEF OwnerInv, IsCreate, Inserted, Owned
<1>7. DestroyedInv'
  BY DEF DestroyedInv, IsCreate, Inserted
<1>8. LifeInv'
  <2>1. \A q \in Requests : Removed(q)' <=> Removed(q)
    BY DEF Removed, IsRemove
  <2>2. \A q \in Requests : Inserted(q)' <=> Inserted(q)
    BY DEF Inserted
  <2>3. \A q \in Requests :
          Removed(q) \/ Inserted(q) => sequencer_id'[q] = sequencer_id[q]
    OBVIOUS
  <2>. QED BY <2>1, <2>2, <2>3 DEF LifeInv, RemovedOnce, Ids
<1>9. TokenInv'
  BY DEF TokenInv, TokenSafe, Undisturbed, Checking, IsCreate, IsRemove
<1>. QED BY <1>1, <1>2, <1>3, <1>4, <1>5, <1>6, <1>7, <1>8, <1>9 DEF HandlerInv

\* The handler's backend enters the map under an id no entry has.
LEMMA InsertInv ==
  ASSUME HandlerInv, NEW r \in Requests, Insert(r)
  PROVE  HandlerInv'
<1>. TypeOK /\ MutexInv /\ ControlInv /\ ResultInv /\ IdInv /\ OwnerInv
      /\ DestroyedInv /\ LifeInv /\ TokenInv
  BY DEF HandlerInv
<1>. USE ProviderAssumption
        DEF TypeOK, Insert, Goto, tokenVars, registryVars, localVars,
            SetResult, DeleteOrphans
<1>r. /\ IsCreate(r) /\ ~Inserted(r) /\ result[r] = Result("ok")
      /\ backend[r] = r /\ sequencer_id[r] \in UUIDs
  BY DEF ControlInv, ResultInv, OwnerInv, IdInv, Undecided, Inserted, Result
<1>1. TypeOK'
  BY DEF Labels, Results, Outcomes, Created
<1>2. MutexInv'
  BY DEF MutexInv, Locked
<1>3. ControlInv'
  BY DEF MutexInv, Locked, ControlInv, IsCreate, IsRemove
<1>4. ResultInv'
  BY DEF ControlInv, ResultInv, IsCreate, IsRemove, Undecided, Inserted,
         Created, IdInv
<1>5. IdInv'
  BY DEF IdInv, IsCreate
<1>6. OwnerInv'
  BY DEF OwnerInv, IdInv, IsCreate, Inserted, Owned, Created
<1>7. DestroyedInv'
  <2>1. \A b \in Requests : Inserted(b) => b # r /\ Inserted(b)'
    BY <1>r DEF Inserted
  <2>2. \A b \in Requests \ {r} :
          Inserted(b) /\ IsCreate(b) => sequencer_id[b] # sequencer_id[r]
    BY <1>r DEF IdInv
  <2>3. SUFFICES ASSUME NEW b \in destroyed, m_backends'[sequencer_id[b]] = b
                 PROVE  \E q \in Requests :
                          pc'[q] = "erase" /\ call[q].op = "destroy"
                            /\ sequencer_id[q] = sequencer_id[b]
    BY <2>1 DEF DestroyedInv, IsCreate
  <2>4. m_backends[sequencer_id[b]] = b
    BY <2>1, <2>2, <2>3 DEF DestroyedInv
  <2>5. PICK q \in Requests : pc[q] = "erase" /\ call[q].op = "destroy"
                               /\ sequencer_id[q] = sequencer_id[b]
    BY <2>4 DEF DestroyedInv
  <2>. QED BY <2>5
<1>8. LifeInv'
  <2>1. \A q \in Requests : Removed(q)' <=> Removed(q)
    BY <1>r DEF Removed, IsCreate, IsRemove, Creating, Removing
  <2>2. \A q \in Requests : Inserted(q)' <=> Inserted(q) \/ q = r
    BY <1>r DEF Inserted, Created
  <2>3. \A q \in Requests \ {r} :
          Inserted(q) => sequencer_id[q] # sequencer_id[r]
    BY <1>r DEF IdInv, ResultInv
  <2>4. \A q \in Requests : Removed(q) => sequencer_id[q] # sequencer_id[r]
    BY <1>r, <2>3 DEF LifeInv
  <2>. QED BY <1>r, <2>1, <2>2, <2>3, <2>4 DEF LifeInv, RemovedOnce
<1>9. TokenInv'
  <2>. SUFFICES ASSUME NEW q \in Requests PROVE TokenSafe(q)'
    BY DEF TokenInv
  <2>1. TokenSafe(q)
    BY DEF TokenInv
  <2>2. \A p \in Requests : (result'[p].outcome = "bad_token")
                              <=> (result[p].outcome = "bad_token")
    BY <1>r DEF Created, Result
  <2>. QED
    BY <2>1, <2>2 DEF TokenSafe, Undisturbed, Checking, IsCreate, IsRemove
<1>. QED BY <1>1, <1>2, <1>3, <1>4, <1>5, <1>6, <1>7, <1>8, <1>9 DEF HandlerInv

\* The id of the request has no entry.
LEMMA MissInv ==
  ASSUME HandlerInv, NEW r \in Requests, Miss(r)
  PROVE  HandlerInv'
<1>. TypeOK /\ MutexInv /\ ControlInv /\ ResultInv /\ IdInv /\ OwnerInv
      /\ DestroyedInv /\ LifeInv /\ TokenInv
  BY DEF HandlerInv
<1>. USE ProviderAssumption
        DEF TypeOK, Miss, Goto, tokenVars, registryVars, localVars, SetResult
<1>1. TypeOK'
  BY DEF Ids, Labels, Locked, Results, Result, Outcomes
<1>2. MutexInv'
  BY DEF MutexInv, Locked
<1>3. ControlInv'
  BY DEF MutexInv, Locked, ControlInv, IsCreate, IsRemove
<1>4. ResultInv'
  BY DEF ResultInv, IsCreate, IsRemove, Undecided, Inserted, Created, Result
<1>5. IdInv'
  BY DEF IdInv, IsCreate
<1>6. OwnerInv'
  BY DEF OwnerInv, ControlInv, IsCreate, Inserted, Owned
<1>7. DestroyedInv'
  BY DEF DestroyedInv, ControlInv, IsCreate, Inserted
<1>8. LifeInv'
  BY DEF LifeInv, RemovedOnce, Removed, ControlInv, ResultInv, IdInv,
         IsRemove, Inserted, Result
<1>9. TokenInv'
  <2>. SUFFICES ASSUME NEW q \in Requests PROVE TokenSafe(q)'
    BY DEF TokenInv
  <2>1. TokenSafe(q)
    BY DEF TokenInv
  <2>2. CASE q # r
    BY <2>1, <2>2 DEF TokenSafe, Undisturbed, Checking, IsCreate, IsRemove
  <2>3. CASE q = r
    BY <2>1, <2>3
       DEF TokenSafe, Undisturbed, Checking, IsCreate, IsRemove, ResultInv,
           Undecided, Result
  <2>. QED BY <2>2, <2>3
<1>. QED BY <1>1, <1>2, <1>3, <1>4, <1>5, <1>6, <1>7, <1>8, <1>9 DEF HandlerInv

\* FIND_SEQUENCER copies the entry's shared_ptr.
LEMMA FindInv ==
  ASSUME HandlerInv, NEW r \in Requests, Find(r)
  PROVE  HandlerInv'
<1>. TypeOK /\ MutexInv /\ ControlInv /\ ResultInv /\ IdInv /\ OwnerInv
      /\ DestroyedInv /\ LifeInv /\ TokenInv
  BY DEF HandlerInv
<1>. USE ProviderAssumption
        DEF TypeOK, Find, Goto, tokenVars, registryVars, localVars
<1>1. TypeOK'
  BY DEF Labels, Entry
<1>2. MutexInv'
  BY DEF MutexInv, Locked
<1>3. ControlInv'
  BY DEF MutexInv, Locked, ControlInv, IsCreate, IsRemove, Looking
<1>4. ResultInv'
  BY DEF ControlInv, ResultInv, IsCreate, IsRemove, Undecided, Inserted,
         Created
<1>5. IdInv'
  BY DEF IdInv, IsCreate
<1>6. OwnerInv'
  BY DEF OwnerInv, ControlInv, IsCreate, Inserted, Owned, Entry
<1>7. DestroyedInv'
  BY DEF DestroyedInv, IsCreate, Inserted
<1>8. LifeInv'
  BY DEF LifeInv, RemovedOnce, Removed, ControlInv, IsRemove, Inserted,
         Removing
<1>9. TokenInv'
  BY DEF TokenInv, TokenSafe, Undisturbed, Checking, IsCreate, IsRemove
<1>. QED BY <1>1, <1>2, <1>3, <1>4, <1>5, <1>6, <1>7, <1>8, <1>9 DEF HandlerInv

\* The id to close or destroy has an entry.
LEMMA FindToRemoveInv ==
  ASSUME HandlerInv, NEW r \in Requests, FindToRemove(r)
  PROVE  HandlerInv'
<1>. TypeOK /\ MutexInv /\ ControlInv /\ ResultInv /\ IdInv /\ OwnerInv
      /\ DestroyedInv /\ LifeInv /\ TokenInv
  BY DEF HandlerInv
<1>. USE ProviderAssumption
        DEF TypeOK, FindToRemove, Goto, tokenVars, registryVars, localVars
<1>1. TypeOK'
  BY DEF Labels, Locked
<1>2. MutexInv'
  BY DEF MutexInv, Locked
<1>3. ControlInv'
  BY DEF ControlInv, IsCreate, IsRemove, Entry
<1>4. ResultInv'
  BY DEF ResultInv, IsCreate, IsRemove, Undecided, Inserted, Created
<1>5. IdInv'
  BY DEF IdInv, IsCreate
<1>6. OwnerInv'
  BY DEF OwnerInv, IsCreate, Inserted, Owned
<1>7. DestroyedInv'
  BY DEF DestroyedInv, IsCreate, Inserted
<1>8. LifeInv'
  BY DEF LifeInv, RemovedOnce, Removed, IsRemove, Inserted
<1>9. TokenInv'
  BY DEF TokenInv, TokenSafe, Undisturbed, Checking, IsCreate, IsRemove
<1>. QED BY <1>1, <1>2, <1>3, <1>4, <1>5, <1>6, <1>7, <1>8, <1>9 DEF HandlerInv

\* destroy() runs on the entry's backend, under the mutex.
LEMMA DestroyInv ==
  ASSUME HandlerInv, NEW r \in Requests, Destroy(r)
  PROVE  HandlerInv'
<1>. TypeOK /\ MutexInv /\ ControlInv /\ ResultInv /\ IdInv /\ OwnerInv
      /\ DestroyedInv /\ LifeInv /\ TokenInv
  BY DEF HandlerInv
<1>. USE ProviderAssumption
        DEF TypeOK, Destroy, Goto, tokenVars, registryVars, localVars,
            SetResult, Reported
<1>1. TypeOK'
  <2>1. pc' \in [Requests -> Labels]
    BY DEF Labels, Locked
  <2>2. result' \in [Requests -> Results]
    BY DEF Results, Result, Outcomes, Ids
  <2>3. destroyed' \subseteq Requests
    BY DEF ControlInv, Entry
  <2>. QED BY <2>1, <2>2, <2>3
<1>2. MutexInv'
  BY DEF MutexInv, Locked
<1>3. ControlInv'
  BY DEF ControlInv, IsCreate, IsRemove, Entry
<1>4. ResultInv'
  BY DEF ResultInv, IsCreate, IsRemove, Undecided, Inserted, Created, Result
<1>5. IdInv'
  BY DEF IdInv, IsCreate
<1>6. OwnerInv'
  BY DEF OwnerInv, ControlInv, IsCreate, Inserted, Owned, Creating
<1>7. DestroyedInv'
  BY DEF DestroyedInv, ControlInv, OwnerInv, IsCreate, Inserted, Entry,
         Creating
<1>8. LifeInv'
  BY DEF LifeInv, RemovedOnce, Removed, ControlInv, IsRemove, Inserted, Entry,
         Result
<1>9. TokenInv'
  <2>. SUFFICES ASSUME NEW q \in Requests PROVE TokenSafe(q)'
    BY DEF TokenInv
  <2>1. TokenSafe(q)
    BY DEF TokenInv
  <2>2. CASE q # r
    BY <2>1, <2>2 DEF TokenSafe, Undisturbed, Checking, IsCreate, IsRemove
  <2>3. CASE q = r
    BY <2>1, <2>3
       DEF TokenSafe, Undisturbed, Checking, IsCreate, IsRemove, ResultInv,
           Undecided, Result
  <2>. QED BY <2>2, <2>3
<1>. QED BY <1>1, <1>2, <1>3, <1>4, <1>5, <1>6, <1>7, <1>8, <1>9 DEF HandlerInv

\* The entry is erased; its backend goes unless a handler shares it.
LEMMA EraseInv ==
  ASSUME HandlerInv, NEW r \in Requests, Erase(r)
  PROVE  HandlerInv'
<1>. TypeOK /\ MutexInv /\ ControlInv /\ ResultInv /\ IdInv /\ OwnerInv
      /\ DestroyedInv /\ LifeInv /\ TokenInv
  BY DEF HandlerInv
<1>. USE ProviderAssumption
        DEF TypeOK, Erase, Goto, tokenVars, registryVars, localVars, Erased,
            DeleteOrphans
<1>1. TypeOK'
  BY DEF Labels
<1>2. MutexInv'
  BY DEF MutexInv, Locked
<1>3. ControlInv'
  BY DEF MutexInv, Locked, ControlInv, IsCreate, IsRemove
<1>4. ResultInv'
  BY DEF ControlInv, ResultInv, IsCreate, IsRemove, Undecided, Inserted,
         Created, Creating, Removing
<1>5. IdInv'
  BY DEF IdInv, IsCreate
<1>6. OwnerInv'
  BY DEF OwnerInv, IsCreate, Inserted, Owned
<1>7. DestroyedInv'
  BY DEF DestroyedInv, IsCreate, Inserted
<1>8. LifeInv'
  BY DEF LifeInv, RemovedOnce, Removed, ControlInv, ResultInv, OwnerInv,
         IsRemove, Inserted, Entry, Result
<1>9. TokenInv'
  BY DEF TokenInv, TokenSafe, Undisturbed, Checking, IsCreate, IsRemove
<1>. QED BY <1>1, <1>2, <1>3, <1>4, <1>5, <1>6, <1>7, <1>8, <1>9 DEF HandlerInv

\* The backend computes a sum, outside the mutex.
LEMMA CallSumInv ==
  ASSUME HandlerInv, NEW r \in Requests, CallSum(r)
  PROVE  HandlerInv'
<1>. TypeOK /\ MutexInv /\ ControlInv /\ ResultInv /\ IdInv /\ OwnerInv
      /\ DestroyedInv /\ LifeInv /\ TokenInv
  BY DEF HandlerInv
<1>. USE ProviderAssumption
        DEF TypeOK, CallSum, Goto, tokenVars, registryVars, localVars,
            SetResult, Reported
<1>1. TypeOK'
  BY DEF Ids, Labels, Results, Result, Outcomes
<1>2. MutexInv'
  BY DEF MutexInv, Locked
<1>3. ControlInv'
  BY DEF ControlInv, IsCreate, IsRemove, Entry
<1>4. ResultInv'
  BY DEF ControlInv, ResultInv, IsCreate, IsRemove, Undecided, Inserted,
         Created, Result
<1>5. IdInv'
  BY DEF IdInv, IsCreate
<1>6. OwnerInv'
  BY DEF OwnerInv, IsCreate, Inserted, Owned
<1>7. DestroyedInv'
  BY DEF DestroyedInv, ControlInv, IsCreate, Inserted
<1>8. LifeInv'
  BY DEF LifeInv, RemovedOnce, Removed, ResultInv, IsRemove, Inserted, Result,
         Removing
<1>9. TokenInv'
  BY DEF TokenInv, TokenSafe, Undisturbed, Checking, IsCreate, IsRemove,
         ResultInv, Result
<1>. QED BY <1>1, <1>2, <1>3, <1>4, <1>5, <1>6, <1>7, <1>8, <1>9 DEF HandlerInv

\* The backend says hello, outside the mutex.
LEMMA CallHelloInv ==
  ASSUME HandlerInv, NEW r \in Requests, CallHello(r)
  PROVE  HandlerInv'
<1>. TypeOK /\ MutexInv /\ ControlInv /\ ResultInv /\ IdInv /\ OwnerInv
      /\ DestroyedInv /\ LifeInv /\ TokenInv
  BY DEF HandlerInv
<1>. USE ProviderAssumption
        DEF TypeOK, CallHello, Goto, tokenVars, registryVars, localVars
<1>1. TypeOK'
  BY DEF Labels
<1>2. MutexInv'
  BY DEF MutexInv, Locked
<1>3. ControlInv'
  BY DEF ControlInv, IsCreate, IsRemove, Entry
<1>4. ResultInv'
  BY DEF ControlInv, ResultInv, IsCreate, IsRemove, Inserted, Created
<1>5. IdInv'
  BY DEF IdInv, IsCreate
<1>6. OwnerInv'
  BY DEF OwnerInv, IsCreate, Inserted, Owned
<1>7. DestroyedInv'
  BY DEF DestroyedInv, IsCreate, Inserted
<1>8. LifeInv'
  BY DEF LifeInv, RemovedOnce, Removed, IsRemove, Inserted, Removing
<1>9. TokenInv'
  BY DEF TokenInv, TokenSafe, Undisturbed, Checking, IsCreate, IsRemove
<1>. QED BY <1>1, <1>2, <1>3, <1>4, <1>5, <1>6, <1>7, <1>8, <1>9 DEF HandlerInv

\* The handler sends its RequestResult.
LEMMA RespondInv ==
  ASSUME HandlerInv, NEW r \in Requests, Respond(r)
  PROVE  HandlerInv'
<1>. TypeOK /\ MutexInv /\ ControlInv /\ ResultInv /\ IdInv /\ OwnerInv
      /\ DestroyedInv /\ LifeInv /\ TokenInv
  BY DEF HandlerInv
<1>. USE ProviderAssumption
        DEF TypeOK, Respond, Goto, tokenVars, registryVars, localVars,
            AfterRespond
<1>1. TypeOK'
  BY DEF Labels, Locked
<1>2. MutexInv'
  BY DEF MutexInv, Locked
<1>3. ControlInv'
  BY DEF ControlInv, IsCreate, IsRemove, Entry
<1>4. ResultInv'
  BY DEF ResultInv, IsCreate, IsRemove, Undecided, Inserted, Created
<1>5. IdInv'
  BY DEF IdInv, IsCreate
<1>6. OwnerInv'
  BY DEF OwnerInv, IsCreate, Inserted, Owned
<1>7. DestroyedInv'
  BY DEF DestroyedInv, IsCreate, Inserted
<1>8. LifeInv'
  BY DEF LifeInv, RemovedOnce, Removed, IsRemove, Inserted
<1>9. TokenInv'
  BY DEF TokenInv, TokenSafe, Undisturbed, Checking, IsCreate, IsRemove
<1>. QED BY <1>1, <1>2, <1>3, <1>4, <1>5, <1>6, <1>7, <1>8, <1>9 DEF HandlerInv

\* The scope of an early return ends.
LEMMA UnlockInv ==
  ASSUME HandlerInv, NEW r \in Requests, Unlock(r)
  PROVE  HandlerInv'
<1>. TypeOK /\ MutexInv /\ ControlInv /\ ResultInv /\ IdInv /\ OwnerInv
      /\ DestroyedInv /\ LifeInv /\ TokenInv
  BY DEF HandlerInv
<1>. USE ProviderAssumption
        DEF TypeOK, Unlock, Goto, tokenVars, registryVars, localVars
<1>1. TypeOK'
  BY DEF Labels
<1>2. MutexInv'
  BY DEF MutexInv, Locked
<1>3. ControlInv'
  BY DEF MutexInv, Locked, ControlInv, IsCreate, IsRemove
<1>4. ResultInv'
  BY DEF ControlInv, ResultInv, IsCreate, IsRemove, Undecided, Inserted,
         Created
<1>5. IdInv'
  BY DEF IdInv, IsCreate
<1>6. OwnerInv'
  BY DEF OwnerInv, IsCreate, Inserted, Owned
<1>7. DestroyedInv'
  BY DEF DestroyedInv, IsCreate, Inserted
<1>8. LifeInv'
  <2>1. \A q \in Requests : Removed(q)' <=> Removed(q)
    BY DEF Removed, ResultInv, IsRemove, Result
  <2>2. \A q \in Requests : Inserted(q)' <=> Inserted(q)
    BY DEF Inserted
  <2>3. \A q \in Requests :
          Removed(q) \/ Inserted(q) => sequencer_id'[q] = sequencer_id[q]
    OBVIOUS
  <2>. QED BY <2>1, <2>2, <2>3 DEF LifeInv, RemovedOnce, Ids
<1>9. TokenInv'
  BY DEF TokenInv, TokenSafe, Undisturbed, Checking, IsCreate, IsRemove
<1>. QED BY <1>1, <1>2, <1>3, <1>4, <1>5, <1>6, <1>7, <1>8, <1>9 DEF HandlerInv

\* The handler's pointer goes out of scope.
LEMMA ReturnInv ==
  ASSUME HandlerInv, NEW r \in Requests, Return(r)
  PROVE  HandlerInv'
<1>. TypeOK /\ MutexInv /\ ControlInv /\ ResultInv /\ IdInv /\ OwnerInv
      /\ DestroyedInv /\ LifeInv /\ TokenInv
  BY DEF HandlerInv
<1>. USE ProviderAssumption
        DEF TypeOK, Return, Goto, tokenVars, registryVars, localVars, Dropped,
            DeleteOrphans
<1>1. TypeOK'
  BY DEF Labels
<1>2. MutexInv'
  BY DEF MutexInv, Locked
<1>3. ControlInv'
  BY DEF ControlInv, IsCreate, IsRemove, Entry
<1>4. ResultInv'
  BY DEF ResultInv, IsCreate, IsRemove, Undecided, Inserted, Created
<1>5. IdInv'
  BY DEF IdInv, IsCreate
<1>6. OwnerInv'
  BY DEF OwnerInv, IsCreate, Inserted, Owned
<1>7. DestroyedInv'
  BY DEF DestroyedInv, IsCreate, Inserted
<1>8. LifeInv'
  BY DEF LifeInv, RemovedOnce, Removed, IsRemove, Inserted
<1>9. TokenInv'
  BY DEF TokenInv, TokenSafe, Undisturbed, Checking, IsCreate, IsRemove
<1>. QED BY <1>1, <1>2, <1>3, <1>4, <1>5, <1>6, <1>7, <1>8, <1>9 DEF HandlerInv
-----------------------------------------------------------------------------
(* The invariant and what it implies.                                      *)

\* A step that changes nothing.
LEMMA StutterInv ==
  ASSUME HandlerInv, UNCHANGED vars
  PROVE  HandlerInv'
<1>. USE DEF HandlerInv, vars, tokenVars, registryVars, localVars
<1>1. TypeOK' /\ MutexInv' /\ ControlInv' /\ ResultInv' /\ IdInv'
  BY DEF TypeOK, MutexInv, ControlInv, ResultInv, IdInv, IsCreate, IsRemove,
         Entry, Inserted, Created
<1>2. OwnerInv' /\ DestroyedInv'
  BY DEF OwnerInv, DestroyedInv, Owned, IsCreate, Inserted
<1>3. LifeInv' /\ TokenInv'
  BY DEF LifeInv, RemovedOnce, Removed, Inserted, IsRemove, TokenInv,
         TokenSafe, Undisturbed, Checking, IsCreate
<1>. QED
  BY <1>1, <1>2, <1>3

\* HandlerInv is inductive: no step of a handler or of setSecurityToken breaks
\* it.
LEMMA NextInv == HandlerInv /\ [Next]_vars => HandlerInv'
<1>. SUFFICES ASSUME HandlerInv, [Next]_vars PROVE HandlerInv'
  OBVIOUS
<1>1. ASSUME NEW r \in Requests, Receive(r) PROVE HandlerInv'
  BY <1>1, ReceiveCreateInv, ReceiveRemoveInv, ReceiveLookupInv DEF Receive
<1>2. ASSUME NEW r \in Requests, Handle(r) PROVE HandlerInv'
  <2>1. CASE CheckTokenSize(r) \/ CompareToken(r) \/ BuildFails(r) \/ Build(r)
    BY <2>1, CheckTokenSizeInv, CompareTokenInv, BuildFailsInv, BuildInv
  <2>2. CASE Lock(r) \/ Insert(r) \/ Miss(r) \/ Find(r) \/ FindToRemove(r)
    BY <2>2, LockInv, InsertInv, MissInv, FindInv, FindToRemoveInv
  <2>3. CASE Destroy(r) \/ Erase(r) \/ CallSum(r) \/ CallHello(r)
    BY <2>3, DestroyInv, EraseInv, CallSumInv, CallHelloInv
  <2>4. CASE Respond(r) \/ Unlock(r) \/ Return(r)
    BY <2>4, RespondInv, UnlockInv, ReturnInv
  <2>. QED
    BY <1>2, <2>1, <2>2, <2>3, <2>4 DEF Handle
<1>3. ASSUME NEW t \in NewTokens, BeginSetToken(t) PROVE HandlerInv'
  BY <1>3, BeginSetTokenInv
<1>4. CASE EndSetToken
  BY <1>4, EndSetTokenInv
<1>5. CASE AllServed \/ UNCHANGED vars
  BY <1>5, StutterInv DEF AllServed
<1>. QED
  BY <1>1, <1>2, <1>3, <1>4, <1>5 DEF Next

\* HandlerInv holds in every reachable state.
LEMMA HandlerInvariant == Spec => []HandlerInv
<1>. QED
  BY InitInv, NextInv, PTL DEF Spec

\* One step of the provider, whoever takes it: what the lemmas about every
\* step split on.
LEMMA StepCases ==
  ASSUME [Next]_vars
  PROVE  \/ \E r \in Requests : Receive(r) \/ Handle(r)
         \/ \E t \in NewTokens : BeginSetToken(t)
         \/ EndSetToken
         \/ UNCHANGED vars
  BY DEF Next, AllServed

\* A handler responds once, before it is over, unless it owes no response.
LEMMA AnswerNext ==
  ASSUME HandlerInv, AnswerInv, [Next]_vars
  PROVE  AnswerInv'
<1>. TypeOK /\ ControlInv /\ ResultInv /\ AnswerInv
  BY DEF HandlerInv
<1>. USE DEF TypeOK, AnswerInv, Responds, Goto, tokenVars, registryVars,
             localVars
<1>1. ASSUME NEW r \in Requests, Receive(r) PROVE AnswerInv'
  BY <1>1 DEF Receive, ReceiveCreate, ReceiveRemove, ReceiveLookup, Accept
<1>2. ASSUME NEW r \in Requests, Handle(r) PROVE AnswerInv'
  <2>1. CASE CheckTokenSize(r)
    BY <2>1 DEF CheckTokenSize, AfterToken
  <2>2. CASE CompareToken(r)
    BY <2>2
       DEF CompareToken, AfterToken, SetResult, ControlInv, IsCreate, IsRemove,
           Creating, Removing
  <2>3. CASE BuildFails(r)
    BY <2>3 DEF BuildFails, SetResult, ControlInv, IsCreate, Creating
  <2>4. CASE Build(r)
    BY <2>4 DEF Build
  <2>5. CASE Lock(r)
    BY <2>5 DEF Lock
  <2>6. CASE Insert(r)
    BY <2>6 DEF Insert, SetResult, ControlInv, IsCreate, Creating
  <2>7. CASE Miss(r)
    BY <2>7 DEF Miss, SetResult, ControlInv
  <2>8. CASE Find(r) \/ FindToRemove(r)
    BY <2>8 DEF Find, FindToRemove
  <2>9. CASE Destroy(r) \/ CallSum(r)
    BY <2>9 DEF Destroy, CallSum, SetResult, ControlInv
  <2>10. CASE Erase(r)
    BY <2>10 DEF Erase, ControlInv, IsRemove, Removing
  <2>11. CASE CallHello(r)
    BY <2>11 DEF CallHello, ResultInv, Result
  <2>12. CASE Respond(r)
    BY <2>12 DEF Respond, AfterRespond, ResultInv, Result
  <2>13. CASE Unlock(r)
    BY <2>13 DEF Unlock, ResultInv, Result
  <2>14. CASE Return(r)
    BY <2>14 DEF Return
  <2>. QED
    BY <1>2, <2>1, <2>2, <2>3, <2>4, <2>5, <2>6, <2>7, <2>8, <2>9, <2>10,
       <2>11, <2>12, <2>13, <2>14 DEF Handle
<1>3. CASE \/ \E t \in NewTokens : BeginSetToken(t)
           \/ EndSetToken \/ UNCHANGED vars
  BY <1>3 DEF BeginSetToken, EndSetToken, vars
<1>. QED
  BY <1>1, <1>2, <1>3, StepCases

\* A backend is deleted by the step that drops the last pointer to it.
LEMMA LeakNext ==
  ASSUME HandlerInv, LeakInv, [Next]_vars
  PROVE  LeakInv'
<1>. TypeOK /\ ControlInv /\ ResultInv /\ OwnerInv /\ LeakInv
  BY DEF HandlerInv
<1>. USE DEF TypeOK, Goto, tokenVars, registryVars, localVars
<1>1. CASE /\ UNCHANGED <<m_backends, backend, deleted>>
           /\ \A b \in Requests : Inserted(b)' => Inserted(b)
  BY <1>1 DEF LeakInv, Owned
<1>2. CASE \E r \in Requests : Build(r)
  BY <1>2, ProviderAssumption
     DEF Build, LeakInv, Owned, Inserted, ControlInv, ResultInv, Undecided,
         Result, OwnerInv
<1>3. CASE \E r \in Requests : Find(r)
  BY <1>3, ProviderAssumption
     DEF Find, LeakInv, Owned, Inserted, OwnerInv, Entry, ControlInv
<1>4. CASE \E r \in Requests : Insert(r)
  <2>. PICK r \in Requests : Insert(r)
    BY <1>4
  <2>1. IsCreate(r) /\ backend[r] = r /\ ~Inserted(r) /\ sequencer_id[r] \in Ids
    BY DEF Insert, ControlInv, ResultInv, Undecided, Result, Inserted, OwnerInv
  <2>2. r \notin deleted /\ Owned(r)'
    BY <2>1 DEF Insert, OwnerInv, Owned
  <2>3. \A b \in Requests \ {r} : Inserted(b)' <=> Inserted(b)
    BY DEF Insert, Inserted, SetResult
  <2>4. deleted' = deleted \cup {b \in Requests : Owned(b) /\ ~Owned(b)'}
    BY DEF Insert, DeleteOrphans
  <2>5. \A b \in deleted : ~Owned(b)'
    BY <2>1 DEF Insert, OwnerInv, Owned
  <2>. QED
    BY <2>2, <2>3, <2>4, <2>5 DEF LeakInv
<1>5. CASE \E r \in Requests : Erase(r) \/ Return(r)
  <2>1. deleted' = deleted \cup {b \in Requests : Owned(b) /\ ~Owned(b)'}
    BY <1>5 DEF Erase, Return, DeleteOrphans
  <2>2. \A b \in Requests : Inserted(b)' <=> Inserted(b)
    BY <1>5 DEF Erase, Return, Inserted
  <2>3. \A b \in Requests : Owned(b)' => Owned(b)
    BY <1>5, ProviderAssumption DEF Erase, Return, Erased, Dropped, Owned
  <2>. QED
    BY <2>1, <2>2, <2>3 DEF LeakInv
<1>6. ASSUME NEW r \in Requests,
             ~(Build(r) \/ Find(r) \/ Insert(r) \/ Erase(r) \/ Return(r)),
             Receive(r) \/ Handle(r)
      PROVE  LeakInv'
  <2>1. UNCHANGED <<m_backends, backend, deleted>>
    BY <1>6
       DEF Receive, ReceiveCreate, ReceiveRemove, ReceiveLookup, Accept, Handle,
           CheckTokenSize, CompareToken, BuildFails, Lock, Miss, FindToRemove,
           Destroy, CallSum, CallHello, Respond, Unlock
  <2>2. CASE UNCHANGED result
    BY <1>1, <2>1, <2>2 DEF Inserted
  <2>3. CASE \E o \in Outcomes : SetResult(r, Result(o))
    BY <1>1, <2>1, <2>3 DEF Inserted, SetResult, Result
  <2>4. UNCHANGED result \/ \E o \in Outcomes : SetResult(r, Result(o))
    BY <1>6
       DEF Receive, ReceiveCreate, ReceiveRemove, ReceiveLookup, Accept, Handle,
           CheckTokenSize, CompareToken, BuildFails, Lock, Miss, FindToRemove,
           Destroy, CallSum, CallHello, Respond, Unlock, Reported, Outcomes,
           Refusals
  <2>. QED
    BY <2>2, <2>3, <2>4
<1>7. CASE \/ \E t \in NewTokens : BeginSetToken(t)
           \/ EndSetToken \/ UNCHANGED vars
  <2>1. UNCHANGED <<m_backends, backend, deleted, result>>
    BY <1>7 DEF BeginSetToken, EndSetToken, vars
  <2>. QED
    BY <1>1, <2>1 DEF Inserted
<1>. QED
  BY <1>2, <1>3, <1>4, <1>5, <1>6, <1>7, StepCases

\* IInv holds in every reachable state, whatever the constants are.
THEOREM InductiveInvariant == Spec => []IInv
<1>1. Init => AnswerInv /\ LeakInv
  BY DEF Init, AnswerInv, LeakInv, Inserted, Result
<1>2. HandlerInv /\ AnswerInv /\ LeakInv /\ [Next]_vars =>
        AnswerInv' /\ LeakInv'
  BY AnswerNext, LeakNext
<1>. QED
  BY <1>1, <1>2, HandlerInvariant, PTL DEF Spec, IInv

\* The members of the provider and the locals of its handlers keep their types.
THEOREM TypeCorrect == Spec => []TypeOK
<1>1. HandlerInv => TypeOK
  BY DEF HandlerInv
<1>. QED
  BY <1>1, HandlerInvariant, PTL

\* Every entry of m_backends leads to the live backend constructed for its id,
\* and to one destroy() ran on only until the handler that ran it erases it.
THEOREM RegistryIsSound == Spec => []RegistrySound
<1>1. ASSUME HandlerInv PROVE RegistrySound
  <2>. SUFFICES ASSUME NEW u \in Ids, m_backends[u] # None
                PROVE  /\ IsCreate(m_backends[u])
                       /\ sequencer_id[m_backends[u]] = u
                       /\ m_backends[u] \notin deleted
                       /\ m_backends[u] \in destroyed =>
                            \E r \in Requests : pc[r] = "erase"
                              /\ call[r].op = "destroy" /\ sequencer_id[r] = u
    BY DEF RegistrySound
  <2>1. IsCreate(m_backends[u]) /\ sequencer_id[m_backends[u]] = u
    BY <1>1 DEF HandlerInv, OwnerInv
  <2>2. m_backends[u] \notin deleted
    BY <1>1 DEF HandlerInv, OwnerInv, Owned
  <2>. QED
    BY <1>1, <2>1, <2>2 DEF HandlerInv, DestroyedInv
<1>. QED
  BY <1>1, HandlerInvariant, PTL

\* No close or destroy deletes a backend another handler is about to call.
THEOREM NeverUsedAfterDelete == Spec => []NoUseAfterDelete
<1>1. ASSUME HandlerInv PROVE NoUseAfterDelete
  <2>. USE <1>1 DEF HandlerInv, TypeOK, ControlInv, OwnerInv, Owned
  <2>1. ASSUME NEW r \in Requests, pc[r] = "call"
        PROVE  backend[r] \in Requests \ deleted
    BY <2>1
  <2>2. ASSUME NEW r \in Requests, pc[r] = "destroy"
        PROVE  Entry(r) \in Requests \ deleted
    BY <2>2 DEF Entry
  <2>. QED
    BY <2>1, <2>2 DEF NoUseAfterDelete
<1>. QED
  BY <1>1, HandlerInvariant, PTL

\* At most one close or destroy takes a given sequencer out of the map.
THEOREM RemovedAtMostOnce == Spec => []RemovedOnce
<1>1. HandlerInv => RemovedOnce
  BY DEF HandlerInv, LifeInv
<1>. QED
  BY <1>1, HandlerInvariant, PTL

\* An id a client was given leads to its sequencer until some close or destroy
\* took that sequencer out.
THEOREM CreatedIsRegistered == Spec => []CreatedStaysRegistered
<1>1. ASSUME HandlerInv PROVE CreatedStaysRegistered
  <2>. SUFFICES ASSUME NEW r \in Requests,
                       IsCreate(r), response[r].outcome = "ok"
                PROVE  \/ m_backends[response[r].value] = r
                       \/ \E q \in Requests :
                            Removed(q) /\ sequencer_id[q] = response[r].value
    BY DEF CreatedStaysRegistered
  <2>1. response[r] = result[r] /\ pc[r] \in {"return", "unlock", "done"}
    BY <1>1 DEF HandlerInv, TypeOK, Labels, Locked, ResultInv, Result, Undecided
  <2>2. Inserted(r) /\ pc[r] \in {"return", "done"}
    BY <1>1, <2>1 DEF HandlerInv, ControlInv, ResultInv, Refusals
  <2>3. response[r].value = sequencer_id[r]
    <3>1. result[r] = [outcome |-> "ok", value |-> sequencer_id[r]]
      BY <1>1, <2>2 DEF HandlerInv, ResultInv, Created
    <3>. QED
      BY <2>1, <3>1
  <2>. QED
    BY <1>1, <2>2, <2>3 DEF HandlerInv, LifeInv
<1>. QED
  BY <1>1, HandlerInvariant, PTL

\* An id that was closed or destroyed never leads to a sequencer again.
THEOREM RemovedIsForGood == Spec => []RemovedForGood
<1>1. HandlerInv => RemovedForGood
  BY DEF HandlerInv, LifeInv, RemovedForGood
<1>. QED
  BY <1>1, HandlerInvariant, PTL

\* A request whose check no setSecurityToken overlapped is refused exactly when
\* the token in force when it came was set and is not its own.
THEOREM TokenIsRespected == Spec => []TokenRespected
<1>1. HandlerInv => TokenRespected
  BY DEF HandlerInv, TokenInv, TokenSafe, Undisturbed, TokenRespected
<1>. QED
  BY <1>1, HandlerInvariant, PTL

\* FIND_SEQUENCER never hands out a backend that destroy() has run on: the
\* mutex excludes the only handler that could be between the two.
THEOREM LookupIsClean == Spec => LookupAvoidsDestroyed
<1>1. ASSUME HandlerInv, [Next]_vars, NEW r \in Requests,
             pc[r] = "find", backend'[r] # backend[r]
      PROVE  backend'[r] \notin destroyed
  <2>1. Find(r)
    <3>. backend \in [Requests -> Requests \cup {None}]
      BY <1>1 DEF HandlerInv, TypeOK
    <3>1. ASSUME NEW q \in Requests, Receive(q) PROVE FALSE
      BY <1>1, <3>1
         DEF Receive, ReceiveCreate, ReceiveRemove, ReceiveLookup, Accept
    <3>2. ASSUME NEW q \in Requests, Handle(q) PROVE Find(r)
      <4>1. CASE CheckTokenSize(q) \/ CompareToken(q) \/ BuildFails(q)
                   \/ Lock(q) \/ Miss(q) \/ FindToRemove(q) \/ Destroy(q)
                   \/ Erase(q) \/ CallSum(q) \/ CallHello(q) \/ Respond(q)
                   \/ Unlock(q)
        BY <1>1, <4>1
           DEF CheckTokenSize, CompareToken, BuildFails, Lock, Miss,
               FindToRemove, Destroy, Erase, CallSum, CallHello, Respond,
               Unlock
      <4>2. CASE Build(q) \/ Insert(q) \/ Return(q)
        BY <1>1, <4>2 DEF Build, Insert, Return, Dropped
      <4>3. CASE Find(q)
        BY <1>1, <4>3 DEF Find
      <4>. QED
        BY <3>2, <4>1, <4>2, <4>3 DEF Handle
    <3>3. CASE \/ \E t \in NewTokens : BeginSetToken(t)
               \/ EndSetToken \/ AllServed \/ UNCHANGED vars
      BY <1>1, <3>3 DEF BeginSetToken, EndSetToken, AllServed, vars
    <3>. QED
      BY <1>1, <3>1, <3>2, <3>3 DEF Next
  <2>2. backend'[r] = Entry(r) /\ Entry(r) # None /\ sequencer_id[r] \in Ids
    BY <1>1, <2>1 DEF Find, HandlerInv, TypeOK
  <2>3. \A q \in Requests : pc[q] # "erase"
    BY <1>1 DEF HandlerInv, MutexInv, Locked
  <2>. QED
    BY <1>1, <2>2, <2>3 DEF HandlerInv, OwnerInv, DestroyedInv, Entry
<1>2. HandlerInv /\ [Next]_vars => [\A r \in Requests :
          pc[r] = "find" /\ backend'[r] # backend[r] =>
            backend'[r] \notin destroyed]_vars
  BY <1>1
<1>. QED
  BY <1>2, HandlerInvariant, PTL DEF Spec, LookupAvoidsDestroyed

\* No handler responds twice, and none is over without the response it owes.
THEOREM AnsweredExactlyOnce == Spec => []AnsweredOnce
<1>1. ASSUME IInv, NEW r \in Requests, pc[r] \in {"respond", "respond_locked"}
      PROVE  response[r].outcome = "unsent"
  BY <1>1 DEF IInv, HandlerInv, ResultInv, Result
<1>2. ASSUME IInv, NEW r \in Requests, pc[r] = "done"
      PROVE  response[r] = IF Responds(r) THEN result[r] ELSE Result("unsent")
  BY <1>2 DEF IInv, AnswerInv
<1>3. IInv => AnsweredOnce
  BY <1>1, <1>2 DEF AnsweredOnce
<1>. QED
  BY <1>3, InductiveInvariant, PTL

\* Once the handlers under way have returned, the backends that were made and
\* are not deleted are exactly those the map leads to.
THEOREM NoBackendLeaks == Spec => []NothingLeaks
<1>1. ASSUME IInv, Quiet, NEW b \in Requests, Inserted(b)
      PROVE  b \notin deleted <=> m_backends[sequencer_id[b]] = b
  <2>. USE DEF IInv, HandlerInv, TypeOK
  <2>1. \A r \in Requests : backend[r] = None
    BY <1>1 DEF OwnerInv, Quiet
  <2>2. Owned(b) <=> \E u \in Ids : m_backends[u] = b
    BY <1>1, <2>1, ProviderAssumption DEF Owned
  <2>3. \A u \in Ids : m_backends[u] = b => u = sequencer_id[b]
    BY <1>1, ProviderAssumption DEF OwnerInv
  <2>4. b \in deleted <=> ~Owned(b)
    BY <1>1 DEF LeakInv
  <2>5. sequencer_id[b] \in Ids
    BY <1>1
  <2>. QED
    BY <2>2, <2>3, <2>4, <2>5
<1>2. IInv => NothingLeaks
  BY <1>1 DEF NothingLeaks
<1>. QED
  BY <1>2, InductiveInvariant, PTL

\* Of the handlers under way one always has a statement to run: whoever holds
\* the mutex never waits for anything.
THEOREM HandlersNeverStuck == Spec => []NeverStuck
<1>1. ASSUME IInv, NEW r \in Requests, pc[r] \notin {"idle", "done", "lock"}
      PROVE  Ready(r)
  <2>. USE DEF IInv, HandlerInv, TypeOK, ControlInv
  <2>1. CASE pc[r] = "find"
    <3>1. call[r].op \in Ops \ Creating
      BY <1>1, <2>1 DEF IsCreate
    <3>. QED
      BY <2>1, <3>1 DEF Ready, Ops, IsRemove
  <2>2. CASE pc[r] = "call"
    BY <1>1, <2>2 DEF Ready, OwnerInv
  <2>3. CASE pc[r] = "destroy"
    BY <1>1, <2>3 DEF Ready
  <2>4. CASE pc[r] \notin {"find", "call", "destroy"}
    BY <1>1, <2>4 DEF Ready, Labels, Locked
  <2>. QED
    BY <2>1, <2>2, <2>3, <2>4
<1>2. ASSUME IInv, NEW r \in Requests, pc[r] = "lock"
      PROVE  Ready(r) \/ \E h \in Requests : m_backends_mtx = h /\ Ready(h)
  <2>1. CASE m_backends_mtx = None
    BY <1>2, <2>1 DEF Ready, MutexFree
  <2>2. CASE m_backends_mtx \in Requests
    <3>1. pc[m_backends_mtx] \in Locked
      BY <1>2, <2>2 DEF IInv, HandlerInv, MutexInv
    <3>. QED
      BY <1>1, <1>2, <2>2, <3>1 DEF Locked
  <2>. QED
    BY <1>2, <2>1, <2>2 DEF IInv, HandlerInv, TypeOK
<1>3. IInv => NeverStuck
  BY <1>1, <1>2 DEF NeverStuck
<1>. QED
  BY <1>3, InductiveInvariant, PTL

\* The ranks of the labels.
LEMMA Ranks ==
  /\ Rank["idle"] = 10 /\ Rank["token"] = 9 /\ Rank["compare"] = 8
  /\ Rank["build"] = 7 /\ Rank["lock"] = 6 /\ Rank["find"] = 5
  /\ Rank["insert"] = 5 /\ Rank["destroy"] = 4 /\ Rank["erase"] = 3
  /\ Rank["call"] = 3 /\ Rank["respond_locked"] = 3 /\ Rank["respond"] = 2
  /\ Rank["unlock"] = 2 /\ Rank["return"] = 1 /\ Rank["done"] = 0
  BY DEF Rank, Labels, Locked

\* A handler only goes forward, so it is over after ten steps at most.
THEOREM HandlersGoForward == Spec => HandlersAdvance
<1>1. ASSUME HandlerInv, [Next]_vars, NEW r \in Requests, pc'[r] # pc[r]
      PROVE  Rank[pc'[r]] < Rank[pc[r]]
  <2>. USE Ranks DEF HandlerInv, TypeOK, Goto
  <2>1. ASSUME NEW q \in Requests, Receive(q) PROVE Rank[pc'[r]] < Rank[pc[r]]
    BY <1>1, <2>1
       DEF Receive, ReceiveCreate, ReceiveRemove, ReceiveLookup, Accept
  <2>2. ASSUME NEW q \in Requests, Handle(q) PROVE Rank[pc'[r]] < Rank[pc[r]]
    <3>1. CASE CheckTokenSize(q) \/ CompareToken(q)
      BY <1>1, <3>1 DEF CheckTokenSize, CompareToken, AfterToken
    <3>2. CASE BuildFails(q) \/ Build(q) \/ Lock(q) \/ Insert(q)
      BY <1>1, <3>2 DEF BuildFails, Build, Lock, Insert
    <3>3. CASE Miss(q) \/ Find(q) \/ FindToRemove(q) \/ Destroy(q) \/ Erase(q)
      BY <1>1, <3>3 DEF Miss, Find, FindToRemove, Destroy, Erase
    <3>4. CASE CallSum(q) \/ CallHello(q) \/ Respond(q) \/ Unlock(q)
                 \/ Return(q)
      BY <1>1, <3>4
         DEF CallSum, CallHello, Respond, AfterRespond, Unlock, Return
    <3>. QED
      BY <2>2, <3>1, <3>2, <3>3, <3>4 DEF Handle
  <2>3. CASE \/ \E t \in NewTokens : BeginSetToken(t)
             \/ EndSetToken \/ UNCHANGED vars
    BY <1>1, <2>3 DEF BeginSetToken, EndSetToken, vars
  <2>. QED
    BY <1>1, <2>1, <2>2, <2>3, StepCases
<1>2. HandlerInv /\ [Next]_vars =>
        [\A r \in Requests : pc'[r] # pc[r] => Rank[pc'[r]] < Rank[pc[r]]]_vars
  BY <1>1
<1>. QED
  BY <1>2, HandlerInvariant, PTL DEF Spec, HandlersAdvance
=============================================================================
