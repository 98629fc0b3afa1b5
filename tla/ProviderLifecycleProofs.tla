----------------------- MODULE ProviderLifecycleProofs -----------------------
(***************************************************************************)
(* Proofs about ProviderLifecycle, for any number of addresses, providers  *)
(* and handlers.                                                           *)
(***************************************************************************)
EXTENDS ProviderLifecycle, TLAPS

\* Whatever is moved, deleted and constructed again, the invariant holds.
THEOREM LifecycleInvariant == Spec => []LInv
<1>. USE LifecycleAssumption DEF TypeOK
<1>1. Init => LInv
  <2>. SUFFICES ASSUME Init PROVE LInv
    OBVIOUS
  <2>1. TypeOK
    BY DEF Init
  <2>2. \A a \in Addresses : ~Valid(a) /\ callbacks[a] = 0
    BY DEF Init, Valid
  <2>. QED
    BY <2>1, <2>2 DEF LInv, ValidHasCallback, OneOwner, Paired
<1>2. ASSUME LInv, [Next]_vars PROVE LInv'
  <2>. USE <1>2 DEF LInv, ValidHasCallback, OneOwner, Valid, Paired
  <2>1. ASSUME NEW a \in Addresses, NEW i \in Impls, Construct(a, i)
        PROVE  LInv'
    BY <2>1 DEF Construct, Push
  <2>2. ASSUME NEW a \in Addresses, NEW b \in Addresses, MoveConstruct(a, b)
        PROVE  LInv'
    BY <2>2 DEF MoveConstruct, Moved, Repushed, Push, Pop
  <2>3. ASSUME NEW a \in Addresses, NEW b \in Addresses, MoveEmpty(a, b)
        PROVE  LInv'
    BY <2>3 DEF MoveEmpty
  <2>4. ASSUME NEW a \in Addresses, DestroyEmpty(a) PROVE LInv'
    BY <2>4 DEF DestroyEmpty
  <2>5. ASSUME NEW a \in Addresses, Destroy(a) PROVE LInv'
    <3>1. TypeOK'
      BY <2>5 DEF Destroy, Popped, Pop
    <3>2. \A b \in Addresses \ {a} :
            callbacks'[b] = callbacks[b] /\ self'[b] = self[b]
      BY <2>5 DEF Destroy, Popped, Pop
    <3>3. /\ self'[a] = Raw /\ Raw \notin Impls
          /\ callbacks'[a] = IF callbacks[a] = 0 THEN 0 ELSE callbacks[a] - 1
          /\ UNCHANGED <<engine, made, vacated>>
      BY <2>5 DEF Destroy, Popped, Pop
    <3>. QED
      BY <2>5, <3>1, <3>2, <3>3 DEF Destroy
  <2>6. ASSUME NEW a \in Addresses, RunCallback(a) PROVE LInv'
    <3>1. TypeOK'
      BY <2>6 DEF RunCallback, Pop
    <3>2. \A b \in Addresses \ {a} :
            callbacks'[b] = callbacks[b] /\ self'[b] = self[b]
      BY <2>6 DEF RunCallback, Pop
    <3>3. /\ self'[a] \in {Null, Raw} /\ Null \notin Impls /\ Raw \notin Impls
          /\ callbacks[a] > 0 /\ callbacks'[a] = callbacks[a] - 1
          /\ UNCHANGED <<engine, made, vacated>>
      BY <2>6 DEF RunCallback, Pop
    <3>. QED
      BY <2>6, <3>1, <3>2, <3>3 DEF RunCallback
  <2>7. CASE Finalize \/ Finalized
    <3>1. TypeOK'
      BY <2>7 DEF Finalize, Finalized
    <3>2. \A a \in Addresses :
            Valid(a) => callbacks[a] > 0 /\ engine' # "finalized"
      BY <2>7 DEF Finalize, Finalized
    <3>. QED
      BY <2>7, <3>1, <3>2 DEF Finalize, Finalized
  <2>8. ASSUME NEW r \in Requests, Return(r) \/ \E i \in Impls : Receive(r, i)
        PROVE  LInv'
    <3>1. UNCHANGED <<self, callbacks, engine, made, crashed, vacated>>
      BY <2>8 DEF Receive, Return
    <3>2. serving' \in [Requests -> Impls \cup {Null}]
      BY <2>8 DEF Receive, Return
    <3>. QED
      BY <3>1, <3>2
  <2>9. CASE Over \/ UNCHANGED vars
    BY <2>9 DEF Over, vars
  <2>. QED
    BY <2>1, <2>2, <2>3, <2>4, <2>5, <2>6, <2>7, <2>8, <2>9
    DEF Next
<1>. QED
  BY <1>1, <1>2, PTL DEF Spec

\* Providers, callbacks and the handlers' implementations keep their types.
THEOREM LifecycleTypes == Spec => []TypeOK
<1>1. LInv => TypeOK
  BY DEF LInv
<1>. QED
  BY <1>1, LifecycleInvariant, PTL

\* A valid provider always has a finalize callback that will reset it.
THEOREM AlwaysReset == Spec => []ValidHasCallback
<1>1. LInv => ValidHasCallback
  BY DEF LInv
<1>. QED
  BY <1>1, LifecycleInvariant, PTL

\* A ProviderImpl never belongs to two providers.
THEOREM OwnedOnce == Spec => []OneOwner
<1>1. LInv => OneOwner
  BY DEF LInv
<1>. QED
  BY <1>1, LifecycleInvariant, PTL

\* A callback that dangles points to where a provider was moved from.
THEOREM DanglingOnlyWhereMoved == Spec => []DanglesOnlyWhereMoved
<1>1. LInv => DanglesOnlyWhereMoved
  <2>. SUFFICES ASSUME LInv, NEW a \in Addresses \ vacated, self[a] = Raw
                PROVE  ~(callbacks[a] > 0)
    BY DEF DanglesOnlyWhereMoved
  <2>1. ~Valid(a)
    BY LifecycleAssumption DEF Valid
  <2>. QED
    BY <2>1 DEF LInv, Paired
<1>. QED
  BY <1>1, LifecycleInvariant, PTL
=============================================================================
