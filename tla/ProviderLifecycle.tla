-------------------------- MODULE ProviderLifecycle --------------------------
(***************************************************************************)
(* Provider objects, the ProviderImpl each of them owns, and the callback  *)
(* each pushes so that the engine, when it is finalized, resets it.        *)
(*                                                                         *)
(* The callback captures the object's address, `[p=this]`, and an address  *)
(* outlives its object: an object can be moved (a vector of providers that *)
(* grows) or destroyed, and another one constructed where it stood.        *)
(***************************************************************************)
EXTENDS Naturals

CONSTANTS
  Addresses,  \* where a Provider may be constructed
  Impls,      \* the ProviderImpl objects ever made (a bound on their number)
  Requests,   \* the handlers that may be in flight at the same time
  Uses,       \* what the owner does to a valid provider: "move", "delete"
  Null,       \* an empty shared_ptr
  Raw         \* memory in which no Provider lives

ASSUME LifecycleAssumption ==
  /\ Null \notin Impls /\ Raw \notin Impls /\ Null # Raw
  /\ Uses \subseteq {"move", "delete"}

VARIABLES
  self,       \* address -> the ProviderImpl of the Provider there, Null or Raw
  callbacks,  \* address -> how many finalize callbacks point to it
  engine,     \* the engine: running, finalizing or finalized
  made,       \* the ProviderImpl objects constructed so far
  serving,    \* handler -> the ProviderImpl whose `this` it uses, or Null
  crashed,    \* a callback or a move used what is not there
  vacated     \* history: the addresses that providers were moved from

vars == <<self, callbacks, engine, made, serving, crashed, vacated>>

Valid(a) == self[a] \in Impls
Alive(i) == \E a \in Addresses : self[a] = i

Init ==
  /\ self      = [a \in Addresses |-> Raw]
  /\ callbacks = [a \in Addresses |-> 0]
  /\ engine    = "running"
  /\ made      = {}
  /\ serving   = [r \in Requests |-> Null]
  /\ crashed   = FALSE
  /\ vacated   = {}

-----------------------------------------------------------------------------
(* thallium's stack of callbacks, by owner: pop takes the last one pushed  *)
(* by that owner, and does nothing when there is none.                     *)

Push(cb, a) == [cb EXCEPT ![a] = @ + 1]
Pop(cb, a) == IF cb[a] = 0 THEN cb ELSE [cb EXCEPT ![a] = @ - 1]

-----------------------------------------------------------------------------
\* Provider(engine, provider_id, config, pool)
Construct(a, i) ==
  /\ engine = "running" /\ ~crashed
  /\ self[a] = Raw
  /\ i \notin made
  /\ self' = [self EXCEPT ![a] = i]
  /\ callbacks' = Push(callbacks, a)
  /\ made' = made \cup {i}
  /\ UNCHANGED <<engine, serving, crashed, vacated>>

\* Provider(Provider&& other), of a valid provider at b into one at a.  The
\* callback that is popped is the one of `this`, not the one of `other`.
PushForgotten(a, b) == Pop(callbacks, a)  \* Mutant: the new one is not pushed.
Repushed(a, b) == Push(Pop(callbacks, a), a)
Copied(a, b) == [self EXCEPT ![a] = self[b]]  \* Mutant: a copy, not a move.
Moved(a, b) == [self EXCEPT ![a] = self[b], ![b] = Null]
MoveConstruct(a, b) ==
  /\ "move" \in Uses
  /\ engine = "running" /\ ~crashed
  /\ self[a] = Raw
  /\ Valid(b)
  /\ self' = Moved(a, b)
  /\ callbacks' = Repushed(a, b)
  /\ vacated' = vacated \cup {b}
  /\ UNCHANGED <<engine, made, serving, crashed>>

\* The move constructor asks other.self for its engine whatever it holds:
\* moving from an empty provider dereferences a null pointer.
MoveEmpty(a, b) ==
  /\ "move" \in Uses
  /\ engine # "finalizing" /\ ~crashed
  /\ self[a] = Raw
  /\ self[b] = Null
  /\ crashed' = TRUE
  /\ UNCHANGED <<self, callbacks, engine, made, serving, vacated>>

\* ~Provider() of a provider whose implementation moved on or was reset.
DestroyEmpty(a) ==
  /\ engine # "finalizing" /\ ~crashed
  /\ self[a] = Null
  /\ self' = [self EXCEPT ![a] = Raw]
  /\ UNCHANGED <<callbacks, engine, made, serving, crashed, vacated>>

\* ~Provider() of a valid provider, as by bedrock's deregisterProvider.
KeepsCallback(a) == callbacks  \* Mutant: the destructor pops nothing.
Popped(a) == Pop(callbacks, a)
Destroy(a) ==
  /\ "delete" \in Uses
  /\ engine = "running" /\ ~crashed
  /\ Valid(a)
  /\ self' = [self EXCEPT ![a] = Raw]
  /\ callbacks' = Popped(a)
  /\ UNCHANGED <<engine, made, serving, crashed, vacated>>

-----------------------------------------------------------------------------
(* The engine.  It finalizes once no handler is in flight, and runs the    *)
(* callbacks that are left; in which order makes no difference here.       *)

NoHandlers == \A r \in Requests : serving[r] = Null
Finalize ==
  /\ engine = "running" /\ ~crashed
  /\ NoHandlers
  /\ engine' = "finalizing"
  /\ UNCHANGED <<self, callbacks, made, serving, crashed, vacated>>

\* [p=this]() { p->self.reset(); }
RunCallback(a) ==
  /\ engine = "finalizing" /\ ~crashed
  /\ callbacks[a] > 0
  /\ callbacks' = Pop(callbacks, a)
  /\ crashed' = (self[a] = Raw)
  /\ self' = IF self[a] = Raw THEN self ELSE [self EXCEPT ![a] = Null]
  /\ UNCHANGED <<engine, made, serving, vacated>>

Finalized ==
  /\ engine = "finalizing" /\ ~crashed
  /\ \A a \in Addresses : callbacks[a] = 0
  /\ engine' = "finalized"
  /\ UNCHANGED <<self, callbacks, made, serving, crashed, vacated>>

\* A handler starts on the ProviderImpl that defined its RPC, by raw pointer.
Receive(r, i) ==
  /\ engine = "running" /\ ~crashed
  /\ serving[r] = Null
  /\ Alive(i)
  /\ serving' = [serving EXCEPT ![r] = i]
  /\ UNCHANGED <<self, callbacks, engine, made, crashed, vacated>>

Return(r) ==
  /\ serving[r] # Null /\ ~crashed
  /\ serving' = [serving EXCEPT ![r] = Null]
  /\ UNCHANGED <<self, callbacks, engine, made, crashed, vacated>>

\* The process is over, one way or the other.
Over ==
  /\ \/ crashed
     \/ engine = "finalized" /\ \A a \in Addresses : self[a] # Null
  /\ UNCHANGED vars

Next ==
  \/ \E a \in Addresses, i \in Impls : Construct(a, i)
  \/ \E a, b \in Addresses : MoveConstruct(a, b) \/ MoveEmpty(a, b)
  \/ \E a \in Addresses : DestroyEmpty(a) \/ Destroy(a) \/ RunCallback(a)
  \/ Finalize \/ Finalized
  \/ \E r \in Requests, i \in Impls : Receive(r, i)
  \/ \E r \in Requests : Return(r)
  \/ Over

Spec == Init /\ [][Next]_vars

\* margo_finalize runs the callbacks that are left and ends.
FairSpec ==
  /\ Spec
  /\ \A a \in Addresses : WF_vars(RunCallback(a))
  /\ WF_vars(Finalized)

-----------------------------------------------------------------------------
(***************************************************************************)
(* The types of the objects, the callbacks and the handlers' pointers.     *)
(***************************************************************************)
TypeOK ==
  /\ self \in [Addresses -> Impls \cup {Null, Raw}]
  /\ callbacks \in [Addresses -> Nat]
  /\ engine \in {"running", "finalizing", "finalized"}
  /\ made \subseteq Impls
  /\ serving \in [Requests -> Impls \cup {Null}]
  /\ crashed \in BOOLEAN
  /\ vacated \subseteq Addresses

(***************************************************************************)
(* A valid provider always has a callback of its own, whatever was moved,  *)
(* destroyed and constructed at its address before: so none is left when   *)
(* the engine is finalized, its RPCs registered with an engine that is no  *)
(* more.                                                                   *)
(***************************************************************************)
ValidHasCallback == \A a \in Addresses :
  Valid(a) => callbacks[a] > 0 /\ engine # "finalized"

(***************************************************************************)
(* One Provider owns a ProviderImpl at a time: a move leaves its source    *)
(* empty, so no two finalize callbacks and destructors reset the same one. *)
(***************************************************************************)
OneOwner == \A a, b \in Addresses :
  Valid(a) /\ self[a] = self[b] => a = b

(***************************************************************************)
(* Every finalize callback points to a Provider that still exists.         *)
(***************************************************************************)
CallbackFindsProvider == \A a \in Addresses :
  callbacks[a] > 0 => self[a] # Raw

(***************************************************************************)
(* One that does not points to where a provider was moved from, however    *)
(* many are deleted and constructed again there or elsewhere (bedrock only *)
(* makes and deletes them).  The move constructor pops the callback of     *)
(* `this` and leaves the one of `other`.                                   *)
(***************************************************************************)
DanglesOnlyWhereMoved == \A a \in Addresses :
  callbacks[a] > 0 /\ self[a] = Raw => a \in vacated

\* Where no provider was moved from, the valid ones have one callback each
\* and the others none.
Paired == \A a \in Addresses \ vacated :
  callbacks[a] = IF Valid(a) THEN 1 ELSE 0

(***************************************************************************)
(* The inductive invariant: with the properties above, an implementation   *)
(* that is owned was made, so that no constructor makes it again.          *)
(***************************************************************************)
LInv ==
  /\ TypeOK
  /\ ValidHasCallback
  /\ OneOwner
  /\ \A a \in Addresses : Valid(a) => self[a] \in made
  /\ Paired

(***************************************************************************)
(* An engine that starts to finalize when no callback dangles comes to its *)
(* end, and has reset every provider by then, moved ones included.         *)
(***************************************************************************)
FinalizeResets ==
  engine = "finalizing" /\ ~crashed /\ CallbackFindsProvider
    ~> engine = "finalized" /\ \A a \in Addresses : ~Valid(a)
=============================================================================
