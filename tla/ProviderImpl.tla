----------------------------- MODULE ProviderImpl -----------------------------
(***************************************************************************)
(* The server side of mobject: ProviderImpl and its RPC handlers.          *)
(*                                                                         *)
(* Every RPC runs its handler in a user-level thread of the provider's     *)
(* pool, so handlers interleave between any two accesses to what they      *)
(* share: the map m_backends (under m_backends_mtx), the token (under      *)
(* nothing) and the backends themselves (through shared_ptr).  One action  *)
(* is one such access; the local work of a handler rides along with it.    *)
(*                                                                         *)
(* A handler and its request have one name.  A backend is named by the     *)
(* create or open request whose handler constructed it, so "the backend of *)
(* another request" can be told apart from "the backend of this id".       *)
(***************************************************************************)
CONSTANTS
  Requests,        \* the RPCs the provider receives (a bound on their number)
  UUIDs,           \* what UUID::generate may return (at least one per create)
  NilUUID,         \* UUID(): never generated, yet a client may send it
  Tokens,          \* security tokens, NoToken among them
  NoToken,         \* the empty string
  NewTokens,       \* the tokens setSecurityToken may be called with
  BackendResults,  \* what Backend::destroy and computeSum may report
  Rpcs,            \* the RPCs clients send, a subset of the seven defined
  None             \* the null pointer, the free mutex, no token being set

Creating == {"create", "open"}
Removing == {"close", "destroy"}
Looking  == {"check", "hello", "sum"}
Ops      == Creating \cup Removing \cup Looking
Ids      == UUIDs \cup {NilUUID}

ASSUME ProviderAssumption ==
  /\ NilUUID \notin UUIDs
  /\ None \notin Requests \cup Tokens
  /\ NoToken \in Tokens
  /\ NewTokens \subseteq Tokens
  /\ BackendResults \subseteq BOOLEAN
  /\ BackendResults # {}
  /\ Rpcs \subseteq Ops

(***************************************************************************)
(* A RequestResult: "ok" is success() = true, every other outcome stands   *)
(* for success() = false with its own error string.                        *)
(***************************************************************************)
Refusals  == {"bad_token", "bad_json", "backend_threw", "unknown_type"}
Outcomes  == Refusals \cup {"ok", "failed", "not_found", "unsent"}
Results   == [outcome : Outcomes, value : Ids]
Result(o) == [outcome |-> o, value |-> NilUUID]

\* The places where a handler can be overtaken by another one.
Locked == {"insert", "find", "destroy", "erase", "respond_locked", "unlock"}
Labels == {"idle", "token", "compare", "build", "lock", "call", "respond",
           "return", "done"} \cup Locked

VARIABLES
  m_token, settingToken,       \* the token; the one being assigned, or None
  m_backends, m_backends_mtx,  \* UUID -> backend (None: no entry); the holder
  destroyed, deleted,          \* backends destroy() ran on; ~Backend() ran on
  pc, call,                    \* where each handler is; its arguments
  sequencer_id,                \* the id it generated, or was sent
  backend,                     \* its unique_ptr or shared_ptr to a backend
  result, response,            \* its RequestResult; what it passed to respond
  inForce                      \* history: the token when the request came,
                               \* None once an assignment overlaps its check

tokenVars    == <<m_token, settingToken>>
registryVars == <<m_backends, destroyed>>
localVars    == <<call, sequencer_id, inForce>>
vars == <<tokenVars, registryVars, localVars, m_backends_mtx, deleted, pc,
          backend, result, response>>

Init ==
  /\ m_token        = NoToken
  /\ settingToken   = None
  /\ m_backends     = [u \in Ids |-> None]
  /\ m_backends_mtx = None
  /\ destroyed      = {}
  /\ deleted        = {}
  /\ pc             = [r \in Requests |-> "idle"]
  /\ call           = [r \in Requests |-> [op |-> "none", token |-> NoToken]]
  /\ sequencer_id   = [r \in Requests |-> NilUUID]
  /\ backend        = [r \in Requests |-> None]
  /\ result         = [r \in Requests |-> Result("ok")]
  /\ response       = [r \in Requests |-> Result("unsent")]
  /\ inForce        = [r \in Requests |-> None]

Goto(r, l)   == pc' = [pc EXCEPT ![r] = l]
SetResult(r, res) == result' = [result EXCEPT ![r] = res]
IsCreate(r)  == call[r].op \in Creating
IsRemove(r)  == call[r].op \in Removing
Entry(r)     == m_backends[sequencer_id[r]]

\* Mutant: the map holds a unique_ptr and handlers take raw pointers.
OwnedByMapOnly(b) == \E u \in Ids : m_backends[u] = b

\* std::shared_ptr and std::unique_ptr: a backend lives while the map or a
\* handler points to it; the step that drops its last owner deletes it.
Owned(b) ==
  \/ \E u \in Ids : m_backends[u] = b
  \/ \E r \in Requests : backend[r] = b
DeleteOrphans ==
  deleted' = deleted \cup {b \in Requests : Owned(b) /\ ~Owned(b)'}

(***************************************************************************)
(* UUID::generate never repeats itself (122 random bits), and a client can *)
(* only name an id some response told it, or make up one nobody has.       *)
(***************************************************************************)
FreshIdsRepeat == UUIDs  \* Mutant: a generator that may repeat itself.
FreshIds == UUIDs \ {sequencer_id[q] : q \in {p \in Requests : IsCreate(p)}}
KnownIds == {NilUUID} \cup
  {response[q].value : q \in {p \in Requests : IsCreate(p)}}

-----------------------------------------------------------------------------
(***************************************************************************)
(* Provider::setSecurityToken assigns m_token without any lock.  A handler *)
(* reading it meanwhile races with the assignment and may see anything.    *)
(***************************************************************************)
TokenReads == IF settingToken = None THEN {m_token} ELSE Tokens
Checking   == {r \in Requests : pc[r] \in {"token", "compare"}}

BeginSetToken(t) ==
  /\ settingToken = None
  /\ settingToken' = t
  /\ inForce' = [r \in Requests |-> IF r \in Checking THEN None ELSE inForce[r]]
  /\ UNCHANGED <<m_token, registryVars, call, sequencer_id, m_backends_mtx,
                 deleted, pc, backend, result, response>>

EndSetToken ==
  /\ settingToken # None
  /\ m_token' = settingToken
  /\ settingToken' = None
  /\ UNCHANGED <<registryVars, localVars, m_backends_mtx, deleted, pc,
                 backend, result, response>>

-----------------------------------------------------------------------------
(* The handlers.                                                           *)

Accept(r, o, t, id) ==
  /\ pc[r] = "idle"
  /\ call' = [call EXCEPT ![r] = [op |-> o, token |-> t]]
  /\ sequencer_id' = [sequencer_id EXCEPT ![r] = id]
  /\ inForce' = [inForce EXCEPT ![r] =
                   IF settingToken = None THEN m_token ELSE None]
  /\ UNCHANGED <<tokenVars, registryVars, m_backends_mtx, deleted, backend,
                 result, response>>

\* createSequencer and openSequencer: the id is generated before any check.
ReceiveCreate(r) ==
  \E o \in Creating \cap Rpcs, t \in Tokens, u \in FreshIds :
    Accept(r, o, t, u) /\ Goto(r, "token")

\* closeSequencer and destroySequencer.
ReceiveRemove(r) ==
  \E o \in Removing \cap Rpcs, t \in Tokens, id \in KnownIds :
    Accept(r, o, t, id) /\ Goto(r, "token")

\* checkSequencer, sayHello and computeSum carry no token.
ReceiveLookup(r) ==
  \E o \in Looking \cap Rpcs, id \in KnownIds :
    Accept(r, o, NoToken, id) /\ Goto(r, "lock")

\* m_token.size() > 0 && ...
AfterToken(r) == IF IsCreate(r) THEN "build" ELSE "lock"
CheckTokenSize(r) ==
  /\ pc[r] = "token"
  /\ \E seen \in TokenReads :
       Goto(r, IF seen = NoToken THEN AfterToken(r) ELSE "compare")
  /\ UNCHANGED <<tokenVars, registryVars, localVars, m_backends_mtx, deleted,
                 backend, result, response>>

\* ... m_token != token
MatchesAnything(r, seen) == TRUE  \* Mutant: the comparison is dropped.
Matches(r, seen) == seen = call[r].token
CompareToken(r) ==
  /\ pc[r] = "compare"
  /\ \E seen \in TokenReads :
       \/ /\ Matches(r, seen)
          /\ Goto(r, AfterToken(r))
          /\ UNCHANGED result
       \/ /\ ~Matches(r, seen)
          /\ SetResult(r, Result("bad_token"))
          /\ Goto(r, "respond")
  /\ UNCHANGED <<tokenVars, registryVars, localVars, m_backends_mtx, deleted,
                 backend, response>>

\* json::parse and SequencerFactory::createSequencer or openSequencer, which
\* may throw, or know no such type.
BuildFails(r) ==
  /\ pc[r] = "build"
  /\ \E o \in {"bad_json", "backend_threw", "unknown_type"} :
       SetResult(r, Result(o))
  /\ Goto(r, "respond")
  /\ UNCHANGED <<tokenVars, registryVars, localVars, m_backends_mtx, deleted,
                 backend, response>>

Build(r) ==
  /\ pc[r] = "build"
  /\ backend' = [backend EXCEPT ![r] = r]
  /\ Goto(r, "lock")
  /\ UNCHANGED <<tokenVars, registryVars, localVars, m_backends_mtx, deleted,
                 result, response>>

\* std::lock_guard<tl::mutex> lock(m_backends_mtx)
MutexIgnored == TRUE  \* Mutant: the lock_guard is dropped.
MutexFree == m_backends_mtx = None
Lock(r) ==
  /\ pc[r] = "lock"
  /\ MutexFree
  /\ m_backends_mtx' = r
  /\ Goto(r, IF IsCreate(r) THEN "insert" ELSE "find")
  /\ UNCHANGED <<tokenVars, registryVars, localVars, deleted, backend, result,
                 response>>

\* The map takes the backend over; the lock ends with the scope.
CreatedNotId(r) == [outcome |-> "ok", value |-> backend[r]]  \* Mutant.
Created(r) == [outcome |-> "ok", value |-> sequencer_id[r]]
Insert(r) ==
  /\ pc[r] = "insert"
  /\ m_backends' = [m_backends EXCEPT ![sequencer_id[r]] = backend[r]]
  /\ backend' = [backend EXCEPT ![r] = None]
  /\ DeleteOrphans
  /\ SetResult(r, Created(r))
  /\ m_backends_mtx' = None
  /\ Goto(r, "respond")
  /\ UNCHANGED <<tokenVars, destroyed, localVars, response>>

\* Every handler that misses its id responds before it releases the mutex.
Miss(r) ==
  /\ pc[r] = "find"
  /\ Entry(r) = None
  /\ SetResult(r, Result("not_found"))
  /\ Goto(r, "respond_locked")
  /\ UNCHANGED <<tokenVars, registryVars, localVars, m_backends_mtx, deleted,
                 backend, response>>

\* FIND_SEQUENCER: copy the shared_ptr and release the mutex.
Find(r) ==
  /\ pc[r] = "find"
  /\ call[r].op \in Looking
  /\ Entry(r) # None
  /\ backend' = [backend EXCEPT ![r] = Entry(r)]
  /\ m_backends_mtx' = None
  /\ Goto(r, IF call[r].op = "check" THEN "respond" ELSE "call")
  /\ UNCHANGED <<tokenVars, registryVars, localVars, deleted, result, response>>

\* m_backends.count(sequencer_id) is not 0; the mutex is kept.
FindToRemove(r) ==
  /\ pc[r] = "find"
  /\ IsRemove(r)
  /\ Entry(r) # None
  /\ Goto(r, IF call[r].op = "destroy" THEN "destroy" ELSE "erase")
  /\ UNCHANGED <<tokenVars, registryVars, localVars, m_backends_mtx, deleted,
                 backend, result, response>>

\* result = m_backends[sequencer_id]->destroy(), whatever it reports.
Reported(res) == Result(IF res THEN "ok" ELSE "failed")
Destroy(r) ==
  /\ pc[r] = "destroy"
  /\ destroyed' = destroyed \cup {Entry(r)}
  /\ \E res \in BackendResults : SetResult(r, Reported(res))
  /\ Goto(r, "erase")
  /\ UNCHANGED <<tokenVars, m_backends, localVars, m_backends_mtx, deleted,
                 backend, response>>

\* m_backends.erase(sequencer_id) and the end of the lock's scope.
ErasedNot(id) == m_backends  \* Mutant: the erase is forgotten.
Erased(id) == [m_backends EXCEPT ![id] = None]
Erase(r) ==
  /\ pc[r] = "erase"
  /\ m_backends' = Erased(sequencer_id[r])
  /\ UNCHANGED backend
  /\ DeleteOrphans
  /\ m_backends_mtx' = None
  /\ Goto(r, "respond")
  /\ UNCHANGED <<tokenVars, destroyed, localVars, result, response>>

\* sequencer->computeSum(x, y) and sequencer->sayHello(), outside the mutex;
\* a hello that found its sequencer is never responded to.
CallSum(r) ==
  /\ pc[r] = "call"
  /\ call[r].op = "sum"
  /\ \E res \in BackendResults : SetResult(r, Reported(res))
  /\ Goto(r, "respond")
  /\ UNCHANGED <<tokenVars, registryVars, localVars, m_backends_mtx, deleted,
                 backend, response>>

CallHello(r) ==
  /\ pc[r] = "call"
  /\ call[r].op = "hello"
  /\ Goto(r, "return")
  /\ UNCHANGED <<tokenVars, registryVars, localVars, m_backends_mtx, deleted,
                 backend, result, response>>

\* A respond under the mutex is followed by the end of the lock's scope.
AfterRespondKeeps(r) == "return"  \* Mutant: the early return keeps the mutex.
AfterRespondAgain(r) ==            \* Mutant: the early return is missing.
  IF pc[r] = "respond" THEN "return" ELSE "respond"
AfterRespond(r) == IF pc[r] = "respond" THEN "return" ELSE "unlock"
Respond(r) ==
  /\ pc[r] \in {"respond", "respond_locked"}
  /\ response' = [response EXCEPT ![r] = result[r]]
  /\ Goto(r, AfterRespond(r))
  /\ UNCHANGED <<tokenVars, registryVars, localVars, m_backends_mtx, deleted,
                 backend, result>>

Unlock(r) ==
  /\ pc[r] = "unlock"
  /\ m_backends_mtx' = None
  /\ Goto(r, "return")
  /\ UNCHANGED <<tokenVars, registryVars, localVars, deleted, backend, result,
                 response>>

\* The handler returns: its pointer goes out of scope, after the response.
DroppedNot(r) == backend  \* Mutant: the pointer is kept.
Dropped(r) == [backend EXCEPT ![r] = None]
Return(r) ==
  /\ pc[r] = "return"
  /\ backend' = Dropped(r)
  /\ UNCHANGED m_backends
  /\ DeleteOrphans
  /\ Goto(r, "done")
  /\ UNCHANGED <<tokenVars, destroyed, localVars, m_backends_mtx, result,
                 response>>
-----------------------------------------------------------------------------
Receive(r) == ReceiveCreate(r) \/ ReceiveRemove(r) \/ ReceiveLookup(r)

\* What the handler's thread does once the RPC has reached the provider.
Handle(r) ==
  \/ CheckTokenSize(r) \/ CompareToken(r)
  \/ BuildFails(r) \/ Build(r)
  \/ Lock(r) \/ Insert(r) \/ Miss(r) \/ Find(r) \/ FindToRemove(r)
  \/ Destroy(r) \/ Erase(r)
  \/ CallSum(r) \/ CallHello(r)
  \/ Respond(r) \/ Unlock(r) \/ Return(r)

\* The provider idles once the requests of the instance are served.
AllServed == (\A r \in Requests : pc[r] = "done") /\ UNCHANGED vars

Next ==
  \/ \E r \in Requests : Receive(r) \/ Handle(r)
  \/ \E t \in NewTokens : BeginSetToken(t)
  \/ EndSetToken
  \/ AllServed

Spec == Init /\ [][Next]_vars

\* Argobots schedules every runnable handler, and a response it sends
\* completes.  With finitely many requests the mutex is eventually left to
\* each handler that waits for it, so weak fairness is enough.
FairSpec == Spec /\ \A r \in Requests : WF_vars(Handle(r))

-----------------------------------------------------------------------------
(* What the handlers keep.                                                 *)

(***************************************************************************)
(* The types of the provider's members and of the handlers' locals.        *)
(***************************************************************************)
TypeOK ==
  /\ m_token \in Tokens
  /\ settingToken \in Tokens \cup {None}
  /\ m_backends \in [Ids -> Requests \cup {None}]
  /\ m_backends_mtx \in Requests \cup {None}
  /\ destroyed \subseteq Requests
  /\ deleted \subseteq Requests
  /\ pc \in [Requests -> Labels]
  /\ call \in [Requests -> [op : Ops \cup {"none"}, token : Tokens]]
  /\ sequencer_id \in [Requests -> Ids]
  /\ backend \in [Requests -> Requests \cup {None}]
  /\ result \in [Requests -> Results]
  /\ response \in [Requests -> Results]
  /\ inForce \in [Requests -> Tokens \cup {None}]

\* A close or destroy that took its sequencer out of the map.
Removed(r) ==
  /\ IsRemove(r)
  /\ pc[r] \in {"respond", "return", "done"}
  /\ result[r].outcome \in {"ok", "failed"}

(***************************************************************************)
(* Every entry of m_backends leads from an id to the backend constructed   *)
(* for that id, alive, and destroy() has run on it only while the handler  *)
(* that ran it still holds the mutex and is about to erase the entry.      *)
(***************************************************************************)
RegistrySound == \A u \in Ids : m_backends[u] # None =>
  LET b == m_backends[u] IN
  /\ IsCreate(b) /\ sequencer_id[b] = u
  /\ b \notin deleted
  /\ b \in destroyed => \E r \in Requests :
       pc[r] = "erase" /\ call[r].op = "destroy" /\ sequencer_id[r] = u

(***************************************************************************)
(* The backend a handler is about to call exists: no erase, by whichever   *)
(* close or destroy overtakes the call, deletes it under the handler.      *)
(***************************************************************************)
NoUseAfterDelete ==
  /\ \A r \in Requests : pc[r] = "call" => backend[r] \in Requests \ deleted
  /\ \A r \in Requests : pc[r] = "destroy" => Entry(r) \in Requests \ deleted

(***************************************************************************)
(* Of all the close and destroy requests for one id, at most one takes the *)
(* sequencer out; the others are told it was not found.                    *)
(***************************************************************************)
RemovedOnce == \A r, q \in Requests :
  Removed(r) /\ Removed(q) /\ sequencer_id[r] = sequencer_id[q] => r = q

(***************************************************************************)
(* An id a client was given leads to the sequencer made for it until some  *)
(* close or destroy took that sequencer out.                               *)
(***************************************************************************)
CreatedStaysRegistered == \A r \in Requests :
  IsCreate(r) /\ response[r].outcome = "ok" =>
    LET u == response[r].value IN
    \/ m_backends[u] = r
    \/ \E q \in Requests : Removed(q) /\ sequencer_id[q] = u

(***************************************************************************)
(* An id that was closed or destroyed never leads to a sequencer again.    *)
(***************************************************************************)
RemovedForGood == \A r \in Requests :
  Removed(r) => m_backends[sequencer_id[r]] = None

(***************************************************************************)
(* A request whose token check no setSecurityToken overlapped is refused   *)
(* exactly when the token in force when it came was set and is not its own.*)
(***************************************************************************)
TokenRespected == \A r \in Requests :
  /\ IsCreate(r) \/ IsRemove(r)
  /\ inForce[r] # None
  /\ r \notin Checking
  => (result[r].outcome = "bad_token"
        <=> inForce[r] \notin {NoToken, call[r].token})

(***************************************************************************)
(* FIND_SEQUENCER never hands out a backend that destroy() has run on: a   *)
(* call on a destroyed backend can only come from a handler that had found *)
(* it before.                                                              *)
(***************************************************************************)
LookupAvoidsDestroyed == [][\A r \in Requests :
  pc[r] = "find" /\ backend'[r] # backend[r] =>
    backend'[r] \notin destroyed]_vars

\* The response of a request has been sent, or it is a hello that is over.
Answered(r) ==
  \/ response[r].outcome # "unsent"
  \/ call[r].op = "hello" /\ pc[r] = "done"

(***************************************************************************)
(* Every RPC that reaches the provider is answered: no handler is left     *)
(* waiting for m_backends_mtx by another one's early return.               *)
(***************************************************************************)
EveryRequestAnswered == \A r \in Requests : (pc[r] # "idle") ~> Answered(r)

(***************************************************************************)
(* A sequencer that was closed or destroyed is eventually deleted, once    *)
(* the handlers that had found it before have returned.                    *)
(***************************************************************************)
RemovedIsDeleted == \A b \in Requests :
  (IsCreate(b) /\ \E q \in Requests :
      Removed(q) /\ sequencer_id[q] = sequencer_id[b]) ~> (b \in deleted)

(***************************************************************************)
(* A destroySequencer that reports failure leaves the sequencer registered *)
(* (what the answer and Backend::destroy's comment say; the code erases).  *)
(***************************************************************************)
FailedDestroyKeepsSequencer == \A r \in Requests :
  call[r].op = "destroy" /\ response[r].outcome = "failed" => Entry(r) # None

\* Every RPC but sayHello responds, and sayHello when it misses its sequencer.
Responds(r) == call[r].op = "hello" => result[r].outcome # "ok"

(***************************************************************************)
(* No handler responds twice, on whichever of its returns, and none is over*)
(* without the response it owes, which says what the request did; a hello  *)
(* that found its sequencer sends none.                                    *)
(***************************************************************************)
AnsweredOnce == \A r \in Requests :
  /\ pc[r] \in {"respond", "respond_locked"} => response[r].outcome = "unsent"
  /\ pc[r] = "done" => response[r] =
       IF Responds(r) THEN result[r] ELSE Result("unsent")

-----------------------------------------------------------------------------
(***************************************************************************)
(* The handlers implement SequencerRegistry.  A request takes effect when  *)
(* it inserts, erases or finds its entry, when it misses it, or when it is *)
(* refused; the client learns of it when the handler responds.             *)
(***************************************************************************)
Decided(r) == pc[r] \in {"call", "respond", "respond_locked", "unlock",
                         "return", "done"}
VerdictOf(res) ==
  IF res.outcome \in Refusals THEN "refused"
  ELSE IF res.outcome = "not_found" THEN "not_found"
  ELSE IF res.outcome = "unsent" THEN "undecided" ELSE "performed"

liveBar    == {u \in Ids : m_backends[u] # None}
opBar      == [r \in Requests |-> call[r].op]
verdictBar == [r \in Requests |->
                 IF Decided(r) THEN VerdictOf(result[r]) ELSE "undecided"]
targetBar  == [r \in Requests |->
                 IF IsCreate(r) THEN result[r].value ELSE sequencer_id[r]]
answerBar  == [r \in Requests |-> VerdictOf(response[r])]

Registry == INSTANCE SequencerRegistry WITH
  live <- liveBar, op <- opBar, target <- targetBar,
  verdict <- verdictBar, answer <- answerBar

(***************************************************************************)
(* Every RPC takes effect atomically between its arrival and its response. *)
(***************************************************************************)
Linearizable == Registry!Spec
=============================================================================
