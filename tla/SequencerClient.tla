--------------------------- MODULE SequencerClient ---------------------------
(***************************************************************************)
(* mobject from end to end: the users of Admin, Client and SequencerHandle *)
(* and a provider that keeps the promise of SequencerRegistry (ProviderImpl*)
(* implements it).  What a user sees of an RPC is that a function returns  *)
(* or throws; several users share sequencers by passing on their ids.      *)
(*                                                                         *)
(* An operation is named by its RPC.  An operation that sends none (a      *)
(* handle made without a check) only changes what its user holds.          *)
(***************************************************************************)
CONSTANTS
  Users,           \* the threads that call Admin and SequencerHandle
  Requests,        \* the RPCs they send (a bound on their number)
  UUIDs, NilUUID,  \* as in SequencerRegistry
  None,            \* an empty SequencerHandle; no RPC
  BackendResults,  \* what Backend::destroy and computeSum may report
  Rpcs             \* the RPCs users send, a subset of the seven there are

ASSUME ClientAssumption ==
  /\ NilUUID \notin UUIDs
  /\ None \notin UUIDs \cup {NilUUID} \cup Requests
  /\ BackendResults \subseteq BOOLEAN
  /\ Rpcs \subseteq {"create", "open", "close", "destroy",
                    "check", "hello", "sum"}

VARIABLES
  live, op, target, verdict, answer,  \* the registry the provider keeps
  handle,    \* the id in each user's SequencerHandle, None if it is empty
  waiting,   \* the RPC each user is blocked in, or None
  requests,  \* the asynchronous RPCs each user has not waited for
  outcome,   \* how each operation ended
  known,     \* the ids that createSequencer or openSequencer returned
  gone       \* history: the operations on what was not open when they began

registry == <<live, op, target, verdict, answer>>
users == <<handle, waiting, requests, outcome, known, gone>>
vars == <<registry, users>>

Registry == INSTANCE SequencerRegistry

Init ==
  /\ Registry!Init
  /\ handle   = [u \in Users |-> None]
  /\ waiting  = [u \in Users |-> None]
  /\ requests = [u \in Users |-> {}]
  /\ outcome  = [r \in Requests |-> "pending"]
  /\ known    = {}
  /\ gone     = {}

\* The ids a user can name: those it was given, and one that nobody has.
KnownIds == known \cup {NilUUID}

-----------------------------------------------------------------------------
(* The users.                                                              *)

\* rpc.on(ph)(...): sends the RPC.
Send(u, r, o, id) ==
  /\ waiting[u] = None
  /\ Registry!Invoke(r)
  /\ op'[r] = o
  /\ target'[r] = id
  /\ gone' = IF id \in live THEN gone ELSE gone \cup {r}

\* The RPCs whose caller blocks for a response: all but mobject_say_hello,
\* which is defined with its response disabled.
AwaitsAll(o) == TRUE  \* Mutant: the response of say_hello is expected, too.
Awaits(o) == o # "hello"

\* A call that awaits nothing has returned once the RPC is sent, whatever
\* the provider will find.
Call(u, r, o, id) ==
  /\ Send(u, r, o, id)
  /\ waiting' = IF Awaits(o) THEN [waiting EXCEPT ![u] = r] ELSE waiting
  /\ outcome' = IF Awaits(o) THEN outcome
                             ELSE [outcome EXCEPT ![r] = "returned"]
  /\ UNCHANGED <<handle, requests, known>>

\* Admin::createSequencer, openSequencer, closeSequencer, destroySequencer.
CreateSequencer(u, r) ==
  \E o \in Registry!Creating \cap Rpcs : Call(u, r, o, NilUUID)
RemoveSequencer(u, r) ==
  \E o \in Registry!Removing \cap Rpcs, id \in KnownIds : Call(u, r, o, id)

\* Client::makeSequencerHandle, with and without the check.
CheckSequencer(u, r) ==
  \E o \in {"check"} \cap Rpcs, id \in KnownIds : Call(u, r, o, id)
MakeUnchecked(u) ==
  /\ waiting[u] = None
  /\ \E id \in KnownIds : handle' = [handle EXCEPT ![u] = id]
  /\ UNCHANGED <<registry, waiting, requests, outcome, known, gone>>

\* SequencerHandle::sayHello and computeSum; an empty handle throws at once.
UseHandle(u, r) ==
  /\ handle[u] # None
  /\ \E o \in {"hello", "sum"} \cap Rpcs : Call(u, r, o, handle[u])

\* computeSum with an AsyncRequest, and the wait for it.
UseHandleAsync(u, r) ==
  /\ handle[u] # None /\ "sum" \in Rpcs
  /\ Send(u, r, "sum", handle[u])
  /\ requests' = [requests EXCEPT ![u] = @ \cup {r}]
  /\ UNCHANGED <<handle, waiting, outcome, known>>
WaitFor(u, r) ==
  /\ waiting[u] = None
  /\ r \in requests[u]
  /\ requests' = [requests EXCEPT ![u] = @ \ {r}]
  /\ waiting' = [waiting EXCEPT ![u] = r]
  /\ UNCHANGED <<registry, handle, outcome, known, gone>>

\* What result.success() may be in the response.
ValueReports(r) ==  \* Mutant: the value is tested, and a sum may be zero.
  IF answer[r] # "performed" THEN {FALSE}
  ELSE IF op[r] = "sum" THEN BOOLEAN ELSE {TRUE}
UnsetReports(r) == {TRUE}  \* Mutant: the response is not read into result.
Reports(r) ==
  IF answer[r] # "performed" THEN {FALSE}
  ELSE IF op[r] \in {"destroy", "sum"} THEN BackendResults
  ELSE {TRUE}

\* The handle makeSequencerHandle returns.
MadeHandle(u) == [handle EXCEPT ![u] = target[waiting[u]]]

\* The response is there: its value is returned, or its error thrown.
Return(u) ==
  LET r == waiting[u] IN
  /\ r # None
  /\ answer[r] # "undecided"
  /\ \E success \in Reports(r) :
       /\ outcome' = [outcome EXCEPT ![r] =
                        IF success THEN "returned" ELSE "threw"]
       /\ handle' = IF success /\ op[r] = "check"
                    THEN MadeHandle(u) ELSE handle
       /\ known' = IF success /\ op[r] \in Registry!Creating
                   THEN known \cup {target[r]} ELSE known
  /\ waiting' = [waiting EXCEPT ![u] = None]
  /\ UNCHANGED <<registry, requests, gone>>

-----------------------------------------------------------------------------
(* The provider.                                                           *)

\* sayHello responds only when it finds no sequencer.
Responds(r) == ~(op[r] = "hello" /\ verdict[r] = "performed")

Serve(r) ==
  /\ \/ Registry!Refuse(r) \/ Registry!Create(r) \/ Registry!Remove(r)
     \/ Registry!Find(r) \/ Registry!Miss(r)
     \/ Registry!Answer(r) /\ Responds(r)
  /\ UNCHANGED users

-----------------------------------------------------------------------------
\* Every RPC was sent and served, and answered if it is to be.
Over ==
  /\ \A r \in Requests :
       /\ verdict[r] # "undecided"
       /\ Responds(r) => answer[r] # "undecided"
  /\ UNCHANGED vars

Next ==
  \/ \E u \in Users, r \in Requests :
       \/ CreateSequencer(u, r) \/ RemoveSequencer(u, r) \/ CheckSequencer(u, r)
       \/ UseHandle(u, r) \/ UseHandleAsync(u, r) \/ WaitFor(u, r)
  \/ \E u \in Users : MakeUnchecked(u) \/ Return(u)
  \/ \E r \in Requests : Serve(r)
  \/ Over

Spec == Init /\ [][Next]_vars

\* The provider serves what it receives, and a user looks at a response.
FairSpec ==
  /\ Spec
  /\ \A r \in Requests : WF_vars(Serve(r))
  /\ \A u \in Users : WF_vars(Return(u))

-----------------------------------------------------------------------------
(***************************************************************************)
(* The types of what the users hold.                                       *)
(***************************************************************************)
TypeOK ==
  /\ live \subseteq UUIDs
  /\ op \in [Requests -> Registry!Ops \cup {"none"}]
  /\ target \in [Requests -> Registry!Ids]
  /\ verdict \in [Requests -> Registry!Verdicts]
  /\ answer \in [Requests -> Registry!Verdicts]
  /\ handle \in [Users -> Registry!Ids \cup {None}]
  /\ waiting \in [Users -> Requests \cup {None}]
  /\ requests \in [Users -> SUBSET Requests]
  /\ outcome \in [Requests -> {"pending", "returned", "threw"}]
  /\ known \subseteq Registry!Ids
  /\ gone \subseteq Requests

\* The operations on a sequencer that exists, or did.
OnSequencer == Registry!Removing \cup Registry!Looking

(***************************************************************************)
(* An operation that begins when its sequencer is not open never takes     *)
(* effect on one, whoever removed the sequencer and whatever happens       *)
(* meanwhile, and its caller is told: a stale handle, checked or not, is   *)
(* noticed when it is used, unless it is used for sayHello, which returns  *)
(* all the same.                                                           *)
(***************************************************************************)
StaleUseFails == \A r \in gone : op[r] \in OnSequencer =>
  /\ verdict[r] # "performed"
  /\ outcome[r] = "returned" => op[r] = "hello"

(***************************************************************************)
(* When makeSequencerHandle throws, or computeSum does with backends that  *)
(* do not fail, the sequencer is not open and will not be again: trying    *)
(* once more with the same id is useless.                                  *)
(***************************************************************************)
ThrowMeansGone == \A r \in Requests :
  /\ outcome[r] = "threw"
  /\ \/ op[r] = "check"
     \/ op[r] = "sum" /\ FALSE \notin BackendResults
  => target[r] \notin live

(***************************************************************************)
(* Of the users that close or destroy a sequencer, at most one returns     *)
(* normally.                                                               *)
(***************************************************************************)
OneRemovalReturns == \A r, q \in Requests :
  /\ op[r] \in Registry!Removing /\ outcome[r] = "returned"
  /\ op[q] \in Registry!Removing /\ outcome[q] = "returned"
  /\ target[r] = target[q]
  => r = q

(***************************************************************************)
(* An operation that was sent while its sequencer was open fails to find   *)
(* it only because a close or destroy took effect in between: a hello may  *)
(* be overtaken by a close its own user sends after it, and nothing else   *)
(* can lose it.                                                            *)
(***************************************************************************)
LostOnlyToRemoval == \A r \in Requests :
  op[r] \in OnSequencer /\ verdict[r] = "not_found" /\ r \notin gone
  => \E q \in Requests :
       op[q] \in Registry!Removing /\ target[q] = target[r]
         /\ verdict[q] = "performed"

(***************************************************************************)
(* What createSequencer returns names an open sequencer until some user's  *)
(* close or destroy takes effect, and no other createSequencer returns it. *)
(***************************************************************************)
CreatedIsUsable ==
  /\ \A id \in known \ live : \E r \in Requests :
       op[r] \in Registry!Removing /\ target[r] = id
         /\ verdict[r] = "performed"
  /\ \A r, q \in Requests :
       /\ op[r] \in Registry!Creating /\ outcome[r] = "returned"
       /\ op[q] \in Registry!Creating /\ outcome[q] = "returned"
       /\ target[r] = target[q]
       => r = q

(***************************************************************************)
(* A user blocks only in an RPC that was sent, that is answered and whose  *)
(* outcome nobody has taken or is going to take: none waits in vain.       *)
(***************************************************************************)
WaitsForAnswer == \A u \in Users : waiting[u] # None =>
  LET r == waiting[u] IN
  /\ op[r] # "none" /\ Responds(r)
  /\ outcome[r] = "pending"
  /\ \A v \in Users :
       r \notin requests[v] /\ (waiting[v] = r => v = u)

(***************************************************************************)
(* Every function of Admin, Client and SequencerHandle returns or throws.  *)
(***************************************************************************)
EveryCallEnds == \A u \in Users : (waiting[u] # None) ~> (waiting[u] = None)
=============================================================================
