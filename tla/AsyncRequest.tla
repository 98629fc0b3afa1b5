----------------------------- MODULE AsyncRequest -----------------------------
(***************************************************************************)
(* The client side of an asynchronous computeSum: AsyncRequest objects,    *)
(* the AsyncRequestImpl their copies share, and the wait that an explicit  *)
(* call, an assignment and a destructor each may do.                       *)
(*                                                                         *)
(* An AsyncRequestImpl is named by the call it stands for.  The steps of   *)
(* one operation on an object are separate actions, since it blocks in the *)
(* middle; at most Threads operations are under way at the same time, on   *)
(* different objects, which may be copies of one another.                  *)
(***************************************************************************)
EXTENDS Naturals, FiniteSets

CONSTANTS
  Objects,   \* the AsyncRequest objects of the client
  Calls,     \* the asynchronous calls it makes (a bound on their number)
  Null,      \* an empty shared_ptr, or no source of an assignment
  Threads,   \* how many of the client's threads use the objects
  Outcomes   \* how calls end: "sum", or "failed" (e.g. sequencer not found)

ASSUME AsyncAssumption ==
  /\ Null \notin Calls \cup Objects
  /\ Calls \cap Objects = {}
  /\ Threads \in Nat \ {0}
  /\ IsFiniteSet(Objects)
  /\ Outcomes \subseteq {"sum", "failed"}

\* Where an operation on an object is; what follows the wait in it.
Labels    == {"idle", "callback", "waited", "release", "assign"}
Followers == {"idle", "release", "assign"}

VARIABLES
  self,       \* the shared_ptr of each object
  source,     \* what is being assigned to it: a new call, another object
  moving,     \* whether that is a move-assignment
  pc, after,  \* the operation on each object
  m_waited,   \* the flag of each AsyncRequestImpl
  response,   \* its async_response: unsent, sent, arrived or taken
  outcome,    \* what the server reported, once the response has arrived
  retaken,    \* history: the calls whose response was taken once more
  raced,      \* history: the calls two operations worked on at one time
  terminated  \* an exception left a destructor

vars == <<self, source, moving, pc, after, m_waited, response, outcome, retaken,
          raced, terminated>>

Init ==
  /\ self       = [o \in Objects |-> Null]
  /\ source     = [o \in Objects |-> Null]
  /\ moving     = [o \in Objects |-> FALSE]
  /\ pc         = [o \in Objects |-> "idle"]
  /\ after      = [o \in Objects |-> "idle"]
  /\ m_waited   = [c \in Calls |-> FALSE]
  /\ response   = [c \in Calls |-> "unsent"]
  /\ outcome    = [c \in Calls |-> "sum"]
  /\ retaken    = {}
  /\ raced      = {}
  /\ terminated = FALSE

\* shared_ptr::use_count: the objects, and the temporary computeSum assigns.
Owners(c)  == {o \in Objects : self[o] = c}
UseCount(c) ==
  Cardinality(Owners(c)) + Cardinality({o \in Objects : source[o] = c})
Unique(c) == UseCount(c) = 1
Freed(c)  == response[c] # "unsent" /\ UseCount(c) = 0

\* An object no operation uses, neither as its target nor as its source.
Idle(o) == pc[o] = "idle" /\ \A q \in Objects : source[q] # o
Begins(o) ==
  /\ ~terminated
  /\ Idle(o)
  /\ Cardinality({q \in Objects : pc[q] # "idle"}) < Threads
  /\ raced' = IF \E q \in Objects : pc[q] # "idle" /\ self[q] = self[o]
              THEN raced \cup ({self[o]} \ {Null}) ELSE raced

\* wait(), on the object's implementation, and what the operation does next.
WaitThen(o, next) ==
  /\ pc' = [pc EXCEPT ![o] = IF m_waited[self[o]] THEN next ELSE "callback"]
  /\ after' = [after EXCEPT ![o] = next]

\* `if(self && self.unique()) wait();`, as in the destructor and assignments.
NeverLast(o) == FALSE  \* Mutant: the old implementation is just overwritten.
LastOwner(o) == self[o] # Null /\ Unique(self[o])
WaitIfLast(o, next) ==
  \/ /\ LastOwner(o)
     /\ WaitThen(o, next)
  \/ /\ ~LastOwner(o)
     /\ pc' = [pc EXCEPT ![o] = next]
     /\ after' = [after EXCEPT ![o] = next]

-----------------------------------------------------------------------------
(* The operations of a client.                                             *)

\* computeSum(x, y, &result, &req): sends, which makes the response of a
\* temporary request, and move-assigns that.
ComputeSum(o, c) ==
  /\ Begins(o)
  /\ response[c] = "unsent"
  /\ response' = [response EXCEPT ![c] = "sent"]
  /\ source' = [source EXCEPT ![o] = c]
  /\ WaitIfLast(o, "assign")
  /\ UNCHANGED <<self, moving, m_waited, outcome, retaken, terminated>>

\* req.wait()
Wait(o) ==
  /\ Begins(o)
  /\ self[o] # Null
  /\ WaitThen(o, "idle")
  /\ UNCHANGED <<self, source, moving, m_waited, response, outcome, retaken,
                 terminated>>

\* o = p and o = std::move(p), unless both hold the same request, or none.
Assign(o, p, move) ==
  /\ Begins(o) /\ Idle(p) /\ o # p
  /\ self[o] # self[p]
  /\ source' = [source EXCEPT ![o] = p]
  /\ moving' = [moving EXCEPT ![o] = move]
  /\ WaitIfLast(o, "assign")
  /\ UNCHANGED <<self, m_waited, response, outcome, retaken, terminated>>

\* ~AsyncRequest(); a fresh, empty object then takes the place of the old one.
Destroy(o) ==
  /\ Begins(o)
  /\ self[o] # Null
  /\ WaitIfLast(o, "release")
  /\ UNCHANGED <<self, source, moving, m_waited, response, outcome, retaken,
                 terminated>>

-----------------------------------------------------------------------------
(* The steps of an operation under way.                                    *)

\* self->m_wait_callback(*self): blocks until the response is there, and
\* takes it.  Taking it a second time is an error of the client library.
Taken(o) ==
  /\ ~terminated
  /\ pc[o] = "callback"
  /\ response[self[o]] \in {"arrived", "taken"}
  /\ response' = [response EXCEPT ![self[o]] = "taken"]
  /\ retaken' = IF response[self[o]] = "taken" THEN retaken \cup {self[o]}
                ELSE retaken

Succeeds(o) ==
  response[self[o]] = "arrived" /\ outcome[self[o]] = "sum"

Callback(o) ==
  /\ Taken(o)
  /\ Succeeds(o)
  /\ pc' = [pc EXCEPT ![o] = "waited"]
  /\ UNCHANGED <<self, source, moving, after, m_waited, outcome, raced,
                 terminated>>

\* The callback throws: out of wait() and computeSum to the caller, which may
\* go on; out of a destructor, which ends the program.
Retries(o) == "callback"  \* Mutant: a failed wait is tried again.
AfterThrow(o) == "idle"
CallbackThrows(o) ==
  /\ Taken(o)
  /\ ~Succeeds(o)
  /\ pc' = [pc EXCEPT ![o] = AfterThrow(o)]
  /\ source' = [source EXCEPT ![o] = Null]
  /\ moving' = [moving EXCEPT ![o] = FALSE]
  /\ after' = [after EXCEPT ![o] = "idle"]
  /\ terminated' = (after[o] = "release")
  /\ UNCHANGED <<self, m_waited, outcome, raced>>

\* self->m_waited = true
FlagForgotten(c) == m_waited  \* Mutant: the flag is never set.
Flagged(c) == [m_waited EXCEPT ![c] = TRUE]
SetWaited(o) ==
  /\ ~terminated
  /\ pc[o] = "waited"
  /\ m_waited' = Flagged(self[o])
  /\ pc' = [pc EXCEPT ![o] = after[o]]
  /\ UNCHANGED <<self, source, moving, after, response, outcome, retaken,
                 raced, terminated>>

\* The destructor of the shared_ptr, after the one of AsyncRequest.
Release(o) ==
  /\ ~terminated
  /\ pc[o] = "release"
  /\ self' = [self EXCEPT ![o] = Null]
  /\ pc' = [pc EXCEPT ![o] = "idle"]
  /\ after' = [after EXCEPT ![o] = "idle"]
  /\ UNCHANGED <<source, moving, m_waited, response, outcome, retaken, raced,
                 terminated>>

\* self = other.self, and other.self = nullptr in a move.
PointeeUnread(o) == source[o]  \* Mutant: `other` where other.self is meant.
Pointee(o) == IF source[o] \in Calls THEN source[o] ELSE self[source[o]]
FinishAssign(o) ==
  /\ ~terminated
  /\ pc[o] = "assign"
  /\ self' = [q \in Objects |-> IF q = o THEN Pointee(o)
                                ELSE IF moving[o] /\ q = source[o] THEN Null
                                ELSE self[q]]
  /\ source' = [source EXCEPT ![o] = Null]
  /\ moving' = [moving EXCEPT ![o] = FALSE]
  /\ pc' = [pc EXCEPT ![o] = "idle"]
  /\ after' = [after EXCEPT ![o] = "idle"]
  /\ UNCHANGED <<m_waited, response, outcome, retaken, raced, terminated>>

\* The server's answer to a computeSum arrives.
Arrive(c) ==
  /\ ~terminated
  /\ response[c] = "sent"
  /\ response' = [response EXCEPT ![c] = "arrived"]
  /\ \E out \in Outcomes : outcome' = [outcome EXCEPT ![c] = out]
  /\ UNCHANGED <<self, source, moving, pc, after, m_waited, retaken, raced,
                 terminated>>

-----------------------------------------------------------------------------
\* The client has made all its calls and released them, or it was terminated.
Over ==
  /\ \/ terminated
     \/ \A c \in Calls : response[c] # "unsent" /\ UseCount(c) = 0
  /\ UNCHANGED vars

Proceed(o) ==
  \/ Callback(o) \/ CallbackThrows(o) \/ SetWaited(o)
  \/ Release(o) \/ FinishAssign(o)

Next ==
  \/ \E o \in Objects : Proceed(o) \/ Wait(o) \/ Destroy(o)
  \/ \E o \in Objects, c \in Calls : ComputeSum(o, c)
  \/ \E o, p \in Objects, move \in BOOLEAN : Assign(o, p, move)
  \/ \E c \in Calls : Arrive(c)
  \/ Over

Spec == Init /\ [][Next]_vars

\* The client's threads run what they have begun, and responses arrive.
FairSpec ==
  /\ Spec
  /\ \A o \in Objects : WF_vars(Proceed(o))
  /\ \A c \in Calls : WF_vars(Arrive(c))

-----------------------------------------------------------------------------
(***************************************************************************)
(* The types of the objects and of what they share.                        *)
(***************************************************************************)
TypeOK ==
  /\ self \in [Objects -> Calls \cup {Null}]
  /\ source \in [Objects -> Calls \cup Objects \cup {Null}]
  /\ moving \in [Objects -> BOOLEAN]
  /\ pc \in [Objects -> Labels]
  /\ after \in [Objects -> Followers]
  /\ m_waited \in [Calls -> BOOLEAN]
  /\ response \in [Calls -> {"unsent", "sent", "arrived", "taken"}]
  /\ outcome \in [Calls -> {"sum", "failed"}]
  /\ retaken \subseteq Calls
  /\ raced \subseteq Calls
  /\ terminated \in BOOLEAN

(***************************************************************************)
(* The response of a call that succeeded is taken once, however many       *)
(* copies of its request are waited for, assigned over and destroyed, by   *)
(* however many threads, unless two of them worked on copies of this very  *)
(* request at one time (unique() and m_waited are not synchronized).       *)
(***************************************************************************)
TakenOnce == \A c \in retaken : outcome[c] = "failed" \/ c \in raced

(***************************************************************************)
(* No request is given up before its response was taken and its result     *)
(* written, unless some call failed or was raced for: a client cannot lose *)
(* a sum by copying over, moving over or destroying the requests it holds, *)
(* and its threads need not be kept apart, except from copies of one       *)
(* request.                                                                *)
(***************************************************************************)
NothingAbandoned ==
  (\A c \in Calls : outcome[c] = "sum" /\ c \notin raced) =>
    \A c \in Calls : Freed(c) => response[c] = "taken"

\* A step that ends the program is a destructor's wait for a call that failed
\* or was raced for.
DestroysFailure == ~terminated /\ terminated' =>
  \E o \in Objects :
    /\ pc[o] = "callback" /\ pc'[o] = "idle" /\ after[o] = "release"
    /\ outcome[self[o]] = "failed" \/ self[o] \in raced

(***************************************************************************)
(* A destructor ends the program only if the call whose request it was     *)
(* destroying had failed, or another operation worked on a copy of that    *)
(* request at the same time: a client whose calls succeed may destroy its  *)
(* requests in any order, waited for or not.                               *)
(***************************************************************************)
EndsOnlyOnFailure == [][DestroysFailure]_vars

(***************************************************************************)
(* Every operation on a request ends: a wait, an assignment and a          *)
(* destructor block only until the response has arrived.                   *)
(***************************************************************************)
OperationsEnd == \A o \in Objects :
  (pc[o] # "idle") ~> (pc[o] = "idle" \/ terminated)

(***************************************************************************)
(* "If req is not null, this call will be non-blocking": no computeSum     *)
(* waits for the response of an earlier call.                              *)
(***************************************************************************)
ComputeSumNonBlocking == \A o \in Objects :
  pc[o] = "callback" => source[o] \notin Calls

(***************************************************************************)
(* "The caller is responsible for waiting on the request": a caller that   *)
(* has waited may destroy the request, whatever the outcome was.           *)
(***************************************************************************)
WaitedMayBeDestroyed == \A o \in Objects :
  pc[o] = "callback" /\ after[o] = "release" => response[self[o]] # "taken"
=============================================================================
