------------------------ MODULE AsyncRequestInvariant -------------------------
(***************************************************************************)
(* The inductive invariant of AsyncRequest, for any number of threads:     *)
(* what an operation under way knows of the object it works on, what the   *)
(* other operations leave alone, and what keeps a request that was not     *)
(* waited for.                                                             *)
(***************************************************************************)
EXTENDS AsyncRequest

\* Operations on copies of one request at one time are recorded.
RaceInv == \A o, q \in Objects :
  pc[o] # "idle" /\ pc[q] # "idle" /\ self[o] = self[q] =>
    o = q \/ self[o] \in raced \cup {Null}

\* A source is what an assignment under way reads, and not its own target.
\* Nothing else reads or changes it meanwhile.
SourceInv == \A o \in Objects :
  /\ pc[o] = "idle" => after[o] = "idle"
  /\ source[o] # Null <=> after[o] = "assign"
  /\ pc[o] \in {"release", "assign"} => after[o] = pc[o]
  /\ source[o] \in Objects =>
       /\ pc[source[o]] = "idle"
       /\ self[source[o]] # self[o]
  /\ source[o] # Null => \A q \in Objects :
       /\ source[q] = source[o] => q = o
       /\ self[q] # source[o]

\* No object holds a call before it is made.
FreshInv == \A c \in Calls : response[c] = "unsent" =>
  \A o \in Objects : self[o] # c /\ source[o] # c

\* What a wait knows of the request it is for.
WaitInv == \A o \in Objects :
  /\ pc[o] \in {"callback", "waited", "release"} => self[o] # Null
  /\ pc[o] = "callback" /\ m_waited[self[o]] => self[o] \in raced
  /\ pc[o] = "waited" =>
       response[self[o]] = "taken" /\ outcome[self[o]] = "sum"

\* The flag follows the response of a successful call one step behind.
FlagInv == \A c \in Calls :
  /\ m_waited[c] => response[c] = "taken"
  /\ response[c] = "taken" /\ outcome[c] = "sum" =>
       m_waited[c] \/ \E o \in Objects : pc[o] = "waited" /\ self[o] = c
  /\ response[c] \in {"unsent", "sent"} => outcome[c] = "sum"
  /\ c \in retaken =>
       response[c] = "taken" /\ (outcome[c] = "failed" \/ c \in raced)

\* What an object is about to let go of was waited for or has another owner.
OwnerInv == \A o \in Objects :
  pc[o] \in {"release", "assign"} /\ self[o] \notin raced \cup {Null} =>
    m_waited[self[o]] \/ \E q \in Objects \ {o} : self[q] = self[o]

\* As long as no call failed or was raced for, a call whose response is due is
\* held.
HeldInv == (\A c \in Calls : outcome[c] = "sum" /\ c \notin raced) =>
  \A c \in Calls : response[c] \in {"sent", "arrived"} =>
    \E o \in Objects : self[o] = c \/ source[o] = c

AInv ==
  /\ TypeOK /\ RaceInv /\ SourceInv /\ FreshInv /\ WaitInv
  /\ FlagInv /\ OwnerInv /\ HeldInv
=============================================================================
