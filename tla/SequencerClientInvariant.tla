----------------------- MODULE SequencerClientInvariant -----------------------
(***************************************************************************)
(* The inductive invariant of SequencerClient.  Every id ever handed out   *)
(* is in Created, and live is what was created and not removed: since ids  *)
(* are fresh and users name only ids they were given (or the nil id), what *)
(* is not open when it is named never opens again.                         *)
(***************************************************************************)
EXTENDS SequencerClient

\* The ids of the requests that took effect, by what they did.
Performed(ops) ==
  {target[q] : q \in {p \in Requests :
                        op[p] \in ops /\ verdict[p] = "performed"}}
Created == Performed(Registry!Creating)
Removed == Performed(Registry!Removing)

\* What a request was told, what it could have done, and its id.
VerdictInv == \A r \in Requests :
  /\ answer[r] \in {"undecided", verdict[r]}
  /\ op[r] = "none" => verdict[r] = "undecided" /\ r \notin gone
  /\ op[r] \in Registry!Creating =>
       /\ verdict[r] # "not_found"
       /\ target[r] = NilUUID <=> verdict[r] # "performed"
  /\ op[r] \in Registry!Looking => verdict[r] # "refused"
  /\ verdict[r] = "not_found" => target[r] \notin live

\* Ids are created once and removed once.
IdInv ==
  /\ live = Created \ Removed
  /\ Removed \subseteq Created
  /\ NilUUID \notin Created
  /\ \A ops \in {Registry!Creating, Registry!Removing},
        r, q \in Requests :
       /\ op[r] \in ops /\ verdict[r] = "performed"
       /\ op[q] \in ops /\ verdict[q] = "performed"
       /\ target[r] = target[q]
       => r = q

\* Users name ids they were given; what was not open stays that way.
NameInv ==
  /\ known \subseteq Created
  /\ \A u \in Users : handle[u] \in Created \cup {NilUUID, None}
  /\ \A r \in Requests : op[r] \in OnSequencer =>
       /\ target[r] \in Created \cup {NilUUID}
       /\ r \notin gone => target[r] \in Created
       /\ r \in gone => target[r] \notin live /\ verdict[r] # "performed"

\* How a call ended follows from what it was told.
OutcomeInv == \A r \in Requests :
  /\ outcome[r] = "returned" => answer[r] = "performed" \/ op[r] = "hello"
  /\ outcome[r] = "threw" =>
       /\ answer[r] # "undecided"
       /\ \/ op[r] = "check"
          \/ op[r] = "sum" /\ FALSE \notin BackendResults
          => answer[r] # "performed"

\* The RPCs whose response a user has still to take: blocked in it, or later.
Outstanding(u) == requests[u] \cup {r \in Requests : waiting[u] = r}

\* Every response is taken once, by the user that sent the RPC.
WaitInv ==
  /\ \A u \in Users : \A r \in Outstanding(u) :
       op[r] \notin {"none", "hello"} /\ outcome[r] = "pending"
  /\ \A u \in Users : waiting[u] \notin requests[u]
  /\ \A u, v \in Users :
       u # v => Outstanding(u) \cap Outstanding(v) = {}

(***************************************************************************)
(* The inductive invariant.                                                *)
(***************************************************************************)
CInv == TypeOK /\ VerdictInv /\ IdInv /\ NameInv /\ OutcomeInv /\ WaitInv

-----------------------------------------------------------------------------
(* What follows from it, beside the properties of SequencerClient.         *)

(***************************************************************************)
(* A call returns or throws once: no later response, wait or removal       *)
(* changes what its user was told.                                         *)
(***************************************************************************)
OutcomesAreFinal == [][\A r \in Requests :
  outcome[r] # "pending" => outcome'[r] = outcome[r]]_vars
=============================================================================
