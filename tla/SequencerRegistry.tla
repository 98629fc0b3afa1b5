-------------------------- MODULE SequencerRegistry --------------------------
(***************************************************************************)
(* What a provider promises its clients: a registry of sequencers on which *)
(* every RPC appears to take effect at one instant between the moment it   *)
(* is received and the moment it is answered (linearizability), where an   *)
(* id names one sequencer for ever and a removed id never comes back.      *)
(*                                                                         *)
(* ProviderImpl implements this specification with handlers that           *)
(* interleave, a mutex and reference-counted backends.                     *)
(***************************************************************************)
CONSTANTS
  Requests,   \* the RPCs a provider receives
  UUIDs,      \* the ids a created or opened sequencer can be given
  NilUUID     \* UUID(): the id of no sequencer

Ids       == UUIDs \cup {NilUUID}
Creating  == {"create", "open"}
Removing  == {"close", "destroy"}
Looking   == {"check", "hello", "sum"}
Ops       == Creating \cup Removing \cup Looking

\* Undecided until the RPC takes effect; what it did from then on.
Verdicts  == {"undecided", "refused", "not_found", "performed"}

VARIABLES
  live,      \* the ids of the sequencers that are open
  op,        \* the operation each request asks for, "none" before it comes
  target,    \* the id a request names, or the one it was given
  verdict,   \* what a request did when it took effect
  answer     \* what its client was told

vars == <<live, op, target, verdict, answer>>

Init ==
  /\ live    = {}
  /\ op      = [r \in Requests |-> "none"]
  /\ target  = [r \in Requests |-> NilUUID]
  /\ verdict = [r \in Requests |-> "undecided"]
  /\ answer  = [r \in Requests |-> "undecided"]

\* Every id that was ever given to a sequencer.
Given == {target[q] : q \in {p \in Requests : op[p] \in Creating}}

Invoke(r) ==
  /\ op[r] = "none"
  /\ \E o \in Ops : op' = [op EXCEPT ![r] = o]
  /\ target' \in {[target EXCEPT ![r] = id] : id \in Ids}
  /\ op'[r] \in Creating => target'[r] = NilUUID
  /\ UNCHANGED <<live, verdict, answer>>

Decide(r, v) ==
  /\ op[r] # "none"
  /\ verdict[r] = "undecided"
  /\ verdict' = [verdict EXCEPT ![r] = v]
  /\ UNCHANGED <<op, answer>>

\* The token, the configuration or the backend factory is against it.
Refuse(r) ==
  /\ op[r] \in Creating \cup Removing
  /\ Decide(r, "refused")
  /\ UNCHANGED <<live, target>>

Create(r) ==
  /\ op[r] \in Creating
  /\ Decide(r, "performed")
  /\ \E u \in UUIDs \ Given :
       /\ live'   = live \cup {u}
       /\ target' = [target EXCEPT ![r] = u]

Remove(r) ==
  /\ op[r] \in Removing
  /\ target[r] \in live
  /\ Decide(r, "performed")
  /\ live' = live \ {target[r]}
  /\ UNCHANGED target

Find(r) ==
  /\ op[r] \in Looking
  /\ target[r] \in live
  /\ Decide(r, "performed")
  /\ UNCHANGED <<live, target>>

MissAnyway(r) ==  \* Mutant: a lookup may miss a sequencer that is there.
  /\ op[r] \in Removing \cup Looking
  /\ Decide(r, "not_found")
  /\ UNCHANGED <<live, target>>
Miss(r) ==
  /\ op[r] \in Removing \cup Looking
  /\ target[r] \notin live
  /\ Decide(r, "not_found")
  /\ UNCHANGED <<live, target>>

Answer(r) ==
  /\ verdict[r] # "undecided"
  /\ answer[r] = "undecided"
  /\ answer' = [answer EXCEPT ![r] = verdict[r]]
  /\ UNCHANGED <<live, op, target, verdict>>

Next == \E r \in Requests :
  \/ Invoke(r)
  \/ Refuse(r)
  \/ Create(r)
  \/ Remove(r)
  \/ Find(r)
  \/ Miss(r)
  \/ Answer(r)

Spec == Init /\ [][Next]_vars
=============================================================================
