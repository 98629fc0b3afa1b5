----------------------- MODULE ExampleProgramsInvariant -----------------------
(***************************************************************************)
(* The inductive invariant of ExamplePrograms: what the registry, the texts*)
(* people pass on and the RPCs of a program have to do with each other.    *)
(***************************************************************************)
EXTENDS ExamplePrograms

\* The RPCs of a program.
Check(p) == <<p, "check">>
Hello(p) == <<p, "hello">>
Last(p)  == <<p, "last">>

\* Some program was given this id by create or open; some removed it.
WasCreated(id) == \E r \in Requests :
  op[r] \in Registry!Creating /\ verdict[r] = "performed" /\ target[r] = id
WasRemoved(id) == \E r \in Requests :
  op[r] \in Registry!Removing /\ verdict[r] = "performed" /\ target[r] = id

\* The registry, as far as the programs depend on it.
RegistryInv ==
  /\ op \in [Requests -> Registry!Ops \cup {"none"}]
  /\ verdict \in [Requests -> Registry!Verdicts]
  /\ answer \in [Requests -> Registry!Verdicts]
  /\ \A r \in Requests :
       /\ answer[r] \in {"undecided", verdict[r]}
       /\ op[r] = "none" => verdict[r] = "undecided"
       /\ op[r] \in Registry!Looking => verdict[r] # "refused"
       /\ verdict[r] = "not_found" =>
            op[r] \notin Registry!Creating /\ target[r] \notin live
       /\ op[r] \in Registry!Creating /\ verdict[r] = "performed" =>
            target[r] \in UUIDs
       /\ op[r] \notin Registry!Creating /\ target[r] \in UUIDs =>
            WasCreated(target[r])
  /\ \A id \in UUIDs : WasCreated(id) => id \in live \/ WasRemoved(id)

\* A sequencer is removed once, and stays removed.
IsRemoval(r) == op[r] \in Registry!Removing /\ verdict[r] = "performed"
RemovalInv ==
  /\ \A r \in Requests : IsRemoval(r) => target[r] \in UUIDs \ live
  /\ \A r, q \in Requests :
       IsRemoval(r) /\ IsRemoval(q) /\ target[r] = target[q] => r = q

\* Only a backend that ran has failed.
FailedInv == \A r \in failed :
  op[r] \in {"destroy", "sum"} /\ verdict[r] = "performed"

\* Ids get into command lines by being created and printed.
TextInv ==
  /\ \A text \in printed : WasCreated(text.id)
  /\ \A p \in Programs : line[p].text.id \in UUIDs
                         => WasCreated(line[p].text.id)

\* What a program sent, and how it ended.
ProgramOK(p) ==
  /\ status[p] # "ready" => line[p].exec # "none"
  /\ op[Check(p)] # "none" \/ op[Hello(p)] # "none" \/ op[Last(p)] # "none" =>
       status[p] # "ready" /\ ~Throws(p)
  /\ op[Check(p)] # "none" =>
       line[p].exec = "client" /\ target[Check(p)] = Named(p)
  /\ op[Check(p)] \in {"none", "check"}
  /\ op[Hello(p)] # "none" => verdict[Check(p)] = "performed"
  /\ op[Last(p)] # "none" =>
       /\ op[Last(p)] = IF line[p].exec = "client" THEN "sum" ELSE line[p].exec
       /\ line[p].exec \notin Registry!Creating => target[Last(p)] = Named(p)
       /\ line[p].exec = "client" => verdict[Check(p)] = "performed"
  /\ status[p] = "exit 0" =>
       verdict[Last(p)] = "performed" /\ Last(p) \notin failed
  /\ status[p] = "exit -1" =>
       /\ op[Last(p)] = "none" => verdict[Check(p)] = "not_found"
       /\ op[Last(p)] # "none" =>
            /\ verdict[Last(p)] # "undecided"
            /\ verdict[Last(p)] = "performed" => Last(p) \in failed
  /\ status[p] = "abort" => Throws(p)
ProgramInv == \A p \in Programs : ProgramOK(p)

(***************************************************************************)
(* The inductive invariant.                                                *)
(***************************************************************************)
EInv ==
  TypeOK /\ RegistryInv /\ RemovalInv /\ FailedInv /\ TextInv /\ ProgramInv

-----------------------------------------------------------------------------
(* What follows from it, beside the properties of ExamplePrograms.         *)

\* A program that waits for nothing: it throws, sends its next RPC, or ends.
CanGoOn(p) ==
  \/ Throws(p)
  \/ line[p].exec # "client" /\ op[Last(p)] = "none"
  \/ line[p].exec = "client" /\ op[Check(p)] = "none"
  \/ answer[Check(p)] = "performed" /\ op[Hello(p)] = "none"
  \/ op[Hello(p)] # "none" /\ op[Last(p)] = "none"
  \/ answer[Check(p)] = "not_found" \/ answer[Last(p)] # "undecided"

\* An RPC the provider has still to serve or to answer.
Owed(r) == op[r] \notin {"none", "hello"} /\ answer[r] = "undecided"

(***************************************************************************)
(* A program under way goes on by itself, or waits for the response of one *)
(* of its RPCs that the provider is going to send: a program is never      *)
(* stuck between two RPCs, whatever the others remove meanwhile.           *)
(***************************************************************************)
ProgramNeverStuck == \A p \in Programs : status[p] = "main" =>
  CanGoOn(p) \/ Owed(Check(p)) \/ Owed(Last(p))
=============================================================================
