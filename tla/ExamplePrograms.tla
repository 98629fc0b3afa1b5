--------------------------- MODULE ExamplePrograms ---------------------------
(***************************************************************************)
(* The admin and client programs of examples/, run by people who copy ids  *)
(* from the output of one into the command line of another, against one    *)
(* provider that keeps the promise of SequencerRegistry.  All they learn   *)
(* of a run is what it prints and its exit status.                         *)
(***************************************************************************)
EXTENDS Integers

CONSTANTS
  Programs,        \* the runs of the two programs
  UUIDs, NilUUID,  \* as in SequencerRegistry
  None,            \* the id of a text that is none
  Asked,           \* the provider ids people ask for
  IdRange,         \* how many provider ids there are: 2^16
  BackendResults   \* what Backend::destroy and computeSum may report

ASSUME ProgramsAssumption ==
  /\ NilUUID \notin UUIDs /\ None \notin UUIDs \cup {NilUUID}
  /\ Asked \subseteq Nat /\ IdRange \in Nat \ {0}
  /\ BackendResults \subseteq BOOLEAN /\ BackendResults # {}

VARIABLES
  live, op, target, verdict, answer,  \* the registry the provider keeps
  failed,   \* the RPCs whose backend reported a failure to the provider
  line,     \* the command line of each program
  status,   \* "ready", "main", or how it ended
  printed   \* the texts of the ids that create and open printed

registry == <<live, op, target, verdict, answer>>
vars == <<registry, failed, line, status, printed>>

\* The RPCs of a program: the client's makeSequencerHandle and sayHello send
\* one each before the last, the only one of the admin program.
Requests == Programs \X {"check", "hello", "last"}
Registry == INSTANCE SequencerRegistry

\* 0 and exit(-1), and what an exception that nobody catches does.
Ended == {"exit 0", "exit -1", "abort"}

-----------------------------------------------------------------------------
(* UUID::to_string and from_string.                                        *)

\* A text has an id in some form: as it is printed, in upper case, the 32
\* digits without dashes, or it is something else.
Text(id, form) == [id |-> id, form |-> form]
Forms == {"printed", "upper", "bare"}
Nonsense == Text(None, "nonsense")

to_string(id) == Text(id, "printed")

\* uuid_parse takes 36 characters of either case.
ParseLower(text) ==  \* Mutant: only what uuid_unparse prints.
  IF text.form = "printed" THEN text.id ELSE None
from_string(text) ==
  IF text.form \in {"printed", "upper"} THEN text.id ELSE None

-----------------------------------------------------------------------------
\* The default of -r is the nil id.
NoLine == [exec |-> "none", text |-> to_string(NilUUID), config |-> FALSE,
           provider |-> 0]

Init ==
  /\ Registry!Init
  /\ failed = {}
  /\ line = [p \in Programs |-> NoLine]
  /\ status = [p \in Programs |-> "ready"]
  /\ printed = {}

\* What people have to type: ids they saw, retyped, or mistyped.
Typed == {Text(seen.id, form) : seen \in printed, form \in Forms} \cup
         {to_string(NilUUID), Nonsense}

\* parse_command_line.  The configuration is empty unless -c gives one.
Start(p) ==
  /\ status[p] = "ready"
  /\ \E exec \in Registry!Creating \cup Registry!Removing \cup {"client"},
        text \in Typed, config \in BOOLEAN, provider \in Asked :
       line' = [line EXCEPT ![p] =
         [exec |-> exec, config |-> config, provider |-> provider,
          text |-> IF exec \in Registry!Creating THEN to_string(NilUUID)
                                                 ELSE text]]
  /\ status' = [status EXCEPT ![p] = "main"]
  /\ UNCHANGED <<registry, failed, printed>>

\* Admin and Client take the provider id as a uint16_t, which keeps those
\* that fit.
Contacted(p) ==
  LET id == line[p].provider IN IF id < IdRange THEN id ELSE id % IdRange

\* What throws before an RPC was sent: from_string, in the operations that
\* take an id, and thallium if there is no such provider.  Neither throws a
\* mobject::Exception.
Throws(p) ==
  \/ line[p].exec \notin Registry!Creating /\ from_string(line[p].text) = None
  \/ Contacted(p) # 0
Abort(p) ==
  /\ status[p] = "main"
  /\ Throws(p)
  /\ status' = [status EXCEPT ![p] = "abort"]
  /\ UNCHANGED <<registry, failed, line, printed>>

Send(r, o, id) ==
  /\ Registry!Invoke(r)
  /\ op'[r] = o
  /\ target'[r] = id
  /\ UNCHANGED <<failed, line, status, printed>>

Named(p) == from_string(line[p].text)

\* createSequencer, openSequencer, closeSequencer, destroySequencer of Admin.
Administer(p) ==
  /\ status[p] = "main" /\ ~Throws(p)
  /\ \/ /\ line[p].exec \in Registry!Creating
        /\ Send(<<p, "last">>, line[p].exec, NilUUID)
     \/ /\ line[p].exec \in Registry!Removing
        /\ Send(<<p, "last">>, line[p].exec, Named(p))

\* makeSequencerHandle waits for its check to be performed, sayHello waits
\* for nothing, and computeSum follows.
MakeHandle(p) ==
  /\ status[p] = "main" /\ ~Throws(p)
  /\ line[p].exec = "client"
  /\ Send(<<p, "check">>, "check", Named(p))
SayHello(p) ==
  /\ status[p] = "main"
  /\ answer[<<p, "check">>] = "performed"
  /\ Send(<<p, "hello">>, "hello", Named(p))
ComputeSum(p) ==
  /\ status[p] = "main"
  /\ op[<<p, "hello">>] # "none"
  /\ Send(<<p, "last">>, "sum", Named(p))

\* The last RPC is answered, or the check that found nothing: the id is
\* printed, or the error, or nothing.
PrintsFirst(p, done) ==  \* Mutant: the id is printed before it is tested.
  IF line[p].exec \in Registry!Creating
  THEN printed \cup {to_string(target[<<p, "last">>])} ELSE printed
Printed(p, done) ==
  IF done /\ line[p].exec \in Registry!Creating
  THEN printed \cup {to_string(target[<<p, "last">>])} ELSE printed

\* Admin and SequencerHandle throw unless the result they get is a success:
\* the RPC was performed, and so was what the backend did for it.
AlwaysDone(p) == TRUE  \* Mutant: result.success() is not tested.
Reports(p) ==
  /\ verdict[<<p, "last">>] = "performed"
  /\ <<p, "last">> \notin failed

Finish(p) ==
  /\ status[p] = "main"
  /\ \/ answer[<<p, "check">>] = "not_found"
     \/ answer[<<p, "last">>] # "undecided"
  /\ LET done == Reports(p) IN
       /\ status' = [status EXCEPT ![p] = IF done THEN "exit 0" ELSE "exit -1"]
       /\ printed' = Printed(p, done)
  /\ UNCHANGED <<registry, failed, line>>

-----------------------------------------------------------------------------
(* The provider.                                                           *)

\* json::parse("") throws: without -c nothing is created or opened.
Parses(r) == op[r] \in Registry!Creating => line[r[1]].config

\* Backend::destroy and computeSum run when their RPC is performed; what they
\* report is the result of the RPC.
RunsBackend(r) ==
  /\ op[r] \in {"destroy", "sum"}
  /\ verdict[r] = "undecided" /\ verdict'[r] = "performed"
ServeBackend(r) == \E success \in BackendResults :
  failed' = IF RunsBackend(r) /\ ~success THEN failed \cup {r} ELSE failed

Serve(r) ==
  /\ \/ Registry!Refuse(r)
     \/ Registry!Create(r) /\ Parses(r)
     \/ Registry!Remove(r) \/ Registry!Find(r) \/ Registry!Miss(r)
     \/ Registry!Answer(r) /\ (op[r] = "hello" => verdict[r] # "performed")
  /\ ServeBackend(r)
  /\ UNCHANGED <<line, status, printed>>

Over == (\A p \in Programs : status[p] \in Ended) /\ UNCHANGED vars

Next ==
  \/ \E p \in Programs :
       \/ Start(p) \/ Abort(p) \/ Administer(p) \/ MakeHandle(p)
       \/ SayHello(p) \/ ComputeSum(p) \/ Finish(p)
  \/ \E r \in Requests : Serve(r)
  \/ Over

Spec == Init /\ [][Next]_vars

-----------------------------------------------------------------------------
Texts == {Text(id, form) : id \in UUIDs \cup {NilUUID}, form \in Forms}

(***************************************************************************)
(* The types of the command lines, statuses and texts.                     *)
(***************************************************************************)
TypeOK ==
  /\ live \subseteq UUIDs
  /\ target \in [Requests -> UUIDs \cup {NilUUID}]
  /\ failed \subseteq Requests
  /\ line \in [Programs ->
       [exec : Registry!Creating \cup Registry!Removing \cup {"client", "none"},
        text : Texts \cup {Nonsense}, config : BOOLEAN,
        provider : Asked \cup {0}]]
  /\ status \in [Programs -> {"ready", "main"} \cup Ended]
  /\ printed \subseteq {to_string(id) : id \in UUIDs}

(***************************************************************************)
(* What an exit status tells, to a script that sees nothing else: 0 if and *)
(* only if the last RPC was performed and its backend reported no failure, *)
(* and the end by an exception nobody catches, that nothing was sent.  Of  *)
(* the programs that were told to close or destroy one id, however many    *)
(* run at a time, at most one ends with 0.                                 *)
(***************************************************************************)
StatusTellsOutcome ==
  /\ \A p \in Programs : status[p] \in Ended =>
       /\ status[p] = "exit 0" <=>
            verdict[<<p, "last">>] = "performed" /\ <<p, "last">> \notin failed
       /\ status[p] = "abort" =>
            \A r \in Requests : r[1] = p => op[r] = "none"
  /\ \A p, q \in Programs :
       /\ status[p] = "exit 0" /\ line[p].exec \in Registry!Removing
       /\ status[q] = "exit 0" /\ line[q].exec \in Registry!Removing
       /\ Named(p) = Named(q)
       => p = q

(***************************************************************************)
(* An id that was printed is good for a command line, in either case,      *)
(* until some program removes its sequencer: one that was given it fails   *)
(* only if it was refused, its own backend call reported a failure, or a   *)
(* close or destroy took the sequencer out.                                *)
(***************************************************************************)
PrintedIdWorks == \A p \in Programs, id \in UUIDs :
  /\ line[p].text \in {Text(id, "printed"), Text(id, "upper")}
  /\ \/ status[p] = "exit -1"
     \/ status[p] = "abort" /\ line[p].provider = 0
  => \/ verdict[<<p, "last">>] = "refused"
     \/ <<p, "last">> \in failed
     \/ \E r \in Requests : /\ op[r] \in Registry!Removing
                            /\ target[r] = id /\ verdict[r] = "performed"
=============================================================================
