------------------------ MODULE ExampleProgramsProofs ------------------------
(***************************************************************************)
(* Proofs about ExamplePrograms, for any number of programs and ids.       *)
(***************************************************************************)
EXTENDS ExampleProgramsInvariant, TLAPS

USE DEF Registry!Creating, Registry!Removing, Registry!Looking,
        Check, Hello, Last

-----------------------------------------------------------------------------
LEMMA RequestsOf ==
  ASSUME NEW p \in Programs
  PROVE  {Check(p), Hello(p), Last(p)} \subseteq Requests
BY DEF Requests

\* Initially no program runs and nothing was sent.
LEMMA InitEInv == ASSUME ProgramsAssumption, Init PROVE EInv
<1> USE DEF Init, Registry!Init
<1>1. TypeOK
  BY DEF TypeOK, NoLine, Texts, to_string, Text, Forms, Ended
<1>2. RegistryInv
  BY DEF RegistryInv, WasCreated, Registry!Ops, Registry!Verdicts
<1>3. TextInv
  BY ProgramsAssumption DEF TextInv, NoLine, to_string, Text, ProgramsAssumption
<1>4. ProgramInv
  BY RequestsOf DEF ProgramInv, ProgramOK
<1>5. RemovalInv /\ FailedInv
  BY DEF RemovalInv, IsRemoval, FailedInv
<1> QED BY <1>1, <1>2, <1>3, <1>4, <1>5 DEF EInv

\* What is typed names ids that were printed.
LEMMA StartEInv ==
  ASSUME ProgramsAssumption, EInv, NEW p \in Programs, Start(p)
  PROVE  EInv'
<1>1. PICK exec \in Registry!Creating \cup Registry!Removing \cup {"client"},
           text \in Typed, config \in BOOLEAN, provider \in Asked :
        line' = [line EXCEPT ![p] =
          [exec |-> exec, config |-> config, provider |-> provider,
           text |-> IF exec \in Registry!Creating THEN to_string(NilUUID)
                                                  ELSE text]]
  BY DEF Start
<1>2. /\ status[p] = "ready" /\ status' = [status EXCEPT ![p] = "main"]
      /\ UNCHANGED <<live, op, target, verdict, answer, failed, printed>>
  BY DEF Start, registry
<1>3. /\ Typed \subseteq Texts \cup {Nonsense}
      /\ \A text2 \in Typed : text2.id \in UUIDs => WasCreated(text2.id)
  <2>1. ASSUME NEW seen \in printed, NEW form \in Forms
        PROVE  /\ Text(seen.id, form) \in Texts
               /\ WasCreated(Text(seen.id, form).id)
    <3>1. PICK id \in UUIDs : seen = to_string(id)
      BY DEF EInv, TypeOK
    <3>2. seen.id = id /\ Text(seen.id, form).id = id
      BY <3>1 DEF to_string, Text
    <3> QED BY <3>2 DEF EInv, TextInv, Texts
  <2>2. /\ to_string(NilUUID) \in Texts
        /\ to_string(NilUUID).id \notin UUIDs /\ Nonsense.id \notin UUIDs
    BY ProgramsAssumption
       DEF to_string, Text, Texts, Forms, Nonsense, ProgramsAssumption
  <2> QED BY <2>1, <2>2 DEF Typed
<1>4. TypeOK'
  <2>1. to_string(NilUUID) \in Texts
    BY DEF to_string, Texts, Forms
  <2> QED BY <1>1, <1>2, <1>3, <2>1 DEF EInv, TypeOK
<1>5. RegistryInv' /\ RemovalInv' /\ FailedInv'
  BY <1>2 DEF EInv, RegistryInv, WasCreated, WasRemoved, RemovalInv,
              IsRemoval, FailedInv
<1>6. TextInv'
  <2>1. to_string(NilUUID).id \notin UUIDs
    BY ProgramsAssumption DEF to_string, Text, ProgramsAssumption
  <2>2. \A q \in Programs : line'[q].text.id \in UUIDs
                            => WasCreated(line'[q].text.id)
    BY <1>1, <1>3, <2>1 DEF EInv, TypeOK, TextInv
  <2> QED BY <1>2, <2>2 DEF EInv, TextInv, WasCreated
<1>7. ProgramInv'
  <2>1. op[Check(p)] = "none" /\ op[Hello(p)] = "none" /\ op[Last(p)] = "none"
    BY <1>2 DEF EInv, ProgramInv, ProgramOK
  <2>2. \A q \in Programs \ {p} : line'[q] = line[q] /\ status'[q] = status[q]
    BY <1>1, <1>2 DEF EInv, TypeOK
  <2>3. status'[p] = "main" /\ line'[p].exec # "none"
    BY <1>1, <1>2 DEF EInv, TypeOK
  <2>4. ASSUME NEW q \in Programs PROVE ProgramOK(q)'
    <3>1. CASE q = p
      BY <1>2, <2>1, <2>3, <3>1 DEF EInv, RegistryInv, ProgramOK, Requests
    <3>2. CASE q # p
      <4>1. ProgramOK(q) /\ line'[q] = line[q] /\ status'[q] = status[q]
        BY <2>2, <3>2 DEF EInv, ProgramInv
      <4> QED BY <1>2, <4>1 DEF ProgramOK, Throws, Contacted, Named
    <3> QED BY <3>1, <3>2
  <2> QED BY <2>4 DEF ProgramInv
<1> QED BY <1>4, <1>5, <1>6, <1>7 DEF EInv

\* A program that throws has not sent anything.
LEMMA AbortEInv ==
  ASSUME ProgramsAssumption, EInv, NEW p \in Programs, Abort(p)
  PROVE  EInv'
<1>1. /\ status[p] = "main" /\ Throws(p)
      /\ status' = [status EXCEPT ![p] = "abort"]
      /\ UNCHANGED <<live, op, target, verdict, answer, failed, line, printed>>
  BY DEF Abort, registry
<1>2. TypeOK'
  BY <1>1 DEF EInv, TypeOK, Ended
<1>3. RegistryInv' /\ TextInv' /\ RemovalInv' /\ FailedInv'
  BY <1>1 DEF EInv, RegistryInv, TextInv, WasCreated, WasRemoved,
              RemovalInv, IsRemoval, FailedInv
<1>4. ProgramInv'
  <2>1. \A q \in Programs : status'[q] = IF q = p THEN "abort" ELSE status[q]
    BY <1>1 DEF EInv, TypeOK
  <2>2. op[Check(p)] = "none" /\ op[Hello(p)] = "none" /\ op[Last(p)] = "none"
    BY <1>1 DEF EInv, ProgramInv, ProgramOK
  <2>3. ASSUME NEW q \in Programs PROVE ProgramOK(q)'
    <3>1. ProgramOK(q)
      BY DEF EInv, ProgramInv
    <3>2. CASE q = p
      <4>1. status'[p] = "abort" /\ Throws(p)'
        BY <1>1, <2>1 DEF Throws, Contacted
      <4> QED BY <1>1, <2>2, <3>1, <3>2, <4>1 DEF ProgramOK, Named
    <3>3. CASE q # p
      BY <1>1, <2>1, <3>1, <3>3 DEF ProgramOK, Throws, Contacted, Named
    <3> QED BY <3>2, <3>3
  <2> QED BY <2>3 DEF ProgramInv
<1> QED BY <1>2, <1>3, <1>4 DEF EInv

\* Sending an RPC performs nothing yet.
LEMMA SendEInv ==
  ASSUME ProgramsAssumption, EInv, NEW p \in Programs,
         NEW r \in {Check(p), Hello(p), Last(p)},
         NEW o \in Registry!Ops, NEW id \in UUIDs \cup {NilUUID},
         Send(r, o, id), status[p] = "main", ~Throws(p),
         o \notin Registry!Creating /\ id \in UUIDs => WasCreated(id),
         r = Check(p) =>
           o = "check" /\ line[p].exec = "client" /\ id = Named(p),
         r # Check(p) /\ line[p].exec = "client" =>
           verdict[Check(p)] = "performed",
         r = Hello(p) => line[p].exec = "client",
         r = Last(p) =>
           /\ o = IF line[p].exec = "client" THEN "sum" ELSE line[p].exec
           /\ line[p].exec \notin Registry!Creating => id = Named(p)
  PROVE  EInv'
<1>1. /\ r \in Requests /\ op[r] = "none" /\ verdict[r] = "undecided"
      /\ op' = [op EXCEPT ![r] = o] /\ target' = [target EXCEPT ![r] = id]
      /\ UNCHANGED <<live, verdict, answer, failed, line, status, printed>>
  <2>1. r \in Requests /\ op[r] = "none"
    BY RequestsOf DEF Send, Registry!Invoke
  <2>2. PICK o2 \in Registry!Ops : op' = [op EXCEPT ![r] = o2]
    BY DEF Send, Registry!Invoke
  <2>3. PICK id2 : target' = [target EXCEPT ![r] = id2]
    BY DEF Send, Registry!Invoke
  <2>4. o2 = o /\ id2 = id
    BY <2>1, <2>2, <2>3 DEF Send, EInv, TypeOK, RegistryInv
  <2>5. UNCHANGED <<live, verdict, answer, failed, line, status, printed>>
    BY DEF Send, Registry!Invoke
  <2>6. verdict[r] = "undecided"
    BY <2>1 DEF EInv, RegistryInv
  <2> QED BY <2>1, <2>2, <2>3, <2>4, <2>5, <2>6
<1>2. TypeOK'
  BY <1>1 DEF EInv, TypeOK
<1>3. \A id2 : WasCreated(id2)' = WasCreated(id2)
               /\ WasRemoved(id2)' = WasRemoved(id2)
  BY <1>1 DEF EInv, TypeOK, RegistryInv, WasCreated, WasRemoved
<1>4. RegistryInv'
  <2>1. \A q \in Requests \ {r} : op'[q] = op[q] /\ target'[q] = target[q]
    BY <1>1 DEF EInv, TypeOK, RegistryInv
  <2>2. op'[r] = o /\ o # "none"
    BY <1>1 DEF EInv, RegistryInv, Registry!Ops
  <2> QED BY <1>1, <1>3, <2>1, <2>2 DEF EInv, RegistryInv
<1>5. TextInv' /\ RemovalInv' /\ FailedInv'
  <2>1. \A q \in Requests \ {r} : op'[q] = op[q] /\ target'[q] = target[q]
    BY <1>1 DEF EInv, TypeOK, RegistryInv
  <2>2. ~IsRemoval(r)' /\ \A q \in Requests \ {r} :
                              IsRemoval(q)' <=> IsRemoval(q)
    BY <1>1, <2>1 DEF IsRemoval
  <2>3. RemovalInv'
    BY <1>1, <2>1, <2>2 DEF EInv, RemovalInv
  <2>4. r \notin failed
    BY <1>1 DEF EInv, FailedInv
  <2>5. FailedInv'
    BY <1>1, <2>1, <2>4 DEF EInv, TypeOK, FailedInv
  <2> QED BY <1>1, <1>3, <2>3, <2>5 DEF EInv, TextInv
<1>6. ProgramInv'
  <2>1. \A q \in Requests :
          /\ op'[q] = IF q = r THEN o ELSE op[q]
          /\ target'[q] = IF q = r THEN id ELSE target[q]
    BY <1>1 DEF EInv, TypeOK, RegistryInv
  <2>2. \A q \in Programs : (Throws(q)' <=> Throws(q)) /\ Named(q)' = Named(q)
    BY <1>1 DEF Throws, Contacted, Named
  <2>3. \A q \in Programs : {Check(q), Hello(q), Last(q)} \subseteq Requests
    BY RequestsOf
  <2>4. ASSUME NEW q \in Programs, q # p
        PROVE  r \notin {Check(q), Hello(q), Last(q)}
    BY <2>4
  <2>5. Check(p) # Hello(p) /\ Hello(p) # Last(p) /\ Check(p) # Last(p)
    OBVIOUS
  <2>6. o # "none"
    BY DEF Registry!Ops
  <2>7. op[r] = "none" /\ verdict[r] = "undecided" /\ status[p] = "main"
    BY <1>1
  <2>8. ASSUME NEW q \in Programs PROVE ProgramOK(q)'
    <3>1. ProgramOK(q)
      BY DEF EInv, ProgramInv
    <3>2. CASE q # p
      <4>1. \A c \in {Check(q), Hello(q), Last(q)} :
              /\ op'[c] = op[c] /\ target'[c] = target[c]
              /\ verdict'[c] = verdict[c]
        BY <1>1, <2>1, <2>3, <2>4, <3>2
      <4>2. line'[q] = line[q] /\ status'[q] = status[q]
        BY <1>1
      <4>3. failed' = failed
        BY <1>1
      <4> QED BY <2>2, <3>1, <4>1, <4>2, <4>3 DEF ProgramOK
    <3>3. CASE q = p /\ r = Last(p)
      <4>1. /\ op'[Check(p)] = op[Check(p)] /\ op'[Hello(p)] = op[Hello(p)]
            /\ target'[Check(p)] = target[Check(p)]
            /\ op'[Last(p)] = o /\ target'[Last(p)] = id
        BY <2>1, <2>3, <2>5, <3>3
      <4>2. line[p].exec = "client" => verdict[Check(p)] = "performed"
        BY <2>5, <3>3
      <4> QED BY <1>1, <2>2, <2>7, <3>1, <3>3, <4>1, <4>2 DEF ProgramOK
    <3>4. CASE q = p /\ r = Hello(p)
      <4>1. /\ op'[Check(p)] = op[Check(p)] /\ op'[Last(p)] = op[Last(p)]
            /\ target'[Check(p)] = target[Check(p)]
            /\ target'[Last(p)] = target[Last(p)]
        BY <2>1, <2>3, <2>5, <3>4
      <4>2. verdict[Check(p)] = "performed"
        BY <2>5, <3>4
      <4> QED BY <1>1, <2>2, <2>7, <3>1, <3>4, <4>1, <4>2 DEF ProgramOK
    <3>5. CASE q = p /\ r = Check(p)
      <4>1. /\ op'[Hello(p)] = op[Hello(p)] /\ op'[Last(p)] = op[Last(p)]
            /\ op'[Check(p)] = "check" /\ target'[Check(p)] = Named(p)
        BY <2>1, <2>3, <2>5, <3>5
      <4>2. op[Hello(p)] = "none" /\ op[Last(p)] = "none"
        BY <2>7, <3>1, <3>5 DEF ProgramOK
      <4> QED BY <1>1, <2>2, <2>7, <3>1, <3>5, <4>1, <4>2 DEF ProgramOK
    <3> QED BY <3>2, <3>3, <3>4, <3>5
  <2> QED BY <2>8 DEF ProgramInv
<1> QED BY <1>2, <1>4, <1>5, <1>6 DEF EInv

\* The programs send what their command lines ask for.
LEMMA ProgramSendsEInv ==
  ASSUME ProgramsAssumption, EInv, NEW p \in Programs,
         Administer(p) \/ MakeHandle(p) \/ SayHello(p) \/ ComputeSum(p)
  PROVE  EInv'
<1>1. /\ line[p].exec \in Registry!Creating \cup Registry!Removing
                            \cup {"client", "none"}
      /\ line[p].text \in Texts \cup {Nonsense}
  BY DEF EInv, TypeOK
<1>2. ~Throws(p) /\ line[p].exec \notin Registry!Creating =>
        /\ Named(p) \in UUIDs \cup {NilUUID}
        /\ Named(p) \in UUIDs => WasCreated(Named(p))
  BY <1>1 DEF Throws, Named, from_string, Texts, Nonsense, Text, EInv, TextInv
<1>3. CASE Administer(p)
  <2>1. CASE Send(Last(p), line[p].exec, NilUUID)
             /\ line[p].exec \in Registry!Creating
    BY <1>3, <2>1, SendEInv DEF Administer, Registry!Ops
  <2>2. CASE Send(Last(p), line[p].exec, Named(p))
             /\ line[p].exec \in Registry!Removing
    BY <1>2, <1>3, <2>2, SendEInv DEF Administer, Registry!Ops
  <2> QED BY <1>3, <2>1, <2>2 DEF Administer
<1>4. CASE MakeHandle(p)
  BY <1>2, <1>4, SendEInv DEF MakeHandle, Registry!Ops
<1>5. ASSUME NEW o \in {"hello", "sum"}, op[Check(p)] # "none",
             verdict[Check(p)] = "performed", status[p] = "main",
             Send(IF o = "hello" THEN Hello(p) ELSE Last(p), o, Named(p))
      PROVE  EInv'
  <2>1. ~Throws(p) /\ line[p].exec = "client"
    BY <1>5 DEF EInv, ProgramInv, ProgramOK
  <2> QED BY <1>2, <1>5, <2>1, SendEInv DEF Registry!Ops
<1>6. CASE SayHello(p)
  <2>1. verdict[Check(p)] = "performed" /\ op[Check(p)] # "none"
    BY <1>6, RequestsOf DEF SayHello, EInv, RegistryInv
  <2> QED BY <1>5, <1>6, <2>1 DEF SayHello
<1>7. CASE ComputeSum(p)
  <2>1. verdict[Check(p)] = "performed" /\ op[Check(p)] # "none"
    BY <1>7, RequestsOf
       DEF ComputeSum, EInv, ProgramInv, ProgramOK, RegistryInv
  <2> QED BY <1>5, <1>7, <2>1 DEF ComputeSum
<1> QED BY <1>3, <1>4, <1>6, <1>7

\* A program ends by what its last RPC was told, or because its check found
\* nothing, and prints a created id.
LEMMA FinishEInv ==
  ASSUME ProgramsAssumption, EInv, NEW p \in Programs, Finish(p)
  PROVE  EInv'
<1> DEFINE done == Reports(p)
<1>1. /\ status' = [status EXCEPT ![p] = IF done THEN "exit 0" ELSE "exit -1"]
      /\ printed' = Printed(p, done)
  BY DEF Finish
<1>2. /\ status[p] = "main"
      /\ answer[Check(p)] = "not_found" \/ answer[Last(p)] # "undecided"
      /\ UNCHANGED <<live, op, target, verdict, answer, failed, line>>
  BY DEF Finish, registry
<1>3. \/ verdict[Check(p)] = "not_found" /\ op[Last(p)] = "none"
      \/ verdict[Last(p)] # "undecided" /\ op[Last(p)] # "none"
  <2>1. CASE answer[Last(p)] # "undecided"
    BY <2>1, RequestsOf DEF EInv, RegistryInv
  <2>2. CASE answer[Check(p)] = "not_found"
    <3>1. verdict[Check(p)] = "not_found" /\ op[Check(p)] # "none"
      BY <2>2, RequestsOf DEF EInv, RegistryInv
    <3>2. op[Last(p)] = "none"
      BY <3>1 DEF EInv, ProgramInv, ProgramOK
    <3> QED BY <3>1, <3>2
  <2> QED BY <1>2, <2>1, <2>2
<1>4. done <=> verdict[Last(p)] = "performed" /\ Last(p) \notin failed
  BY DEF Reports
<1> HIDE DEF done
<1>5. \A text \in printed' \ printed :
        /\ text = to_string(target[Last(p)]) /\ text.id = target[Last(p)]
        /\ WasCreated(target[Last(p)]) /\ target[Last(p)] \in UUIDs
  <2>1. line[p].exec \in Registry!Creating /\ done =>
          op[Last(p)] \in Registry!Creating
    BY <1>3, <1>4, RequestsOf DEF RegistryInv, EInv, ProgramInv, ProgramOK
  <2>2. to_string(target[Last(p)]).id = target[Last(p)]
    BY DEF to_string, Text
  <2> QED BY <1>1, <1>4, <2>1, <2>2, RequestsOf
          DEF Printed, WasCreated, EInv, RegistryInv
<1>6. TypeOK'
  <2>1. status' \in [Programs -> {"ready", "main"} \cup Ended]
    BY <1>1 DEF EInv, TypeOK, Ended
  <2>2. printed' \subseteq {to_string(id) : id \in UUIDs}
    BY <1>5 DEF EInv, TypeOK
  <2> QED BY <1>2, <2>1, <2>2 DEF EInv, TypeOK
<1>7. RegistryInv' /\ RemovalInv' /\ FailedInv'
  BY <1>2 DEF EInv, RegistryInv, WasCreated, WasRemoved, RemovalInv,
              IsRemoval, FailedInv
<1>8. TextInv'
  BY <1>2, <1>5 DEF EInv, TextInv, WasCreated
<1>9. ProgramInv'
  <2>1. ASSUME NEW q \in Programs PROVE ProgramOK(q)'
    <3>1. ProgramOK(q)
      BY DEF EInv, ProgramInv
    <3>2. CASE q = p
      <4>1. status'[p] = IF done THEN "exit 0" ELSE "exit -1"
        BY <1>1 DEF EInv, TypeOK
      <4> QED BY <1>2, <1>3, <1>4, <3>1, <3>2, <4>1
              DEF ProgramOK, Throws, Contacted, Named
    <3>3. CASE q # p
      <4>1. status'[q] = status[q]
        BY <1>1, <3>3 DEF EInv, TypeOK
      <4> QED BY <1>2, <3>1, <4>1 DEF ProgramOK, Throws, Contacted, Named
    <3> QED BY <3>2, <3>3
  <2> QED BY <2>1 DEF ProgramInv
<1> QED BY <1>6, <1>7, <1>8, <1>9 DEF EInv

-----------------------------------------------------------------------------
(* The provider.                                                           *)

\* What the steps of the registry have in common: one request is decided or
\* answered, and only a create gives it another id.
LEMMA ServeEInv ==
  ASSUME ProgramsAssumption, EInv, NEW r \in Requests, Serve(r)
  PROVE  EInv'
<1>1. UNCHANGED <<op, line, status, printed>>
  BY DEF Serve, Registry!Refuse, Registry!Create, Registry!Remove,
         Registry!Find, Registry!Miss, Registry!Decide, Registry!Answer
<1>2. \/ /\ Registry!Answer(r)
      \/ /\ verdict[r] = "undecided" /\ UNCHANGED answer
         /\ \E v \in {"refused", "performed", "not_found"} :
              verdict' = [verdict EXCEPT ![r] = v]
  BY DEF Serve, Registry!Refuse, Registry!Create, Registry!Remove,
         Registry!Find, Registry!Miss, Registry!Decide
<1>3. /\ live' \subseteq UUIDs
      /\ target' \in [Requests -> UUIDs \cup {NilUUID}]
      /\ verdict' \in [Requests -> Registry!Verdicts]
      /\ answer' \in [Requests -> Registry!Verdicts]
  BY DEF Serve, Registry!Refuse, Registry!Create, Registry!Remove,
         Registry!Find, Registry!Miss, Registry!Decide, Registry!Answer,
         Registry!Verdicts, EInv, TypeOK, RegistryInv
<1>4. \A q \in Requests :
        /\ target'[q] # target[q] =>
             q = r /\ op[r] \in Registry!Creating /\ verdict[r] = "undecided"
        /\ verdict'[q] # verdict[q] =>
             q = r /\ op[r] # "none" /\ verdict[r] = "undecided"
                   /\ verdict'[r] # "undecided"
        /\ answer'[q] # answer[q] => answer'[q] = verdict'[q]
  BY DEF Serve, Registry!Refuse, Registry!Create, Registry!Remove,
         Registry!Find, Registry!Miss, Registry!Decide, Registry!Answer,
         EInv, TypeOK, RegistryInv
<1>5. /\ failed \subseteq failed' /\ failed' \subseteq Requests
      /\ \A q \in failed' : q \in failed \/ (q = r /\ RunsBackend(r))
  <2>1. PICK success \in BackendResults :
          failed' = IF RunsBackend(r) /\ ~success THEN failed \cup {r}
                                                 ELSE failed
    BY DEF Serve, ServeBackend
  <2> QED BY <2>1 DEF EInv, TypeOK
<1>6. TypeOK'
  BY <1>1, <1>3, <1>5 DEF EInv, TypeOK
<1>7. \A id : /\ WasCreated(id) => WasCreated(id)'
              /\ WasRemoved(id) => WasRemoved(id)'
  BY <1>1, <1>4 DEF WasCreated, WasRemoved
<1>8. RegistryInv'
  <2>1. ASSUME NEW q \in Requests
        PROVE  /\ answer'[q] \in {"undecided", verdict'[q]}
               /\ op[q] = "none" => verdict'[q] = "undecided"
               /\ op[q] \in Registry!Looking => verdict'[q] # "refused"
    <3>1. op[q] \in Registry!Looking => verdict'[q] # "refused"
      BY DEF Serve, Registry!Refuse, Registry!Create, Registry!Remove,
         Registry!Find, Registry!Miss, Registry!Decide, Registry!Answer,
         EInv, RegistryInv
    <3> QED BY <1>4, <3>1 DEF EInv, RegistryInv
  <2>2. ASSUME NEW q \in Requests, verdict'[q] = "not_found"
        PROVE  op[q] \notin Registry!Creating /\ target'[q] \notin live'
    <3>1. CASE verdict[q] = "not_found"
      <4>1. /\ op[q] \notin Registry!Creating /\ target[q] \notin live
            /\ target'[q] = target[q]
            /\ target[q] \in UUIDs => target[q] \in Registry!Given
        BY <1>4, <3>1 DEF EInv, RegistryInv, WasCreated, Registry!Given
      <4>2. target[q] \notin live'
        BY <4>1 DEF Serve, Registry!Refuse, Registry!Create, Registry!Remove,
           Registry!Find, Registry!Miss, Registry!Decide, Registry!Answer
      <4> QED BY <4>1, <4>2
    <3>2. CASE verdict[q] # "not_found"
      BY <2>2, <3>2 DEF Serve, Registry!Refuse, Registry!Create,
         Registry!Remove, Registry!Find, Registry!Miss, Registry!Decide,
         Registry!Answer, EInv, RegistryInv
    <3> QED BY <3>1, <3>2
  <2>3. ASSUME NEW id \in UUIDs, WasCreated(id)'
        PROVE  id \in live' \/ WasRemoved(id)'
    <3>1. CASE Registry!Create(r)
      <4>1. PICK u \in UUIDs : live' = live \cup {u}
                              /\ target' = [target EXCEPT ![r] = u]
        BY <3>1 DEF Registry!Create
      <4>2. target'[r] = u
        BY <4>1 DEF EInv, TypeOK
      <4>3. id = u \/ WasCreated(id)
        BY <1>1, <1>4, <2>3, <4>2 DEF WasCreated
      <4> QED BY <1>7, <4>1, <4>3 DEF EInv, RegistryInv
    <3>2. CASE ~Registry!Create(r)
      <4>1. UNCHANGED target
            /\ (verdict'[r] = "performed" /\ verdict[r] # "performed"
                  => op[r] \notin Registry!Creating)
        BY <3>2 DEF Serve, Registry!Refuse, Registry!Remove, Registry!Find,
           Registry!Miss, Registry!Decide, Registry!Answer, EInv, RegistryInv
      <4>2. WasCreated(id)
        BY <1>1, <1>4, <2>3, <4>1 DEF WasCreated
      <4>3. id \in live /\ id \notin live' =>
              /\ op[r] \in Registry!Removing /\ target[r] = id
              /\ verdict'[r] = "performed"
        BY <3>2 DEF Serve, Registry!Refuse, Registry!Remove, Registry!Find,
           Registry!Miss, Registry!Decide, Registry!Answer, EInv, RegistryInv
      <4>4. id \in live /\ id \notin live' => WasRemoved(id)'
        BY <1>1, <4>1, <4>3 DEF WasRemoved
      <4> QED BY <1>7, <4>2, <4>4 DEF EInv, RegistryInv
    <3> QED BY <3>1, <3>2
  <2>4. ASSUME NEW q \in Requests
        PROVE  /\ op[q] \in Registry!Creating /\ verdict'[q] = "performed" =>
                    target'[q] \in UUIDs
               /\ op[q] \notin Registry!Creating =>
                    (target[q] \in UUIDs => WasCreated(target[q]))'
    <3>1. CASE op[q] \in Registry!Creating
      BY <3>1 DEF Serve, Registry!Refuse, Registry!Create, Registry!Remove,
         Registry!Find, Registry!Miss, Registry!Decide, Registry!Answer,
         EInv, TypeOK, RegistryInv
    <3>2. CASE op[q] \notin Registry!Creating
      <4>1. target'[q] = target[q]
        BY <1>4, <3>2
      <4>2. target[q] \in UUIDs => WasCreated(target[q])
        BY <3>2 DEF EInv, RegistryInv
      <4>3. WasCreated(target[q]) => (WasCreated(target[q]))'
        BY <1>1, <1>4, <4>1 DEF WasCreated
      <4> QED BY <3>2, <4>1, <4>2, <4>3
    <3> QED BY <3>1, <3>2
  <2> QED BY <1>1, <1>3, <2>1, <2>2, <2>3, <2>4 DEF EInv, RegistryInv
<1>9. TextInv'
  BY <1>1, <1>7 DEF EInv, TextInv
<1>10. FailedInv'
  <2>1. ASSUME NEW q \in failed'
        PROVE  op[q] \in {"destroy", "sum"} /\ verdict'[q] = "performed"
    <3>1. CASE q \in failed
      BY <1>4, <3>1 DEF EInv, TypeOK, FailedInv
    <3>2. CASE q \notin failed
      BY <1>5, <2>1, <3>2 DEF RunsBackend
    <3> QED BY <3>1, <3>2
  <2> QED BY <1>1, <2>1 DEF FailedInv
<1>11. RemovalInv'
  <2>1. CASE Registry!Remove(r)
    <3>1. /\ live' = live \ {target[r]} /\ target' = target
          /\ target[r] \in live
      BY <2>1 DEF Registry!Remove
    <3>2. \A q \in Requests : IsRemoval(q)' => (IsRemoval(q) \/ q = r)
      BY <1>1, <1>4 DEF IsRemoval
    <3> QED BY <3>1, <3>2 DEF EInv, TypeOK, RemovalInv
  <2>2. CASE ~Registry!Remove(r)
    <3>1. \A q \in Requests :
            IsRemoval(q)' => IsRemoval(q) /\ target'[q] = target[q]
      <4>1. verdict[r] = "undecided" /\ verdict'[r] = "performed" =>
              op[r] \notin Registry!Removing
        BY <2>2 DEF Serve, Registry!Refuse, Registry!Create, Registry!Find,
           Registry!Miss, Registry!Decide, Registry!Answer, EInv, RegistryInv
      <4> QED BY <1>1, <1>4, <4>1 DEF IsRemoval
    <3>2. ASSUME NEW q \in Requests, IsRemoval(q), target[q] \in UUIDs \ live
          PROVE  target[q] \notin live'
      <4>1. target[q] \in Registry!Given
        BY <3>2 DEF EInv, RegistryInv, IsRemoval, WasCreated, Registry!Given
      <4> QED BY <2>2, <3>2, <4>1 DEF Serve, Registry!Refuse,
              Registry!Create, Registry!Find, Registry!Miss, Registry!Answer
    <3> QED BY <3>1, <3>2 DEF EInv, RemovalInv
  <2> QED BY <2>1, <2>2
<1>12. ProgramInv'
  <2>1. ASSUME NEW p \in Programs PROVE ProgramOK(p)'
    <3>1. ProgramOK(p) /\ {Check(p), Hello(p), Last(p)} \subseteq Requests
      BY RequestsOf DEF EInv, ProgramInv
    <3>2. line[p].exec \notin Registry!Creating =>
            (op[Last(p)] # "none" => target'[Last(p)] = target[Last(p)])
      BY <1>4, <3>1 DEF ProgramOK
    <3>3. status[p] \in {"exit 0", "exit -1"} =>
            verdict'[Last(p)] = verdict[Last(p)]
      BY <1>4, <3>1 DEF ProgramOK
    <3>4. op[Check(p)] # "none" => target'[Check(p)] = target[Check(p)]
      BY <1>4, <3>1 DEF ProgramOK
    <3>5. verdict[Check(p)] # "undecided" =>
            verdict'[Check(p)] = verdict[Check(p)]
      BY <1>4, <3>1
    <3>6. verdict[Last(p)] = "performed" =>
            (Last(p) \in failed' <=> Last(p) \in failed)
      BY <1>5 DEF RunsBackend
    <3> QED BY <1>1, <3>1, <3>2, <3>3, <3>4, <3>5, <3>6
            DEF ProgramOK, Throws, Contacted, Named
  <2> QED BY <2>1 DEF ProgramInv
<1> QED BY <1>6, <1>8, <1>9, <1>12, <1>10, <1>11 DEF EInv

-----------------------------------------------------------------------------
\* Every step preserves the invariant.
LEMMA NextEInv == ASSUME ProgramsAssumption, EInv, [Next]_vars PROVE EInv'
<1>1. ASSUME NEW p \in Programs, Start(p) PROVE EInv'
  BY <1>1, StartEInv
<1>2. ASSUME NEW p \in Programs, Abort(p) PROVE EInv'
  BY <1>2, AbortEInv
<1>3. ASSUME NEW p \in Programs,
             Administer(p) \/ MakeHandle(p) \/ SayHello(p) \/ ComputeSum(p)
      PROVE  EInv'
  BY <1>3, ProgramSendsEInv
<1>4. ASSUME NEW p \in Programs, Finish(p) PROVE EInv'
  BY <1>4, FinishEInv
<1>5. ASSUME NEW r \in Requests, Serve(r) PROVE EInv'
  BY <1>5, ServeEInv
<1>6. CASE UNCHANGED vars
  <2>1. UNCHANGED <<live, op, target, verdict, answer, failed, line, status,
                    printed>>
    BY <1>6 DEF vars, registry
  <2>2. TypeOK' /\ RegistryInv' /\ TextInv' /\ RemovalInv' /\ FailedInv'
    BY <2>1 DEF EInv, TypeOK, RegistryInv, TextInv, WasCreated, WasRemoved,
                RemovalInv, IsRemoval, FailedInv
  <2>3. ASSUME NEW p \in Programs PROVE ProgramOK(p)'
    <3>1. ProgramOK(p)
      BY DEF EInv, ProgramInv
    <3> QED BY <2>1, <3>1 DEF ProgramOK, Throws, Contacted, Named
  <2> QED BY <2>2, <2>3 DEF EInv, ProgramInv
<1> QED BY <1>1, <1>2, <1>3, <1>4, <1>5, <1>6 DEF Next, Over

\* EInv holds in every state, for any number of programs.
THEOREM ProgramsInvariant == Spec => []EInv
BY ProgramsAssumption, InitEInv, NextEInv, PTL DEF Spec

\* The command lines, the statuses and the printed texts keep their types.
THEOREM ProgramsTypes == Spec => []TypeOK
BY ProgramsInvariant, PTL DEF EInv

\* An exit status tells whether the program did what it was asked for, and
\* of two programs that were to remove one id only one can end with 0.
THEOREM StatusTells == Spec => []StatusTellsOutcome
<1>1. ASSUME EInv, NEW p \in Programs, status[p] \in Ended
      PROVE  /\ status[p] = "exit 0" <=>
                  verdict[Last(p)] = "performed" /\ Last(p) \notin failed
             /\ status[p] = "abort" =>
                  \A r \in Requests : r[1] = p => op[r] = "none"
  <2>1. ProgramOK(p) /\ Last(p) \in Requests
    BY <1>1, RequestsOf DEF EInv, ProgramInv
  <2>2. ASSUME status[p] = "abort", NEW r \in Requests, r[1] = p
        PROVE  op[r] = "none"
    <3>1. op[Check(p)] = "none" /\ op[Hello(p)] = "none" /\ op[Last(p)] = "none"
      BY <2>1, <2>2 DEF ProgramOK
    <3>2. r \in {Check(p), Hello(p), Last(p)}
      BY <2>2 DEF Requests
    <3> QED BY <3>1, <3>2
  <2>3. op[Last(p)] = "none" => verdict[Last(p)] = "undecided"
    BY <1>1, <2>1 DEF EInv, RegistryInv
  <2>4. status[p] = "abort" => op[Last(p)] = "none"
    BY <2>1, <2>2
  <2> QED BY <1>1, <2>1, <2>2, <2>3, <2>4 DEF ProgramOK, Ended
<1>2. ASSUME EInv, NEW p \in Programs, NEW q \in Programs,
             status[p] = "exit 0", line[p].exec \in Registry!Removing,
             status[q] = "exit 0", line[q].exec \in Registry!Removing,
             Named(p) = Named(q)
      PROVE  p = q
  <2>1. ASSUME NEW s \in {p, q}
        PROVE  IsRemoval(Last(s)) /\ target[Last(s)] = Named(s)
    <3>1. ProgramOK(s) /\ Last(s) \in Requests /\ s \in Programs
      BY <1>2, RequestsOf DEF EInv, ProgramInv
    <3>2. verdict[Last(s)] = "performed" /\ op[Last(s)] # "none"
      BY <1>2, <3>1 DEF ProgramOK, EInv, RegistryInv
    <3> QED BY <1>2, <3>1, <3>2 DEF ProgramOK, IsRemoval
  <2>2. Last(p) \in Requests /\ Last(q) \in Requests
    BY RequestsOf
  <2>3. Last(p) = Last(q)
    BY <1>2, <2>1, <2>2 DEF EInv, RemovalInv
  <2> QED BY <2>3
<1>3. EInv => StatusTellsOutcome
  BY <1>1, <1>2 DEF StatusTellsOutcome
<1> QED BY <1>3, ProgramsInvariant, PTL

\* from_string reads what to_string wrote, in either case.
LEMMA ReadsBack ==
  ASSUME NEW t, NEW id, t \in {Text(id, "printed"), Text(id, "upper")}
  PROVE  t.id = id /\ from_string(t) = id
<1>1. CASE t = Text(id, "printed") BY <1>1 DEF Text, from_string
<1>2. CASE t = Text(id, "upper") BY <1>2 DEF Text, from_string
<1> QED BY <1>1, <1>2

\* How a program with such a text can fail.
FailedOn(p) ==
  \/ status[p] = "exit -1"
  \/ status[p] = "abort" /\ line[p].provider = 0

\* A program that was given an id that was printed, and failed, was refused,
\* was told of a failure of the backend or found the sequencer removed.
LEMMA FailedForAReason ==
  ASSUME ProgramsAssumption, EInv, NEW p \in Programs, NEW id \in UUIDs,
         line[p].text \in {Text(id, "printed"), Text(id, "upper")},
         FailedOn(p)
  PROVE  \/ verdict[Last(p)] = "refused" \/ Last(p) \in failed
         \/ WasRemoved(id)
<1>1. ProgramOK(p) /\ Last(p) \in Requests
  BY RequestsOf DEF EInv, ProgramInv
<1>2. /\ line[p].text.id = id /\ WasCreated(id)
      /\ Named(p) = id /\ id # None
  <2>1. line[p].text.id = id /\ Named(p) = id
    BY ReadsBack DEF Named
  <2>2. WasCreated(id)
    BY <2>1 DEF EInv, TextInv
  <2> QED BY <2>1, <2>2 DEF ProgramsAssumption
<1>3. CASE status[p] = "abort" /\ line[p].provider = 0
  <2>1. Contacted(p) = 0
    BY <1>3 DEF Contacted, ProgramsAssumption
  <2>2. from_string(line[p].text) # None
    BY <1>2 DEF Named
  <2> QED BY <1>1, <1>3, <2>1, <2>2 DEF ProgramOK, Throws
<1>4. CASE status[p] = "exit -1"
  <2>1. ASSUME NEW r \in Requests, verdict[r] = "not_found", target[r] = id
        PROVE  WasRemoved(id)
    BY <1>2, <2>1 DEF EInv, RegistryInv
  <2>2. CASE op[Last(p)] = "none"
    <3>1. verdict[Check(p)] = "not_found" /\ op[Check(p)] # "none"
          /\ Check(p) \in Requests
      BY <1>1, <1>4, <2>2, RequestsOf DEF ProgramOK, EInv, RegistryInv
    <3>2. target[Check(p)] = id
      BY <1>1, <1>2, <3>1 DEF ProgramOK
    <3> QED BY <2>1, <3>1, <3>2
  <2>3. CASE op[Last(p)] # "none"
    <3>1. verdict[Last(p)] \in {"refused", "not_found", "performed"}
      BY <1>1, <1>4, <2>3 DEF ProgramOK, EInv, RegistryInv, Registry!Verdicts
    <3>2. CASE verdict[Last(p)] = "performed"
      BY <1>1, <1>4, <2>3, <3>2 DEF ProgramOK
    <3>3. CASE verdict[Last(p)] = "not_found"
      <4>1. op[Last(p)] \notin Registry!Creating
        BY <1>1, <3>3 DEF EInv, RegistryInv
      <4>2. target[Last(p)] = id
        BY <1>1, <1>2, <2>3, <4>1 DEF ProgramOK
      <4> QED BY <1>1, <2>1, <3>3, <4>2
    <3> QED BY <3>1, <3>2, <3>3
  <2> QED BY <2>2, <2>3
<1> QED BY <1>3, <1>4 DEF FailedOn

\* An id that was printed works until its sequencer is removed.
THEOREM PrintedIdsWork == Spec => []PrintedIdWorks
<1>1. PrintedIdWorks = \A p \in Programs, id \in UUIDs :
        /\ line[p].text \in {Text(id, "printed"), Text(id, "upper")}
        /\ FailedOn(p)
        => \/ verdict[Last(p)] = "refused" \/ Last(p) \in failed
           \/ WasRemoved(id)
  BY DEF PrintedIdWorks, FailedOn, WasRemoved
<1>2. ASSUME ProgramsAssumption, EInv PROVE PrintedIdWorks
  BY <1>1, <1>2, FailedForAReason
<1> QED BY <1>2, ProgramsAssumption, ProgramsInvariant, PTL

\* A program under way goes on by itself, or waits for a response it is owed.
THEOREM ProgramsNeverStuck == Spec => []ProgramNeverStuck
<1>1. ASSUME EInv, NEW p \in Programs, status[p] = "main", ~CanGoOn(p)
      PROVE  Owed(Check(p)) \/ Owed(Last(p))
  <2>1. ProgramOK(p) /\ {Check(p), Hello(p), Last(p)} \subseteq Requests
    BY <1>1, RequestsOf DEF EInv, ProgramInv
  <2>2. answer[Last(p)] = "undecided" /\ ~Throws(p)
    BY <1>1 DEF CanGoOn
  <2>3. CASE op[Last(p)] # "none"
    <3>1. op[Last(p)] # "hello"
      BY <1>1, <2>1, <2>3 DEF ProgramOK, EInv, TypeOK
    <3> QED BY <2>2, <2>3, <3>1 DEF Owed
  <2>4. CASE op[Last(p)] = "none"
    <3>1. op[Check(p)] = "check" /\ op[Hello(p)] = "none"
      BY <1>1, <2>1, <2>4 DEF CanGoOn, ProgramOK
    <3>2. answer[Check(p)] \notin {"performed", "not_found"}
      BY <1>1, <3>1 DEF CanGoOn
    <3>3. answer[Check(p)] # "refused"
      BY <1>1, <2>1, <3>1 DEF EInv, RegistryInv
    <3> QED BY <1>1, <2>1, <3>1, <3>2, <3>3
            DEF Owed, EInv, RegistryInv, Registry!Verdicts
  <2> QED BY <2>3, <2>4
<1>2. EInv => ProgramNeverStuck
  BY <1>1 DEF ProgramNeverStuck
<1> QED BY <1>2, ProgramsInvariant, PTL
=============================================================================
