---------------------------- MODULE RequestResult ----------------------------
(***************************************************************************)
(* What a result carries from a backend to a caller: a handler or backend  *)
(* fills in a RequestResult, in one of the three layouts of its template,  *)
(* which is serialized, and the client fills another with the bytes, tests *)
(* it and stores the value or throws the error.  The wire does not say     *)
(* which T it carries: both ends name it, in different files.              *)
(***************************************************************************)
EXTENDS Integers, SequencesExt

CONSTANTS
  Calls,           \* the calls (a bound on their number)
  Cells,           \* the variables callers want a sum in
  Untouched,       \* what is in a cell before a call stores something
  UUIDs, NilUUID,  \* what an id can be, and UUID()
  Errors, NoError, \* the error strings, and the empty one
  MinInt, MaxInt,  \* INT32_MIN and INT32_MAX
  None             \* no value, no cell

Ints == MinInt..MaxInt

ASSUME ResultAssumption ==
  /\ MinInt \in Int /\ MaxInt \in Int
  /\ MinInt <= MaxInt
  /\ Untouched \notin Ints
  /\ None \notin Cells

VARIABLES
  stage,    \* of each call: "ready", "answered", or "over"
  rpc,      \* what it asks for
  decided,  \* history: what the handler and its backend decided
  wire,     \* the serialized answer
  outcome,  \* what the caller got
  cell      \* what is in the callers' variables

vars == <<stage, rpc, decided, wire, outcome, cell>>

-----------------------------------------------------------------------------
(* RequestResult<T>.                                                       *)

\* The member each accessor refers to.
MemberApart(T) ==  \* Mutant: bool has a value of its own.
  [success |-> "m_success", error |-> "m_error", value |-> "m_value"]
Member(T) == CASE
     T = "bool" -> [success |-> "m_success", error |-> "m_error",
                    value |-> "m_success"]
  [] T = "string" -> [success |-> "m_success", error |-> "m_content",
                      value |-> "m_content"]
  [] OTHER -> [success |-> "m_success", error |-> "m_error",
               value |-> "m_value"]

\* The members in the order of serialize.
Members(T) == CASE
     T = "bool" -> <<"m_success", "m_error">>
  [] T = "string" -> <<"m_success", "m_content">>
  [] OTHER -> <<"m_success", "m_error", "m_value">>

\* A default-constructed result.  UUID() is the nil id; an int32_t member is
\* left with whatever was there.
Fresh(T) ==
  {[member \in ToSet(Members(T)) |->
      CASE member = "m_success" -> TRUE
        [] member = "m_value" -> v
        [] OTHER -> NoError] :
   v \in IF T = "int32_t" THEN Ints ELSE {NilUUID}}

Get(T, result, field) == result[Member(T)[field]]
Set(T, result, field, v) == [result EXCEPT ![Member(T)[field]] = v]

Failed(T, result, e) == Set(T, Set(T, result, "success", FALSE), "error", e)

\* serialize writes the members to an archive, or reads them from one.
Save(T, result) == [i \in DOMAIN Members(T) |-> result[Members(T)[i]]]
LoadSwapped(T, result, bytes) ==  \* Mutant: it reads the last two crosswise.
  [member \in DOMAIN result |->
     LET i == CHOOSE j \in DOMAIN Members(T) : Members(T)[j] = member
     IN  bytes[IF i = 1 THEN 1 ELSE Len(bytes) + 2 - i]]
Load(T, result, bytes) ==
  [member \in DOMAIN result |->
     bytes[CHOOSE i \in DOMAIN Members(T) : Members(T)[i] = member]]

-----------------------------------------------------------------------------
\* The T of each RPC, for its handler and for its caller.
Sent(o) == CASE o \in {"create", "open"} -> "UUID"
             [] o = "sum" -> "int32_t"
             [] OTHER -> "bool"
Read(o) == CASE o \in {"create", "open"} -> "UUID"
             [] o \in {"close", "destroy", "check"} -> "bool"
             [] o = "sum" -> "int32_t"

Ops == {"create", "open", "close", "destroy", "check", "sum"}

Returned(v) == [how |-> "returned", what |-> v]
Threw(e)    == [how |-> "threw", what |-> e]
NotYet      == [how |-> "pending", what |-> None]

Init ==
  /\ stage   = [c \in Calls |-> "ready"]
  /\ rpc     = [c \in Calls |-> "none"]
  /\ decided = [c \in Calls |-> NotYet]
  /\ wire    = [c \in Calls |-> <<>>]
  /\ outcome = [c \in Calls |-> NotYet]
  /\ cell    = [p \in Cells |-> Untouched]

-----------------------------------------------------------------------------
(* The handlers.                                                           *)

Respond(c, o, result, decision) ==
  /\ stage[c] = "ready"
  /\ stage' = [stage EXCEPT ![c] = "answered"]
  /\ rpc' = [rpc EXCEPT ![c] = o]
  /\ decided' = [decided EXCEPT ![c] = decision]
  /\ wire' = [wire EXCEPT ![c] = Save(Sent(o), result)]
  /\ UNCHANGED <<outcome, cell>>

\* A token, a configuration, a type or an id is not good, or a backend
\* reports an error.
Refuse(c, o) ==
  \E result \in Fresh(Sent(o)), e \in Errors :
    Respond(c, o, Failed(Sent(o), result, e), Threw(e))

CreateOrOpen(c) ==
  \E o \in {"create", "open"}, result \in Fresh("UUID"), id \in UUIDs :
    Respond(c, o, Set("UUID", result, "value", id), Returned(id))

\* closeSequencer sends the result as it was made; checkSequencer sets it.
CloseOrCheck(c) ==
  \E result \in Fresh("bool") :
    \/ Respond(c, "close", result, Returned(None))
    \/ Respond(c, "check", Set("bool", result, "success", TRUE),
               Returned(None))

\* A backend's destroy says whether it did; DummySequencer's always did.
Destroy(c) ==
  \E result \in Fresh("bool"), done \in BOOLEAN :
    Respond(c, "destroy", Set("bool", result, "value", done),
            IF done THEN Returned(None) ELSE Threw(NoError))

\* x + y on int32_t: when it overflows, undefined, hence any integer.
Sums(x, y) == IF x + y \in Ints THEN {x + y} ELSE Ints

ComputeSum(c) ==
  \E result \in Fresh("int32_t"), x, y \in Ints : \E sum \in Sums(x, y) :
    Respond(c, "sum", Set("int32_t", result, "value", sum),
            Returned(sum))

-----------------------------------------------------------------------------
(* The callers.                                                            *)

\* if(result) *result = response.value(), once it is known that it succeeded.
StoreFirst(p, o, result) ==  \* Mutant: before that is known.
  IF o = "sum" /\ p # None
  THEN [cell EXCEPT ![p] = Get("int32_t", result, "value")] ELSE cell
Stored(p, o, result) ==
  IF o = "sum" /\ p # None /\ Get(Read(o), result, "success")
  THEN [cell EXCEPT ![p] = Get(Read(o), result, "value")] ELSE cell

\* What the caller makes of a result.
Verdict(T, result) ==
  IF ~Get(T, result, "success") THEN Threw(Get(T, result, "error"))
  ELSE Returned(IF T = "bool" THEN None ELSE Get(T, result, "value"))

\* The response is read into a fresh result, and tested.  computeSum stores
\* what it got where its caller asked for it, at once or in the wait.
Receive(c) ==
  LET o == rpc[c] IN
  /\ stage[c] = "answered"
  /\ \E blank \in Fresh(Read(o)), p \in Cells \cup {None} :
       LET result == Load(Read(o), blank, wire[c]) IN
       /\ outcome' = [outcome EXCEPT ![c] = Verdict(Read(o), result)]
       /\ cell' = Stored(p, o, result)
  /\ stage' = [stage EXCEPT ![c] = "over"]
  /\ UNCHANGED <<rpc, decided, wire>>

Over == (\A c \in Calls : stage[c] = "over") /\ UNCHANGED vars

Next ==
  \/ \E c \in Calls :
       \/ \E o \in Ops : Refuse(c, o)
       \/ CreateOrOpen(c) \/ CloseOrCheck(c) \/ Destroy(c) \/ ComputeSum(c)
       \/ Receive(c)
  \/ Over

Spec == Init /\ [][Next]_vars

-----------------------------------------------------------------------------
(***************************************************************************)
(* The types of the calls, and of the callers' variables.                  *)
(***************************************************************************)
TypeOK ==
  /\ stage \in [Calls -> {"ready", "answered", "over"}]
  /\ rpc \in [Calls -> Ops \cup {"none"}]
  /\ DOMAIN decided = Calls /\ DOMAIN outcome = Calls
  /\ DOMAIN wire = Calls
  /\ cell \in [Cells -> Ints \cup {Untouched}]

(***************************************************************************)
(* A caller gets what the handler and its backend decided: the value they  *)
(* gave, or an exception with the error they gave, in every layout and     *)
(* although the two ends fill and test the result by accessors that share  *)
(* members.                                                                *)
(***************************************************************************)
OutcomeDelivered == \A c \in Calls :
  stage[c] = "over" => outcome[c] = decided[c]

(***************************************************************************)
(* A caller's variable is never touched by a call that throws, and never   *)
(* holds the uninitialized integer a failed result carries: what is in it  *)
(* is the sum some call returned.                                          *)
(***************************************************************************)
CellHoldsSum == \A p \in Cells :
  \/ cell[p] = Untouched
  \/ \E c \in Calls : /\ rpc[c] = "sum"
                      /\ decided[c] = Returned(cell[p])
                      /\ outcome[c].how = "returned"
=============================================================================
