------------------------ MODULE RequestResultProofs -------------------------
(***************************************************************************)
(* Proofs about RequestResult, for integers of any width and any number of *)
(* calls that may store into the same variables.                           *)
(***************************************************************************)
EXTENDS RequestResult, TLAPS

Types == {"UUID", "int32_t", "bool", "string"}

\* An object of RequestResult<T>, whatever its members hold.
IsResult(T, result) ==
  result = [member \in ToSet(Members(T)) |-> result[member]]

\* What is on the wire means what was decided, whatever it is read into.
WireInv == \A c \in Calls : stage[c] # "ready" =>
  /\ rpc[c] \in Ops
  /\ \A blank \in Fresh(Read(rpc[c])) :
       Verdict(Read(rpc[c]), Load(Read(rpc[c]), blank, wire[c])) = decided[c]

\* Only sums have integers, and what was decided on them is one.
SumInv == \A c \in Calls :
  rpc[c] = "sum" /\ decided[c].how = "returned" => decided[c].what \in Ints

OutcomeInv == \A c \in Calls :
  outcome[c] = IF stage[c] = "over" THEN decided[c] ELSE NotYet

\* The inductive invariant.
RInv == TypeOK /\ WireInv /\ SumInv /\ OutcomeInv /\ CellHoldsSum

-----------------------------------------------------------------------------
\* The members that serialize names, in every layout, are different ones.
LEMMA MembersDistinct ==
  ASSUME NEW T \in Types, NEW i \in DOMAIN Members(T)
  PROVE  (CHOOSE j \in DOMAIN Members(T) : Members(T)[j] = Members(T)[i]) = i
<1>1. \A j \in DOMAIN Members(T) : Members(T)[j] = Members(T)[i] => j = i
  BY DEF Types, Members
<1> QED BY <1>1

\* A result that is saved and loaded is the same, in every layout and
\* whatever object it is loaded into.
LEMMA RoundTrip ==
  ASSUME NEW T \in Types, NEW result, IsResult(T, result),
         NEW blank \in Fresh(T)
  PROVE  Load(T, blank, Save(T, result)) = result
<1>1. DOMAIN blank = ToSet(Members(T))
  BY DEF Fresh
<1>2. ASSUME NEW member \in ToSet(Members(T))
      PROVE  Load(T, blank, Save(T, result))[member] = result[member]
  <2>1. PICK i \in DOMAIN Members(T) : Members(T)[i] = member
    BY <1>2 DEF ToSet
  <2>2. (CHOOSE j \in DOMAIN Members(T) : Members(T)[j] = member) = i
    BY <2>1, MembersDistinct
  <2>3. Save(T, result)[i] = result[member]
    BY <2>1 DEF Save
  <2> QED BY <1>1, <2>2, <2>3 DEF Load
<1> QED BY <1>1, <1>2 DEF Load, IsResult

\* The objects handlers fill in are of the type they say.
LEMMA FreshIsResult ==
  ASSUME NEW T \in Types, NEW result \in Fresh(T)
  PROVE  IsResult(T, result)
BY DEF Fresh, IsResult

\* A result that nobody touched says that all went well.
LEMMA FreshSucceeds ==
  ASSUME NEW T \in Types, NEW result \in Fresh(T)
  PROVE  /\ Get(T, result, "success") = TRUE
         /\ T = "bool" => Get(T, result, "error") = NoError
<1>1. /\ Member(T)["success"] = "m_success"
      /\ T = "bool" => Member(T)["error"] = "m_error"
  BY DEF Types, Member
<1>2. /\ "m_success" \in ToSet(Members(T))
      /\ T = "bool" => "m_error" \in ToSet(Members(T))
  BY DEF Types, Members, ToSet
<1> QED BY <1>1, <1>2 DEF Fresh, Get

\* A member that is set is so, and the object keeps its type.
LEMMA SetIsResult ==
  ASSUME NEW T \in Types, NEW result, IsResult(T, result),
         NEW field \in {"success", "error", "value"}, NEW v
  PROVE  /\ IsResult(T, Set(T, result, field, v))
         /\ Get(T, Set(T, result, field, v), field) = v
         /\ \A other \in {"success", "error", "value"} :
              Member(T)[other] # Member(T)[field] =>
                Get(T, Set(T, result, field, v), other)
                  = Get(T, result, other)
<1>1. \A other \in {"success", "error", "value"} :
        Member(T)[other] \in ToSet(Members(T))
  BY DEF Types, Member, Members, ToSet
<1>2. DOMAIN result = ToSet(Members(T))
  BY DEF IsResult
<1> QED BY <1>1, <1>2 DEF Set, Get, IsResult

\* A failure is read as a failure with its error, in every layout.
LEMMA FailureShows ==
  ASSUME NEW T \in Types, NEW result \in Fresh(T), NEW e
  PROVE  /\ IsResult(T, Failed(T, result, e))
         /\ Verdict(T, Failed(T, result, e)) = Threw(e)
<1> DEFINE first == Set(T, result, "success", FALSE)
<1>1. IsResult(T, first) /\ Get(T, first, "success") = FALSE
  <2>1. IsResult(T, result)
    BY FreshIsResult
  <2>2. \A v : /\ IsResult(T, Set(T, result, "success", v))
              /\ Get(T, Set(T, result, "success", v), "success") = v
    BY <2>1, SetIsResult
  <2> QED BY <2>2, Zenon
<1>2. Member(T)["success"] # Member(T)["error"]
  BY DEF Types, Member
<1> HIDE DEF first
<1>3. /\ IsResult(T, Set(T, first, "error", e))
      /\ Get(T, Set(T, first, "error", e), "error") = e
      /\ Get(T, Set(T, first, "error", e), "success") = FALSE
  BY <1>1, <1>2, SetIsResult
<1>4. Failed(T, result, e) = Set(T, first, "error", e)
  BY DEF Failed, first
<1> QED BY <1>3, <1>4 DEF Verdict

\* A value is read as that value, where there is room for one.
LEMMA ValueShows ==
  ASSUME NEW T \in {"UUID", "int32_t"}, NEW result \in Fresh(T), NEW v
  PROVE  /\ IsResult(T, Set(T, result, "value", v))
         /\ Verdict(T, Set(T, result, "value", v)) = Returned(v)
<1>1. IsResult(T, result) /\ Get(T, result, "success") = TRUE
  BY FreshIsResult, FreshSucceeds DEF Types
<1>2. Member(T)["success"] # Member(T)["value"]
  BY DEF Member
<1>3. /\ IsResult(T, Set(T, result, "value", v))
      /\ Get(T, Set(T, result, "value", v), "value") = v
      /\ Get(T, Set(T, result, "value", v), "success") = TRUE
  BY <1>1, <1>2, SetIsResult DEF Types
<1> QED BY <1>3 DEF Verdict

\* The value of a bool is its success.
LEMMA BoolShows ==
  ASSUME NEW result \in Fresh("bool"), NEW ok \in BOOLEAN,
         NEW field \in {"success", "value"}
  PROVE  LET last == Set("bool", result, field, ok) IN
         /\ IsResult("bool", last)
         /\ Verdict("bool", last) = IF ok THEN Returned(None)
                                          ELSE Threw(NoError)
<1>1. /\ IsResult("bool", result)
      /\ Get("bool", result, "success") = TRUE
      /\ Get("bool", result, "error") = NoError
  BY FreshIsResult, FreshSucceeds DEF Types
<1>2. /\ Member("bool")["success"] = "m_success"
      /\ Member("bool")["value"] = "m_success"
      /\ Member("bool")["error"] = "m_error"
  BY DEF Member
<1>3. /\ IsResult("bool", Set("bool", result, field, ok))
      /\ Get("bool", Set("bool", result, field, ok), field) = ok
      /\ Get("bool", Set("bool", result, field, ok), "error") = NoError
  BY <1>1, <1>2, SetIsResult DEF Types
<1>4. Get("bool", Set("bool", result, field, ok), "success") = ok
  BY <1>2, <1>3 DEF Get
<1> QED BY <1>3, <1>4 DEF Verdict

\* Whatever computeSum makes of two integers, it is an int32_t.
LEMMA SumsFit == \A x, y : Sums(x, y) \subseteq Ints
BY DEF Sums

\* Both ends of an RPC name the same type.
LEMMA SameType ==
  /\ \A o \in Ops : Sent(o) = Read(o) /\ Read(o) \in Types
  /\ \A o \in Ops : Read(o) = "int32_t" <=> o = "sum"
BY DEF Ops, Sent, Read, Types

-----------------------------------------------------------------------------
\* Initially no call was answered.
LEMMA InitRInv == ASSUME Init PROVE RInv
BY DEF Init, RInv, TypeOK, WireInv, SumInv, OutcomeInv, CellHoldsSum, NotYet

\* An answer that says what was decided preserves the invariant.
LEMMA RespondRInv ==
  ASSUME RInv, NEW c \in Calls, NEW o \in Ops,
         NEW result, NEW decision, Respond(c, o, result, decision),
         IsResult(Sent(o), result), Verdict(Sent(o), result) = decision,
         o = "sum" /\ decision.how = "returned" => decision.what \in Ints
  PROVE  RInv'
<1> USE DEF Respond
<1>1. TypeOK'
  BY DEF RInv, TypeOK
<1>2. /\ stage[c] = "ready" /\ UNCHANGED <<outcome, cell>>
      /\ stage'[c] = "answered" /\ rpc'[c] = o
      /\ decided'[c] = decision /\ wire'[c] = Save(Sent(o), result)
      /\ \A d \in Calls \ {c} :
           /\ stage'[d] = stage[d] /\ rpc'[d] = rpc[d]
           /\ decided'[d] = decided[d] /\ wire'[d] = wire[d]
  BY DEF RInv, TypeOK
<1>3. \A blank \in Fresh(Read(o)) :
        Verdict(Read(o), Load(Read(o), blank, wire'[c])) = decision
  BY <1>2, SameType, RoundTrip
<1> HIDE DEF Respond
<1>4. WireInv'
  BY <1>2, <1>3 DEF RInv, WireInv
<1>5. SumInv'
  BY <1>2 DEF RInv, SumInv
<1>6. OutcomeInv'
  BY <1>2 DEF RInv, OutcomeInv
<1>7. CellHoldsSum'
  <2>1. outcome[c] = NotYet
    BY <1>2 DEF RInv, OutcomeInv
  <2> SUFFICES ASSUME NEW p \in Cells, cell'[p] # Untouched
               PROVE  \E d \in Calls : /\ rpc'[d] = "sum"
                                       /\ decided'[d] = Returned(cell'[p])
                                       /\ outcome'[d].how = "returned"
    BY DEF CellHoldsSum
  <2>2. PICK d \in Calls : /\ rpc[d] = "sum"
                           /\ decided[d] = Returned(cell[p])
                           /\ outcome[d].how = "returned"
    BY <1>2 DEF RInv, CellHoldsSum
  <2>3. d # c
    BY <2>1, <2>2 DEF NotYet
  <2> QED BY <1>2, <2>2, <2>3
<1> QED BY <1>1, <1>4, <1>5, <1>6, <1>7 DEF RInv

\* Every handler answers what it decided.
LEMMA HandlerRInv ==
  ASSUME ResultAssumption, RInv, NEW c \in Calls,
         \/ \E o \in Ops : Refuse(c, o)
         \/ CreateOrOpen(c) \/ CloseOrCheck(c) \/ Destroy(c) \/ ComputeSum(c)
  PROVE  RInv'
<1> USE DEF Returned, Threw
<1>1. ASSUME NEW o \in Ops, Refuse(c, o) PROVE RInv'
  <2>1. PICK result \in Fresh(Sent(o)), e \in Errors :
          Respond(c, o, Failed(Sent(o), result, e), Threw(e))
    BY <1>1 DEF Refuse
  <2> QED BY <2>1, FailureShows, SameType, RespondRInv
<1>2. CASE CreateOrOpen(c)
  <2>1. PICK o \in {"create", "open"}, result \in Fresh("UUID"), id \in UUIDs :
          Respond(c, o, Set("UUID", result, "value", id), Returned(id))
    BY <1>2 DEF CreateOrOpen
  <2>2. o \in Ops /\ Sent(o) = "UUID" /\ o # "sum"
    BY DEF Ops, Sent
  <2> QED BY <2>1, <2>2, ValueShows, RespondRInv
<1>3. CASE CloseOrCheck(c)
  <2>1. PICK result \in Fresh("bool") :
          \/ Respond(c, "close", result, Returned(None))
          \/ Respond(c, "check", Set("bool", result, "success", TRUE),
                     Returned(None))
    BY <1>3 DEF CloseOrCheck
  <2>2. /\ IsResult("bool", result)
        /\ Verdict("bool", result) = Returned(None)
    BY FreshIsResult, FreshSucceeds DEF Types, Verdict
  <2>3. \A o \in {"close", "check"} : o \in Ops /\ Sent(o) = "bool"
    BY DEF Ops, Sent
  <2> QED BY <2>1, <2>2, <2>3, BoolShows, RespondRInv
<1>4. CASE Destroy(c)
  <2>1. PICK result \in Fresh("bool"), done \in BOOLEAN :
          Respond(c, "destroy", Set("bool", result, "value", done),
                  IF done THEN Returned(None) ELSE Threw(NoError))
    BY <1>4 DEF Destroy
  <2>2. "destroy" \in Ops /\ Sent("destroy") = "bool"
    BY DEF Ops, Sent
  <2> QED BY <2>1, <2>2, BoolShows, RespondRInv
<1>5. CASE ComputeSum(c)
  <2>1. PICK result \in Fresh("int32_t"), x \in Ints, y \in Ints :
          \E sum \in Sums(x, y) :
            Respond(c, "sum", Set("int32_t", result, "value", sum),
                    Returned(sum))
    BY <1>5 DEF ComputeSum
  <2>2. PICK sum \in Sums(x, y) :
          Respond(c, "sum", Set("int32_t", result, "value", sum),
                  Returned(sum))
    BY <2>1
  <2>3. "sum" \in Ops /\ Sent("sum") = "int32_t"
    BY DEF Ops, Sent
  <2> QED BY <2>2, <2>3, ValueShows, SumsFit, RespondRInv
<1> QED BY <1>1, <1>2, <1>3, <1>4, <1>5

\* A caller gets what was decided, and stores it if it succeeded.
LEMMA ReceiveRInv ==
  ASSUME ResultAssumption, RInv, NEW c \in Calls, Receive(c)
  PROVE  RInv'
<1> DEFINE o == rpc[c]
<1>1. PICK blank \in Fresh(Read(o)), p \in Cells \cup {None} :
        LET result == Load(Read(o), blank, wire[c]) IN
        /\ outcome' = [outcome EXCEPT ![c] = Verdict(Read(o), result)]
        /\ cell' = Stored(p, o, result)
  BY DEF Receive
<1>2. /\ stage[c] = "answered" /\ stage' = [stage EXCEPT ![c] = "over"]
      /\ UNCHANGED <<rpc, decided, wire>>
  BY DEF Receive
<1>3. /\ o \in Ops
      /\ Verdict(Read(o), Load(Read(o), blank, wire[c])) = decided[c]
  BY <1>1, <1>2 DEF RInv, WireInv
<1>4. outcome' = [outcome EXCEPT ![c] = decided[c]]
  BY <1>1, <1>3
<1>5. \/ cell' = cell
      \/ /\ o = "sum" /\ p \in Cells
         /\ \E v : cell' = [cell EXCEPT ![p] = v] /\ decided[c] = Returned(v)
  <2>1. Read("sum") # "bool"
    BY DEF Read
  <2> QED BY <1>1, <1>3, <2>1, ResultAssumption
          DEF Stored, Verdict, Threw, Returned, ResultAssumption
<1> HIDE DEF o
<1>6. TypeOK'
  <2>1. cell' \in [Cells -> Ints \cup {Untouched}]
    <3>1. ASSUME NEW v, decided[c] = Returned(v), o = "sum" PROVE v \in Ints
      BY <3>1 DEF RInv, SumInv, Returned, o
    <3> QED BY <1>5, <3>1 DEF RInv, TypeOK
  <2> QED BY <1>2, <1>4, <2>1 DEF RInv, TypeOK
<1>7. WireInv' /\ SumInv'
  BY <1>2 DEF RInv, TypeOK, WireInv, SumInv
<1>8. OutcomeInv'
  BY <1>2, <1>4 DEF RInv, TypeOK, OutcomeInv
<1>9. CellHoldsSum'
  <2>1. \A d \in Calls : outcome[d].how = "returned" =>
          outcome'[d].how = "returned"
    BY <1>2, <1>4 DEF RInv, TypeOK, OutcomeInv, NotYet
  <2>2. \A q \in Cells : cell'[q] # cell[q] =>
          /\ rpc[c] = "sum" /\ decided[c] = Returned(cell'[q])
          /\ outcome'[c].how = "returned"
    BY <1>4, <1>5 DEF RInv, TypeOK, Returned, o
  <2> QED BY <1>2, <2>1, <2>2 DEF RInv, CellHoldsSum
<1> QED BY <1>6, <1>7, <1>8, <1>9 DEF RInv

\* Every step preserves the invariant.
LEMMA NextRInv == ASSUME ResultAssumption, RInv, [Next]_vars PROVE RInv'
<1>1. ASSUME NEW c \in Calls, Receive(c) PROVE RInv'
  BY <1>1, ReceiveRInv
<1>2. CASE UNCHANGED vars
  BY <1>2 DEF vars, RInv, TypeOK, WireInv, SumInv, OutcomeInv, CellHoldsSum
<1> QED BY <1>1, <1>2, HandlerRInv DEF Next, Over

\* RInv holds in every state, whatever the range of the integers.
THEOREM ResultInvariant == Spec => []RInv
BY ResultAssumption, InitRInv, NextRInv, PTL DEF Spec

\* The calls and the callers' variables keep their types.
THEOREM ResultTypes == Spec => []TypeOK
BY ResultInvariant, PTL DEF RInv

\* A caller gets what the handler and its backend decided.
THEOREM DecisionDelivered == Spec => []OutcomeDelivered
<1>1. RInv => OutcomeDelivered
  BY DEF RInv, OutcomeInv, OutcomeDelivered
<1> QED BY <1>1, ResultInvariant, PTL

\* No uninitialized integer gets into a caller's variable.
THEOREM CellsHoldSums == Spec => []CellHoldsSum
BY ResultInvariant, PTL DEF RInv
=============================================================================
