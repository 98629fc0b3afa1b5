-------------------------- MODULE AsyncRequestProofs --------------------------
(***************************************************************************)
(* Proofs about AsyncRequest, for any number of threads, objects and calls.*)
(***************************************************************************)
EXTENDS AsyncRequestInvariant, FiniteSetTheorems, TLAPS

\* What an operation that begins finds, and whom it may race with.
LEMMA BeginsFacts ==
  ASSUME AInv, NEW o \in Objects, Begins(o)
  PROVE  /\ pc[o] = "idle" /\ source[o] = Null /\ after[o] = "idle"
         /\ \A q \in Objects : source[q] # o
         /\ raced \subseteq raced' /\ raced' \subseteq raced \cup {self[o]}
         /\ raced' \subseteq Calls
         /\ \A q \in Objects : pc[q] # "idle" /\ self[q] = self[o] =>
              self[o] \in raced' \cup {Null}
<1>1. pc[o] = "idle" /\ \A q \in Objects : source[q] # o
  BY DEF Begins, Idle
<1>2. after[o] = "idle" /\ source[o] = Null
  BY <1>1 DEF AInv, SourceInv
<1>3. raced' = IF \E q \in Objects : pc[q] # "idle" /\ self[q] = self[o]
               THEN raced \cup ({self[o]} \ {Null}) ELSE raced
  BY DEF Begins
<1>4. self[o] \in Calls \cup {Null} /\ raced \subseteq Calls
  BY DEF AInv, TypeOK
<1>. QED
  BY <1>1, <1>2, <1>3, <1>4

\* A request that an object does not hold alone is held by another one.
LEMMA SharedIsHeld ==
  ASSUME NEW o \in Objects, ~Unique(self[o]), Null # self[o],
         \A q \in Objects : source[q] # self[o]
  PROVE  \E q \in Objects \ {o} : self[q] = self[o]
<1>1. SUFFICES ASSUME \A q \in Objects \ {o} : self[q] # self[o]
               PROVE  FALSE
  OBVIOUS
<1>2. Owners(self[o]) = {o}
  BY <1>1 DEF Owners
<1>3. Cardinality({o}) = 1 /\ Cardinality({}) = 0
  BY FS_Singleton, FS_EmptySet
<1>4. UseCount(self[o]) = 1 + 0
  BY <1>2, <1>3 DEF UseCount
<1>. QED
  BY <1>4 DEF Unique

\* A request with a use count of zero is held by no object and no operation.
LEMMA FreedIsUnheld ==
  ASSUME NEW c \in Calls, UseCount(c) = 0
  PROVE  \A o \in Objects : self[o] # c /\ source[o] # c
<1>. DEFINE Sources == {o \in Objects : source[o] = c}
<1>1. IsFiniteSet(Owners(c)) /\ IsFiniteSet(Sources)
  BY AsyncAssumption, FS_Subset DEF Owners
<1>2. Cardinality(Owners(c)) \in Nat /\ Cardinality(Sources) \in Nat
  BY <1>1, FS_CardinalityType
<1>3. Cardinality(Owners(c)) = 0 /\ Cardinality(Sources) = 0
  BY <1>2 DEF UseCount
<1>4. Owners(c) = {} /\ Sources = {}
  BY <1>1, <1>3, FS_EmptySet
<1>. QED
  BY <1>4 DEF Owners

-----------------------------------------------------------------------------
(* Every action preserves the invariant.                                   *)

\* A new call is held by the temporary that computeSum assigns; what the object
\* held is waited for, or shared with another object.
LEMMA ComputeSumStep ==
  ASSUME AInv, NEW o \in Objects, NEW c \in Calls, ComputeSum(o, c)
  PROVE  AInv'
<1>a. /\ Begins(o) /\ pc[o] = "idle" /\ source[o] = Null /\ after[o] = "idle"
      /\ \A q \in Objects : source[q] # o
      /\ raced \subseteq raced' /\ raced' \subseteq raced \cup {self[o]}
      /\ raced' \subseteq Calls
      /\ \A q \in Objects : pc[q] # "idle" /\ self[q] = self[o] =>
           self[o] \in raced' \cup {Null}
  BY BeginsFacts DEF ComputeSum
<1>b. self[o] # Null /\ ~LastOwner(o) =>
        \E q \in Objects \ {o} : self[q] = self[o]
  BY SharedIsHeld DEF AInv, SourceInv, LastOwner
<1>1. TypeOK'
  BY <1>a
     DEF AInv, TypeOK, Labels, Followers, ComputeSum, WaitIfLast,
         WaitThen
<1>2. RaceInv'
  BY <1>a DEF AInv, RaceInv, TypeOK, ComputeSum, WaitIfLast, WaitThen
<1>3. SourceInv'
  BY <1>a, AsyncAssumption
      DEF AInv, SourceInv, FreshInv, TypeOK, ComputeSum, WaitIfLast,
          WaitThen
<1>4. FreshInv'
  BY <1>a, AsyncAssumption DEF AInv, FreshInv, TypeOK, ComputeSum
<1>5. WaitInv'
  BY <1>a
      DEF AInv, WaitInv, FreshInv, TypeOK, ComputeSum, WaitIfLast,
          WaitThen, LastOwner
<1>6. FlagInv'
  BY <1>a DEF AInv, FlagInv, TypeOK, ComputeSum, WaitIfLast, WaitThen
<1>7. OwnerInv'
  BY <1>a, <1>b
     DEF AInv, OwnerInv, TypeOK, ComputeSum, WaitIfLast, WaitThen
<1>8. HeldInv'
  BY <1>a, AsyncAssumption DEF AInv, HeldInv, TypeOK, ComputeSum
<1>. QED
  BY <1>1, <1>2, <1>3, <1>4, <1>5, <1>6, <1>7, <1>8 DEF AInv

\* wait() starts a callback only for a request whose flag is not set.
LEMMA WaitStep ==
  ASSUME AInv, NEW o \in Objects, Wait(o)
  PROVE  AInv'
<1>a. /\ Begins(o) /\ pc[o] = "idle" /\ source[o] = Null /\ after[o] = "idle"
      /\ \A q \in Objects : source[q] # o
      /\ raced \subseteq raced' /\ raced' \subseteq raced \cup {self[o]}
      /\ raced' \subseteq Calls
      /\ \A q \in Objects : pc[q] # "idle" /\ self[q] = self[o] =>
           self[o] \in raced' \cup {Null}
  BY BeginsFacts DEF Wait
<1>1. TypeOK'
  BY <1>a DEF AInv, TypeOK, Labels, Followers, Wait, WaitThen
<1>2. RaceInv'
  BY <1>a DEF AInv, RaceInv, TypeOK, Wait, WaitThen
<1>3. SourceInv'
  BY <1>a, AsyncAssumption
     DEF AInv, SourceInv, FreshInv, TypeOK, Wait, WaitThen
<1>4. FreshInv'
  BY <1>a, AsyncAssumption DEF AInv, FreshInv, TypeOK, Wait
<1>5. WaitInv'
  BY <1>a DEF AInv, WaitInv, FreshInv, TypeOK, Wait, WaitThen, LastOwner
<1>6. FlagInv'
  BY <1>a DEF AInv, FlagInv, TypeOK, Wait, WaitThen
<1>7. OwnerInv'
  BY <1>a DEF AInv, OwnerInv, TypeOK, Wait, WaitThen
<1>8. HeldInv'
  BY <1>a, AsyncAssumption DEF AInv, HeldInv, TypeOK, Wait
<1>. QED
  BY <1>1, <1>2, <1>3, <1>4, <1>5, <1>6, <1>7, <1>8 DEF AInv

\* The target waits if it is the last owner; otherwise another object is.
LEMMA AssignStep ==
  ASSUME AInv, NEW o \in Objects, NEW p \in Objects,
         NEW move \in BOOLEAN, Assign(o, p, move)
  PROVE  AInv'
<1>a. /\ Begins(o) /\ pc[o] = "idle" /\ source[o] = Null /\ after[o] = "idle"
      /\ \A q \in Objects : source[q] # o
      /\ raced \subseteq raced' /\ raced' \subseteq raced \cup {self[o]}
      /\ raced' \subseteq Calls
      /\ \A q \in Objects : pc[q] # "idle" /\ self[q] = self[o] =>
           self[o] \in raced' \cup {Null}
  BY BeginsFacts DEF Assign
<1>b. self[o] # Null /\ ~LastOwner(o) =>
        \E q \in Objects \ {o} : self[q] = self[o]
  BY SharedIsHeld DEF AInv, SourceInv, LastOwner
<1>1. TypeOK'
  BY <1>a DEF AInv, TypeOK, Labels, Followers, Assign, WaitIfLast, WaitThen
<1>2. RaceInv'
  BY <1>a DEF AInv, RaceInv, TypeOK, Assign, WaitIfLast, WaitThen
<1>3. SourceInv'
  BY <1>a, AsyncAssumption
     DEF AInv, SourceInv, FreshInv, TypeOK, Assign, WaitIfLast, WaitThen, Idle
<1>4. FreshInv'
  BY <1>a, AsyncAssumption DEF AInv, FreshInv, TypeOK, Assign
<1>5. WaitInv'
  BY <1>a
     DEF AInv, WaitInv, FreshInv, TypeOK, Assign, WaitIfLast, WaitThen,
         LastOwner
<1>6. FlagInv'
  BY <1>a DEF AInv, FlagInv, TypeOK, Assign, WaitIfLast, WaitThen
<1>7. OwnerInv'
  BY <1>a, <1>b DEF AInv, OwnerInv, TypeOK, Assign, WaitIfLast, WaitThen
<1>8. HeldInv'
  BY <1>a, AsyncAssumption DEF AInv, HeldInv, TypeOK, Assign
<1>. QED
  BY <1>1, <1>2, <1>3, <1>4, <1>5, <1>6, <1>7, <1>8 DEF AInv

\* So does the destructor.
LEMMA DestroyStep ==
  ASSUME AInv, NEW o \in Objects, Destroy(o)
  PROVE  AInv'
<1>a. /\ Begins(o) /\ pc[o] = "idle" /\ source[o] = Null /\ after[o] = "idle"
      /\ \A q \in Objects : source[q] # o
      /\ raced \subseteq raced' /\ raced' \subseteq raced \cup {self[o]}
      /\ raced' \subseteq Calls
      /\ \A q \in Objects : pc[q] # "idle" /\ self[q] = self[o] =>
           self[o] \in raced' \cup {Null}
  BY BeginsFacts DEF Destroy
<1>b. self[o] # Null /\ ~LastOwner(o) =>
        \E q \in Objects \ {o} : self[q] = self[o]
  BY SharedIsHeld DEF AInv, SourceInv, LastOwner
<1>1. TypeOK'
  BY <1>a DEF AInv, TypeOK, Labels, Followers, Destroy, WaitIfLast, WaitThen
<1>2. RaceInv'
  BY <1>a DEF AInv, RaceInv, TypeOK, Destroy, WaitIfLast, WaitThen
<1>3. SourceInv'
  BY <1>a, AsyncAssumption
     DEF AInv, SourceInv, FreshInv, TypeOK, Destroy, WaitIfLast, WaitThen
<1>4. FreshInv'
  BY <1>a, AsyncAssumption DEF AInv, FreshInv, TypeOK, Destroy
<1>5. WaitInv'
  BY <1>a
     DEF AInv, WaitInv, FreshInv, TypeOK, Destroy, WaitIfLast, WaitThen,
         LastOwner
<1>6. FlagInv'
  BY <1>a DEF AInv, FlagInv, TypeOK, Destroy, WaitIfLast, WaitThen
<1>7. OwnerInv'
  BY <1>a, <1>b DEF AInv, OwnerInv, TypeOK, Destroy, WaitIfLast, WaitThen
<1>8. HeldInv'
  BY <1>a, AsyncAssumption DEF AInv, HeldInv, TypeOK, Destroy
<1>. QED
  BY <1>1, <1>2, <1>3, <1>4, <1>5, <1>6, <1>7, <1>8 DEF AInv

\* The response of a successful call was not taken before: its flag is not set,
\* and no other object is between its callback and its flag, or they raced.
LEMMA CallbackStep ==
  ASSUME AInv, NEW o \in Objects, Callback(o)
  PROVE  AInv'
<1>a. self[o] \in Calls
  BY DEF AInv, TypeOK, WaitInv, Callback, Taken
<1>1. TypeOK'
  BY <1>a DEF AInv, TypeOK, Labels, Callback, Taken
<1>2. RaceInv'
  BY DEF AInv, RaceInv, TypeOK, Callback, Taken
<1>3. SourceInv'
  BY DEF AInv, SourceInv, TypeOK, Callback, Taken
<1>4. FreshInv'
  BY DEF AInv, FreshInv, TypeOK, Callback, Taken
<1>5. WaitInv'
  BY DEF AInv, WaitInv, TypeOK, Callback, Taken, Succeeds
<1>6. FlagInv'
  BY DEF AInv, FlagInv, WaitInv, RaceInv, TypeOK, Callback, Taken, Succeeds
<1>7. OwnerInv'
  BY DEF AInv, OwnerInv, TypeOK, Callback
<1>8. HeldInv'
  BY DEF AInv, HeldInv, TypeOK, Callback, Taken
<1>. QED
  BY <1>1, <1>2, <1>3, <1>4, <1>5, <1>6, <1>7, <1>8 DEF AInv

\* What a callback that throws takes is the response of a call that failed, or
\* that two operations raced for.
LEMMA ThrownFor ==
  ASSUME AInv, NEW o \in Objects, CallbackThrows(o)
  PROVE  /\ self[o] \in Calls
         /\ outcome[self[o]] = "failed" \/ self[o] \in raced
<1>1. self[o] \in Calls
  BY DEF AInv, TypeOK, WaitInv, CallbackThrows, Taken
<1>2. outcome[self[o]] # "sum" \/ self[o] \in raced
  BY <1>1 DEF AInv, FlagInv, WaitInv, RaceInv, TypeOK, CallbackThrows, Taken,
              Succeeds
<1>. QED
  BY <1>1, <1>2 DEF AInv, TypeOK

\* Such a step changes nothing else that the invariant is about.
LEMMA CallbackThrowsStep ==
  ASSUME AInv, NEW o \in Objects, CallbackThrows(o)
  PROVE  AInv'
<1>a. self[o] \in Calls
  BY ThrownFor
<1>b. outcome[self[o]] # "sum" \/ self[o] \in raced
  BY ThrownFor
<1>1. TypeOK'
  BY <1>a DEF AInv, TypeOK, Labels, Followers, CallbackThrows, Taken, AfterThrow
<1>2. RaceInv'
  BY DEF AInv, RaceInv, TypeOK, CallbackThrows, AfterThrow
<1>3. SourceInv'
  BY AsyncAssumption DEF AInv, SourceInv, TypeOK, CallbackThrows, AfterThrow
<1>4. FreshInv'
  BY AsyncAssumption
     DEF AInv, FreshInv, TypeOK, CallbackThrows, Taken
<1>5. WaitInv'
  BY DEF AInv, WaitInv, TypeOK, CallbackThrows, Taken, AfterThrow
<1>6. FlagInv'
  BY <1>a, <1>b
     DEF AInv, FlagInv, TypeOK, CallbackThrows, Taken, Succeeds, AfterThrow
<1>7. OwnerInv'
  BY DEF AInv, OwnerInv, TypeOK, CallbackThrows, AfterThrow
<1>8. HeldInv'
  BY <1>a, <1>b DEF AInv, HeldInv, CallbackThrows
<1>. QED
  BY <1>1, <1>2, <1>3, <1>4, <1>5, <1>6, <1>7, <1>8 DEF AInv

\* The flag follows the response that the same object has just taken.
LEMMA SetWaitedStep ==
  ASSUME AInv, NEW o \in Objects, SetWaited(o)
  PROVE  AInv'
<1>a. self[o] \in Calls
  BY DEF AInv, TypeOK, WaitInv, SetWaited
<1>1. TypeOK'
  BY DEF AInv, TypeOK, Labels, Followers, SetWaited, Flagged
<1>2. RaceInv'
  BY DEF AInv, RaceInv, TypeOK, SetWaited
<1>3. SourceInv'
  BY DEF AInv, SourceInv, TypeOK, Followers, SetWaited
<1>4. FreshInv'
  BY DEF AInv, FreshInv, SetWaited
<1>5. WaitInv'
  BY <1>a DEF AInv, WaitInv, RaceInv, TypeOK, Followers, SetWaited, Flagged
<1>6. FlagInv'
  BY DEF AInv, FlagInv, WaitInv, TypeOK, SetWaited, Flagged
<1>7. OwnerInv'
  BY <1>a DEF AInv, OwnerInv, TypeOK, SetWaited, Flagged
<1>8. HeldInv'
  BY DEF AInv, HeldInv, SetWaited
<1>. QED
  BY <1>1, <1>2, <1>3, <1>4, <1>5, <1>6, <1>7, <1>8 DEF AInv

\* What the object let go of was waited for, or has another owner, which no
\* other operation lets go of, or they raced.
LEMMA ReleaseStep ==
  ASSUME AInv, NEW o \in Objects, Release(o)
  PROVE  AInv'
<1>a. source[o] = Null /\ self[o] # Null
  BY DEF AInv, SourceInv, WaitInv, Release
<1>1. TypeOK'
  BY DEF AInv, TypeOK, Labels, Followers, Release
<1>2. RaceInv'
  BY DEF AInv, RaceInv, TypeOK, Release
<1>3. SourceInv'
  BY <1>a DEF AInv, SourceInv, WaitInv, TypeOK, Release
<1>4. FreshInv'
  BY AsyncAssumption DEF AInv, FreshInv, TypeOK, Release
<1>5. WaitInv'
  BY DEF AInv, WaitInv, TypeOK, Release
<1>6. FlagInv'
  BY DEF AInv, FlagInv, TypeOK, Release
<1>7. OwnerInv'
  BY DEF AInv, OwnerInv, RaceInv, TypeOK, Release
<1>8. HeldInv'
  BY DEF AInv, HeldInv, FlagInv, OwnerInv, TypeOK, Release
<1>. QED
  BY <1>1, <1>2, <1>3, <1>4, <1>5, <1>6, <1>7, <1>8 DEF AInv

\* The same, and that other owner is not the object the assignment moves from.
LEMMA FinishAssignStep ==
  ASSUME AInv, NEW o \in Objects, FinishAssign(o)
  PROVE  AInv'
<1>a. /\ source[o] \in Calls \cup Objects /\ Pointee(o) \in Calls \cup {Null}
      /\ Pointee(o) # self[o]
  BY DEF AInv, TypeOK, SourceInv, FinishAssign, Pointee
<1>b. \A q \in Objects \ {o} : pc[q] # "idle" => self'[q] = self[q]
  BY DEF AInv, TypeOK, SourceInv, FinishAssign
<1>1. TypeOK'
  BY <1>a DEF AInv, TypeOK, Labels, Followers, FinishAssign
<1>2. RaceInv'
  BY <1>b DEF AInv, RaceInv, TypeOK, FinishAssign
<1>3. SourceInv'
  BY <1>a, <1>b, AsyncAssumption
     DEF AInv, SourceInv, TypeOK, FinishAssign, Pointee
<1>4. FreshInv'
  BY <1>a, AsyncAssumption DEF AInv, FreshInv, TypeOK, FinishAssign, Pointee
<1>5. WaitInv'
  BY <1>b DEF AInv, WaitInv, TypeOK, FinishAssign
<1>6. FlagInv'
  BY <1>b DEF AInv, FlagInv, TypeOK, FinishAssign
<1>7. OwnerInv'
  <2>. SUFFICES ASSUME NEW q \in Objects,
                       pc'[q] \in {"release", "assign"},
                       self'[q] \notin raced' \cup {Null}
                PROVE  \/ m_waited'[self'[q]]
                       \/ \E w \in Objects \ {q} : self'[w] = self'[q]
    BY DEF OwnerInv
  <2>1. /\ q # o /\ pc[q] = pc'[q] /\ self'[q] = self[q]
        /\ raced' = raced /\ m_waited' = m_waited
    BY <1>b DEF AInv, TypeOK, FinishAssign
  <2>2. CASE m_waited[self[q]]
    BY <2>1, <2>2
  <2>3. ASSUME NEW w \in Objects \ {q}, self[w] = self[q]
        PROVE  \E v \in Objects \ {q} : self'[v] = self'[q]
    <3>1. w # o
      BY <2>1, <2>3 DEF AInv, RaceInv, FinishAssign
    <3>2. CASE moving[o] /\ w = source[o]
      <4>1. self'[o] = self[w]
        BY <3>2, AsyncAssumption DEF AInv, TypeOK, FinishAssign, Pointee
      <4>. QED
        BY <2>1, <2>3, <4>1
    <3>3. CASE ~(moving[o] /\ w = source[o])
      <4>1. self'[w] = self[w]
        BY <3>1, <3>3 DEF FinishAssign
      <4>. QED
        BY <2>1, <2>3, <4>1
    <3>. QED
      BY <3>2, <3>3
  <2>. QED
    BY <2>1, <2>2, <2>3 DEF AInv, OwnerInv
<1>8. HeldInv'
  BY <1>a, AsyncAssumption
     DEF AInv, HeldInv, FlagInv, OwnerInv, TypeOK, FinishAssign, Pointee
<1>. QED
  BY <1>1, <1>2, <1>3, <1>4, <1>5, <1>6, <1>7, <1>8 DEF AInv

\* A response arrives once, and nothing was decided by it before.
LEMMA ArriveStep ==
  ASSUME AInv, NEW c \in Calls, Arrive(c)
  PROVE  AInv'
<1>1. TypeOK'
  BY AsyncAssumption DEF AInv, TypeOK, Arrive
<1>2. RaceInv'
  BY DEF AInv, RaceInv, Arrive
<1>3. SourceInv'
  BY DEF AInv, SourceInv, Arrive
<1>4. FreshInv'
  BY DEF AInv, FreshInv, TypeOK, Arrive
<1>5. WaitInv'
  BY DEF AInv, WaitInv, TypeOK, Arrive
<1>6. FlagInv'
  BY DEF AInv, FlagInv, TypeOK, Arrive
<1>7. OwnerInv'
  BY DEF AInv, OwnerInv, Arrive
<1>8. HeldInv'
  BY DEF AInv, HeldInv, FlagInv, TypeOK, Arrive
<1>. QED
  BY <1>1, <1>2, <1>3, <1>4, <1>5, <1>6, <1>7, <1>8 DEF AInv

-----------------------------------------------------------------------------
(* The theorems.                                                           *)

\* The invariant is inductive, however many threads use the requests.
THEOREM AInvariance == Spec => []AInv
<1>1. Init => AInv
  <2>. SUFFICES ASSUME Init
                PROVE  AInv
    OBVIOUS
  <2>1. TypeOK
    BY DEF Init, TypeOK, Labels, Followers
  <2>2. RaceInv /\ FreshInv /\ WaitInv /\ OwnerInv
    BY AsyncAssumption DEF Init, RaceInv, FreshInv, WaitInv, OwnerInv
  <2>3. SourceInv
    BY AsyncAssumption DEF Init, SourceInv
  <2>4. FlagInv
    BY DEF Init, FlagInv
  <2>5. HeldInv
    BY DEF Init, HeldInv
  <2>. QED
    BY <2>1, <2>2, <2>3, <2>4, <2>5 DEF AInv
<1>2. AInv /\ [Next]_vars => AInv'
  <2>. SUFFICES ASSUME AInv, [Next]_vars
                PROVE  AInv'
    OBVIOUS
  <2>1. ASSUME NEW o \in Objects, NEW c \in Calls, ComputeSum(o, c)
        PROVE  AInv'
    BY <2>1, ComputeSumStep
  <2>2. ASSUME NEW o \in Objects, NEW p \in Objects, NEW move \in BOOLEAN,
               Assign(o, p, move)
        PROVE  AInv'
    BY <2>2, AssignStep
  <2>3. ASSUME NEW o \in Objects, Wait(o) \/ Destroy(o)
        PROVE  AInv'
    BY <2>3, WaitStep, DestroyStep
  <2>4. ASSUME NEW o \in Objects, Proceed(o)
        PROVE  AInv'
    BY <2>4, CallbackStep, CallbackThrowsStep, SetWaitedStep, ReleaseStep,
       FinishAssignStep
       DEF Proceed
  <2>5. ASSUME NEW c \in Calls, Arrive(c)
        PROVE  AInv'
    BY <2>5, ArriveStep
  <2>6. CASE UNCHANGED vars
    BY <2>6
       DEF vars, AInv, TypeOK, RaceInv, SourceInv, FreshInv, WaitInv, FlagInv,
           OwnerInv, HeldInv
  <2>. QED
    BY <2>1, <2>2, <2>3, <2>4, <2>5, <2>6 DEF Next, Over
<1>. QED
  BY <1>1, <1>2, PTL DEF Spec

\* The objects, the flags and the responses keep their types.
COROLLARY AsyncTypes == Spec => []TypeOK
<1>1. AInv => TypeOK
  BY DEF AInv
<1>. QED
  BY <1>1, AInvariance, PTL

\* However many copies of a request there are, and whatever any number of
\* threads do with them, the response of a call that succeeded is taken once,
\* unless two of them worked on copies of that request at one time.
THEOREM ResponseTakenOnce == Spec => []TakenOnce
<1>1. AInv => TakenOnce
  BY DEF AInv, TypeOK, FlagInv, TakenOnce
<1>. QED
  BY <1>1, AInvariance, PTL

\* If no call fails or is raced for, no request loses its last owner before its
\* response has been taken: no result is lost in an assignment or a destructor.
THEOREM NoResultLost == Spec => []NothingAbandoned
<1>1. ASSUME AInv
      PROVE  NothingAbandoned
  <2>. SUFFICES ASSUME \A c \in Calls : outcome[c] = "sum"
                                           /\ c \notin raced,
                       NEW c \in Calls, Freed(c)
                PROVE  response[c] = "taken"
    BY DEF NothingAbandoned
  <2>1. response[c] \in {"sent", "arrived", "taken"}
    BY <1>1 DEF AInv, TypeOK, Freed
  <2>2. \A o \in Objects : self[o] # c /\ source[o] # c
    BY FreedIsUnheld DEF Freed
  <2>. QED
    BY <1>1, <2>1, <2>2 DEF AInv, HeldInv
<1>. QED
  BY <1>1, AInvariance, PTL

\* Only a callback that throws, out of a destructor, ends the program.
LEMMA OnlyThrowsEnd ==
  ASSUME [Next]_vars, ~terminated, terminated'
  PROVE  \E o \in Objects : CallbackThrows(o) /\ after[o] = "release"
<1>1. ASSUME NEW o \in Objects, Wait(o) \/ Destroy(o) PROVE FALSE
  BY <1>1 DEF Wait, Destroy
<1>2. ASSUME NEW o \in Objects, NEW c \in Calls, ComputeSum(o, c) PROVE FALSE
  BY <1>2 DEF ComputeSum
<1>3. ASSUME NEW o \in Objects, NEW p \in Objects, NEW move \in BOOLEAN,
             Assign(o, p, move)
      PROVE  FALSE
  BY <1>3 DEF Assign
<1>4. ASSUME NEW o \in Objects,
             Callback(o) \/ SetWaited(o) \/ Release(o) \/ FinishAssign(o)
      PROVE  FALSE
  BY <1>4 DEF Callback, SetWaited, Release, FinishAssign
<1>5. ASSUME NEW c \in Calls, Arrive(c) PROVE FALSE
  BY <1>5 DEF Arrive
<1>6. CASE Over \/ UNCHANGED vars
  BY <1>6 DEF Over, vars
<1>7. ASSUME NEW o \in Objects, CallbackThrows(o) PROVE after[o] = "release"
  BY <1>7 DEF CallbackThrows
<1>. QED
  BY <1>1, <1>2, <1>3, <1>4, <1>5, <1>6, <1>7 DEF Next, Proceed

\* A destructor ends the program only on a call that failed or was raced for.
THEOREM EndsOnlyOnFailures == Spec => EndsOnlyOnFailure
<1>1. ASSUME AInv, [Next]_vars, ~terminated, terminated'
      PROVE  \E o \in Objects :
               /\ pc[o] = "callback" /\ pc'[o] = "idle"
               /\ after[o] = "release"
               /\ outcome[self[o]] = "failed" \/ self[o] \in raced
  <2>1. PICK o \in Objects : CallbackThrows(o) /\ after[o] = "release"
    BY <1>1, OnlyThrowsEnd
  <2>2. pc[o] = "callback" /\ pc'[o] = "idle"
    BY <1>1, <2>1 DEF CallbackThrows, Taken, AfterThrow, AInv, TypeOK
  <2>3. outcome[self[o]] = "failed" \/ self[o] \in raced
    BY <1>1, <2>1, ThrownFor
  <2>. QED
    BY <2>1, <2>2, <2>3
<1>2. AInv /\ [Next]_vars => [DestroysFailure]_vars
  BY <1>1 DEF DestroysFailure
<1>. QED
  BY <1>2, AInvariance, PTL DEF Spec, EndsOnlyOnFailure
=============================================================================
