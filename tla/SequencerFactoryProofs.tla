------------------------ MODULE SequencerFactoryProofs ------------------------
(***************************************************************************)
(* Proofs about SequencerFactory, for any set of backends and names and in *)
(* every order of initialization.                                          *)
(***************************************************************************)
EXTENDS SequencerFactory, TLAPS

\* What the maps hold: entries of the right name, the same one in both maps
\* wherever both have one, and every backend registered after the maps.
MapsInv ==
  /\ \A n \in Names : create_fn[n] # None => Name[create_fn[n]] = n
  /\ \A n \in Names : open_fn[n] # None => Name[open_fn[n]] = n
  /\ \A n \in Names : create_fn[n] # None /\ open_fn[n] # None
                      => create_fn[n] = open_fn[n]
  /\ \A b \in registered \ early :
       create_fn[Name[b]] # None /\ open_fn[Name[b]] # None

\* What is over when main begins.
PhaseInv ==
  /\ ~Constructed => registered = early
  /\ phase = "main" => Constructed /\ registered = Backends
  /\ phase # "main" => \A r \in Requests : built[r] = Unasked

\* Every result was looked up in one of the maps as they still are.
BuiltInv == \A r \in Requests : built[r] # Unasked =>
  /\ built[r].name \in Names
  /\ \E entry \in {create_fn[built[r].name], open_fn[built[r].name]} :
       IF entry = None THEN built[r].result = None
                       ELSE built[r].result \in {entry, "threw"}

\* The inductive invariant.
FInv == TypeOK /\ MapsInv /\ PhaseInv /\ BuiltInv

-----------------------------------------------------------------------------
\* Initially the maps are empty and nothing was registered or asked.
LEMMA InitFInv == ASSUME FactoryAssumption, Init PROVE FInv
<1>1. TypeOK
  BY DEF Init, TypeOK, Empty, Unasked
<1>2. MapsInv
  BY DEF Init, MapsInv, Empty
<1>3. PhaseInv /\ BuiltInv
  BY DEF Init, PhaseInv, BuiltInv
<1> QED BY <1>1, <1>2, <1>3 DEF FInv

\* Constructing a map empties it, when all that was registered came early.
LEMMA ConstructFInv ==
  ASSUME FactoryAssumption, FInv, ConstructCreateFn \/ ConstructOpenFn
  PROVE  FInv'
<1> USE DEF ConstructCreateFn, ConstructOpenFn
<1>1. /\ phase = "static" /\ ~Constructed
      /\ UNCHANGED <<registered, phase, built, early>>
  BY DEF Constructed
<1>2. registered = early
  BY <1>1 DEF FInv, PhaseInv
<1>3. TypeOK'
  BY DEF FInv, TypeOK, Empty
<1>4. MapsInv'
  BY <1>1, <1>2 DEF FInv, MapsInv, Empty
<1>5. PhaseInv' /\ BuiltInv'
  BY <1>1, <1>2 DEF FInv, PhaseInv, BuiltInv
<1> QED BY <1>3, <1>4, <1>5 DEF FInv

\* A registration gives both maps the same entry.
LEMMA RegisterFInv ==
  ASSUME FactoryAssumption, FInv, NEW b \in Backends, Register(b)
  PROVE  FInv'
<1>1. /\ phase = "static" /\ b \notin registered
      /\ registered' = registered \cup {b}
      /\ early' = IF Constructed THEN early ELSE early \cup {b}
      /\ UNCHANGED <<phase, constructed, built>>
  BY DEF Register
<1>2. /\ create_fn' = [create_fn EXCEPT ![Name[b]] = b]
      /\ open_fn' = [open_fn EXCEPT ![Name[b]] = b]
      /\ Name[b] \in Names /\ b # None
  BY DEF Register, Entries, FactoryAssumption
<1>3. TypeOK'
  BY <1>1, <1>2 DEF FInv, TypeOK
<1>4. MapsInv'
  <2>1. \A n \in Names :
          /\ create_fn'[n] = IF n = Name[b] THEN b ELSE create_fn[n]
          /\ open_fn'[n] = IF n = Name[b] THEN b ELSE open_fn[n]
    BY <1>2 DEF FInv, TypeOK
  <2>2. \A c \in registered' \ early' :
          Name[c] \in Names /\ (c = b \/ c \in registered \ early)
    BY <1>1, <1>3 DEF TypeOK, FactoryAssumption
  <2> QED BY <1>2, <2>1, <2>2 DEF FInv, MapsInv
<1>5. PhaseInv'
  BY <1>1 DEF FInv, PhaseInv, Constructed
<1>6. BuiltInv'
  BY <1>1 DEF FInv, PhaseInv, BuiltInv
<1> QED BY <1>3, <1>4, <1>5, <1>6 DEF FInv

\* A call looks its name up in a map that does not change any more.
LEMMA LookupFInv ==
  ASSUME FactoryAssumption, FInv, NEW r \in Requests, NEW n \in Names,
         NEW fn \in {create_fn, open_fn}, Lookup(r, fn, n)
  PROVE  FInv'
<1>1. PICK result \in IF fn[n] = None THEN {None} ELSE Outcomes(fn[n]) :
        built' = [built EXCEPT ![r] = [name |-> n, result |-> result]]
  BY DEF Lookup
<1>2. /\ phase = "main"
      /\ UNCHANGED <<create_fn, open_fn, constructed, registered, phase, early>>
  BY DEF Lookup
<1>3. /\ fn[n] \in Backends \cup {None}
      /\ result \in Backends \cup {None, "threw"}
      /\ IF fn[n] = None THEN result = None ELSE result \in {fn[n], "threw"}
  BY <1>1 DEF FInv, TypeOK, Outcomes
<1>4. TypeOK'
  BY <1>1, <1>2, <1>3 DEF FInv, TypeOK
<1>5. MapsInv' /\ PhaseInv'
  BY <1>2 DEF FInv, MapsInv, PhaseInv, Constructed
<1>6. BuiltInv'
  <2> SUFFICES ASSUME NEW q \in Requests, built'[q] # Unasked
               PROVE  /\ built'[q].name \in Names
                      /\ \E entry \in {create_fn[built'[q].name],
                                       open_fn[built'[q].name]} :
                           IF entry = None THEN built'[q].result = None
                           ELSE built'[q].result \in {entry, "threw"}
    BY <1>2 DEF BuiltInv
  <2>1. CASE q = r
    <3>1. built'[q].name = n /\ built'[q].result = result
      BY <1>1, <2>1 DEF FInv, TypeOK
    <3> QED BY <1>3, <3>1
  <2>2. CASE q # r
    <3>1. built'[q] = built[q]
      BY <1>1, <2>2 DEF FInv, TypeOK
    <3> QED BY <3>1 DEF FInv, BuiltInv
  <2> QED BY <2>1, <2>2
<1> QED BY <1>4, <1>5, <1>6 DEF FInv

\* Every step preserves the invariant.
LEMMA NextFInv == ASSUME FactoryAssumption, FInv, [Next]_vars PROVE FInv'
<1>1. CASE ConstructCreateFn \/ ConstructOpenFn
  BY <1>1, ConstructFInv
<1>2. ASSUME NEW b \in Backends, Register(b) PROVE FInv'
  BY <1>2, RegisterFInv
<1>3. ASSUME NEW b \in Backends, RegisterCrashes(b) PROVE FInv'
  BY <1>3 DEF RegisterCrashes, FInv, TypeOK, MapsInv, PhaseInv, BuiltInv,
              Constructed
<1>4. CASE Main
  BY <1>4 DEF Main, FInv, TypeOK, MapsInv, PhaseInv, BuiltInv, Constructed
<1>5. ASSUME NEW r \in Requests, NEW n \in Names,
             CreateSequencer(r, n) \/ OpenSequencer(r, n)
      PROVE  FInv'
  BY <1>5, LookupFInv DEF CreateSequencer, OpenSequencer
<1>6. CASE Over \/ UNCHANGED vars
  BY <1>6 DEF Over, vars, FInv, TypeOK, MapsInv, PhaseInv, BuiltInv,
              Constructed
<1> QED BY <1>1, <1>2, <1>3, <1>4, <1>5, <1>6 DEF Next

\* FInv holds in every state, in whatever order the files are initialized.
THEOREM FactoryInvariant == Spec => []FInv
BY FactoryAssumption, InitFInv, NextFInv, PTL DEF Spec

\* The maps and the results keep their types.
THEOREM FactoryTypes == Spec => []TypeOK
BY FactoryInvariant, PTL DEF FInv

\* A backend registered after the maps were constructed is found, and a name
\* that nobody registers is not.
THEOREM LateAlwaysFound == Spec => []LateIsFound
<1>1. FInv => LateIsFound
  <2> SUFFICES ASSUME FInv, NEW r \in Requests, built[r] # Unasked
               PROVE  /\ built[r].result = None =>
                           \A b \in Backends \ early : Name[b] # built[r].name
                      /\ (\A b \in Backends : Name[b] # built[r].name)
                           => built[r].result = None
    BY DEF LateIsFound
  <2>1. PICK entry \in {create_fn[built[r].name], open_fn[built[r].name]} :
          IF entry = None THEN built[r].result = None
                          ELSE built[r].result \in {entry, "threw"}
    BY DEF FInv, BuiltInv
  <2>2. built[r].name \in Names /\ registered = Backends
    BY DEF FInv, BuiltInv, PhaseInv
  <2>3. entry \in Backends \cup {None}
    BY <2>1, <2>2 DEF FInv, TypeOK
  <2>4. built[r].result = None => entry = None
    BY <2>1, <2>3, FactoryAssumption DEF FactoryAssumption
  <2>5. entry # None => Name[entry] = built[r].name
    BY <2>1, <2>2 DEF FInv, MapsInv
  <2> QED BY <2>1, <2>2, <2>3, <2>4, <2>5 DEF FInv, MapsInv
<1> QED BY <1>1, FactoryInvariant, PTL

\* Sequencers created and opened under one name are of one type.
THEOREM OneTypeEver == Spec => []OneTypePerName
<1>1. FInv => OneTypePerName
  <2> SUFFICES ASSUME FInv, NEW r \in Requests, NEW q \in Requests,
                      built[r].name = built[q].name,
                      built[r].result \in Backends,
                      built[q].result \in Backends
               PROVE  built[r].result = built[q].result
    BY DEF OneTypePerName
  <2>1. built[r] # Unasked /\ built[q] # Unasked
    BY FactoryAssumption DEF FactoryAssumption, Unasked
  <2>2. \A p \in {r, q} : \E entry \in {create_fn[built[r].name],
                                       open_fn[built[r].name]} :
          entry # None /\ built[p].result = entry
    BY <2>1, FactoryAssumption DEF FInv, BuiltInv, FactoryAssumption
  <2>3. built[r].name \in Names
    BY <2>1 DEF FInv, BuiltInv
  <2> QED BY <2>2, <2>3 DEF FInv, MapsInv
<1> QED BY <1>1, FactoryInvariant, PTL
=============================================================================
