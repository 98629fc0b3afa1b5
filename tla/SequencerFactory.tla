--------------------------- MODULE SequencerFactory ---------------------------
(***************************************************************************)
(* The factory of backends: two static maps from names to functions, which *)
(* the static objects of MOBJECT_REGISTER_BACKEND fill before main, and    *)
(* which handlers read.  The maps and the objects are in different files;  *)
(* C++ leaves the order of their initialization open, a linker that gets   *)
(* Backend.cpp first settles it.  A backend stands for its type.           *)
(***************************************************************************)
CONSTANTS
  Backends,   \* the backends linked into the program, with a file each
  Names,      \* the names a user may ask for
  Name,       \* the name each backend is registered under
  Requests,   \* the calls of createSequencer and openSequencer
  None        \* no entry, or no backend: nullptr

ASSUME FactoryAssumption ==
  /\ Name \in [Backends -> Names]
  /\ None \notin Backends \cup Names
  /\ {"none", "threw"} \cap (Backends \cup {None}) = {}

VARIABLES
  create_fn, open_fn,  \* name -> the backend whose function it has, or None
  constructed,         \* which of the two maps were constructed
  registered,          \* the backends whose registration object was
  phase,               \* "static" initialization, "main", or "crashed"
  built,               \* what each call returned, "none" before
  early                \* history: the backends registered before the maps

vars == <<create_fn, open_fn, constructed, registered, phase, built, early>>

Empty == [n \in Names |-> None]

Unasked == [name |-> None, result |-> "none"]

Init ==
  /\ create_fn = Empty /\ open_fn = Empty
  /\ constructed = {} /\ registered = {} /\ early = {}
  /\ phase = "static"
  /\ built = [r \in Requests |-> Unasked]

-----------------------------------------------------------------------------
(* Before main.                                                            *)

\* The two definitions of Backend.cpp, in this order.  What was written to
\* the storage of a map before it was constructed is lost.
ConstructCreateFn ==
  /\ phase = "static"
  /\ constructed = {}
  /\ constructed' = {"create_fn"}
  /\ create_fn' = Empty
  /\ UNCHANGED <<open_fn, registered, phase, built, early>>
ConstructAnytime ==  \* Mutant: open_fn is defined in a third file.
  /\ phase = "static"
  /\ "open_fn" \notin constructed
  /\ constructed' = constructed \cup {"open_fn"}
  /\ open_fn' = Empty
  /\ UNCHANGED <<create_fn, registered, phase, built, early>>
ConstructOpenFn ==
  /\ phase = "static"
  /\ constructed = {"create_fn"}
  /\ constructed' = {"create_fn", "open_fn"}
  /\ open_fn' = Empty
  /\ UNCHANGED <<create_fn, registered, phase, built, early>>

Constructed == constructed = {"create_fn", "open_fn"}

\* __MobjectBackendRegistration(name): the last one of a name is the one.
EntriesApart(b) ==  \* Mutant: open_fn.emplace(name, ...) keeps the first.
  /\ create_fn' = [create_fn EXCEPT ![Name[b]] = b]
  /\ open_fn' = IF open_fn[Name[b]] = None
                THEN [open_fn EXCEPT ![Name[b]] = b] ELSE open_fn
EntryOfOne(b) ==  \* Mutant: both assignments are to create_fn.
  /\ create_fn' = [create_fn EXCEPT ![Name[b]] = b]
  /\ UNCHANGED open_fn
Entries(b) ==
  /\ create_fn' = [create_fn EXCEPT ![Name[b]] = b]
  /\ open_fn' = [open_fn EXCEPT ![Name[b]] = b]

Register(b) ==
  /\ phase = "static" /\ b \notin registered
  /\ registered' = registered \cup {b}
  /\ Entries(b)
  /\ early' = IF Constructed THEN early ELSE early \cup {b}
  /\ UNCHANGED <<phase, constructed, built>>

\* A map that was not constructed has no buckets: writing to it may as well
\* end the program.
RegisterCrashes(b) ==
  /\ phase = "static" /\ b \notin registered
  /\ ~Constructed
  /\ phase' = "crashed"
  /\ UNCHANGED <<create_fn, open_fn, constructed, registered, built, early>>

Main ==
  /\ phase = "static"
  /\ Constructed
  /\ registered = Backends
  /\ phase' = "main"
  /\ UNCHANGED <<create_fn, open_fn, constructed, registered, built, early>>

-----------------------------------------------------------------------------
(* SequencerFactory::createSequencer and openSequencer.                    *)

\* What BackendType::create or open comes to: a backend or an exception.
Outcomes(b) == {b, "threw"}

Lookup(r, fn, n) ==
  /\ phase = "main"
  /\ built[r] = Unasked
  /\ \E result \in IF fn[n] = None THEN {None} ELSE Outcomes(fn[n]) :
       built' = [built EXCEPT ![r] = [name |-> n, result |-> result]]
  /\ UNCHANGED <<create_fn, open_fn, constructed, registered, phase, early>>

CreateSequencer(r, n) == Lookup(r, create_fn, n)
OpenSequencer(r, n)   == Lookup(r, open_fn, n)

\* The program ended early, or every call was made.
Over ==
  /\ \/ phase = "crashed"
     \/ \A r \in Requests : built[r] # Unasked
  /\ UNCHANGED vars

Next ==
  \/ ConstructCreateFn \/ ConstructOpenFn
  \/ \E b \in Backends : Register(b) \/ RegisterCrashes(b)
  \/ Main
  \/ \E r \in Requests, n \in Names :
       CreateSequencer(r, n) \/ OpenSequencer(r, n)
  \/ Over

Spec == Init /\ [][Next]_vars

-----------------------------------------------------------------------------
(***************************************************************************)
(* The types of the maps and of what the calls return.                     *)
(***************************************************************************)
TypeOK ==
  /\ create_fn \in [Names -> Backends \cup {None}]
  /\ open_fn \in [Names -> Backends \cup {None}]
  /\ constructed \in {{}, {"create_fn"}, {"create_fn", "open_fn"}}
  /\ registered \subseteq Backends /\ early \subseteq registered
  /\ phase \in {"static", "main", "crashed"}
  /\ built \in [Requests ->
       [name : Names \cup {None},
        result : Backends \cup {None, "none", "threw"}]]

(***************************************************************************)
(* The backends registered after the maps were constructed are found once  *)
(* main runs, whatever those do that came too early, and no name is known  *)
(* that nobody registered.                                                 *)
(***************************************************************************)
LateIsFound == \A r \in Requests : built[r] # Unasked =>
  /\ built[r].result = None => \A b \in Backends \ early :
                                Name[b] # built[r].name
  /\ (\A b \in Backends : Name[b] # built[r].name) => built[r].result = None

(***************************************************************************)
(* In any order of initialization, a sequencer created under a name and    *)
(* one opened under it are of one type, although several backends may have *)
(* registered that name.                                                   *)
(***************************************************************************)
OneTypePerName == \A r, q \in Requests :
  /\ built[r].name = built[q].name
  /\ {built[r].result, built[q].result} \subseteq Backends
  => built[r].result = built[q].result
=============================================================================
