------------------------- MODULE ProviderImplInvariant -------------------------
(***************************************************************************)
(* The inductive invariant of ProviderImpl: what is true of every handler  *)
(* at every label, strong enough that no step of any handler breaks it.    *)
(***************************************************************************)
EXTENDS ProviderImpl, Naturals

\* A create or open whose backend has entered the map.
Inserted(r) == result[r].value # NilUUID

\* Labels of a handler whose request has not taken effect yet.
Undecided == {"idle", "token", "compare", "build", "lock", "insert", "find",
              "destroy", "erase"}

\* m_backends_mtx is held exactly by the handler inside a critical section.
MutexInv == \A r \in Requests : pc[r] \in Locked <=> m_backends_mtx = r

\* What a handler is doing there, given the RPC it serves.
ControlInv == \A r \in Requests :
  /\ pc[r] = "idle" <=> call[r].op = "none"
  /\ pc[r] \in {"token", "compare"} => IsCreate(r) \/ IsRemove(r)
  /\ pc[r] \in {"build", "insert"} => IsCreate(r)
  /\ pc[r] \in {"find", "respond_locked", "unlock", "call"} => ~IsCreate(r)
  /\ pc[r] \in {"destroy", "erase"} => IsRemove(r) /\ Entry(r) # None
  /\ pc[r] = "destroy" => call[r].op = "destroy"
  /\ pc[r] = "call" => call[r].op \in {"hello", "sum"}

\* What a handler's RequestResult holds, and when it has been sent.
ResultInv == \A r \in Requests :
  /\ result[r].outcome # "unsent"
  /\ pc[r] \in Undecided \ {"erase"} => result[r] = Result("ok")
  /\ pc[r] = "erase" => result[r] \in {Result("ok"), Result("failed")}
  /\ pc[r] \in {"respond_locked", "unlock"} => result[r] = Result("not_found")
  /\ pc[r] = "call" => result[r] = Result("ok")
  /\ Inserted(r) => IsCreate(r) /\ result[r] = Created(r)
  /\ result[r].outcome = "bad_token" => IsCreate(r) \/ IsRemove(r)
  /\ IsCreate(r) /\ ~Inserted(r) /\ pc[r] \in {"respond", "return", "done"}
       => result[r].outcome \in Refusals
  /\ pc[r] \in Undecided \cup {"call", "respond", "respond_locked"}
       => response[r] = Result("unsent")
  /\ response[r] = Result("unsent") \/ response[r] = result[r]

\* Two creates never generate the same id, and never the nil one.
IdInv ==
  /\ \A r \in Requests : IsCreate(r) => sequencer_id[r] \in UUIDs
  /\ \A r, q \in Requests :
       IsCreate(r) /\ IsCreate(q) /\ sequencer_id[r] = sequencer_id[q] => r = q

\* Whom the map and the handlers' pointers may point to.
OwnerInv ==
  /\ \A u \in Ids : m_backends[u] # None =>
       IsCreate(m_backends[u]) /\ Inserted(m_backends[u])
         /\ sequencer_id[m_backends[u]] = u
  /\ \A r \in Requests :
       /\ IsCreate(r) => backend[r] =
            IF pc[r] \in {"lock", "insert"} THEN r ELSE None
       /\ ~IsCreate(r) /\ backend[r] # None =>
            /\ pc[r] \in {"call", "respond", "return"}
            /\ IsCreate(backend[r]) /\ Inserted(backend[r])
       /\ pc[r] = "call" => backend[r] # None
  /\ \A b \in deleted : IsCreate(b) /\ Inserted(b) /\ ~Owned(b)

\* destroy() runs on an inserted backend, whose entry its handler erases.
DestroyedInv == \A b \in destroyed :
  /\ IsCreate(b) /\ Inserted(b)
  /\ m_backends[sequencer_id[b]] = b => \E r \in Requests :
       pc[r] = "erase" /\ call[r].op = "destroy"
         /\ sequencer_id[r] = sequencer_id[b]

\* The life of an id: inserted, then removed by one request, for good.
LifeInv ==
  /\ \A r \in Requests : Inserted(r) =>
       \/ m_backends[sequencer_id[r]] = r
       \/ \E q \in Requests : Removed(q) /\ sequencer_id[q] = sequencer_id[r]
  /\ \A q \in Requests : Removed(q) =>
       /\ m_backends[sequencer_id[q]] = None
       /\ \E r \in Requests : Inserted(r) /\ sequencer_id[r] = sequencer_id[q]
  /\ RemovedOnce

\* A request that carries a token and whose check, as far as it got, no
\* setSecurityToken has overlapped.
Undisturbed(r) == (IsCreate(r) \/ IsRemove(r)) /\ inForce[r] # None

TokenSafe(r) ==
  /\ pc[r] = "idle" => inForce[r] = None
  /\ Undisturbed(r) /\ r \in Checking =>
       settingToken = None /\ inForce[r] = m_token
  /\ Undisturbed(r) /\ pc[r] = "compare" => inForce[r] # NoToken
  /\ Undisturbed(r) /\ r \notin Checking =>
       (result[r].outcome = "bad_token"
          <=> inForce[r] \notin {NoToken, call[r].token})

TokenInv == \A r \in Requests : TokenSafe(r)

(***************************************************************************)
(* What every step of every handler preserves by itself.                   *)
(***************************************************************************)
HandlerInv ==
  /\ TypeOK
  /\ MutexInv
  /\ ControlInv
  /\ ResultInv
  /\ IdInv
  /\ OwnerInv
  /\ DestroyedInv
  /\ LifeInv
  /\ TokenInv

\* A handler that has responded has sent its RequestResult, and one that is
\* over has responded unless it owes no response.
AnswerInv == \A r \in Requests :
  /\ pc[r] = "respond" => call[r].op # "hello"
  /\ pc[r] = "unlock" => response[r] = result[r]
  /\ pc[r] \in {"return", "done"} =>
       response[r] = IF Responds(r) THEN result[r] ELSE Result("unsent")

\* A backend that entered the map and that nothing points to is deleted.
LeakInv == \A b \in Requests :
  Inserted(b) => (b \in deleted <=> ~Owned(b))

(***************************************************************************)
(* The inductive invariant.                                                *)
(***************************************************************************)
IInv == HandlerInv /\ AnswerInv /\ LeakInv

-----------------------------------------------------------------------------
(* What follows from it, beside the properties of ProviderImpl.            *)

\* Where a handler stands on its way: every step takes it to a lower rank.
Rank == [l \in Labels |->
  CASE l = "idle"                                  -> 10
    [] l = "token"                                 -> 9
    [] l = "compare"                               -> 8
    [] l = "build"                                 -> 7
    [] l = "lock"                                  -> 6
    [] l \in {"find", "insert"}                    -> 5
    [] l = "destroy"                               -> 4
    [] l \in {"erase", "call", "respond_locked"}   -> 3
    [] l \in {"respond", "unlock"}                 -> 2
    [] l = "return"                                -> 1
    [] l = "done"                                  -> 0]

\* A handler under way whose next statement does not wait: what Handle(r)
\* requires, label by label, of a step of r.
Ready(r) ==
  \/ pc[r] \in {"token", "compare", "build", "insert", "erase", "respond",
                "respond_locked", "unlock", "return"}
  \/ pc[r] = "lock" /\ MutexFree
  \/ /\ pc[r] = "find"
     /\ Entry(r) = None \/ IsRemove(r) \/ call[r].op \in Looking
  \/ pc[r] = "destroy" /\ Entry(r) # None
  \/ pc[r] = "call" /\ call[r].op \in {"sum", "hello"} /\ backend[r] # None

(***************************************************************************)
(* A handler under way has a statement to run, or waits for the mutex held *)
(* by another one that has: the handlers are never all waiting.            *)
(***************************************************************************)
NeverStuck == \A r \in Requests : pc[r] \notin {"idle", "done"} =>
  \/ Ready(r)
  \/ pc[r] = "lock" /\ \E h \in Requests : m_backends_mtx = h /\ Ready(h)

(***************************************************************************)
(* A handler only goes forward: it is over after ten steps at most.        *)
(***************************************************************************)
HandlersAdvance == [][\A r \in Requests :
  pc'[r] # pc[r] => Rank[pc'[r]] < Rank[pc[r]]]_vars

\* No handler is under way.
Quiet == \A r \in Requests : pc[r] \in {"idle", "done"}

(***************************************************************************)
(* Once the handlers under way have returned, the backends that were made  *)
(* and are not deleted are exactly those the map leads to.                 *)
(***************************************************************************)
NothingLeaks == Quiet => \A b \in Requests : Inserted(b) =>
  (b \notin deleted <=> m_backends[sequencer_id[b]] = b)
=============================================================================
