--------------------------- MODULE RuntimeRegistry --------------------------
(***************************************************************************)
(* The LightRAG runtimes of a process: LightRAGRuntimeRegistry of          *)
(* backend/rag/runtime_registry.py with the factory that makes and closes  *)
(* a runtime, backend/rag/factory.py.                                      *)
(*                                                                         *)
(* A registry lives in one event loop, where code runs without             *)
(* interruption from one await to the next; that is one action here.       *)
(* Loops in several threads share the environment variables of the         *)
(* process, from which LightRAG learns its namespace.                      *)
(***************************************************************************)
EXTENDS FiniteSets

CONSTANTS
    Registries,   \* registries, each in an event loop of its own
    Callers,      \* calls of get
    Closers,      \* calls of close
    Nobody,       \* no call: a free lock, a key that is not cached
    Shutdown,     \* the task of _close_all, as holder of a lock
    Keys,         \* workspace, schema version and embedding profile
    Ambient,      \* the environment variables as the process found them
    RegistryOf,   \* the registry a call is made on
    KeyOf         \* the key of a call of get

ASSUME RuntimeRegistryAssumption ==
    /\ Callers \cap Closers = {}
    /\ {Nobody, Shutdown} \cap Callers = {}
    /\ Nobody # Shutdown
    /\ Ambient \notin Keys
    /\ RegistryOf \in [Callers \cup Closers -> Registries]
    /\ KeyOf \in [Callers -> Keys]

VARIABLES
    pc,           \* where each call is
    given,        \* the runtime each call of get returned, by its creator
    lock,         \* holder of the asyncio lock of each registry
    cache,        \* _runtimes: runtimes by key, each named by its creator
    closing,      \* the shared close task of each registry
    doomed,       \* the runtimes that task has taken over
    erred,        \* one of their resources raised when it was closed
    open,         \* the resources of each creation that are open
    environment,  \* the namespace in the environment variables
    previous,     \* what _storage_environment is to restore
    environmentLock

registryVars == <<lock, cache, closing, doomed, erred>>
environmentVars == <<environment, previous, environmentLock>>
vars == <<pc, given, lock, cache, closing, doomed, erred, open,
          environment, previous, environmentLock>>

-----------------------------------------------------------------------------
Clients == {"embedding", "llm"}
Parts == {"storages"} \cup Clients

\* The clean-up of a failed creation: with its timeout running, or waited
\* for without one.
CleaningUp == {"cleaning", "draining"}

\* Steps of a call that is making a runtime, in the order of the factory.
Creating == {"polling", "initializing"} \cup CleaningUp

Ended == {"got", "raised", "dropped"}

TypeOK ==
    /\ pc \in [Callers \cup Closers ->
                 {"new", "waiting", "shielded", "returned"} \cup Creating \cup Ended]
    /\ given \in [Callers -> Callers \cup {Nobody}]
    /\ lock \in [Registries -> Callers \cup {Nobody, Shutdown}]
    /\ cache \in [Registries -> [Keys -> Callers \cup {Nobody}]]
    /\ closing \in [Registries -> {"none", "waiting", "closing", "closed", "failed"}]
    /\ doomed \in [Registries -> SUBSET Callers]
    /\ erred \in [Registries -> BOOLEAN]
    /\ open \in [Callers -> SUBSET Parts]
    /\ environment \in Keys \cup {Ambient}
    /\ previous \in [Callers -> Keys \cup {Ambient}]
    /\ environmentLock \in Callers \cup {Nobody}

Init ==
    /\ pc = [c \in Callers \cup Closers |-> "new"]
    /\ given = [c \in Callers |-> Nobody]
    /\ lock = [r \in Registries |-> Nobody]
    /\ cache = [r \in Registries |-> [k \in Keys |-> Nobody]]
    /\ closing = [r \in Registries |-> "none"]
    /\ doomed = [r \in Registries |-> {}]
    /\ erred = [r \in Registries |-> FALSE]
    /\ open = [c \in Callers |-> {}]
    /\ environment = Ambient
    /\ previous = [c \in Callers |-> Ambient]
    /\ environmentLock = Nobody

GoTo(c, s) == pc' = [pc EXCEPT ![c] = s]

Cached(c) == cache[RegistryOf[c]][KeyOf[c]]

\* _closing is set together with the close task.
IsClosing(c) == closing[RegistryOf[c]] # "none"

SetLock(c, h) == lock' = [lock EXCEPT ![RegistryOf[c]] = h]

Waiters(r) == {c \in Callers : RegistryOf[c] = r /\ pc[c] = "waiting"}

-----------------------------------------------------------------------------
(* get.                                                                    *)

Serve(c) ==
    /\ Cached(c) # Nobody
    /\ given' = [given EXCEPT ![c] = Cached(c)]
    /\ GoTo(c, "got")
    /\ UNCHANGED <<registryVars, open>>

\* create_lightrag_runtime up to its first await.  The configuration or a
\* client may be refused; what was made by then is cleaned up.
StartCreation(c) ==
    /\ Cached(c) = Nobody
    /\ SetLock(c, c)
    /\ \E made \in {{}, {"embedding"}, Clients} :
         /\ open' = [open EXCEPT ![c] = made]
         /\ GoTo(c, IF made = Clients THEN "polling" ELSE "cleaning")
    /\ UNCHANGED <<given, cache, closing, doomed, erred>>

Refuse(c) ==
    /\ GoTo(c, "raised")
    /\ UNCHANGED <<given, registryVars, open>>

\* Faulty variant: the flag is looked at before the wait only.
UnderLock_OneLook(c) ==
    /\ Serve(c) \/ StartCreation(c)
    /\ UNCHANGED environmentVars

\* What get does once it has the lock, up to the next await.
UnderLock(c) ==
    /\ IF IsClosing(c) THEN Refuse(c) ELSE Serve(c) \/ StartCreation(c)
    /\ UNCHANGED environmentVars

Wait(c) ==
    /\ GoTo(c, "waiting")
    /\ UNCHANGED <<given, registryVars, open, environmentVars>>

\* An asyncio lock that is free and not waited for is taken without an await.
Unclaimed(c) ==
    /\ lock[RegistryOf[c]] = Nobody
    /\ Waiters(RegistryOf[c]) = {}
    /\ closing[RegistryOf[c]] # "waiting"

Get(c) ==
    /\ pc[c] = "new"
    /\ IF IsClosing(c) \/ Unclaimed(c) THEN UnderLock(c) ELSE Wait(c)

\* Faulty variant: the lock is not waited for.
Resume_NoWait(c) ==
    /\ pc[c] = "waiting"
    /\ UnderLock(c)

\* Which waiter is woken first is left open.
Resume(c) ==
    /\ pc[c] = "waiting"
    /\ lock[RegistryOf[c]] = Nobody
    /\ UnderLock(c)

\* The task of the caller is cancelled while it waits for the lock.
CancelWait(c) ==
    /\ pc[c] = "waiting"
    /\ GoTo(c, "raised")
    /\ UNCHANGED <<given, registryVars, open, environmentVars>>

-----------------------------------------------------------------------------
(* create_lightrag_runtime.                                                *)

\* Faulty variant: another thread's section is not waited for.
EnterEnvironment_NoLock(c) ==
    /\ pc[c] = "polling"
    /\ environmentLock' = c
    /\ previous' = [previous EXCEPT ![c] = environment]
    /\ environment' = KeyOf[c]
    /\ open' = [open EXCEPT ![c] = Parts]
    /\ GoTo(c, "initializing")
    /\ UNCHANGED <<given, registryVars>>

\* _serialized_storage_environment polls the lock of the process; then the
\* variables are set and LightRAG is constructed without an await.
EnterEnvironment(c) ==
    /\ pc[c] = "polling"
    /\ environmentLock = Nobody
    /\ environmentLock' = c
    /\ previous' = [previous EXCEPT ![c] = environment]
    /\ environment' = KeyOf[c]
    /\ open' = [open EXCEPT ![c] = Parts]
    /\ GoTo(c, "initializing")
    /\ UNCHANGED <<given, registryVars>>

LeaveEnvironment(c) ==
    /\ environment' = previous[c]
    /\ environmentLock' = Nobody
    /\ UNCHANGED previous

\* initialize_storages has read its namespace and returned; the runtime is
\* cached and the registry's lock let go before the next await.
Initialized(c) ==
    /\ pc[c] = "initializing"
    /\ LeaveEnvironment(c)
    /\ cache' = [cache EXCEPT ![RegistryOf[c]][KeyOf[c]] = c]
    /\ given' = [given EXCEPT ![c] = c]
    /\ SetLock(c, Nobody)
    /\ GoTo(c, "got")
    /\ UNCHANGED <<closing, doomed, erred, open>>

\* Faulty variant: a failure does not leave the section.
Abort_InSection(c) ==
    /\ pc[c] \in {"polling", "initializing"}
    /\ GoTo(c, "cleaning")
    /\ UNCHANGED <<given, registryVars, open, environmentVars>>

\* LightRAG raises, or the caller is cancelled; _cleanup_after_failure
\* starts its task under a timeout.
Abort(c) ==
    /\ pc[c] \in {"polling", "initializing"}
    /\ IF pc[c] = "initializing" THEN LeaveEnvironment(c)
                                 ELSE UNCHANGED environmentVars
    /\ GoTo(c, "cleaning")
    /\ UNCHANGED <<given, registryVars, open>>

\* _cleanup_failed_initialization closes the parts in any order.
CleanUpPart(c) ==
    /\ pc[c] \in CleaningUp
    /\ \E x \in open[c] : open' = [open EXCEPT ![c] = @ \ {x}]
    /\ UNCHANGED <<pc, given, registryVars, environmentVars>>

\* Faulty variant: what could not be initialized is retained.
CleanedUp_Retained(c) ==
    /\ pc[c] \in CleaningUp
    /\ open[c] = {}
    /\ SetLock(c, Nobody)
    /\ cache' = [cache EXCEPT ![RegistryOf[c]][KeyOf[c]] = c]
    /\ GoTo(c, "raised")
    /\ UNCHANGED <<given, closing, doomed, erred, open, environmentVars>>

CleanedUp(c) ==
    /\ pc[c] \in CleaningUp
    /\ open[c] = {}
    /\ SetLock(c, Nobody)
    /\ GoTo(c, "raised")
    /\ UNCHANGED <<given, cache, closing, doomed, erred, open, environmentVars>>

\* The clean-up took too long: it is cancelled, and ends with what it has
\* not closed left open.
TimeOut(c) ==
    /\ pc[c] = "cleaning"
    /\ SetLock(c, Nobody)
    /\ GoTo(c, "dropped")
    /\ UNCHANGED <<given, cache, closing, doomed, erred, open, environmentVars>>

\* The caller is cancelled during the clean-up, which is then waited for
\* without a timeout; further cancellations change nothing.
CancelCleanUp(c) ==
    /\ pc[c] = "cleaning"
    /\ GoTo(c, "draining")
    /\ UNCHANGED <<given, registryVars, open, environmentVars>>

-----------------------------------------------------------------------------
(* close.                                                                  *)

\* The first call starts the task; every call waits for it under a shield.
\* One whose caller was cancelled may be made again.
Close(q) ==
    /\ pc[q] \in {"new", "raised"}
    /\ closing' = [closing EXCEPT ![RegistryOf[q]] =
                     IF @ = "none" THEN "waiting" ELSE @]
    /\ GoTo(q, "shielded")
    /\ UNCHANGED <<given, lock, cache, doomed, erred, open, environmentVars>>

\* Faulty variant: the task is not shielded from its waiters.
CancelClose_Through(q) ==
    /\ pc[q] = "shielded"
    /\ GoTo(q, "raised")
    /\ closing' = [closing EXCEPT ![RegistryOf[q]] =
                     IF @ = "waiting" THEN "none" ELSE @]
    /\ UNCHANGED <<given, lock, cache, doomed, erred, open, environmentVars>>

CancelClose(q) ==
    /\ pc[q] = "shielded"
    /\ GoTo(q, "raised")
    /\ UNCHANGED <<given, registryVars, open, environmentVars>>

\* Faulty variant: keys without a runtime are not passed over.
CloseAll_AllKeys(r) ==
    /\ closing[r] = "waiting"
    /\ lock[r] = Nobody
    /\ lock' = [lock EXCEPT ![r] = Shutdown]
    /\ doomed' = [doomed EXCEPT ![r] = {cache[r][k] : k \in Keys}]
    /\ cache' = [cache EXCEPT ![r] = [k \in Keys |-> Nobody]]
    /\ closing' = [closing EXCEPT ![r] = "closing"]
    /\ UNCHANGED <<pc, given, erred, open, environmentVars>>

\* _close_all up to gather.
CloseAll(r) ==
    /\ closing[r] = "waiting"
    /\ lock[r] = Nobody
    /\ lock' = [lock EXCEPT ![r] = Shutdown]
    /\ doomed' = [doomed EXCEPT ![r] = {cache[r][k] : k \in Keys} \ {Nobody}]
    /\ cache' = [cache EXCEPT ![r] = [k \in Keys |-> Nobody]]
    /\ closing' = [closing EXCEPT ![r] = "closing"]
    /\ UNCHANGED <<pc, given, erred, open, environmentVars>>

\* LightRAGRuntime.close: the storages, then the clients; one that raises
\* keeps none of the others from being closed.
FirstOf(parts) ==
    CHOOSE x \in parts :
      \/ x = "storages"
      \/ x = "embedding" /\ "storages" \notin parts
      \/ parts = {x}

CloseRuntime(r) ==
    /\ closing[r] = "closing"
    /\ \E c \in doomed[r] :
         /\ open[c] # {}
         /\ open' = [open EXCEPT ![c] = @ \ {FirstOf(@)}]
    /\ \E raised \in BOOLEAN :
         erred' = [erred EXCEPT ![r] = @ \/ raised]
    /\ UNCHANGED <<pc, given, lock, cache, closing, doomed, environmentVars>>

\* Faulty variant: the task ends with the first runtime that raised.
CloseOver_FirstError(r) ==
    /\ closing[r] = "closing"
    /\ erred[r] \/ \A c \in doomed[r] : open[c] = {}
    /\ lock' = [lock EXCEPT ![r] = Nobody]
    /\ doomed' = [doomed EXCEPT ![r] = {}]
    /\ closing' = [closing EXCEPT ![r] = IF erred[r] THEN "failed" ELSE "closed"]
    /\ UNCHANGED <<pc, given, cache, erred, open, environmentVars>>

CloseOver(r) ==
    /\ closing[r] = "closing"
    /\ \A c \in doomed[r] : open[c] = {}
    /\ lock' = [lock EXCEPT ![r] = Nobody]
    /\ doomed' = [doomed EXCEPT ![r] = {}]
    /\ closing' = [closing EXCEPT ![r] = IF erred[r] THEN "failed" ELSE "closed"]
    /\ UNCHANGED <<pc, given, cache, erred, open, environmentVars>>

\* The task's result or its first error, for every call that still waits.
Closed(q) ==
    /\ pc[q] = "shielded"
    /\ closing[RegistryOf[q]] \in {"closed", "failed"}
    /\ GoTo(q, "returned")
    /\ UNCHANGED <<given, registryVars, open, environmentVars>>

-----------------------------------------------------------------------------
\* Steps a call takes of itself; CleanUpPart may never come.
GoesOn(c) ==
    \/ Resume(c)
    \/ EnterEnvironment(c)
    \/ Initialized(c)
    \/ pc[c] = "initializing" /\ Abort(c)
    \/ CleanedUp(c)
    \/ TimeOut(c)

Call(c) ==
    \/ Get(c)
    \/ CancelWait(c)
    \/ Abort(c)
    \/ CleanUpPart(c)
    \/ CancelCleanUp(c)
    \/ GoesOn(c)

ShutsDown(r) == CloseAll(r) \/ CloseRuntime(r) \/ CloseOver(r)

CallClose(q) == Close(q) \/ CancelClose(q) \/ Closed(q)

Next ==
    \/ \E c \in Callers : Call(c)
    \/ \E r \in Registries : ShutsDown(r)
    \/ \E q \in Closers : CallClose(q)

Spec == Init /\ [][Next]_vars

(***************************************************************************)
(* Event loops go on.  initialize_storages and the closing of a finished   *)
(* runtime return or raise; the closing of a half-made one, for which the  *)
(* factory has a timeout, may hang.                                        *)
(***************************************************************************)
Fairness ==
    /\ \A c \in Callers : WF_vars(GoesOn(c))
    /\ \A r \in Registries : WF_vars(ShutsDown(r))
    /\ \A q \in Closers : WF_vars(Closed(q))

FairSpec == Spec /\ Fairness

-----------------------------------------------------------------------------
(* Properties.                                                             *)

\* runtime_registry.py:47: "the single runtime owned for this workspace in
\* this registry": all calls of get that return for a key return one.
OneRuntimePerKey ==
    \A c, d \in Callers :
      /\ RegistryOf[c] = RegistryOf[d] /\ KeyOf[c] = KeyOf[d]
      /\ given[c] # Nobody /\ given[d] # Nobody
      => given[c] = given[d]

\* What get returned stays whole until its registry is being closed.
HandedOutIsOpen ==
    \A c \in Callers :
      given[c] # Nobody => open[given[c]] = Parts \/ IsClosing(c)

\* factory.py:177: while a runtime is constructed and initialized, LightRAG
\* reads its own namespace, whatever other threads create meanwhile, and the
\* variables are back whenever nobody has the section.
OwnNamespace ==
    /\ \A c \in Callers : pc[c] = "initializing" => environment = KeyOf[c]
    /\ environmentLock = Nobody => environment = Ambient

\* When close has returned, or raised what a runtime raised, nothing that
\* the registry made is open, neither a runtime nor what a failed creation
\* left, except what a clean-up that timed out has dropped; and it stays so.
NothingLeftOpen ==
    \A q \in Closers :
      pc[q] = "returned"
      => \A c \in Callers :
           RegistryOf[c] = RegistryOf[q] /\ pc[c] # "dropped" => open[c] = {}

\* A clean-up is waited for without a timeout.
HeldUp(r) == \E c \in Callers : RegistryOf[c] = r /\ pc[c] = "draining"

\* Every get ends.  The clean-up is bounded (factory.py:285) unless its
\* caller is cancelled meanwhile: such a one may hold up its registry.
GetsEnd ==
    \A c \in Callers :
      pc[c] = "waiting" ~> pc[c] \in Ended \/ HeldUp(RegistryOf[c])

\* runtime_registry.py:81: cancelling a call of close does not cancel the
\* shared shutdown, which ends though creations fail and closings raise.
ShutdownEnds ==
    \A r \in Registries :
      closing[r] = "waiting" ~> closing[r] \in {"closed", "failed"} \/ HeldUp(r)
=============================================================================
