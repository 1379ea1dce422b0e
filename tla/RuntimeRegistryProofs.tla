----------------------- MODULE RuntimeRegistryProofs ------------------------
(* What RuntimeRegistry promises for all registries, keys and calls.       *)
EXTENDS RuntimeRegistry, TLAPS

(***************************************************************************)
(* The inductive invariant: who holds which lock follows from where the    *)
(* calls are, and what is open belongs to a call that is making it, to the *)
(* cache, to the close task, or was dropped.                               *)
(***************************************************************************)

\* The asyncio lock of a registry is held from StartCreation to the end of
\* the call, and by the close task from CloseAll to CloseOver.
LocksFollowCalls ==
    /\ \A r \in Registries, c \in Callers :
         lock[r] = c <=> RegistryOf[c] = r /\ pc[c] \in Creating
    /\ \A r \in Registries : lock[r] = Shutdown <=> closing[r] = "closing"

\* The environment is that of the call in the section.
SectionFollowsCall ==
    /\ \A c \in Callers : environmentLock = c <=> pc[c] = "initializing"
    /\ environmentLock = Nobody => environment = Ambient
    /\ environmentLock # Nobody => environment = KeyOf[environmentLock]
    /\ \A c \in Callers : previous[c] = Ambient

\* LightRAG and both clients exist while the storages are initialized.
InitializingIsOpen ==
    \A c \in Callers : pc[c] = "initializing" => open[c] = Parts

\* A cached runtime was made for its key by a call that returned it.
CacheIsWhole ==
    \A r \in Registries, k \in Keys :
      cache[r][k] # Nobody
      => /\ RegistryOf[cache[r][k]] = r
         /\ KeyOf[cache[r][k]] = k
         /\ pc[cache[r][k]] = "got"
         /\ open[cache[r][k]] = Parts

\* A runtime is made for a key only while the cache has none, and once the
\* close task has emptied the cache nothing is made any more.
NothingIsMadeTwice ==
    /\ \A c \in Callers :
         pc[c] \in Creating => /\ Cached(c) = Nobody
                               /\ closing[RegistryOf[c]] \in {"none", "waiting"}
    /\ \A r \in Registries, k \in Keys :
         closing[r] \notin {"none", "waiting"} => cache[r][k] = Nobody

\* Until then, what get returned is what is cached.
GivenIsCached ==
    \A c \in Callers :
      given[c] # Nobody /\ closing[RegistryOf[c]] \in {"none", "waiting"}
      => given[c] = Cached(c)

\* Whatever is open has somebody who will close it, or was dropped.
OpenIsOwned ==
    /\ \A c \in Callers :
         open[c] # {} => \/ pc[c] \in Creating \cup {"dropped"}
                         \/ Cached(c) = c
                         \/ c \in doomed[RegistryOf[c]]
    /\ \A r \in Registries :
         /\ closing[r] # "closing" => doomed[r] = {}
         /\ \A c \in doomed[r] : RegistryOf[c] = r /\ pc[c] = "got"

ReturnedAfterShutdown ==
    \A q \in Closers :
      pc[q] = "returned" => closing[RegistryOf[q]] \in {"closed", "failed"}

RegistryInv ==
    /\ LocksFollowCalls
    /\ InitializingIsOpen
    /\ CacheIsWhole
    /\ NothingIsMadeTwice
    /\ GivenIsCached
    /\ OneRuntimePerKey
    /\ OpenIsOwned
    /\ ReturnedAfterShutdown

IndInv == TypeOK /\ SectionFollowsCall /\ RegistryInv

-----------------------------------------------------------------------------
\* Nothing is open, held or set at the start.
LEMMA InitIndInv ==
  ASSUME Init
  PROVE  IndInv
<1> USE RuntimeRegistryAssumption DEF RuntimeRegistryAssumption, Init
<1>1. TypeOK
  BY DEF TypeOK
<1>2. SectionFollowsCall
  BY DEF SectionFollowsCall
<1>3. RegistryInv
  BY DEF RegistryInv, LocksFollowCalls, InitializingIsOpen, CacheIsWhole,
         NothingIsMadeTwice, GivenIsCached, OneRuntimePerKey, OpenIsOwned, ReturnedAfterShutdown,
         Creating, CleaningUp, Cached
<1> QED BY <1>1, <1>2, <1>3 DEF IndInv

\* Every step keeps the types.
LEMMA NextTypeOK ==
  ASSUME IndInv, Next
  PROVE  TypeOK'
<1> USE RuntimeRegistryAssumption
    DEF RuntimeRegistryAssumption, IndInv, TypeOK, registryVars,
        environmentVars, Creating, CleaningUp, Ended, Parts, Clients
<1>1. ASSUME NEW c \in Callers, UnderLock(c)
      PROVE  TypeOK'
  <2>1. CASE Refuse(c)
    BY <1>1, <2>1 DEF UnderLock, Refuse, GoTo
  <2>2. CASE Serve(c)
    BY <1>1, <2>2 DEF UnderLock, Serve, GoTo, Cached
  <2>3. CASE StartCreation(c)
    BY <1>1, <2>3 DEF UnderLock, StartCreation, GoTo, SetLock
  <2> QED BY <1>1, <2>1, <2>2, <2>3 DEF UnderLock
<1>2. ASSUME NEW c \in Callers, Call(c)
      PROVE  TypeOK'
  <2>1. CASE Get(c)
    BY <1>1, <2>1 DEF Get, Wait, GoTo
  <2>2. CASE Resume(c)
    BY <1>1, <2>2 DEF Resume
  <2>3. CASE CancelWait(c)
    BY <2>3 DEF CancelWait, GoTo
  <2>4. CASE EnterEnvironment(c)
    BY <2>4 DEF EnterEnvironment, GoTo
  <2>5. CASE Initialized(c)
    BY <2>5 DEF Initialized, LeaveEnvironment, GoTo, SetLock
  <2>6. CASE Abort(c)
    BY <2>6 DEF Abort, LeaveEnvironment, GoTo
  <2>7. CASE CleanUpPart(c)
    BY <2>7 DEF CleanUpPart
  <2>8. CASE CleanedUp(c) \/ TimeOut(c)
    <3>1. lock' \in [Registries -> Callers \cup {Nobody, Shutdown}]
      BY <2>8 DEF CleanedUp, TimeOut, SetLock
    <3>2. pc' \in [Callers \cup Closers ->
                     {"new", "waiting", "shielded", "returned"}
                       \cup Creating \cup Ended]
      <4>1. PICK e \in Ended : pc' = [pc EXCEPT ![c] = e]
        BY <2>8 DEF CleanedUp, TimeOut, GoTo
      <4> QED BY <4>1
    <3> QED BY <2>8, <3>1, <3>2 DEF CleanedUp, TimeOut
  <2>9. CASE CancelCleanUp(c)
    BY <2>9 DEF CancelCleanUp, GoTo
  <2> QED
    BY <1>2, <2>1, <2>2, <2>3, <2>4, <2>5, <2>6, <2>7, <2>8, <2>9
    DEF Call, GoesOn
<1>3. ASSUME NEW r \in Registries, ShutsDown(r)
      PROVE  TypeOK'
  <2>1. CASE CloseAll(r)
    BY <2>1 DEF CloseAll
  <2>2. CASE CloseRuntime(r)
    BY <2>2 DEF CloseRuntime
  <2>3. CASE CloseOver(r)
    BY <2>3 DEF CloseOver
  <2> QED BY <1>3, <2>1, <2>2, <2>3 DEF ShutsDown
<1>4. ASSUME NEW q \in Closers, CallClose(q)
      PROVE  TypeOK'
  <2>1. CASE Close(q)
    <3>1. pc' \in [Callers \cup Closers ->
                     {"new", "waiting", "shielded", "returned"}
                       \cup Creating \cup Ended]
      BY <2>1 DEF Close, GoTo
    <3>2. closing' \in [Registries ->
                          {"none", "waiting", "closing", "closed", "failed"}]
      BY <2>1 DEF Close
    <3> QED BY <2>1, <3>1, <3>2 DEF Close
  <2>2. CASE CancelClose(q)
    BY <2>2 DEF CancelClose, GoTo
  <2>3. CASE Closed(q)
    BY <2>3 DEF Closed, GoTo
  <2> QED BY <1>4, <2>1, <2>2, <2>3 DEF CallClose
<1> QED BY <1>2, <1>3, <1>4 DEF Next

-----------------------------------------------------------------------------
\* Only EnterEnvironment, Initialized and Abort touch the section.
LEMMA NextSection ==
  ASSUME IndInv, Next
  PROVE  SectionFollowsCall'
<1> USE RuntimeRegistryAssumption
    DEF RuntimeRegistryAssumption, IndInv, TypeOK, SectionFollowsCall,
        registryVars, environmentVars
<1>1. ASSUME NEW c \in Callers, Call(c)
      PROVE  SectionFollowsCall'
  <2>1. CASE EnterEnvironment(c)
    BY <2>1 DEF EnterEnvironment, GoTo
  <2>2. CASE Initialized(c)
    BY <2>2 DEF Initialized, LeaveEnvironment, GoTo
  <2>3. CASE Abort(c)
    BY <2>3 DEF Abort, LeaveEnvironment, GoTo
  <2>4. CASE CleanUpPart(c)
    BY <2>4 DEF CleanUpPart
  <2>5. ASSUME UNCHANGED environmentVars,
               pc[c] # "initializing",
               \E s : s # "initializing" /\ GoTo(c, s)
        PROVE  SectionFollowsCall'
    BY <2>5 DEF GoTo
  <2>6. CASE UnderLock(c) /\ pc[c] # "initializing"
    BY <2>5, <2>6 DEF UnderLock, Refuse, Serve, StartCreation
  <2>7. CASE Get(c) \/ Resume(c)
    BY <2>5, <2>6, <2>7 DEF Get, Resume, Wait
  <2>8. CASE CancelWait(c) \/ CleanedUp(c) \/ TimeOut(c) \/ CancelCleanUp(c)
    BY <2>5, <2>8 DEF CancelWait, CleanedUp, TimeOut, CancelCleanUp, CleaningUp
  <2> QED
    BY <1>1, <2>1, <2>2, <2>3, <2>4, <2>7, <2>8 DEF Call, GoesOn
<1>2. ASSUME NEW r \in Registries, ShutsDown(r)
      PROVE  SectionFollowsCall'
  BY <1>2 DEF ShutsDown, CloseAll, CloseRuntime, CloseOver
<1>3. ASSUME NEW q \in Closers, CallClose(q)
      PROVE  SectionFollowsCall'
  BY <1>3 DEF CallClose, Close, CancelClose, Closed, GoTo
<1> QED BY <1>1, <1>2, <1>3 DEF Next

-----------------------------------------------------------------------------
\* The values that calls, locks and caches may have, for the steps below.
LEMMA Ranges ==
  ASSUME TypeOK
  PROVE  /\ \A c \in Callers : /\ RegistryOf[c] \in Registries
                               /\ KeyOf[c] \in Keys
                               /\ c # Nobody /\ c # Shutdown
         /\ \A q \in Closers : RegistryOf[q] \in Registries /\ q \notin Callers
         /\ Nobody # Shutdown
         /\ \A r \in Registries, k \in Keys :
              cache[r][k] \in Callers \cup {Nobody}
         /\ \A c \in Callers : given[c] \in Callers \cup {Nobody}
         /\ \A r \in Registries :
              closing[r] \in {"none", "waiting", "closing", "closed", "failed"}
         /\ \A r \in Registries : doomed[r] \subseteq Callers
BY RuntimeRegistryAssumption DEF RuntimeRegistryAssumption, TypeOK

\* A call that neither starts nor ends a creation leaves the rest alone.
LEMMA QuietStep ==
  ASSUME IndInv, NEW c \in Callers, NEW s,
         GoTo(c, s),
         pc[c] \notin {"got", "dropped"},
         pc[c] \in Creating <=> s \in Creating,
         \A d \in Callers : d # c => open'[d] = open[d],
         open'[c] = open[c] \/ s \in Creating,
         s = "initializing" => open'[c] = Parts,
         UNCHANGED <<given, registryVars>>
  PROVE  RegistryInv'
<1> USE Ranges DEF IndInv, RegistryInv, registryVars
<1>1. \A d \in Callers : pc'[d] = IF d = c THEN s ELSE pc[d]
  BY DEF GoTo, TypeOK
<1>2. \A q \in Closers : pc'[q] = pc[q]
  BY DEF GoTo, TypeOK
<1>3. LocksFollowCalls'
  BY <1>1 DEF LocksFollowCalls
<1>4. CacheIsWhole'
  BY <1>1 DEF CacheIsWhole
<1>5. NothingIsMadeTwice'
  BY <1>1 DEF NothingIsMadeTwice, Cached
<1>6. GivenIsCached' /\ OneRuntimePerKey'
  BY DEF GivenIsCached, OneRuntimePerKey, Cached
<1>7. OpenIsOwned'
  BY <1>1 DEF OpenIsOwned, Cached
<1>8. ReturnedAfterShutdown'
  BY <1>2 DEF ReturnedAfterShutdown
<1>9. InitializingIsOpen'
  BY <1>1 DEF InitializingIsOpen
<1> QED BY <1>3, <1>4, <1>5, <1>6, <1>7, <1>8, <1>9

\* A creation ends without a runtime.
LEMMA EndStep ==
  ASSUME IndInv, NEW c \in Callers, CleanedUp(c) \/ TimeOut(c)
  PROVE  RegistryInv'
<1> USE Ranges DEF IndInv, RegistryInv
<1>1. PICK s \in {"raised", "dropped"} :
        \A d \in Callers \cup Closers : pc'[d] = IF d = c THEN s ELSE pc[d]
  BY DEF CleanedUp, TimeOut, GoTo, TypeOK
<1>2. pc[c] \in CleaningUp /\ (open[c] = {} \/ pc'[c] = "dropped")
  BY DEF CleanedUp, TimeOut, CleaningUp, GoTo, TypeOK
<1>3. \A r \in Registries :
        lock'[r] = IF r = RegistryOf[c] THEN Nobody ELSE lock[r]
  BY DEF CleanedUp, TimeOut, SetLock, TypeOK
<1>4. UNCHANGED <<given, cache, closing, doomed, open>>
  BY DEF CleanedUp, TimeOut
<1>5. lock[RegistryOf[c]] = c /\ RegistryOf[c] \in Registries
  BY <1>2 DEF LocksFollowCalls, Creating
<1>6. LocksFollowCalls'
  BY <1>1, <1>3, <1>4, <1>5
  DEF LocksFollowCalls, Creating, CleaningUp
<1>7. CacheIsWhole' /\ NothingIsMadeTwice'
  BY <1>1, <1>2, <1>4
  DEF CacheIsWhole, NothingIsMadeTwice, Cached, Creating, CleaningUp
<1>8. GivenIsCached' /\ OneRuntimePerKey'
  BY <1>4 DEF GivenIsCached, OneRuntimePerKey, Cached
<1>9. OpenIsOwned'
  BY <1>1, <1>2, <1>4 DEF OpenIsOwned, Cached, Creating, CleaningUp
<1>10. ReturnedAfterShutdown' /\ InitializingIsOpen'
  BY <1>1, <1>4 DEF ReturnedAfterShutdown, InitializingIsOpen
<1> QED BY <1>6, <1>7, <1>8, <1>9, <1>10

\* get takes the lock when nobody has it.
LEMMA UnderLockStep ==
  ASSUME IndInv, NEW c \in Callers,
         pc[c] \in {"new", "waiting"},
         IsClosing(c) \/ lock[RegistryOf[c]] = Nobody,
         UnderLock(c)
  PROVE  RegistryInv'
<1> USE Ranges DEF IndInv, RegistryInv
<1>1. CASE Refuse(c)
  BY <1>1, QuietStep DEF Refuse, Creating, CleaningUp
<1>2. CASE Serve(c) /\ ~IsClosing(c)
  <2>1. \A d \in Callers \cup Closers : pc'[d] = IF d = c THEN "got" ELSE pc[d]
    BY <1>2 DEF Serve, GoTo, TypeOK
  <2>2. \A d \in Callers : given'[d] = IF d = c THEN Cached(c) ELSE given[d]
    BY <1>2 DEF Serve, TypeOK
  <2>3. /\ UNCHANGED <<lock, cache, closing, doomed, open>>
        /\ closing[RegistryOf[c]] = "none"
        /\ Cached(c) # Nobody /\ RegistryOf[c] \in Registries /\ KeyOf[c] \in Keys
    BY <1>2 DEF Serve, registryVars, IsClosing
  <2>4. LocksFollowCalls' /\ CacheIsWhole' /\ NothingIsMadeTwice'
    BY <2>1, <2>3
    DEF LocksFollowCalls, CacheIsWhole, NothingIsMadeTwice, Cached,
        Creating, CleaningUp
  <2>5. GivenIsCached'
    BY <2>2, <2>3 DEF GivenIsCached, Cached
  <2>6. \A d \in Callers :
          /\ RegistryOf[d] = RegistryOf[c] /\ KeyOf[d] = KeyOf[c]
          /\ given[d] # Nobody
          => given[d] = Cached(c)
    BY <2>3 DEF GivenIsCached, Cached
  <2>7. OneRuntimePerKey'
    BY <2>2, <2>6 DEF OneRuntimePerKey
  <2>8. OpenIsOwned' /\ ReturnedAfterShutdown' /\ InitializingIsOpen'
    BY <2>1, <2>3
    DEF OpenIsOwned, ReturnedAfterShutdown, InitializingIsOpen, Cached,
        Creating, CleaningUp
  <2> QED BY <2>4, <2>5, <2>7, <2>8
<1>3. CASE StartCreation(c) /\ ~IsClosing(c)
  <2>1. PICK s \in Creating \ {"initializing"} :
          \A d \in Callers \cup Closers : pc'[d] = IF d = c THEN s ELSE pc[d]
    <3>1. GoTo(c, "polling") \/ GoTo(c, "cleaning")
      BY <1>3 DEF StartCreation
    <3> QED BY <3>1 DEF GoTo, Creating, CleaningUp, TypeOK
  <2>2. \A d \in Callers : d # c => open'[d] = open[d]
    BY <1>3 DEF StartCreation, TypeOK
  <2>3. /\ UNCHANGED <<given, cache, closing, doomed>>
        /\ closing[RegistryOf[c]] = "none"
        /\ Cached(c) = Nobody /\ RegistryOf[c] \in Registries
        /\ lock[RegistryOf[c]] = Nobody
        /\ \A r \in Registries :
             lock'[r] = IF r = RegistryOf[c] THEN c ELSE lock[r]
    BY <1>3 DEF StartCreation, IsClosing, SetLock, TypeOK
  <2>4. pc[c] \notin Creating /\ pc[c] # "got" /\ s # "got"
    BY DEF Creating, CleaningUp
  <2>5. LocksFollowCalls'
    BY <2>1, <2>3, <2>4 DEF LocksFollowCalls
  <2>6. CacheIsWhole'
    BY <2>1, <2>2, <2>3, <2>4 DEF CacheIsWhole
  <2>7. NothingIsMadeTwice' /\ GivenIsCached' /\ OneRuntimePerKey'
    BY <2>1, <2>3
    DEF NothingIsMadeTwice, GivenIsCached, OneRuntimePerKey, Cached
  <2>8. OpenIsOwned'
    BY <2>1, <2>2, <2>3, <2>4 DEF OpenIsOwned, Cached
  <2>9. ReturnedAfterShutdown' /\ InitializingIsOpen'
    BY <2>1, <2>2, <2>3 DEF ReturnedAfterShutdown, InitializingIsOpen
  <2> QED BY <2>5, <2>6, <2>7, <2>8, <2>9
<1> QED BY <1>1, <1>2, <1>3 DEF UnderLock

\* The runtime is cached, and the lock let go, with the end of its creation.
LEMMA InitializedStep ==
  ASSUME IndInv, NEW c \in Callers, Initialized(c)
  PROVE  RegistryInv'
<1> USE Ranges DEF IndInv, RegistryInv
<1>1. /\ pc[c] = "initializing"
      /\ \A d \in Callers \cup Closers : pc'[d] = IF d = c THEN "got" ELSE pc[d]
      /\ \A d \in Callers : given'[d] = IF d = c THEN c ELSE given[d]
      /\ UNCHANGED <<closing, doomed, open>>
  BY DEF Initialized, GoTo, TypeOK
<1>2. /\ \A r \in Registries :
           lock'[r] = IF r = RegistryOf[c] THEN Nobody ELSE lock[r]
      /\ \A r \in Registries, k \in Keys :
           cache'[r][k] = IF r = RegistryOf[c] /\ k = KeyOf[c]
                          THEN c ELSE cache[r][k]
  BY DEF Initialized, SetLock, TypeOK
<1>3. /\ pc[c] \in Creating /\ "got" \notin Creating
      /\ Cached(c) = Nobody /\ lock[RegistryOf[c]] = c
      /\ closing[RegistryOf[c]] \in {"none", "waiting"}
  BY <1>1
  DEF NothingIsMadeTwice, LocksFollowCalls, Creating, CleaningUp
<1>4. LocksFollowCalls'
  BY <1>1, <1>2, <1>3 DEF LocksFollowCalls
<1>5. open[c] = Parts
  BY <1>1 DEF InitializingIsOpen
<1>6. CacheIsWhole'
  BY <1>1, <1>2, <1>5 DEF CacheIsWhole
<1>7. NothingIsMadeTwice'
  <2>1. \A d \in Callers :
          pc'[d] \in Creating => RegistryOf[d] # RegistryOf[c]
    BY <1>1, <1>3 DEF LocksFollowCalls
  <2> QED BY <1>1, <1>2, <1>3, <2>1 DEF NothingIsMadeTwice, Cached
<1>8. \A d \in Callers :
        RegistryOf[d] = RegistryOf[c] /\ KeyOf[d] = KeyOf[c]
        => given[d] = Nobody
  BY <1>3 DEF GivenIsCached, Cached
<1>9. GivenIsCached' /\ OneRuntimePerKey'
  BY <1>1, <1>2, <1>8 DEF GivenIsCached, OneRuntimePerKey, Cached
<1>10. OpenIsOwned'
  <2>1. \A d \in Callers : Cached(d) = d => d # c /\ Cached(d)' = d
    BY <1>2, <1>3 DEF Cached
  <2> QED BY <1>1, <1>2, <2>1 DEF OpenIsOwned, Cached
<1>11. ReturnedAfterShutdown' /\ InitializingIsOpen'
  BY <1>1 DEF ReturnedAfterShutdown, InitializingIsOpen
<1> QED BY <1>4, <1>6, <1>7, <1>9, <1>10, <1>11

\* The clean-up closes what its own creation made.
LEMMA CleanUpPartStep ==
  ASSUME IndInv, NEW c \in Callers, CleanUpPart(c)
  PROVE  RegistryInv'
<1> USE Ranges DEF IndInv, RegistryInv
<1>1. /\ pc[c] \in Creating /\ pc[c] \notin {"got", "initializing"}
      /\ \A d \in Callers : d # c => open'[d] = open[d]
      /\ UNCHANGED <<pc, given, lock, cache, closing, doomed>>
  BY DEF CleanUpPart, registryVars, TypeOK, Creating, CleaningUp
<1>2. CacheIsWhole' /\ OpenIsOwned' /\ InitializingIsOpen'
  BY <1>1 DEF CacheIsWhole, OpenIsOwned, InitializingIsOpen, Cached
<1> QED
  BY <1>1, <1>2
  DEF LocksFollowCalls, NothingIsMadeTwice, GivenIsCached, OneRuntimePerKey,
      ReturnedAfterShutdown, Cached

-----------------------------------------------------------------------------
\* The close task takes over what is cached, and nothing is being made then.
LEMMA CloseAllStep ==
  ASSUME IndInv, NEW r \in Registries, CloseAll(r)
  PROVE  RegistryInv'
<1> USE Ranges DEF IndInv, RegistryInv
<1>1. /\ closing[r] = "waiting" /\ lock[r] = Nobody
      /\ UNCHANGED <<pc, given, open>>
  BY DEF CloseAll
<1>2. /\ \A s \in Registries : lock'[s] = IF s = r THEN Shutdown ELSE lock[s]
      /\ \A s \in Registries : s # r => closing'[s] = closing[s]
      /\ closing'[r] = "closing"
  BY DEF CloseAll, TypeOK
<1>3. \A s \in Registries, k \in Keys :
        cache'[s][k] = IF s = r THEN Nobody ELSE cache[s][k]
  BY DEF CloseAll, TypeOK
<1>4. \A c \in Callers : pc[c] \in Creating => RegistryOf[c] # r
  BY <1>1 DEF LocksFollowCalls
<1>5. LocksFollowCalls' /\ NothingIsMadeTwice'
  <2>1. LocksFollowCalls'
    BY <1>1, <1>2, <1>4 DEF LocksFollowCalls
  <2>2. NothingIsMadeTwice'
    BY <1>1, <1>2, <1>3, <1>4 DEF NothingIsMadeTwice, Cached
  <2> QED BY <2>1, <2>2
<1>6. CacheIsWhole' /\ GivenIsCached' /\ OneRuntimePerKey'
  <2>1. CacheIsWhole'
    BY <1>1, <1>3 DEF CacheIsWhole
  <2>2. GivenIsCached'
    BY <1>1, <1>2, <1>3 DEF GivenIsCached, Cached
  <2>3. OneRuntimePerKey'
    BY <1>1 DEF OneRuntimePerKey
  <2> QED BY <2>1, <2>2, <2>3
<1>7. /\ \A s \in Registries : s # r => doomed'[s] = doomed[s]
      /\ \A k \in Keys : cache[r][k] # Nobody => cache[r][k] \in doomed'[r]
      /\ \A c \in doomed'[r] : \E k \in Keys : c = cache[r][k] /\ c # Nobody
  BY DEF CloseAll, TypeOK
<1>8. OpenIsOwned'
  <2>1. \A c \in Callers :
          Cached(c) = c => Cached(c)' = c \/ c \in doomed'[RegistryOf[c]]
    BY <1>3, <1>7 DEF Cached
  <2>2. doomed[r] = {}
    BY <1>1 DEF OpenIsOwned
  <2>3. ASSUME NEW c \in Callers, open'[c] # {}
        PROVE  \/ pc'[c] \in Creating \cup {"dropped"}
               \/ Cached(c)' = c
               \/ c \in doomed'[RegistryOf[c]]
    BY <1>1, <1>7, <2>1, <2>2, <2>3 DEF OpenIsOwned
  <2>4. \A c \in doomed'[r] : RegistryOf[c] = r /\ pc'[c] = "got"
    BY <1>1, <1>7 DEF CacheIsWhole
  <2>5. \A s \in Registries :
          /\ closing'[s] # "closing" => doomed'[s] = {}
          /\ \A c \in doomed'[s] : RegistryOf[c] = s /\ pc'[c] = "got"
    BY <1>1, <1>2, <1>7, <2>4 DEF OpenIsOwned
  <2> QED BY <2>3, <2>5 DEF OpenIsOwned
<1>9. ReturnedAfterShutdown' /\ InitializingIsOpen'
  BY <1>1, <1>2 DEF ReturnedAfterShutdown, InitializingIsOpen
<1> QED BY <1>5, <1>6, <1>8, <1>9

\* It closes nothing else.
LEMMA CloseRuntimeStep ==
  ASSUME IndInv, NEW r \in Registries, CloseRuntime(r)
  PROVE  RegistryInv'
<1> USE Ranges DEF IndInv, RegistryInv
<1>1. UNCHANGED <<pc, given, lock, cache, closing, doomed>>
  BY DEF CloseRuntime
<1>2. PICK c \in doomed[r] : /\ open[c] # {}
                             /\ \A d \in Callers : d # c => open'[d] = open[d]
  BY DEF CloseRuntime, TypeOK
<1>3. c \in Callers /\ RegistryOf[c] = r /\ pc[c] = "got" /\ closing[r] = "closing"
  BY DEF OpenIsOwned, CloseRuntime
<1>4. CacheIsWhole'
  <2>1. \A s \in Registries, k \in Keys : cache[s][k] # c
    BY <1>3 DEF CacheIsWhole, NothingIsMadeTwice
  <2> QED BY <1>1, <1>2, <2>1 DEF CacheIsWhole
<1>5. OpenIsOwned' /\ InitializingIsOpen'
  BY <1>1, <1>2, <1>3 DEF OpenIsOwned, InitializingIsOpen, Cached
<1> QED
  BY <1>1, <1>4, <1>5
  DEF LocksFollowCalls, NothingIsMadeTwice, GivenIsCached, OneRuntimePerKey,
      ReturnedAfterShutdown, Cached

\* It ends when nothing it has taken over is open.
LEMMA CloseOverStep ==
  ASSUME IndInv, NEW r \in Registries, CloseOver(r)
  PROVE  RegistryInv'
<1> USE Ranges DEF IndInv, RegistryInv
<1>1. /\ closing[r] = "closing" /\ UNCHANGED <<pc, given, cache, open>>
      /\ \A c \in doomed[r] : open[c] = {}
  BY DEF CloseOver
<1>2. \A s \in Registries :
        /\ lock'[s] = IF s = r THEN Nobody ELSE lock[s]
        /\ s # r => closing'[s] = closing[s]
        /\ doomed'[s] = IF s = r THEN {} ELSE doomed[s]
  BY DEF CloseOver, TypeOK
<1>3. closing'[r] \in {"closed", "failed"}
  BY DEF CloseOver, TypeOK
<1>4. LocksFollowCalls'
  BY <1>1, <1>2, <1>3 DEF LocksFollowCalls
<1>5. \A c \in Callers : pc[c] \in Creating => RegistryOf[c] # r
  BY <1>1 DEF NothingIsMadeTwice
<1>6. CacheIsWhole' /\ NothingIsMadeTwice'
  BY <1>1, <1>2, <1>3, <1>5 DEF CacheIsWhole, NothingIsMadeTwice, Cached
<1>7. GivenIsCached' /\ OneRuntimePerKey'
  BY <1>1, <1>2, <1>3 DEF GivenIsCached, OneRuntimePerKey, Cached
<1>8. OpenIsOwned'
  BY <1>1, <1>2, <1>3 DEF OpenIsOwned, Cached
<1>9. ReturnedAfterShutdown' /\ InitializingIsOpen'
  BY <1>1, <1>2, <1>3 DEF ReturnedAfterShutdown, InitializingIsOpen
<1> QED BY <1>4, <1>6, <1>7, <1>8, <1>9

\* Calls of close start the task and wait for it.
LEMMA CallCloseStep ==
  ASSUME IndInv, NEW q \in Closers, CallClose(q)
  PROVE  RegistryInv'
<1> USE Ranges DEF IndInv, RegistryInv, registryVars
<1>1. /\ UNCHANGED <<given, lock, cache, doomed, open>>
      /\ \A c \in Callers : pc'[c] = pc[c]
      /\ \A p \in Closers : p # q => pc'[p] = pc[p]
  BY DEF CallClose, Close, CancelClose, Closed, GoTo, TypeOK
<1>2. \A r \in Registries :
        \/ closing'[r] = closing[r]
        \/ closing[r] = "none" /\ closing'[r] = "waiting"
  BY DEF CallClose, Close, CancelClose, Closed, TypeOK
<1>3. pc'[q] = "returned" => closing[RegistryOf[q]] \in {"closed", "failed"}
  BY DEF CallClose, Close, CancelClose, Closed, GoTo, TypeOK
<1>4. LocksFollowCalls' /\ CacheIsWhole' /\ NothingIsMadeTwice'
  BY <1>1, <1>2 DEF LocksFollowCalls, CacheIsWhole, NothingIsMadeTwice, Cached
<1>5. GivenIsCached' /\ OneRuntimePerKey'
  BY <1>1, <1>2 DEF GivenIsCached, OneRuntimePerKey, Cached
<1>6. OpenIsOwned' /\ InitializingIsOpen'
  BY <1>1, <1>2 DEF OpenIsOwned, InitializingIsOpen, Cached
<1>7. ReturnedAfterShutdown'
  BY <1>1, <1>2, <1>3 DEF ReturnedAfterShutdown
<1> QED BY <1>4, <1>5, <1>6, <1>7

-----------------------------------------------------------------------------
\* Every step of a call of get keeps what the registry relies on.
LEMMA CallStep ==
  ASSUME IndInv, NEW c \in Callers, Call(c)
  PROVE  RegistryInv'
<1> USE DEF Creating, CleaningUp
<1>1. CASE Get(c)
  <2>1. CASE IsClosing(c) \/ Unclaimed(c)
    BY <1>1, <2>1, UnderLockStep DEF Get, Unclaimed
  <2>2. CASE ~(IsClosing(c) \/ Unclaimed(c))
    BY <1>1, <2>2, QuietStep DEF Get, Wait
  <2> QED BY <2>1, <2>2
<1>2. CASE Resume(c)
  BY <1>2, UnderLockStep DEF Resume
<1>3. CASE CancelWait(c)
  BY <1>3, QuietStep DEF CancelWait
<1>4. CASE EnterEnvironment(c)
  <2>1. open'[c] = Parts /\ \A d \in Callers : d # c => open'[d] = open[d]
    BY <1>4 DEF EnterEnvironment, IndInv, TypeOK
  <2> QED BY <1>4, <2>1, QuietStep DEF EnterEnvironment
<1>5. CASE Initialized(c)
  BY <1>5, InitializedStep
<1>6. CASE Abort(c)
  BY <1>6, QuietStep DEF Abort
<1>7. CASE CleanUpPart(c)
  BY <1>7, CleanUpPartStep
<1>8. CASE CleanedUp(c) \/ TimeOut(c)
  BY <1>8, EndStep
<1>9. CASE CancelCleanUp(c)
  BY <1>9, QuietStep DEF CancelCleanUp
<1> QED
  BY <1>1, <1>2, <1>3, <1>4, <1>5, <1>6, <1>7, <1>8, <1>9 DEF Call, GoesOn

\* Every step keeps the inductive invariant.
LEMMA NextIndInv ==
  ASSUME IndInv, [Next]_vars
  PROVE  IndInv'
<1>1. CASE Next
  <2>1. RegistryInv'
    BY <1>1, CallStep, CloseAllStep, CloseRuntimeStep, CloseOverStep,
       CallCloseStep
    DEF Next, ShutsDown
  <2> QED BY <1>1, <2>1, NextTypeOK, NextSection DEF IndInv
<1>2. CASE UNCHANGED vars
  BY <1>2
  DEF vars, IndInv, TypeOK, SectionFollowsCall, RegistryInv, LocksFollowCalls,
      InitializingIsOpen, CacheIsWhole, NothingIsMadeTwice, GivenIsCached,
      OneRuntimePerKey, OpenIsOwned, ReturnedAfterShutdown, Cached
<1> QED BY <1>1, <1>2

\* What the invariant says of the properties the runs check.
LEMMA IndInvImplies ==
  ASSUME IndInv
  PROVE  /\ HandedOutIsOpen
         /\ OwnNamespace
         /\ NothingLeftOpen
<1> USE Ranges DEF IndInv, RegistryInv
<1>1. HandedOutIsOpen
  BY DEF HandedOutIsOpen, GivenIsCached, CacheIsWhole, IsClosing, Cached
<1>2. OwnNamespace
  BY DEF SectionFollowsCall, OwnNamespace
<1>3. NothingLeftOpen
  <2>1. ASSUME NEW q \in Closers, pc[q] = "returned",
               NEW c \in Callers, RegistryOf[c] = RegistryOf[q], pc[c] # "dropped"
        PROVE  open[c] = {}
    <3>1. closing[RegistryOf[c]] \in {"closed", "failed"}
      BY <2>1 DEF ReturnedAfterShutdown
    <3>2. /\ pc[c] \notin Creating /\ Cached(c) = Nobody
          /\ doomed[RegistryOf[c]] = {}
      BY <3>1 DEF NothingIsMadeTwice, OpenIsOwned, Cached
    <3> QED BY <2>1, <3>2 DEF OpenIsOwned
  <2> QED BY <2>1 DEF NothingLeftOpen
<1> QED BY <1>1, <1>2, <1>3

\* The inductive invariant holds throughout.
THEOREM IndInvHolds == Spec => []IndInv
<1>1. Init => IndInv
  BY InitIndInv
<1>2. IndInv /\ [Next]_vars => IndInv'
  BY NextIndInv
<1> QED BY <1>1, <1>2, PTL DEF Spec

\* The registry, its locks and the factory keep to their types.
THEOREM RegistryTypeCorrect == Spec => []TypeOK
<1>1. IndInv => TypeOK
  BY DEF IndInv
<1> QED BY <1>1, IndInvHolds, PTL

\* All calls of get for a key return one runtime, in whatever order calls
\* wait, fail, are cancelled and are overtaken by close.
THEOREM OneRuntime == Spec => []OneRuntimePerKey
<1>1. IndInv => OneRuntimePerKey
  BY DEF IndInv, RegistryInv
<1> QED BY <1>1, IndInvHolds, PTL

\* A runtime that was handed out is not closed before its registry is.
THEOREM HandedOutStaysOpen == Spec => []HandedOutIsOpen
<1>1. IndInv => HandedOutIsOpen
  BY IndInvImplies
<1> QED BY <1>1, IndInvHolds, PTL

\* LightRAG is initialized in the namespace of its own key, and the
\* environment of the process is restored after every creation.
THEOREM NamespacesKeptApart == Spec => []OwnNamespace
<1>1. IndInv => OwnNamespace
  BY IndInvImplies
<1> QED BY <1>1, IndInvHolds, PTL

\* When close has returned nothing but what was dropped is open.
THEOREM CloseLeavesNothing == Spec => []NothingLeftOpen
<1>1. IndInv => NothingLeftOpen
  BY IndInvImplies
<1> QED BY <1>1, IndInvHolds, PTL
=============================================================================
