-------------------------- MODULE ServiceStoreProofs --------------------------
(***************************************************************************)
(* Proofs about ServiceStore, for any corpora, codes and versions, any     *)
(* number of threads and any limits: what a request that missed the cache  *)
(* is served, when the reason it is given is its own, and what the         *)
(* eviction loop leaves.                                                   *)
(***************************************************************************)
EXTENDS ServiceStore, SequenceFacts, FiniteSetTheorems

Places == {"idle", "hit", "resolving", "reading", "raising", "loading", "loaded", "sharing",
           "inserting", "evicting", "popping", "failing", "emitting", "naming", "returned"}

\* TypeOK but for the two caches.
Shape ==
    /\ disk \in [Corpora -> Versions \union Faults] /\ changes \in 0 .. MaxChanges
    /\ {errorCode, integrityError} \subseteq Codes \union {None}
    /\ pc \in [Threads -> Places]
    /\ asked \in [Threads -> Corpora \union {None}]
    /\ config \in [Threads -> Versions \union {None}] /\ code \in [Threads -> Codes \union {None}]
    /\ store \in [Threads -> Stores \union {None}]
    /\ reply \in [Threads -> Codes \union {"served", "key_error", None}]
    /\ seen \in [Threads -> SUBSET (Versions \union Faults)]
    /\ hit \in [Threads -> BOOLEAN] /\ alone \in [Threads -> BOOLEAN]
    /\ grown \in BOOLEAN

CachesOK ==
    /\ cache \in Seq(Registrable \X Stores)
    /\ \A i, j \in DOMAIN cache : cache[i][1] = cache[j][1] => i = j
    /\ sharedStores \in Seq(Stores) /\ Len(sharedStores) <= SharedLimit

\* Past the registry a request is one of a registered corpus.
PastRegistry == {"loading", "loaded", "sharing", "inserting"}
Known ==
    /\ \A c \in Corpora \ Registrable : disk[c] = "unknown_corpus"
    /\ \A t \in Threads : pc[t] # "idle" => asked[t] \in Corpora
    /\ \A t \in Threads : pc[t] \in PastRegistry => asked[t] \in Registrable

\* What a request holds was on disk for its corpus while it ran.
HoldsCurrent ==
    \A t \in Threads :
        /\ pc[t] # "idle" => disk[asked[t]] \in seen[t]
        /\ pc[t] = "hit" => hit[t] /\ store[t] \in Stores
        /\ hit[t] => pc[t] \in {"hit", "idle"}
        /\ pc[t] \in {"loaded", "sharing"} => config[t] \in Versions /\ config[t] \in seen[t]
        /\ pc[t] \in {"inserting", "evicting", "popping"} =>
               store[t] \in Stores /\ store[t].corpus = asked[t] /\ store[t].version \in seen[t]

\* What a request that runs alone leaves in the two shared cells is its own.
HoldsItsCode ==
    \A t \in Threads : alone[t] /\ pc[t] # "idle" =>
        /\ \A u \in Threads \ {t} : pc[u] = "idle"
        /\ pc[t] = "raising" => errorCode \in seen[t] /\ errorCode # None
        /\ pc[t] = "failing" => code[t] \in seen[t] /\ code[t] # None
        /\ pc[t] \in {"emitting", "naming", "returned"} =>
               integrityError \in seen[t] /\ integrityError # None

\* While no corpus was loaded that the service did not count, nothing is evicted.
NeverFull ==
    ~grown => /\ \A i \in DOMAIN cache : cache[i][1] \in Counted
              /\ \A t \in Threads : pc[t] # "popping"
              /\ \A t \in Threads : pc[t] = "hit" => Cached(asked[t]) # {}

SInv == Shape /\ CachesOK /\ Known /\ HoldsCurrent /\ HoldsItsCode

-----------------------------------------------------------------------------
(* Types.                                                                  *)

LEMMA InitSInv == Init => SInv
<1> SUFFICES ASSUME Init PROVE SInv OBVIOUS
<1>1. Shape
  <2>1. hit \in [Threads -> BOOLEAN] /\ alone \in [Threads -> BOOLEAN] /\ grown \in BOOLEAN
        BY Zenon DEF Init
  <2>2. changes \in 0 .. MaxChanges BY StoreAssumption DEF Init
  <2>3. seen \in [Threads -> SUBSET (Versions \union Faults)] BY DEF Init
  <2> QED BY <2>1, <2>2, <2>3 DEF Init, Shape, Places
<1>2. CachesOK BY StoreAssumption, EmptySeq DEF Init, CachesOK
<1>3. Known BY StoreAssumption DEF Init, Known, PastRegistry
<1>4. HoldsCurrent BY DEF Init, HoldsCurrent
<1>5. HoldsItsCode BY DEF Init, HoldsItsCode
<1> QED BY <1>1, <1>2, <1>3, <1>4, <1>5 DEF SInv

\* Every step assigns what its variables may hold.
LEMMA ShapeStep ==
    ASSUME SInv, Next
    PROVE  Shape'
<1> USE DEF Shape, Places
<1>0. SInv => Shape /\ CachesOK BY DEF SInv
<1>1. ASSUME NEW c \in Corpora, Change(c) PROVE Shape'
      BY <1>0, <1>1, StoreAssumption DEF Change, Faults, service, local
<1>2. ASSUME NEW t \in Threads, NEW c \in Corpora, Ask(t, c) PROVE Shape'
  <2>1. \A i \in Cached(c) : cache[i][2] \in Stores
        BY <1>0, ElementOfSeq, LenProperties DEF CachesOK, Cached
  <2>2. hit' \in [Threads -> BOOLEAN]
        BY <1>0, <1>2, Zenon DEF Ask
  <2>3. alone' \in [Threads -> BOOLEAN]
        BY <1>0, <1>2, Zenon DEF Ask
  <2>4. store' \in [Threads -> Stores \union {None}] /\ pc' \in [Threads -> Places]
        BY <1>0, <1>2, <2>1 DEF Ask
  <2>5. seen' \in [Threads -> SUBSET (Versions \union Faults)]
        BY <1>0, <1>2 DEF Ask
  <2> QED BY <1>0, <1>2, <2>2, <2>3, <2>4, <2>5 DEF Ask, world, service
<1>3. ASSUME NEW t \in Threads, Hit(t) PROVE Shape'
      BY <1>0, <1>3 DEF Hit, At, Finish, world, history
<1>4. ASSUME NEW t \in Threads, Resolve(t) \/ ResolveFails(t) \/ Resolved(t) PROVE Shape'
      BY <1>0, <1>4 DEF Resolve, ResolveFails, Resolved, At, world, local, history, service, Codes, Known, SInv
<1>5. ASSUME NEW t \in Threads, Raise(t) PROVE Shape'
      BY <1>0, <1>5 DEF Raise, At, world, history, service, Codes
<1>6. ASSUME NEW t \in Threads, LoadFails(t) PROVE Shape'
      BY <1>0, <1>6 DEF LoadFails, At, world, service, Codes, Faults
<1>7. ASSUME NEW t \in Threads, Load(t) PROVE Shape'
      BY <1>0, <1>7 DEF Load, At, world, history, service, Known, SInv
<1>8. ASSUME NEW t \in Threads, Loaded(t) PROVE Shape'
      BY <1>0, <1>8 DEF Loaded, At, world, local, history
<1>9. ASSUME NEW t \in Threads, Share(t) PROVE Shape'
  <2>1. [corpus |-> asked[t], version |-> config[t]] \in Stores
        BY <1>0, <1>9 DEF Share, At, SInv, Known, HoldsCurrent, Stores
  <2>2. \A i \in DOMAIN sharedStores : sharedStores[i] \in Stores
        BY <1>0, ElementOfSeq, LenProperties DEF CachesOK
  <2> QED BY <1>0, <1>9, <2>1, <2>2 DEF Share, At, world, history
<1>10. ASSUME NEW t \in Threads, Insert(t) PROVE Shape'
      BY <1>0, <1>10 DEF Insert, At, world, local
<1>11. ASSUME NEW t \in Threads, Evicting(t) PROVE Shape'
      BY <1>0, <1>11 DEF Evicting, At, Finish, world, service, history
<1>12. ASSUME NEW t \in Threads, Pop(t) PROVE Shape'
      BY <1>0, <1>12 DEF Pop, At, Finish, world, history
<1>13. ASSUME NEW t \in Threads, Fail(t) \/ Emit(t) PROVE Shape'
      BY <1>0, <1>13 DEF Fail, Emit, At, world, local, history
<1>14. ASSUME NEW t \in Threads, Named(t) PROVE Shape'
  <2>1. disk[asked[t]] \in Faults \ LoadFaults => disk[asked[t]] \in Codes BY DEF Codes
  <2> QED BY <1>0, <1>14, <2>1 DEF Named, At, world, local, history
<1>15. ASSUME NEW t \in Threads, Refuse(t) PROVE Shape'
      BY <1>0, <1>15 DEF Refuse, At, Finish, world, service, history, Codes
<1> QED BY <1>1, <1>2, <1>3, <1>4, <1>5, <1>6, <1>7, <1>8, <1>9, <1>10, <1>11, <1>12, <1>13, <1>14, <1>15 DEF Next

-----------------------------------------------------------------------------
(* The caches.                                                             *)

\* Each corpus has one entry of _store_cache, and the shared stores stay within
\* their limit.
LEMMA CachesStep ==
    ASSUME SInv, Next
    PROVE  CachesOK'
<1>0. Shape /\ CachesOK /\ Known BY DEF SInv
<1>a. ASSUME UNCHANGED <<cache, sharedStores>> PROVE CachesOK'
      BY <1>0, <1>a DEF CachesOK
<1>1. ASSUME NEW c \in Corpora, Change(c) PROVE CachesOK'
      BY <1>1, <1>a DEF Change, service
<1>2. ASSUME NEW t \in Threads, NEW c \in Corpora, Ask(t, c) PROVE CachesOK'
      BY <1>2, <1>a DEF Ask, service
<1>3. ASSUME NEW t \in Threads, Hit(t) PROVE CachesOK'
  <2>1. CASE UNCHANGED cache BY <1>3, <2>1, <1>a DEF Hit
  <2>2. ASSUME NEW i \in Cached(asked[t]), cache' = Append(RemoveAt(cache, i), cache[i])
        PROVE  CachesOK'
    <3>1. cache \in Seq(Registrable \X Stores) /\ i \in DOMAIN cache /\ i \in 1 .. Len(cache)
          BY <1>0, LenProperties DEF CachesOK, Cached
    <3> HIDE DEF RemoveAt
    <3>2. /\ cache' \in Seq(Registrable \X Stores) /\ Len(cache') = Len(cache)
          /\ \A j \in 1 .. Len(cache) : cache'[j] =
                IF j = Len(cache) THEN cache[i] ELSE IF j < i THEN cache[j] ELSE cache[j + 1]
          BY <2>2, <3>1, MovedToEnd
    <3>3. DOMAIN cache = 1 .. Len(cache) /\ DOMAIN cache' = 1 .. Len(cache) /\ Len(cache) \in Nat
          BY <3>1, <3>2, LenProperties
    <3> DEFINE Old(j) == IF j = Len(cache) THEN i ELSE IF j < i THEN j ELSE j + 1
    <3>8. i \in 1 .. Len(cache) /\ Len(cache) \in Nat BY <3>1, <3>3
    <3>9. \A j \in 1 .. Len(cache) : Old(j) \in 1 .. Len(cache) BY <3>8
    <3>4. \A j \in 1 .. Len(cache) : cache'[j] = cache[Old(j)] BY <3>2
    <3>5. \A j, k \in 1 .. Len(cache) : Old(j) = Old(k) => j = k BY <3>8
    <3> HIDE DEF Old
    <3>6. \A j, k \in DOMAIN cache' : cache'[j][1] = cache'[k][1] => j = k
          BY <1>0, <3>3, <3>4, <3>5, <3>9 DEF CachesOK
    <3>7. sharedStores' = sharedStores BY <1>3 DEF Hit
    <3> QED BY <1>0, <3>2, <3>6, <3>7 DEF CachesOK
  <2> QED BY <1>3, <2>1, <2>2 DEF Hit
<1>4. ASSUME NEW t \in Threads, Resolve(t) \/ ResolveFails(t) \/ Resolved(t) \/ Raise(t) PROVE CachesOK'
      BY <1>4, <1>a DEF Resolve, ResolveFails, Resolved, Raise, service
<1>5. ASSUME NEW t \in Threads, LoadFails(t) \/ Load(t) \/ Loaded(t) PROVE CachesOK'
      BY <1>5, <1>a DEF LoadFails, Load, Loaded, service
<1>6. ASSUME NEW t \in Threads, Share(t) PROVE CachesOK'
  <2>1. cache' = cache BY <1>6 DEF Share
  <2>2. sharedStores \in Seq(Stores) /\ Len(sharedStores) \in Nat /\ SharedLimit \in Nat \ {0}
        BY <1>0, StoreAssumption, LenProperties DEF CachesOK
  <2>3. ASSUME NEW i \in DOMAIN sharedStores,
               sharedStores' = Append(RemoveAt(sharedStores, i), sharedStores[i])
        PROVE  sharedStores' \in Seq(Stores) /\ Len(sharedStores') <= SharedLimit
    <3> HIDE DEF RemoveAt
    <3> QED BY <1>0, <2>2, <2>3, MovedToEnd DEF CachesOK
  <2> DEFINE new == [corpus |-> asked[t], version |-> config[t]]
             all == Append(sharedStores, new)
  <2>4. ASSUME sharedStores' = IF Len(all) > SharedLimit THEN Tail(all) ELSE all
        PROVE  sharedStores' \in Seq(Stores) /\ Len(sharedStores') <= SharedLimit
    <3>1. new \in Stores
          BY <1>0, <1>6 DEF Share, At, SInv, Known, HoldsCurrent, Stores
    <3>2. all \in Seq(Stores) /\ Len(all) = Len(sharedStores) + 1
          BY <2>2, <3>1, AppendProperties
    <3>3. Len(sharedStores) <= SharedLimit BY <1>0 DEF CachesOK
    <3> HIDE DEF all
    <3>4. all # <<>> BY <3>2, <2>2, EmptySeq
    <3>5. Tail(all) \in Seq(Stores) /\ Len(Tail(all)) = Len(all) - 1
          BY <3>2, <3>4, HeadTailProperties
    <3> QED BY <2>2, <2>4, <3>2, <3>3, <3>5
  <2>5. sharedStores' \in Seq(Stores) /\ Len(sharedStores') <= SharedLimit
        BY <1>6, <2>3, <2>4 DEF Share
  <2> QED BY <1>0, <2>1, <2>5 DEF CachesOK
<1>7. ASSUME NEW t \in Threads, Insert(t) PROVE CachesOK'
  <2>1. sharedStores' = sharedStores BY <1>7 DEF Insert
  <2>2. asked[t] \in Registrable /\ store[t] \in Stores
        BY <1>0, <1>7 DEF Insert, At, SInv, Known, PastRegistry, HoldsCurrent
  <2>3. /\ cache \in Seq(Registrable \X Stores) /\ DOMAIN cache = 1 .. Len(cache) /\ Len(cache) \in Nat
        /\ \A i, j \in DOMAIN cache : cache[i][1] = cache[j][1] => i = j
        BY <1>0, LenProperties DEF CachesOK
  <2> DEFINE entry == <<asked[t], store[t]>>
  <2>4. entry \in Registrable \X Stores /\ entry[1] = asked[t] BY <2>2
  <2>5. CASE Cached(asked[t]) = {}
    <3> HIDE DEF entry
    <3>1. cache' = Append(cache, entry) BY <1>7, <2>5 DEF Insert, entry
    <3>2. /\ cache' \in Seq(Registrable \X Stores) /\ Len(cache') = Len(cache) + 1
          /\ \A j \in 1 .. Len(cache) : cache'[j] = cache[j]
          /\ cache'[Len(cache) + 1] = entry
          BY <2>3, <2>4, <3>1, AppendProperties
    <3>3. DOMAIN cache' = 1 .. Len(cache) + 1 BY <3>2, LenProperties
    <3>4. \A j \in 1 .. Len(cache) : cache[j][1] # asked[t] BY <2>3, <2>5 DEF Cached
    <3>5. \A i, j \in DOMAIN cache' : cache'[i][1] = cache'[j][1] => i = j
          BY <2>3, <2>4, <3>2, <3>3, <3>4
    <3> QED BY <1>0, <2>1, <3>2, <3>5 DEF CachesOK
  <2>6. CASE Cached(asked[t]) # {}
    <3>1. cache' = [i \in DOMAIN cache |-> IF i \in Cached(asked[t]) THEN entry ELSE cache[i]]
          BY <1>7, <2>6 DEF Insert
    <3>2. \A i \in DOMAIN cache : cache'[i] \in Registrable \X Stores /\ cache'[i][1] = cache[i][1]
      <4> SUFFICES ASSUME NEW i \in DOMAIN cache
                   PROVE  cache'[i] \in Registrable \X Stores /\ cache'[i][1] = cache[i][1]
          OBVIOUS
      <4>1. cache[i] \in Registrable \X Stores BY <2>3, ElementOfSeq
      <4>2. CASE i \in Cached(asked[t]) BY <3>1, <2>4, <4>2 DEF Cached
      <4>3. CASE i \notin Cached(asked[t]) BY <3>1, <4>1, <4>3
      <4> QED BY <4>2, <4>3
    <3>3. DOMAIN cache' = DOMAIN cache BY <3>1
    <3>4. cache' \in Seq(Registrable \X Stores)
      <4> HIDE DEF entry
      <4>1. cache' \in [1 .. Len(cache) -> Registrable \X Stores] BY <2>3, <3>1, <3>2
      <4> QED BY <4>1, <2>3, SeqDef
    <3>5. \A i, j \in DOMAIN cache' : cache'[i][1] = cache'[j][1] => i = j
          BY <2>3, <3>2, <3>3
    <3> QED BY <1>0, <2>1, <3>4, <3>5 DEF CachesOK
  <2> QED BY <2>5, <2>6
<1>8. ASSUME NEW t \in Threads, Pop(t) PROVE CachesOK'
  <2>1. sharedStores' = sharedStores BY <1>8 DEF Pop
  <2>2. CASE UNCHANGED cache BY <2>1, <2>2, <1>a
  <2>3. CASE cache # <<>> /\ cache' = Tail(cache)
    <3>1. cache \in Seq(Registrable \X Stores) /\ DOMAIN cache = 1 .. Len(cache) /\ Len(cache) \in Nat
          BY <1>0, LenProperties DEF CachesOK
    <3>2. /\ cache' \in Seq(Registrable \X Stores) /\ Len(cache') = Len(cache) - 1
          /\ \A j \in 1 .. Len(cache') : cache'[j] = cache[j + 1]
          BY <2>3, <3>1, HeadTailProperties
    <3>3. DOMAIN cache' = 1 .. Len(cache') BY <3>2, LenProperties
    <3>4. \A i, j \in DOMAIN cache' : cache'[i][1] = cache'[j][1] => i = j
      <4> SUFFICES ASSUME NEW i \in DOMAIN cache', NEW j \in DOMAIN cache', cache'[i][1] = cache'[j][1]
                   PROVE  i = j
          OBVIOUS
      <4>1. i + 1 \in DOMAIN cache /\ j + 1 \in DOMAIN cache /\ i \in Nat /\ j \in Nat
            BY <3>1, <3>2, <3>3
      <4>2. cache[i + 1][1] = cache[j + 1][1] BY <3>2, <3>3
      <4>3. i + 1 = j + 1 BY <1>0, <4>1, <4>2 DEF CachesOK
      <4> QED BY <4>1, <4>3
    <3> QED BY <1>0, <2>1, <3>2, <3>4 DEF CachesOK
  <2> QED BY <1>8, <2>2, <2>3 DEF Pop
<1>9. ASSUME NEW t \in Threads, Evicting(t) \/ Fail(t) \/ Emit(t) \/ Named(t) \/ Refuse(t) PROVE CachesOK'
      BY <1>9, <1>a DEF Evicting, Fail, Emit, Named, Refuse, service
<1> QED BY <1>1, <1>2, <1>3, <1>4, <1>5, <1>6, <1>7, <1>8, <1>9 DEF Next

-----------------------------------------------------------------------------
(* One request.                                                            *)

\* A corpus that is never registered is never found, so that no request of it
\* gets past the registry.
LEMMA KnownStep ==
    ASSUME SInv, Next
    PROVE  Known'
<1>0. Shape /\ Known BY DEF SInv
<1>1. ASSUME NEW c \in Corpora, Change(c) PROVE Known'
      BY <1>0, <1>1 DEF Change, Shape, Known, local
<1>2. ASSUME NEW t \in Threads, NEW c \in Corpora, Ask(t, c) PROVE Known'
      BY <1>0, <1>2 DEF Ask, Shape, Known, PastRegistry, world
<1>3. ASSUME NEW t \in Threads, Resolved(t) PROVE Known'
  <2>1. disk[asked[t]] # "unknown_corpus" BY <1>3, CodesAssumption DEF Resolved, Faults
  <2>2. asked[t] \in Corpora BY <1>0, <1>3 DEF Resolved, At, Known
  <2> QED BY <1>0, <1>3, <2>1, <2>2 DEF Resolved, At, Shape, Known, PastRegistry, world
<1>4. ASSUME NEW t \in Threads,
             Hit(t) \/ Resolve(t) \/ ResolveFails(t) \/ Raise(t) \/ LoadFails(t) \/ Load(t)
             \/ Loaded(t) \/ Share(t) \/ Insert(t) \/ Evicting(t) \/ Pop(t)
             \/ Fail(t) \/ Emit(t) \/ Named(t) \/ Refuse(t)
      PROVE  Known'
  <2>1. disk' = disk /\ asked' = asked
        BY <1>4 DEF Hit, Resolve, ResolveFails, Raise, LoadFails, Load, Loaded, Share, Insert,
                    Evicting, Pop, Fail, Emit, Named, Refuse, world
  <2>2. /\ pc[t] # "idle"
        /\ \E place \in Places : pc' = [pc EXCEPT ![t] = place]
                                 /\ (place \in PastRegistry => pc[t] \in PastRegistry)
        BY <1>4 DEF Hit, Resolve, ResolveFails, Raise, LoadFails, Load, Loaded, Share, Insert,
                    Evicting, Pop, Fail, Emit, Named, Refuse, At, Places, PastRegistry
  <2> QED BY <1>0, <2>1, <2>2 DEF Shape, Known
<1> QED BY <1>1, <1>2, <1>3, <1>4 DEF Next

\* What a request holds of its corpus it read while it ran.
LEMMA HoldsCurrentStep ==
    ASSUME SInv, Next
    PROVE  HoldsCurrent'
<1>0. Shape /\ CachesOK /\ Known /\ HoldsCurrent BY DEF SInv
<1> USE DEF Shape, Places, HoldsCurrent
<1>1. ASSUME NEW c \in Corpora, Change(c) PROVE HoldsCurrent'
      BY <1>0, <1>1 DEF Change, service, local
<1>2. ASSUME NEW t \in Threads, NEW c \in Corpora, Ask(t, c) PROVE HoldsCurrent'
  <2>1. \A i \in Cached(c) : cache[i][2] \in Stores
        BY <1>0, ElementOfSeq, LenProperties DEF CachesOK, Cached
  <2>2. pc'[t] = "hit" => Cached(c) # {} /\ store'[t] \in Stores BY <1>0, <1>2, <2>1 DEF Ask
  <2>3. pc'[t] \in {"hit", "resolving"} /\ (hit'[t] <=> pc'[t] = "hit")
    <3>1. CASE Cached(c) = {} BY <1>0, <1>2, <3>1 DEF Ask
    <3>2. CASE Cached(c) # {}  BY <1>0, <1>2, <3>2 DEF Ask
    <3> QED BY <3>1, <3>2
  <2>4. asked'[t] = c /\ seen'[t] = {disk[c]} /\ disk' = disk BY <1>0, <1>2 DEF Ask, world
  <2>5. \A u \in Threads \ {t} :
           pc'[u] = pc[u] /\ asked'[u] = asked[u] /\ seen'[u] = seen[u] /\ hit'[u] = hit[u]
           /\ store'[u] = store[u] /\ config'[u] = config[u]
        BY <1>0, <1>2 DEF Ask
  <2> QED BY <1>0, <2>2, <2>3, <2>4, <2>5
<1>3. ASSUME NEW t \in Threads, Hit(t) PROVE HoldsCurrent'
      BY <1>0, <1>3 DEF Hit, At, world, history
<1>4. ASSUME NEW t \in Threads, Resolve(t) \/ ResolveFails(t) \/ Resolved(t) PROVE HoldsCurrent'
      BY <1>0, <1>4 DEF Resolve, ResolveFails, Resolved, At, world, local, history
<1>5. ASSUME NEW t \in Threads, Raise(t) PROVE HoldsCurrent'
      BY <1>0, <1>5 DEF Raise, At, world, history
<1>6. ASSUME NEW t \in Threads, LoadFails(t) PROVE HoldsCurrent'
      BY <1>0, <1>6 DEF LoadFails, At, world
<1>7. ASSUME NEW t \in Threads, Load(t) PROVE HoldsCurrent'
      BY <1>0, <1>7 DEF Load, At, world, history
<1>8. ASSUME NEW t \in Threads, Loaded(t) PROVE HoldsCurrent'
      BY <1>0, <1>8 DEF Loaded, At, world, local, history
<1>9. ASSUME NEW t \in Threads, Share(t) PROVE HoldsCurrent'
  <2> DEFINE new == [corpus |-> asked[t], version |-> config[t]]
  <2>1. new \in Stores /\ config[t] \in seen[t]
        BY <1>0, <1>9 DEF Share, At, Known, PastRegistry, Stores
  <2>2. \A i \in DOMAIN sharedStores : sharedStores[i] \in Stores
        BY <1>0, ElementOfSeq, LenProperties DEF CachesOK
  <2>3. /\ store'[t] \in Stores /\ store'[t].corpus = asked[t] /\ store'[t].version = config[t]
        /\ \A u \in Threads \ {t} : store'[u] = store[u]
        BY <1>0, <1>9, <2>1, <2>2 DEF Share, SameKey
  <2>4. /\ pc[t] = "sharing" /\ pc' = [pc EXCEPT ![t] = "inserting"]
        /\ UNCHANGED <<disk, asked, config, seen, hit>>
        BY <1>9 DEF Share, At, world, history
  <2> QED BY <1>0, <2>1, <2>3, <2>4
<1>10. ASSUME NEW t \in Threads, Insert(t) PROVE HoldsCurrent'
      BY <1>0, <1>10 DEF Insert, At, world, local
<1>11. ASSUME NEW t \in Threads, Evicting(t) \/ Pop(t) PROVE HoldsCurrent'
      BY <1>0, <1>11 DEF Evicting, Pop, At, world, history
<1>12. ASSUME NEW t \in Threads, Fail(t) \/ Emit(t) \/ Named(t) PROVE HoldsCurrent'
      BY <1>0, <1>12 DEF Fail, Emit, Named, At, world, local, history
<1>13. ASSUME NEW t \in Threads, Refuse(t) PROVE HoldsCurrent'
      BY <1>0, <1>13 DEF Refuse, At, world, history
<1> QED BY <1>1, <1>2, <1>3, <1>4, <1>5, <1>6, <1>7, <1>8, <1>9, <1>10, <1>11, <1>12, <1>13 DEF Next

-----------------------------------------------------------------------------
(* The two cells all requests share.                                       *)

\* A request that runs alone finds in errorCode and integrityError what it put there.
LEMMA HoldsItsCodeStep ==
    ASSUME SInv, Next
    PROVE  HoldsItsCode'
<1>0. Shape /\ Known /\ HoldsCurrent /\ HoldsItsCode BY DEF SInv
<1> USE DEF Shape, Places, HoldsItsCode
<1>1. ASSUME NEW c \in Corpora, Change(c) PROVE HoldsItsCode'
  <2>1. /\ UNCHANGED <<pc, alone, errorCode, integrityError, code>>
        /\ \A t \in Threads : seen[t] \subseteq seen'[t]
        BY <1>1 DEF Change, service, local
  <2> QED BY <1>0, <2>1
<1>2. ASSUME NEW t \in Threads, NEW c \in Corpora, Ask(t, c) PROVE HoldsItsCode'
  <2>1. /\ pc'[t] \in {"hit", "resolving"}
        /\ \A u \in Threads \ {t} : pc'[u] = pc[u]
        /\ alone'[t] <=> \A u \in Threads \ {t} : pc[u] = "idle"
        /\ \A u \in Threads \ {t} : alone'[u] <=> (alone[u] /\ pc[u] = "idle")
    <3>1. /\ pc'[t] \in {"hit", "resolving"}
          /\ \A u \in Threads \ {t} : pc'[u] = pc[u]
          BY <1>0, <1>2 DEF Ask
    <3>2. /\ alone'[t] <=> \A u \in Threads \ {t} : pc[u] = "idle"
          /\ \A u \in Threads \ {t} : alone'[u] <=> (alone[u] /\ pc[u] = "idle")
          BY <1>2, Zenon DEF Ask
    <3> QED BY <3>1, <3>2
  <2> QED BY <2>1
<1>3. ASSUME NEW t \in Threads, Hit(t) PROVE HoldsItsCode'
      BY <1>0, <1>3 DEF Hit, At, history
<1>4. ASSUME NEW t \in Threads, Resolve(t) PROVE HoldsItsCode'
      BY <1>0, <1>4 DEF Resolve, At, local, history
<1>5. ASSUME NEW t \in Threads, ResolveFails(t) PROVE HoldsItsCode'
  <2>1. disk[asked[t]] \in seen[t] /\ disk[asked[t]] # None
        BY <1>0, <1>5, CodesAssumption DEF ResolveFails, At, HoldsCurrent, Codes
  <2> QED BY <1>0, <1>5, <2>1 DEF ResolveFails, At, local, history
<1>6. ASSUME NEW t \in Threads, Resolved(t) PROVE HoldsItsCode'
      BY <1>0, <1>6 DEF Resolved, At, service, local, history
<1>7. ASSUME NEW t \in Threads, Raise(t) PROVE HoldsItsCode'
      BY <1>0, <1>7 DEF Raise, At, service, history
<1>8. ASSUME NEW t \in Threads, LoadFails(t) PROVE HoldsItsCode'
  <2> PICK f \in LoadFaults : code' = [code EXCEPT ![t] = f]
      BY <1>8 DEF LoadFails
  <2>1. code'[t] = f /\ f # None BY <1>0, CodesAssumption DEF Codes, Faults
  <2>2. f \in seen'[t] /\ \A u \in Threads \ {t} : seen'[u] = seen[u]
        BY <1>0, <1>8, <2>1 DEF LoadFails
  <2> QED BY <1>0, <1>8, <2>1, <2>2 DEF LoadFails, At, service
<1>9. ASSUME NEW t \in Threads, Load(t) \/ Loaded(t) PROVE HoldsItsCode'
      BY <1>0, <1>9 DEF Load, Loaded, At, service, local, history
<1>10. ASSUME NEW t \in Threads, Share(t) \/ Insert(t) \/ Evicting(t) \/ Pop(t) PROVE HoldsItsCode'
      BY <1>0, <1>10 DEF Share, Insert, Evicting, Pop, At, service, local, history
<1>11. ASSUME NEW t \in Threads, Fail(t) PROVE HoldsItsCode'
      BY <1>0, <1>11 DEF Fail, At, local, history
<1>12. ASSUME NEW t \in Threads, Emit(t) \/ Named(t) PROVE HoldsItsCode'
      BY <1>0, <1>12 DEF Emit, Named, At, local, history
<1>13. ASSUME NEW t \in Threads, Refuse(t) PROVE HoldsItsCode'
      BY <1>0, <1>13 DEF Refuse, At, service, history
<1> QED BY <1>1, <1>2, <1>3, <1>4, <1>5, <1>6, <1>7, <1>8, <1>9, <1>10, <1>11, <1>12, <1>13 DEF Next

\* The invariant of the requests.
THEOREM ServiceInvariance == Spec => []SInv
<1>1. SInv /\ [Next]_vars => SInv'
  <2> SUFFICES ASSUME SInv, [Next]_vars PROVE SInv' OBVIOUS
  <2>1. CASE Next
        BY <2>1, ShapeStep, CachesStep, KnownStep, HoldsCurrentStep, HoldsItsCodeStep DEF SInv
  <2>2. CASE UNCHANGED vars
        BY <2>2 DEF vars, world, service, local, history, SInv, Shape, CachesOK, Known,
                    HoldsCurrent, HoldsItsCode
  <2> QED BY <2>1, <2>2
<1> QED BY <1>1, InitSInv, PTL DEF Spec

\* Every variable of the service keeps its type, the shared stores within their limit
\* and each corpus with one store (_store, EvidenceStore.shared).
THEOREM ServiceTypes == Spec => []TypeOK
<1>1. SInv => TypeOK
  <2> SUFFICES ASSUME SInv PROVE TypeOK OBVIOUS
  <2>1. IsInjective([i \in DOMAIN cache |-> cache[i][1]])
        BY DEF SInv, CachesOK, IsInjective
  <2> QED BY <2>1 DEF SInv, Shape, Places, CachesOK, TypeOK
<1> QED BY <1>1, ServiceInvariance, PTL

-----------------------------------------------------------------------------
(* The properties.                                                         *)

\* A request that missed the cache is served a store of its own corpus, in a version
\* that was on disk while it ran, whatever the other threads loaded and shared.
THEOREM MissesAreCurrent == Spec => []MissIsCurrent
<1>1. Init => MissIsCurrent BY DEF Init, MissIsCurrent, Replied
<1>2. SInv /\ MissIsCurrent /\ [Next]_vars => MissIsCurrent'
  <2> SUFFICES ASSUME SInv, MissIsCurrent, [Next]_vars PROVE MissIsCurrent' OBVIOUS
  <2>0. Shape /\ HoldsCurrent BY DEF SInv
  <2> USE DEF Shape, Places, MissIsCurrent, Replied
  <2>1. ASSUME NEW c \in Corpora, Change(c) PROVE MissIsCurrent'
        BY <2>0, <2>1 DEF Change, local
  <2>2. ASSUME NEW t \in Threads, NEW c \in Corpora, Ask(t, c) PROVE MissIsCurrent'
    <3>1. /\ pc'[t] # "idle"
          /\ \A u \in Threads \ {t} : /\ pc'[u] = pc[u] /\ reply'[u] = reply[u] /\ hit'[u] = hit[u]
                                      /\ store'[u] = store[u] /\ asked'[u] = asked[u] /\ seen'[u] = seen[u]
          BY <2>0, <2>2 DEF Ask
    <3> QED BY <3>1
  <2>3. ASSUME NEW t \in Threads, Hit(t) PROVE MissIsCurrent'
    <3>1. hit'[t] /\ UNCHANGED <<asked, store, seen, hit>>
          BY <2>0, <2>3 DEF Hit, At, HoldsCurrent, history
    <3> QED BY <2>0, <2>3, <3>1 DEF Hit, At, Finish
  <2>4. ASSUME NEW t \in Threads, Resolve(t) \/ ResolveFails(t) \/ Resolved(t) \/ Raise(t)
        PROVE  MissIsCurrent'
        BY <2>0, <2>4 DEF Resolve, ResolveFails, Resolved, Raise, At, local, history
  <2>5. ASSUME NEW t \in Threads, LoadFails(t) PROVE MissIsCurrent'
        BY <2>0, <2>5 DEF LoadFails, At
  <2>6. ASSUME NEW t \in Threads, Load(t) \/ Loaded(t) PROVE MissIsCurrent'
        BY <2>0, <2>6 DEF Load, Loaded, At, local, history
  <2>7. ASSUME NEW t \in Threads, Share(t) PROVE MissIsCurrent'
    <3>1. \A u \in Threads \ {t} : store'[u] = store[u]
          BY <2>0, <2>7 DEF Share
    <3> QED BY <2>0, <2>7, <3>1 DEF Share, At, history
  <2>8. ASSUME NEW t \in Threads, Insert(t) PROVE MissIsCurrent'
        BY <2>0, <2>8 DEF Insert, At, local
  <2>9. ASSUME NEW t \in Threads, Evicting(t) PROVE MissIsCurrent'
        BY <2>0, <2>9 DEF Evicting, At, Finish, HoldsCurrent, history
  <2>10. ASSUME NEW t \in Threads, Pop(t) PROVE MissIsCurrent'
        BY <2>0, <2>10 DEF Pop, At, Finish, history
  <2>11. ASSUME NEW t \in Threads, Fail(t) \/ Emit(t) \/ Named(t) PROVE MissIsCurrent'
        BY <2>0, <2>11 DEF Fail, Emit, Named, At, local, history
  <2>12. ASSUME NEW t \in Threads, Refuse(t) PROVE MissIsCurrent'
    <3>1. reply'[t] # "served"
          BY <2>0, <2>12, CodesAssumption DEF Refuse, Finish, Codes
    <3> QED BY <2>0, <2>12, <3>1 DEF Refuse, At, Finish, history
  <2>13. CASE UNCHANGED vars BY <2>13 DEF vars, local, history
  <2> QED BY <2>1, <2>2, <2>3, <2>4, <2>5, <2>6, <2>7, <2>8, <2>9, <2>10, <2>11, <2>12, <2>13 DEF Next
<1> QED BY <1>1, <1>2, ServiceInvariance, PTL DEF Spec

\* The reason a request is given is one its corpus had while it ran, if no other
\* request ran meanwhile.
THEOREM ReasonsAloneAreRight == Spec => []AloneReasonIsRight
<1>1. Init => AloneReasonIsRight BY DEF Init, AloneReasonIsRight, Replied
<1>2. SInv /\ AloneReasonIsRight /\ [Next]_vars => AloneReasonIsRight'
  <2> SUFFICES ASSUME SInv, AloneReasonIsRight, [Next]_vars PROVE AloneReasonIsRight' OBVIOUS
  <2>0. Shape /\ HoldsItsCode BY DEF SInv
  <2> USE DEF Shape, Places, AloneReasonIsRight, Replied
  <2>1. ASSUME NEW c \in Corpora, Change(c) PROVE AloneReasonIsRight'
        BY <2>0, <2>1 DEF Change, local
  <2>2. ASSUME NEW t \in Threads, NEW c \in Corpora, Ask(t, c) PROVE AloneReasonIsRight'
    <3>1. /\ pc'[t] # "idle"
          /\ \A u \in Threads \ {t} : pc'[u] = pc[u] /\ reply'[u] = reply[u] /\ seen'[u] = seen[u]
          BY <2>0, <2>2 DEF Ask
    <3>2. \A u \in Threads \ {t} : alone'[u] => alone[u]
          BY <2>2, Zenon DEF Ask
    <3> QED BY <3>1, <3>2
  <2>3. ASSUME NEW t \in Threads, Hit(t) PROVE AloneReasonIsRight'
        BY <2>0, <2>3, CodesAssumption DEF Hit, At, Finish, history
  <2>4. ASSUME NEW t \in Threads, Resolve(t) \/ ResolveFails(t) \/ Resolved(t) \/ Raise(t)
        PROVE  AloneReasonIsRight'
        BY <2>0, <2>4 DEF Resolve, ResolveFails, Resolved, Raise, At, local, history
  <2>5. ASSUME NEW t \in Threads, LoadFails(t) PROVE AloneReasonIsRight'
        BY <2>0, <2>5 DEF LoadFails, At
  <2>6. ASSUME NEW t \in Threads, Load(t) \/ Loaded(t) \/ Share(t) \/ Insert(t)
        PROVE  AloneReasonIsRight'
        BY <2>0, <2>6 DEF Load, Loaded, Share, Insert, At, local, history
  <2>7. ASSUME NEW t \in Threads, Evicting(t) \/ Pop(t) PROVE AloneReasonIsRight'
        BY <2>0, <2>7, CodesAssumption DEF Evicting, Pop, At, Finish, history
  <2>8. ASSUME NEW t \in Threads, Fail(t) \/ Emit(t) \/ Named(t) PROVE AloneReasonIsRight'
        BY <2>0, <2>8 DEF Fail, Emit, Named, At, local, history
  <2>9. ASSUME NEW t \in Threads, Refuse(t) PROVE AloneReasonIsRight'
        BY <2>0, <2>9 DEF Refuse, At, Finish, HoldsItsCode, history
  <2>10. CASE UNCHANGED vars BY <2>10 DEF vars, local, history
  <2> QED BY <2>1, <2>2, <2>3, <2>4, <2>5, <2>6, <2>7, <2>8, <2>9, <2>10 DEF Next
<1> QED BY <1>1, <1>2, ServiceInvariance, PTL DEF Spec

-----------------------------------------------------------------------------
(* The limit of the cache.                                                 *)

LEMMA LimitType == Limit \in Nat
BY CodesAssumption, FS_CardinalityType DEF Limit

\* Entries of counted corpora alone never exceed the limit: each has one.
LEMMA CountedFit ==
    ASSUME CachesOK, \A i \in DOMAIN cache : cache[i][1] \in Counted
    PROVE  ~TooMany(Len(cache))
<1>1. Len(cache) \in Nat /\ DOMAIN cache = 1 .. Len(cache) BY LenProperties DEF CachesOK
<1>2. CASE Counted = {}
  <2>1. Len(cache) = 0 BY <1>1, <1>2
  <2> QED BY <1>2, <2>1 DEF TooMany, Limit
<1>3. CASE Counted # {}
  <2>1. IsFiniteSet(Counted) /\ Cardinality(Counted) \in Nat
        BY CodesAssumption, FS_CardinalityType
  <2>2. IsFiniteSet(1 .. Len(cache)) /\ Cardinality(1 .. Len(cache)) = Len(cache)
    <3>1. 1 \in Int /\ Len(cache) \in Int BY <1>1
    <3>2. /\ IsFiniteSet(1 .. Len(cache))
          /\ Cardinality(1 .. Len(cache)) = IF 1 > Len(cache) THEN 0 ELSE Len(cache) - 1 + 1
          BY <3>1, FS_Interval
    <3> QED BY <1>1, <3>2
  <2> DEFINE key == [i \in 1 .. Len(cache) |-> cache[i][1]]
  <2>3. key \in [1 .. Len(cache) -> Counted] BY <1>1
  <2>4. ASSUME Cardinality(Counted) < Len(cache) PROVE FALSE
    <3> HIDE DEF key
    <3>1. \E i, j \in 1 .. Len(cache) : i # j /\ key[i] = key[j]
          BY <2>1, <2>2, <2>3, <2>4, FS_PigeonHole
    <3> USE DEF key
    <3> QED BY <1>1, <3>1 DEF CachesOK
  <2> QED BY <1>1, <1>3, <2>1, <2>4 DEF TooMany, Limit
<1> QED BY <1>2, <1>3

\* Once no request is in the eviction loop the cache is within its limit, however
\* the loops interleaved.
THEOREM EvictionsSettle == Spec => []EvictionSettles
<1>1. Init => EvictionSettles
  <2>1. Init => cache = <<>> BY DEF Init
  <2> QED BY <2>1, LimitType, EmptySeq DEF EvictionSettles
<1>2. SInv /\ EvictionSettles /\ [Next]_vars => EvictionSettles'
  <2> SUFFICES ASSUME SInv, EvictionSettles, [Next]_vars,
                      \A t \in Threads : pc'[t] \notin {"evicting", "popping"}
               PROVE  Len(cache') <= Limit
      BY DEF EvictionSettles, Limit
  <2>0. Shape /\ CachesOK /\ Limit \in Nat BY LimitType DEF SInv
  <2>a. ASSUME cache' = cache, \A t \in Threads : pc[t] \notin {"evicting", "popping"}
        PROVE  Len(cache') <= Limit
        BY <2>a DEF EvictionSettles
  <2> USE DEF Shape, Places
  <2>1. ASSUME NEW c \in Corpora, Change(c) PROVE Len(cache') <= Limit
        BY <2>1, <2>a DEF Change, service
  <2>2. ASSUME NEW t \in Threads, NEW c \in Corpora, Ask(t, c) PROVE Len(cache') <= Limit
    <3>1. pc[t] = "idle" /\ cache' = cache /\ \A u \in Threads \ {t} : pc'[u] = pc[u]
          BY <2>0, <2>2 DEF Ask, service
    <3> QED BY <2>0, <3>1, <2>a
  <2>3. ASSUME NEW t \in Threads, Hit(t) PROVE Len(cache') <= Limit
    <3>1. \A u \in Threads : pc[u] \notin {"evicting", "popping"} BY <2>0, <2>3 DEF Hit, At
    <3>2. ASSUME NEW i \in Cached(asked[t]), cache' = Append(RemoveAt(cache, i), cache[i])
          PROVE  Len(cache') = Len(cache)
      <4> HIDE DEF RemoveAt
      <4> QED BY <2>0, <3>2, MovedToEnd DEF CachesOK, Cached
    <3> QED BY <2>3, <3>1, <3>2, <2>a DEF Hit, EvictionSettles
  <2>4. ASSUME NEW t \in Threads,
               Resolve(t) \/ ResolveFails(t) \/ Resolved(t) \/ Raise(t) \/ LoadFails(t) \/ Load(t)
               \/ Loaded(t) \/ Share(t) \/ Fail(t) \/ Emit(t) \/ Named(t) \/ Refuse(t)
        PROVE  Len(cache') <= Limit
    <3>1. /\ cache' = cache /\ pc[t] \notin {"evicting", "popping"}
          /\ \E place \in Places : pc' = [pc EXCEPT ![t] = place]
          BY <2>4 DEF Resolve, ResolveFails, Resolved, Raise, LoadFails, Load, Loaded, Share, Fail,
                      Emit, Named, Refuse, At, service
    <3> QED BY <2>0, <3>1, <2>a
  <2>5. ASSUME NEW t \in Threads, Insert(t) PROVE FALSE
        BY <2>0, <2>5 DEF Insert, At
  <2>6. ASSUME NEW t \in Threads, Evicting(t) PROVE Len(cache') <= Limit
    <3>1. ~TooMany(Len(cache)) /\ cache' = cache BY <2>0, <2>6 DEF Evicting, At, service
    <3>2. Len(cache) \in Nat BY <2>0, LenProperties DEF CachesOK
    <3> QED BY <2>0, <3>1, <3>2 DEF TooMany
  <2>7. ASSUME NEW t \in Threads, Pop(t) PROVE Len(cache') <= Limit
    <3>1. cache' = <<>> BY <2>0, <2>7 DEF Pop, At
    <3> QED BY <2>0, <3>1
  <2>8. CASE UNCHANGED vars BY <2>8, <2>a DEF vars, service
  <2> QED BY <2>1, <2>2, <2>3, <2>4, <2>5, <2>6, <2>7, <2>8 DEF Next
<1> QED BY <1>1, <1>2, ServiceInvariance, PTL DEF Spec

\* Nothing is evicted while every corpus loaded is one the service counted.
LEMMA NeverFullStep ==
    ASSUME SInv, NeverFull, Next, ~grown'
    PROVE  NeverFull'
<1>0. Shape /\ CachesOK /\ Limit \in Nat /\ DOMAIN cache = 1 .. Len(cache) /\ Len(cache) \in Nat
      BY LimitType, LenProperties DEF SInv, CachesOK
<1> USE DEF Shape, Places
<1>a. ASSUME ~grown, cache' = cache, UNCHANGED asked, NEW t \in Threads, NEW place \in Places,
             pc' = [pc EXCEPT ![t] = place], place \notin {"popping", "hit"}
      PROVE  NeverFull'
      BY <1>0, <1>a DEF NeverFull, Cached
<1>b. ASSUME ~grown, NEW t \in Threads, UNCHANGED asked, pc'[t] \notin {"popping", "hit"},
             \A u \in Threads \ {t} : pc'[u] = pc[u],
             \A j \in DOMAIN cache' : cache'[j][1] \in Counted,
             \A j \in DOMAIN cache : \E k \in DOMAIN cache' : cache'[k][1] = cache[j][1]
      PROVE  NeverFull'
      BY <1>0, <1>b DEF NeverFull, Cached
<1>1. ASSUME NEW c \in Corpora, Change(c) PROVE NeverFull'
      BY <1>1 DEF Change, NeverFull, Cached, service
<1>2. ASSUME NEW t \in Threads, NEW c \in Corpora, Ask(t, c) PROVE NeverFull'
  <2>1. /\ UNCHANGED <<cache, grown>> /\ asked'[t] = c
        /\ pc'[t] \in {"hit", "resolving"} /\ (pc'[t] = "hit" => Cached(c) # {})
        /\ \A u \in Threads \ {t} : pc'[u] = pc[u] /\ asked'[u] = asked[u]
        BY <1>0, <1>2 DEF Ask, SInv, service
  <2> QED BY <2>1 DEF NeverFull, Cached
<1>3. ASSUME NEW t \in Threads, Hit(t) PROVE NeverFull'
  <2>1. UNCHANGED <<asked, grown>> /\ pc'[t] = "idle" /\ \A u \in Threads \ {t} : pc'[u] = pc[u]
        BY <1>0, <1>3 DEF SInv, Hit, At, history
  <2>2. Cached(asked[t]) # {} BY <1>3, <2>1 DEF Hit, At, NeverFull
  <2>3. PICK i \in Cached(asked[t]) : cache' = Append(RemoveAt(cache, i), cache[i])
        BY <1>3, <2>2 DEF Hit
  <2>4. i \in 1 .. Len(cache) /\ cache \in Seq(Registrable \X Stores) BY <1>0 DEF CachesOK, Cached
  <2> HIDE DEF RemoveAt
  <2>5. /\ cache' \in Seq(Registrable \X Stores) /\ Len(cache') = Len(cache)
        /\ \A j \in 1 .. Len(cache) : cache'[j] =
              IF j = Len(cache) THEN cache[i] ELSE IF j < i THEN cache[j] ELSE cache[j + 1]
        BY <1>0, <2>3, <2>4, MovedToEnd
  <2>6. DOMAIN cache' = 1 .. Len(cache) BY <2>5, LenProperties
  <2>7. \A j \in 1 .. Len(cache) : \E k \in 1 .. Len(cache) : cache'[j] = cache[k]
    <3> SUFFICES ASSUME NEW j \in 1 .. Len(cache)
                 PROVE  \E k \in 1 .. Len(cache) : cache'[j] = cache[k]
        OBVIOUS
    <3>1. CASE j = Len(cache) BY <2>4, <2>5, <3>1
    <3>2. CASE j # Len(cache) /\ j < i BY <2>5, <3>2
    <3>3. CASE j # Len(cache) /\ ~(j < i)
      <4>1. Len(cache) \in Nat BY <1>0
      <4>2. j + 1 \in 1 .. Len(cache)
        <5> HIDE <1>0
        <5> QED BY <3>3, <4>1
      <4> QED BY <2>5, <3>3, <4>2
    <3> QED BY <3>1, <3>2, <3>3
  <2>8. \A j \in 1 .. Len(cache) : \E k \in 1 .. Len(cache) : cache'[k] = cache[j]
    <3> SUFFICES ASSUME NEW j \in 1 .. Len(cache)
                 PROVE  \E k \in 1 .. Len(cache) : cache'[k] = cache[j]
        OBVIOUS
    <3>1. CASE j = i
      <4>1. Len(cache) \in 1 .. Len(cache) BY <1>0
      <4> QED BY <2>5, <3>1, <4>1
    <3>2. CASE j < i
      <4>1. j # Len(cache) BY <2>4, <3>2
      <4> QED BY <2>5, <3>2, <4>1
    <3>3. CASE j > i
      <4>1. j - 1 \in 1 .. Len(cache) /\ j - 1 # Len(cache) /\ ~(j - 1 < i) /\ (j - 1) + 1 = j
            BY <1>0, <2>4, <3>3
      <4> QED BY <2>5, <4>1
    <3> QED BY <2>4, <3>1, <3>2, <3>3
  <2>9. /\ \A j \in DOMAIN cache' : cache'[j][1] \in Counted
        /\ \A j \in DOMAIN cache : \E k \in DOMAIN cache' : cache'[k][1] = cache[j][1]
    <3>1. ASSUME NEW j \in DOMAIN cache' PROVE cache'[j][1] \in Counted
      <4>1. j \in 1 .. Len(cache) BY <2>6, <3>1
      <4>2. PICK k \in 1 .. Len(cache) : cache'[j] = cache[k] BY <2>7, <4>1
      <4>3. cache[k][1] \in Counted BY <1>0, <2>1, <4>2 DEF NeverFull
      <4> QED BY <4>2, <4>3
    <3>2. ASSUME NEW j \in DOMAIN cache PROVE \E k \in DOMAIN cache' : cache'[k][1] = cache[j][1]
      <4>1. j \in 1 .. Len(cache) BY <2>4, <3>2, LenProperties
      <4>2. PICK k \in 1 .. Len(cache) : cache'[k] = cache[j] BY <2>8, <4>1
      <4>3. k \in DOMAIN cache' BY <2>6
      <4> QED BY <4>2, <4>3
    <3> QED BY <3>1, <3>2
  <2> QED BY <1>b, <2>1, <2>9
<1>4. ASSUME NEW t \in Threads,
             Resolve(t) \/ ResolveFails(t) \/ Resolved(t) \/ Raise(t) \/ LoadFails(t) \/ Load(t)
             \/ Loaded(t) \/ Share(t) \/ Fail(t) \/ Emit(t) \/ Named(t) \/ Refuse(t)
      PROVE  NeverFull'
  <2>1. /\ UNCHANGED <<cache, asked, grown>>
        /\ \E place \in Places : pc' = [pc EXCEPT ![t] = place] /\ place \notin {"popping", "hit"}
        BY <1>4 DEF Resolve, ResolveFails, Resolved, Raise, LoadFails, Load, Loaded, Share, Fail,
                    Emit, Named, Refuse, At, service, history
  <2> QED BY <1>a, <2>1
<1>5. ASSUME NEW t \in Threads, Insert(t) PROVE NeverFull'
  <2>1. /\ ~grown /\ asked[t] \in Counted /\ UNCHANGED asked
        /\ pc'[t] = "evicting" /\ \A u \in Threads \ {t} : pc'[u] = pc[u]
        BY <1>0, <1>5 DEF SInv, Insert, At
  <2> DEFINE entry == <<asked[t], store[t]>>
  <2>2. store[t] \in Stores /\ entry \in Registrable \X Stores
        BY <1>0, <1>5, <2>1, StoreAssumption DEF SInv, Insert, At, HoldsCurrent
  <2>3. CASE Cached(asked[t]) = {}
    <3>1. cache' = Append(cache, entry) BY <1>5, <2>3 DEF Insert
    <3> HIDE DEF entry
    <3>2. /\ cache' \in Seq(Registrable \X Stores) /\ Len(cache') = Len(cache) + 1
          /\ \A j \in 1 .. Len(cache) : cache'[j] = cache[j]
          /\ cache'[Len(cache) + 1] = entry
          BY <1>0, <2>2, <3>1, AppendProperties DEF CachesOK
    <3>3. DOMAIN cache' = 1 .. Len(cache) + 1 BY <3>2, LenProperties
    <3>4. entry[1] = asked[t] BY DEF entry
    <3>5. \A j \in DOMAIN cache' : cache'[j][1] \in Counted
          BY <1>0, <2>1, <3>2, <3>3, <3>4 DEF NeverFull
    <3>6. \A j \in DOMAIN cache : j \in DOMAIN cache' /\ cache'[j] = cache[j]
          BY <1>0, <3>2, <3>3
    <3> QED BY <1>b, <2>1, <3>5, <3>6
  <2>4. CASE Cached(asked[t]) # {}
    <3>1. cache' = [i \in DOMAIN cache |-> IF i \in Cached(asked[t]) THEN entry ELSE cache[i]]
          BY <1>5, <2>4 DEF Insert
    <3>2. DOMAIN cache' = DOMAIN cache /\ \A j \in DOMAIN cache : cache'[j][1] = cache[j][1]
          BY <3>1 DEF Cached
    <3> QED BY <1>b, <2>1, <3>2 DEF NeverFull
  <2> QED BY <2>3, <2>4
<1>6. ASSUME NEW t \in Threads, Evicting(t) PROVE NeverFull'
  <2>1. UNCHANGED <<cache, asked, grown>> BY <1>6 DEF Evicting, service, history
  <2>2. ~TooMany(Len(cache)) BY <1>0, <2>1, CountedFit DEF NeverFull
  <2>3. pc' = [pc EXCEPT ![t] = "idle"] BY <1>6, <2>2 DEF Evicting, At
  <2> QED BY <1>a, <2>1, <2>3
<1>7. ASSUME NEW t \in Threads, Pop(t) PROVE NeverFull'
      BY <1>7 DEF Pop, At, NeverFull, history
<1> QED BY <1>1, <1>2, <1>3, <1>4, <1>5, <1>6, <1>7 DEF Next

\* A corpus once ready is never refused again: as long as every corpus loaded is one
\* the service counted when it started, a store found in the cache is there when its
\* request moves it to the end.
THEOREM ReadyIsServed == Spec => []ReadyStaysReady
<1> DEFINE RInv == NeverFull /\ ReadyStaysReady
<1>1. Init => RInv
  <2> SUFFICES ASSUME Init PROVE RInv OBVIOUS
  <2>1. cache = <<>> /\ \A t \in Threads : pc[t] = "idle" /\ ~hit[t] BY DEF Init
  <2>2. DOMAIN cache = {} BY <2>1
  <2> QED BY <2>1, <2>2 DEF NeverFull, ReadyStaysReady
<1>2. SInv /\ RInv /\ [Next]_vars => RInv'
  <2> SUFFICES ASSUME SInv, RInv, [Next]_vars PROVE RInv' OBVIOUS
  <2>0. Shape /\ HoldsCurrent BY DEF SInv
  <2> USE DEF Shape, Places
  <2>1. CASE grown' BY <2>1 DEF NeverFull, ReadyStaysReady
  <2>2. CASE ~grown' /\ UNCHANGED vars
        BY <2>2 DEF vars, service, local, history, NeverFull, Cached, ReadyStaysReady, Replied
  <2>3. CASE ~grown' /\ Next
    <3>1. NeverFull' BY <2>3, NeverFullStep
    <3>2. ASSUME NEW t \in Threads, Replied(t)', hit'[t] PROVE reply'[t] = "served"
      <4>1. ASSUME ~grown, UNCHANGED <<pc, reply, hit>> PROVE reply'[t] = "served"
            BY <3>2, <4>1 DEF ReadyStaysReady, Replied
      <4>2. ASSUME ~grown, NEW u \in Threads, u # t,
                   pc'[t] = pc[t], reply'[t] = reply[t], hit'[t] = hit[t]
            PROVE  reply'[t] = "served"
            BY <3>2, <4>2 DEF ReadyStaysReady, Replied
      <4>3. ASSUME NEW c \in Corpora, Change(c) PROVE reply'[t] = "served"
            BY <2>3, <4>1, <4>3 DEF Change, local
      <4>4. ASSUME NEW u \in Threads, NEW c \in Corpora, Ask(u, c) PROVE reply'[t] = "served"
        <5>1. pc'[u] # "idle" /\ grown' = grown BY <2>0, <4>4 DEF Ask
        <5>2. u # t BY <3>2, <5>1 DEF Replied
        <5>3. pc'[t] = pc[t] /\ reply'[t] = reply[t] /\ hit'[t] = hit[t] BY <2>0, <4>4, <5>2 DEF Ask
        <5> QED BY <2>3, <4>2, <5>1, <5>2, <5>3
      <4>5. ASSUME NEW u \in Threads, Hit(u) PROVE reply'[t] = "served"
        <5>1. ~grown /\ Cached(asked[u]) # {} BY <2>3, <4>5 DEF Hit, At, NeverFull, history
        <5>2. reply' = [reply EXCEPT ![u] = "served"] BY <4>5, <5>1 DEF Hit, Finish
        <5>3. pc' = [pc EXCEPT ![u] = "idle"] /\ hit' = hit BY <4>5 DEF Hit, At, history
        <5> QED BY <2>0, <4>2, <5>1, <5>2, <5>3
      <4>6. ASSUME NEW u \in Threads,
                   Resolve(u) \/ ResolveFails(u) \/ Resolved(u) \/ Raise(u) \/ LoadFails(u) \/ Load(u)
                   \/ Loaded(u) \/ Share(u) \/ Insert(u) \/ Evicting(u) \/ Pop(u)
                   \/ Fail(u) \/ Emit(u) \/ Named(u) \/ Refuse(u)
            PROVE  reply'[t] = "served"
        <5>a. UNCHANGED hit
              BY <4>6 DEF Resolve, ResolveFails, Resolved, Raise, LoadFails, Load, Loaded, Share,
                          Insert, Evicting, Pop, Fail, Emit, Named, Refuse, history
        <5>b. ~grown
              BY <2>3, <4>6 DEF Resolve, ResolveFails, Resolved, Raise, LoadFails, Load, Loaded, Share,
                                Insert, Evicting, Pop, Fail, Emit, Named, Refuse, history
        <5>c. pc[u] \notin {"hit", "idle"} /\ \E place \in Places : pc' = [pc EXCEPT ![u] = place]
              BY <4>6 DEF Resolve, ResolveFails, Resolved, Raise, LoadFails, Load, Loaded, Share,
                          Insert, Evicting, Pop, Fail, Emit, Named, Refuse, At
        <5>1. /\ hit' = hit /\ ~grown /\ pc[u] \notin {"hit", "idle"}
              /\ \E place \in Places : pc' = [pc EXCEPT ![u] = place]
              BY <5>a, <5>b, <5>c
        <5>2. u # t BY <2>0, <3>2, <5>1 DEF HoldsCurrent
        <5>3. reply'[t] = reply[t]
          <6>1. CASE Refuse(u) BY <2>0, <5>2, <6>1 DEF Refuse, Finish
          <6>2. CASE Evicting(u) BY <2>0, <5>2, <6>2 DEF Evicting, Finish
          <6>3. CASE Pop(u) BY <2>0, <5>2, <6>3 DEF Pop, Finish
          <6>4. CASE Fail(u) \/ Emit(u) \/ Named(u)
                BY <2>0, <5>2, <6>4 DEF Fail, Emit, Named, Finish, local
          <6>5. CASE \/ Resolve(u) \/ ResolveFails(u) \/ Resolved(u) \/ Raise(u) \/ LoadFails(u)
                     \/ Load(u) \/ Loaded(u) \/ Share(u) \/ Insert(u)
                BY <6>5 DEF Resolve, ResolveFails, Resolved, Raise, LoadFails, Load, Loaded, Share,
                            Insert, local
          <6> QED BY <4>6, <6>1, <6>2, <6>3, <6>4, <6>5
        <5> QED BY <2>0, <4>2, <5>1, <5>2, <5>3
      <4> QED BY <2>3, <4>3, <4>4, <4>5, <4>6 DEF Next
    <3>3. ReadyStaysReady' BY <3>2 DEF ReadyStaysReady, Replied
    <3> QED BY <3>1, <3>3
  <2> QED BY <2>1, <2>2, <2>3
<1>3. RInv => ReadyStaysReady OBVIOUS
<1> HIDE DEF RInv
<1> QED BY <1>1, <1>2, <1>3, ServiceInvariance, PTL DEF Spec

=============================================================================
