----------------------------- MODULE ServiceStore -----------------------------
(***************************************************************************)
(* LegalRuntimeService._store, which every request calls to get the        *)
(* evidence store of its corpus, and the failure reply of its callers.     *)
(*                                                                         *)
(* A hit in _store_cache is served without another look at the disk.  A    *)
(* miss resolves the corpus, loads it (VerifiedCorpusRepository.load; its  *)
(* own interleavings are module CorpusLoading) and takes the store of that *)
(* manifest from the process-wide EvidenceStore.shared.  A failure leaves  *)
(* its code in two cells all threads share, registry.error_code and        *)
(* _integrity_error, from which the caller then reads the reason it shows. *)
(***************************************************************************)
EXTENDS Naturals, SequencesExt

CONSTANTS Corpora,      \* corpus ids that requests name
          Registrable,  \* those that are ever in data/corpus_registry.json
          Counted,      \* those that are in it when the service starts
          ResolveFaults,\* codes of CorpusRegistry.resolve for a registered corpus
          LoadFaults,   \* codes VerifiedCorpusRepository.load raises itself
          Versions,     \* of a corpus that verifies: its manifest digests
          SharedLimit,  \* EvidenceStore._shared_limit
          Threads, None,
          MaxChanges    \* bound on the changes of the disk

ASSUME StoreAssumption ==
    /\ Counted \subseteq Registrable /\ Registrable \subseteq Corpora
    /\ SharedLimit \in Nat \ {0} /\ MaxChanges \in Nat
    /\ None \notin Corpora \union Versions \union ResolveFaults \union LoadFaults

Faults == ResolveFaults \union LoadFaults \union {"unknown_corpus"}
Codes == Faults \union {"corpus_load_failure"}

\* A reply, a version and a code are told apart; a registry file is finite.
ASSUME CodesAssumption ==
    /\ {"served", "key_error"} \cap Codes = {} /\ Versions \cap Codes = {}
    /\ "unknown_corpus" \notin LoadFaults /\ None \notin Codes \union {"served", "key_error"}
    /\ IsFiniteSet(Counted)

VARIABLES
    disk,           \* corpus -> its version if it verifies, else the fault
    changes,        \* changes of the disk so far
    cache,          \* _store_cache: <<corpus, store>>, least recently used first
    sharedStores,   \* EvidenceStore._shared_stores, least recently used first
    errorCode,      \* registry.error_code
    integrityError, \* _integrity_error
    pc, asked,      \* where each thread is, the corpus of its request
    config, code,   \* what load returned or raised
    store,          \* the store it holds
    reply,          \* the last reply: "served" (store), "key_error" or a code
    seen,           \* history: what was on disk for its corpus during the request
    hit, alone,     \* history: the request found a store; overlapped no other
    grown           \* history: a corpus registered later has been cached

world == <<disk, changes>>
service == <<cache, sharedStores, errorCode, integrityError>>
local == <<config, code, store, reply>>
history == <<seen, hit, alone, grown>>
vars == <<world, service, pc, asked, local, history>>

Stores == [corpus : Corpora, version : Versions]

TypeOK ==
    /\ disk \in [Corpora -> Versions \union Faults] /\ changes \in 0 .. MaxChanges
    /\ cache \in Seq(Registrable \X Stores) /\ IsInjective([i \in DOMAIN cache |-> cache[i][1]])
    /\ sharedStores \in Seq(Stores) /\ Len(sharedStores) <= SharedLimit
    /\ {errorCode, integrityError} \subseteq Codes \union {None}
    /\ pc \in [Threads -> {"idle", "hit", "resolving", "reading", "raising", "loading", "loaded", "sharing",
                           "inserting", "evicting", "popping", "failing", "emitting", "naming", "returned"}]
    /\ asked \in [Threads -> Corpora \union {None}]
    /\ config \in [Threads -> Versions \union {None}] /\ code \in [Threads -> Codes \union {None}]
    /\ store \in [Threads -> Stores \union {None}]
    /\ reply \in [Threads -> Codes \union {"served", "key_error", None}]
    /\ seen \in [Threads -> SUBSET (Versions \union Faults)]
    /\ hit \in [Threads -> BOOLEAN] /\ alone \in [Threads -> BOOLEAN]
    /\ grown \in BOOLEAN

Init ==
    /\ disk \in [Corpora -> Versions \union Faults]
    /\ \A c \in Corpora : c \notin Counted <=> disk[c] = "unknown_corpus"
    /\ changes = 0 /\ cache = <<>> /\ sharedStores = <<>>
    /\ errorCode = None /\ integrityError = None
    /\ pc = [t \in Threads |-> "idle"] /\ asked = [t \in Threads |-> None]
    /\ config = [t \in Threads |-> None] /\ code = [t \in Threads |-> None]
    /\ store = [t \in Threads |-> None] /\ reply = [t \in Threads |-> None]
    /\ seen = [t \in Threads |-> {}]
    /\ hit = [t \in Threads |-> FALSE] /\ alone = [t \in Threads |-> FALSE]
    /\ grown = FALSE

-----------------------------------------------------------------------------

\* _store_cache_limit, fixed when the service starts.
Limit == IF Counted = {} THEN 1 ELSE Cardinality(Counted)

Cached(c) == {i \in DOMAIN cache : cache[i][1] = c}

At(t, here, there) == pc[t] = here /\ pc' = [pc EXCEPT ![t] = there]

Finish(t, value) == reply' = [reply EXCEPT ![t] = value]

\* Mutant: the store is asked for by its corpus alone.
SameCorpus(s, c, v) == s.corpus = c

\* The key of EvidenceStore.shared: manifest path and digest.
SameKey(s, c, v) == s.corpus = c /\ s.version = v

\* A request for corpus c: _store_cache.get.
Ask(t, c) ==
    /\ pc[t] = "idle"
    /\ asked' = [asked EXCEPT ![t] = c]
    /\ \/ \E i \in Cached(c) : /\ pc' = [pc EXCEPT ![t] = "hit"]
                               /\ store' = [store EXCEPT ![t] = cache[i][2]]
       \/ /\ Cached(c) = {} /\ pc' = [pc EXCEPT ![t] = "resolving"]
          /\ store' = [store EXCEPT ![t] = None]
    /\ config' = [config EXCEPT ![t] = None] /\ code' = [code EXCEPT ![t] = None]
    /\ reply' = [reply EXCEPT ![t] = None]
    /\ seen' = [seen EXCEPT ![t] = {disk[c]}]
    /\ hit' = [hit EXCEPT ![t] = Cached(c) # {}]
    /\ alone' = [u \in Threads |-> IF u = t THEN \A w \in Threads \ {t} : pc[w] = "idle"
                                   ELSE alone[u] /\ pc[u] = "idle"]
    /\ UNCHANGED <<world, service, grown>>

\* The cached store: move_to_end, which raises KeyError if the entry is gone.
Hit(t) ==
    /\ At(t, "hit", "idle")
    /\ \/ \E i \in Cached(asked[t]) :
            /\ cache' = Append(RemoveAt(cache, i), cache[i])
            /\ integrityError' = None /\ Finish(t, "served")
       \/ Cached(asked[t]) = {} /\ Finish(t, "key_error") /\ UNCHANGED <<cache, integrityError>>
    /\ UNCHANGED <<world, sharedStores, errorCode, asked, config, code, store, history>>

\* resolve: the shared code is cleared, and set again if the corpus does not resolve.
Resolve(t) ==
    /\ At(t, "resolving", "reading") /\ errorCode' = None
    /\ UNCHANGED <<world, cache, sharedStores, integrityError, asked, local, history>>

ResolveFails(t) ==
    /\ At(t, "reading", "raising") /\ disk[asked[t]] \in Faults \ LoadFaults
    /\ errorCode' = disk[asked[t]]
    /\ UNCHANGED <<world, cache, sharedStores, integrityError, asked, local, history>>

Resolved(t) ==
    /\ At(t, "reading", "loading") /\ disk[asked[t]] \notin Faults \ LoadFaults
    /\ UNCHANGED <<world, service, asked, local, history>>

\* load raises CorpusIntegrityError(registry.error_code or "corpus_load_failure").
Raise(t) ==
    /\ At(t, "raising", "failing")
    /\ code' = [code EXCEPT ![t] = IF errorCode = None THEN "corpus_load_failure" ELSE errorCode]
    /\ UNCHANGED <<world, service, asked, config, store, reply, history>>

\* The rest of load; a manifest that has gone meanwhile fails one of its checks.
LoadFails(t) ==
    /\ At(t, "loading", "failing")
    /\ \E f \in LoadFaults : disk[asked[t]] \in {f} \union ResolveFaults /\ code' = [code EXCEPT ![t] = f]
    /\ seen' = [seen EXCEPT ![t] = @ \union {code'[t]}]
    /\ UNCHANGED <<world, service, asked, config, store, reply, hit, alone, grown>>

Load(t) ==
    /\ At(t, "loading", "loaded") /\ disk[asked[t]] \in Versions
    /\ config' = [config EXCEPT ![t] = disk[asked[t]]]
    /\ UNCHANGED <<world, service, asked, code, store, reply, history>>

Loaded(t) ==
    /\ At(t, "loaded", "sharing") /\ integrityError' = None
    /\ UNCHANGED <<world, cache, sharedStores, errorCode, asked, local, history>>

\* Mutant: the shared stores are trimmed before the new one is added.
ShareTrimmed(t) ==
    /\ At(t, "sharing", "inserting")
    /\ store' = [store EXCEPT ![t] = [corpus |-> asked[t], version |-> config[t]]]
    /\ sharedStores' = Append(IF Len(sharedStores) > SharedLimit THEN Tail(sharedStores) ELSE sharedStores, store'[t])
    /\ UNCHANGED <<world, cache, errorCode, integrityError, asked, config, code, reply, history>>

\* EvidenceStore.shared, under its lock.
Share(t) ==
    /\ At(t, "sharing", "inserting")
    /\ \/ \E i \in DOMAIN sharedStores :
            /\ SameKey(sharedStores[i], asked[t], config[t])
            /\ sharedStores' = Append(RemoveAt(sharedStores, i), sharedStores[i])
            /\ store' = [store EXCEPT ![t] = sharedStores[i]]
       \/ /\ \A i \in DOMAIN sharedStores : ~SameKey(sharedStores[i], asked[t], config[t])
          /\ store' = [store EXCEPT ![t] = [corpus |-> asked[t], version |-> config[t]]]
          /\ sharedStores' = LET all == Append(sharedStores, [corpus |-> asked[t], version |-> config[t]])
                             IN IF Len(all) > SharedLimit THEN Tail(all) ELSE all
    /\ UNCHANGED <<world, cache, errorCode, integrityError, asked, config, code, reply, history>>

\* _store_cache[corpus_id] = store: an entry that is there keeps its place.
Insert(t) ==
    /\ At(t, "inserting", "evicting")
    /\ cache' = IF Cached(asked[t]) = {} THEN Append(cache, <<asked[t], store[t]>>)
                ELSE [i \in DOMAIN cache |-> IF i \in Cached(asked[t]) THEN <<asked[t], store[t]>> ELSE cache[i]]
    /\ grown' = (grown \/ asked[t] \notin Counted)
    /\ UNCHANGED <<world, sharedStores, errorCode, integrityError, asked, local, seen, hit, alone>>

\* Mutants: the limit is compared with >=; with one too many.
FullAt(n) == n >= Limit
OneTooMany(n) == n > Limit + 1

TooMany(n) == n > Limit

\* The eviction loop: its test and its popitem are two steps.
Evicting(t) ==
    /\ \/ TooMany(Len(cache)) /\ At(t, "evicting", "popping") /\ UNCHANGED reply
       \/ ~TooMany(Len(cache)) /\ At(t, "evicting", "idle") /\ Finish(t, "served")
    /\ UNCHANGED <<world, service, asked, config, code, store, history>>

Pop(t) ==
    /\ \/ cache # <<>> /\ At(t, "popping", "evicting") /\ cache' = Tail(cache) /\ UNCHANGED reply
       \/ cache = <<>> /\ At(t, "popping", "idle") /\ Finish(t, "key_error") /\ UNCHANGED cache
    /\ UNCHANGED <<world, sharedStores, errorCode, integrityError, asked, config, code, store, history>>

\* Mutant: only the first failure of the service is remembered.
FailOnce(t) ==
    /\ At(t, "failing", "emitting")
    /\ integrityError' = IF integrityError = None THEN code[t] ELSE integrityError
    /\ UNCHANGED <<world, cache, sharedStores, errorCode, asked, local, history>>

\* The except branch: the code goes to _integrity_error; naming the corpus for
\* the telemetry event resolves it once more.
Fail(t) ==
    /\ At(t, "failing", "emitting") /\ integrityError' = code[t]
    /\ UNCHANGED <<world, cache, sharedStores, errorCode, asked, local, history>>

Emit(t) ==
    /\ At(t, "emitting", "naming") /\ errorCode' = None
    /\ UNCHANGED <<world, cache, sharedStores, integrityError, asked, local, history>>

Named(t) ==
    /\ At(t, "naming", "returned")
    /\ errorCode' = IF disk[asked[t]] \in Faults \ LoadFaults THEN disk[asked[t]] ELSE errorCode
    /\ UNCHANGED <<world, cache, sharedStores, integrityError, asked, local, history>>

\* The caller: _integrity_failure(corpus_id, query, self._integrity_error).
Refuse(t) ==
    /\ At(t, "returned", "idle")
    /\ Finish(t, IF integrityError = None THEN "corpus_load_failure" ELSE integrityError)
    /\ UNCHANGED <<world, service, asked, config, code, store, history>>

\* A rebuild, an edit or a repair of a corpus, or its registration.
Change(c) ==
    /\ c \in Registrable /\ changes < MaxChanges
    /\ changes' = changes + 1
    /\ \E d \in Versions \union ResolveFaults \union LoadFaults : disk' = [disk EXCEPT ![c] = d]
    /\ seen' = [t \in Threads |-> IF asked[t] = c /\ pc[t] # "idle" THEN seen[t] \union {disk'[c]} ELSE seen[t]]
    /\ UNCHANGED <<service, pc, asked, local, hit, alone, grown>>

Next ==
    \/ \E c \in Corpora : Change(c)
    \/ \E t \in Threads :
        \/ \E c \in Corpora : Ask(t, c)
        \/ Hit(t) \/ Resolve(t) \/ ResolveFails(t) \/ Resolved(t) \/ Raise(t) \/ LoadFails(t) \/ Load(t)
        \/ Loaded(t) \/ Share(t) \/ Insert(t) \/ Evicting(t) \/ Pop(t)
        \/ Fail(t) \/ Emit(t) \/ Named(t) \/ Refuse(t)

Spec == Init /\ [][Next]_vars

-----------------------------------------------------------------------------
(* Properties.                                                             *)

Replied(t) == pc[t] = "idle" /\ reply[t] # None

\* A reason is right when no other request ran meanwhile: the codes a request
\* shows come from a fault its corpus had during the request.
AloneReasonIsRight == \A t \in Threads : Replied(t) /\ alone[t] /\ reply[t] \in Codes => reply[t] \in seen[t]

\* A store a request has found is still cached when it moves it to the end,
\* so that a corpus once ready is never refused again, as long as no corpus
\* has been loaded that the service did not count when it started.
ReadyStaysReady == \A t \in Threads : Replied(t) /\ hit[t] /\ ~grown => reply[t] = "served"

\* However the eviction loops of several requests interleave, the cache is
\* within its limit once none of them is between its insert and its last test.
EvictionSettles ==
    (\A t \in Threads : pc[t] \notin {"evicting", "popping"}) => Len(cache) <= Limit

\* A request that missed the cache is served a store of its own corpus, in a
\* version that was on disk during the request, whatever was shared before.
MissIsCurrent ==
    \A t \in Threads : Replied(t) /\ ~hit[t] /\ reply[t] = "served" =>
        store[t].corpus = asked[t] /\ store[t].version \in seen[t]

\* test_unsupported_corpus_fails_safely: a search of a corpus that is not
\* registered has the status "unsupported_corpus".
Status(reason) == IF reason \in {"unknown_corpus", "registry_unavailable"} THEN "unsupported_corpus"
                  ELSE "corpus_not_ready"

UnknownIsUnsupported ==
    \A t \in Threads : Replied(t) /\ asked[t] \notin Registrable => Status(reply[t]) = "unsupported_corpus"
=============================================================================
