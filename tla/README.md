# Tjipto: TLA+ specifications, model checking and proofs

Tjipto answers questions about Indonesian legal texts from a corpus that was
built, validated and pinned by digest beforehand. Its promise is that every
answer rests on evidence that was verified: the server serves one validated
artifact set per corpus or refuses. This directory holds the specifications of
the parts of the code on which that promise depends, the configurations that
model-check them, and proofs of the main theorems.

Paths below are relative to the repository root (`src/` in `PROJECT.json`).

    tlc -config MCPromotion.cfg MCPromotion.tla      # one run; see "The runs"
    tlapm PromotionProofs.tla                        # one proof module

## 1. Inventory

### Components

| Component | Source | State | Operations | Status |
|---|---|---|---|---|
| UUD corpus builders, grounding | `src/tjipto/corpora/uud_artifact_baseline.py`, `corpora/uud/*_builder.py`, `corpora/uud/policy`, `grounding/promotion.py` | the rows of one build | extract, units, evidence, metadata, grounding, dispositions, propositions, graph, authority, decisions, support | modelled but for hard-coded corrections |
| PDF ingestion | `ingestion/pdf/*.py` | none | three readings of a page, finding text of one in another | its disagreements |
| Validation and attestation | `corpora/uud/validation.py`, `contracts/*.py` | none | the healths and row contract of one directory | modelled but for healths that decide nothing |
| Artifact promotion and trust anchor | `artifacts/pipeline.py`, `corpora/uud_artifact_baseline.py`, `artifacts/writer.py`, `artifacts/manifest.py` | final directory, temporary stage and snapshot, `data/corpus_registry.json` | rebuild: build, validate, promote file by file, roll back, refresh the digest | modelled |
| Verified corpus repository | `corpora/verified.py`, `core/manifest.py` | `_validated`, process-wide `_published_snapshots` and lock, `load_count` | `load` | modelled but for the record checks |
| Corpus registry | `corpora/registry.py` | `error_code` | `resolve`, `corpus_ids` | its effect on its callers |
| Service store, evidence store sharing | `runtime/service.py` (`_store`), `evidence/store.py` | `_store_cache`, `_integrity_error`, `EvidenceStore._shared_stores` | `_store`, `shared` | modelled |
| Ask cascade | `runtime/service.py`, `retrieval/answer.py`, `runtime/response.py`, `runtime/answer_arbitration.py` | none between requests | `ask` | modelled but for raw source quotation and anomaly replies |
| Retrieval router and search | `retrieval/*.py` | none | metadata, relation, structured and lexical lookups | modelled |
| Clarification, claim support, scope | `runtime/clarification.py`, `claim_support.py`, `query_semantics.py`, `scope_guard.py` | none; an option is a public handle | options, their resolution, claims | modelled |
| Viewer and PDF access | `runtime/viewer.py`, `runtime/service.py` (`viewer`), `evidence/bbox.py` | none | gates on a page, overlay or fall-back | the viewer of an answer's supports |
| Public targets and bookmarks | `runtime/service.py`, `runtime/bookmarks.py`, `runtime/api.py` | `_public_targets` (LRU), `_records` | answers, viewer, pdf, bookmark, list, delete | modelled |
| HTTP server | `runtime/http.py` | none of its own; one thread per request, one service | GET, POST, DELETE | its interleaving |
| External wording | `runtime/wording.py`, `gemini.py`, `openai_compatible.py` | none | one call to a provider, with a fall-back | not modelled |
| Catalog | `catalog.py`, `corpora/catalog.py` and its adapters | built lazily, then kept | search, document, related | as bookmark targets |
| Telemetry | `telemetry.py` | log | `emit` | its second `resolve` only |
| Web client | `apps/web/src` | chat, citation panel, PDF render task | ask, search, bookmark, render | not modelled |
| Scripts | `scripts/*.py` | none | evaluation, packaging | not modelled |

### How they interact

    builder process                          server process (a thread per request)
    ---------------                          -------------------------------------
    rebuild_uud_artifact_baseline            http.Handler -> api.handle_request
      build into stage                         -> LegalRuntimeService
      validate_uud_artifact_dir                    _store --(miss)--> CorpusRegistry.resolve
      os.replace, file by file                        |                VerifiedCorpusRepository.load
      refresh the registry                            |                EvidenceStore.shared
             |                                        v
             v                                     ask / viewer / bookmark
      data/final/uud, data/corpus_registry.json    _public_targets, BookmarkRepository
             ^                                        |
             +------------ read by load --------------+

The two processes share only files: nothing locks them against each other.
Request threads share the service object, the class-level caches of
`CorpusPublicationService` and `EvidenceStore`, and the registry's error code.
Some of these have locks (`_published_lock`, `_shared_lock`,
`_public_target_lock`, the lock of `BookmarkRepository`), some have none
(`_store_cache`, `_integrity_error`, `error_code`, `_validated`).

### What is hard

- **Partial promotion.** Files are renamed one by one. A rename may be retried,
  fail for good, be interrupted or be the last thing the process does; the
  roll-back may fail as well; the registry is truncated before it is rewritten.
- **A disk that changes while it is read.** A load reads the registry, the
  manifest, each artifact twice and the file stats, with a rebuild in between
  any two reads.
- **Shared caches with and without locks.** Two threads miss together, evict
  each other's entries, or read an error code of another thread's request.
- **Handles and bookmarks.** A handle lives in a bounded LRU dictionary that
  every request of every client touches; a bookmark is saved, completed, listed
  and deleted by different threads.
- **Three readings of one page.** The page text, the drawn lines and the words of
  a PDF come from three extractions that split, merge, lose or garble lines
  differently. A provision is parsed from the first, quoted from the second and
  highlighted by the third; all grounding is finding a text of one in another.
- **Rows rewritten by later builders.** A dozen builders share mutable rows: an
  aggregate becomes evidence and is taken back, a line is disposed of before it is
  known who owns it, an edge is made before its relation is proved.
- **A gate that sees rows only.** The validator compares rows with rows. A builder's
  mistake is found where two rows disagree, or not at all.
- **A cascade of routes.** The first lookup that owns a question answers it, filters,
  choices and named sources act at different places, and the evidence shown passes
  a gate whose checks the viewer repeats one request later on other inputs.
- **Late replies.** In the web client an answer may arrive after its question
  has been superseded.

`PROJECT.json` lists each of these hazards at its line, with the properties that
cover it, or why none does.

### What makes each component correct

- *Promotion*: an error leaves the old set; success leaves a loadable set; the
  anchor only ever names a validated set; a rebuild ends.
- *Loading*: what is returned is byte for byte what a manifest lists that the
  registry named and a validation report attests; a set is published once; the
  lock is always released.
- *Store*: a miss serves a version that was on disk during the request; a store
  that was ready stays ready; the cache settles within its limit; a refusal
  names the fault of its own corpus.
- *Targets and bookmarks*: eviction is exactly least recently used; nothing
  crosses corpora; deletion is final.
- *Build*: what may be an answer is a citation, stands on the lines its boxes draw,
  says all its provision says, and no line of the law in force is lost; the graph
  closes under its inverses.
- *Gate*: a sound build of a faithfully drawn document passes; whatever single row is
  wrong, what is served afterwards is said by the document on the lines it is
  attributed to.
- *Ask*: an answer keeps to the source that was fixed and to the choice that was made,
  a claim is proved by a proposition of what is shown, and a support that is offered
  opens with its own boxes.

## 2. Modules

| Module | Of | Uses |
|---|---|---|
| `ArtifactPublication` | what the pipeline promises to readers (abstract) | |
| `Promotion` | `rebuild_uud_artifact_baseline` and `atomic_promote_artifacts` | refines `ArtifactPublication` |
| `CorpusLoading` | `VerifiedCorpusRepository.load` against a changing disk | composes `Promotion` (`B == INSTANCE Promotion`) |
| `ServiceStore` | `LegalRuntimeService._store`, `EvidenceStore.shared` | takes one whole `load` as an action |
| `PublicTargets` | `_public_targets`, `BookmarkRepository` and the requests on them | |
| `UudSource` | the three readings of a page and finding a text in them | |
| `UudStructure` | units, chunks, evidence and its boxes | `UudSource` |
| `UudGrounding` | chunk grounding, retrieval units, metadata | `UudStructure` |
| `UudDisposition` | dispositions, conflicts, propositions, promotion decisions | `UudGrounding` |
| `UudRelations` | graph, amendments, article relations, inverses | `UudGrounding` |
| `UudAuthority` | authority contract, owners, meaningful support | `UudDisposition`, `UudRelations` |
| `UudBuild` | the build: one action per builder, and where it stops | `UudAuthority` |
| `UudGate` | the report's healths, the row contract, a wrong row, the store's lineage check | `UudBuild` |
| `Rows` | what a lookup does with a list of rows: filter, sort, cut | |
| `LegalStore` | the rows as the cascade reads them, the answer gate, the viewer, and what the validator has excluded | `Rows` |
| `QuestionReading` | scope, semantics, instrument and relation intent, structural target | `LegalStore` |
| `Retrieval` | the lookups and `route_retrieval` | `QuestionReading` |
| `Answering` | `ask` | `Retrieval` |
| `AnswerSession` | ask, choose, open: a reader's session | `Answering` |
| `SequenceFacts` | lemmas on sequences kept in order of use, and on the operators of `Rows` | `Rows`, the library's theorem modules |
| `RetrievalProofs` | lemmas on every lookup and on the router | `Retrieval`, `SequenceFacts` |
| `MC*` | the finite constants of a run | its module |
| `UudBuildProofs` | lemmas on what each builder makes, the invariant of the build and of its gate | `UudGate`, `SequenceFacts` |
| the other `*Proofs` | theorems and proofs | its module, TLAPS; `CorpusLoadingProofs` also instantiates `PromotionProofs`, `AnswerSessionProofs` extends `RetrievalProofs` |

Operators whose comment starts with "Mutant:" are deliberately wrong variants of
the operator below them. They are used by no specification; they record which
mistake in the code each property would detect.

### Promotion

A directory is a function from file names to contents. File names are numbers,
because promotion follows `sorted(stage_dir.iterdir())` and what matters about a
name is which side of `manifest.json` it falls on. An artifact's content stands
for its bytes, size and digest; the content of the manifest is its listing; the
trust anchor, the digest of a manifest, is therefore a listing too.

`pc` says where the builder is. One rename is one step, each failing try one
more (`Retry`, up to `MaxAttempts`, then `ReplaceFails`). `Interrupt` is a
`BaseException`, which the `except Exception` around the renames does not catch,
so that nothing is rolled back. `RestoreFails` is the roll-back of a file the
snapshot never had. `CleanupFails` is the removal of the temporary directory
raising after the last rename. `Crash` is the death of the process between any
two steps, and any exception while the registry is written. `TruncateRegistry`
and `WriteAnchor` are the two effects of `write_json`.

Builders exclude each other only by convention (`pipeline.py:55`: "one build per
final directory"); the model has one builder.

`Trusted` and `Intact` are what a reader makes of the disk; `Loadable` is both.

### ArtifactPublication

The promise in four actions: readers are served the current set or refused, and
the current set moves only to the last candidate, if the validator accepted it,
while readers are refused. `Promotion!PublicationSpec` maps `open` to `Loadable`,
`current` to the anchor and `candidate` to the staged listing.

### CorpusLoading

The variables of `Promotion` are the disk, and its actions run beside those of
the request threads. Two more writers are added: `Edit` (an artifact is
overwritten or deleted in place) and `Reanchor` (manifest and registry are made
to agree with the files by hand, as `tests/test_verified_corpus_contract.py`
does). The latter is why "the anchor is a validated set" cannot be used by the
loader, which must check the attestation itself.

A load is: `Resolve` (the config carries the anchor), `Trust`, then
`UseValidated` or `StatFails` or a first pass of `ReadFile`, the lock, then
`TakePublished` or a second pass and `Publish`. Every file read is a step. Every
`raise` of the code is an action that ends the load with that code and, under
the lock, releases it. What a thread parsed is accumulated in `got`, so that a
snapshot records the bytes it was made of and not the bytes now on disk.

A stat signature (size, `mtime_ns`) stands for the content: each write of other
bytes changes it.

### ServiceStore

`_store` step by step: the hit with its two dictionary operations (`Ask`,
`Hit`), `resolve` with the clearing and setting of the shared error code
(`Resolve`, `ResolveFails`, `Raise`), the rest of `load` as one step (`Load`,
`LoadFails`; its interleavings are the subject of `CorpusLoading`),
`EvidenceStore.shared` under its lock (`Share`), the insertion and the eviction
loop (`Insert`, `Evicting`, `Pop`), the failure branch with the second `resolve`
that names the corpus for telemetry (`Fail`, `Emit`, `Named`), and the read of
`_integrity_error` by the caller (`Refuse`).

`Counted` are the corpora that are registered when the service starts: the cache
limit is fixed then, and a corpus registered later is what makes the eviction
loop run at all.

### PublicTargets

A handle is the digest of a corpus and a request, so it is modelled as that pair.
Each critical section of `_public_target_lock` is one step. `viewer_public` is
`StartView`, then `View` or `ViewFails`, then `Project` and `Reply`;
`bookmark_public` is `StartBookmark`, then `SaveEvidence` (under the lock of the
repository), then `Complete` (which sets the public target in the saved
dictionary without that lock), then the projection; a listing is a copy followed
by one look-up per row. A request that touches the shared state once
(`Answer`, `LookOnly`, `SaveDocument`, `Delete`) is one step.

Clients are not trusted to have obtained a handle from their own session: any
handle may be presented in any corpus.

### UudSource, UudStructure, UudGrounding, UudDisposition, UudRelations, UudAuthority

The build is a pipeline of pure functions over rows, so its parts are operators, in
the order of the builders, and `UudBuild` runs them as actions. A document has one
page. A word is an opaque value (`KindOf` says what a word that begins a line
announces: a BAB, a Pasal, an Ayat, a stop, a marker); a text is a sequence of words
where the code compares compacted characters. What coordinates decide (which words a
box covers, whether two boxes overlap) is replaced by the drawn line and the place in
it: a box is the set of places it covers. Row identifiers are pairs of role and line,
in an order that stands for the order of the code's identifiers.

- `UudSource`: `lines` are the page text, `drawn` the lines of the drawing, the
  `wordless` ones have words without a box. `Found` is `_matching_sequence`: a run of
  drawn lines that says the text, else its lines one by one; `AlignWords` is the word
  alignment; `TextBoxes` falls back to the page box (`_fallback_bbox_rows`).
- `UudStructure`: units with the parents the parse knows, BABs and instrument parts
  that `specs.py` inserts, the structural contract that leaves one parent; an
  aggregate's evidence is the text of its children, kept only if its boxes say exactly
  that text.
- `UudGrounding`: spans of chunks and units (`apply_chunk_grounding`), retrieval
  units, and the metadata with its three attempts at grounding a quote.
- `UudDisposition`: each span's one disposition, the words given back to a span, the
  clauses of the leaf units as propositions, and the promotion decision.
- `UudRelations`: structure edges, amendments with `menjadi` pairing, exact relations
  by words inside the supporting geometry, materialised inverses, the policies that
  stop the build.
- `UudAuthority`: the authority of spans and evidence, the one owner of every line,
  meaningful support, and its failures.

### UudBuild and UudGate

`CorporaAssumption` says what the build is started on: the documents of
`SOURCE_DOCUMENT_SPECS` have one role each, one of them is the original, parts are cut
from amendments only and at lines that exist, each from a line of its own, and what a
reviewer calls normative legal text he excludes. A part stands between two texts that
are looked for on the page (`structure_builder.py:129-137`), so it is never empty; its
row is an instrument record, an ATURAN TAMBAHAN or a Pasal, never a BAB. The fact about
reviews is one of `data/review/uud/meaningful_support_review_decisions.json`: two rows of
structural context and one exclusion. Without it a reviewed line could be an answer that
no evidence stands behind. Fewer than a hundred lines, and one part from a line, are
bounds of the names of units, which count lines where `allocate_id` counts calls: they
keep the names apart as the counter does.

`table` is the set of artifacts; one action per builder call of
`_rebuild_uud_artifact_baseline_at`, in its order, each with the exception that stops
the build as a second action (`ExtractFails`, `EvidenceFails`, `MetadataFails`,
`SupportBuildFails`, and the policy branch of `BuildGraph`).

`LeaveWrong` is a fault model: a builder leaves one row wrong, that is one of eighteen
kinds of loss, exchange or false flag in any row. `Validate` applies the healths of
`_REQUIRED_HEALTH_STATUSES` and `_validate_schema7_contract`. `Served` is what
`source_lineage_reason` lets the store show of an accepted corpus.

### LegalStore, QuestionReading, Retrieval, Answering, AnswerSession

A store is a record of sequences in file order, as `EvidenceStore` reads them. A
question is a record of what the parsers and phrase lists find in it; matching phrases
in a string is not modelled, everything decided from the matches is.

- `LegalStore`: lookups, `validate_answer_candidate` with its reasons as guards
  (`Accepted`), the payload of a support with `can_resolve` (`CanResolve`), and
  `Viewer`: request validation, resolution, and highlight, page or refusal.
- `QuestionReading`: `resolve_source_scope`, `interpret_query`, the instrument and
  relation decisions, `_structural_request`.
- `Retrieval`: `metadata_lookup`, `relation_lookup`, `structured_lookup`,
  `lexical_search`, and `route_retrieval`, in which the first lookup that owns the
  question answers it, also with nothing.
- `Answering`: `Ask` from the early replies (a summary, a source document to open, a
  part of an instrument) through the choice, the clarification, the claims and
  relations to the public reply.
- `AnswerSession`: a question is asked, an option of its clarification chosen, a
  support opened. Each of these is a request of its own, and only the handle ties them.

The constants of a session carry the assumptions that the code justifies, and TLC
evaluates them on every corpus and question of the runs:

- `Sound(st)`: what holds of a corpus that was built, attested and loaded.
  - `RowsAreSound`: an identifier is that of one row. `_parse_and_validate` refuses an
    artifact that repeats one (`verified.py:354-361`).
  - `PropsAreSound`: the selectors and the overlay of a proposition are on its own boxes.
    Errors of the schema-7 contract (`validation.py:2034-2072`) and of the selector
    health without which the report does not pass (`_selector_geometry_health`, 2519-2568).
  - `EdgesAreSound`: a relation of articles has a target, and no box in another document
    than its evidence; no relation is an addition or proved by a row that is not evidence.
    The contract (`validation.py:2152-2191`) requires the evidence, the target and that
    the boxes, those of the target apart, are the evidence's own. It would pass the type
    `ADDS` (2157) and looks at no document of a target's box: both rest on
    `build_article_amendment_relations` alone, which makes rows of four types
    (`relation_builder.py:244`) and takes the target's boxes from the evidence's document
    (260-289). `tests/test_graph_contract.py:493` asserts that no relation is an addition.
  - `OfDocuments`, the relations of whole documents, are those that
    `build_document_relations` makes (`relation_builder.py:130-143`), and their inverses.

  The rest of `validate_uud_artifacts` is not reached for schema 7, for which it returns at
  `validation.py:763`, and none of it is used here.
  What the gates of an answer check themselves is *not* assumed: lineage errors, boxes
  that are not drawn, rows without boxes or not to be shown all occur in sound corpora,
  and the six broken corpora of the runs are sound.
- `WellRead(q)`: the parsers return lists of references, clauses and known sources.
- `SummaryIsUnsaid(st)`: no evidence has the word "uud" of the question a summary is
  turned into (true of the 650 rows checked in). Without it a
  clarification could be offered for a summary, and its choice would be dropped.
- `NoneAssumption`: the name of no kind of choice stands for "none".

## 3. The runs

| Run | Bounds | Distinct states | Result |
|---|---|---|---|
| `promotion` | three artifacts around the manifest, one of them written by some builds only; four listings, one of them invalid; two tries; crashes | 3 715 | holds |
| `promotion_anchor` | the same, no crashes | | violated |
| `corpus_loading` | two threads, two artifacts around the manifest, two listings, two rebuilds or edits, one try, one published snapshot | 243 318 | holds |
| `corpus_loading_race` | the same | | violated |
| `public_targets` | two corpora, four requests, one document, a dictionary of two handles, two threads (interchangeable), two bookmarks | 492 054 | holds |
| `public_targets_open` | the same | | violated |
| `service_store` | two corpora, one of them registered after the start, two versions, one fault of `resolve` and one of `load`, a shared cache of one, two threads, one change of the disk | 407 221 | holds |
| `service_store_reason` | the same, one corpus never registered | | violated |
| `uud_build` | 169 corpora of three documents: one of four pages in each of its drawings (as it is; a line split, merged with the next, lost, without boxes, marked, marked inside; a text layer that is broken or unreadable), beside an amendment or a consolidated text and an original; for three of the builds any one row wrong | 4 886 | holds |
| `uud_build_owner` | the same | | violated |
| `answer_session` | eight corpora (two whole, six with one kind of row the gates must stop), 58 questions, no filter, two sources and an invalid one | 3 467 | holds |
| `answer_session_proof` | the corpora and questions with relations | | violated |

What they show:

- `promotion`. `ErrorsLeaveFinalAlone`: a build error, a validation error or a
  completed roll-back leaves the directory as it was. `AlignedIsLoadable`: a
  rebuild that succeeds leaves a loadable set even if it began with the remains
  of an interrupted one. `UntrustedIsLatePromotion`: if a whole registry does not
  trust the manifest on disk, that manifest is a validated one whose promotion
  went past `manifest.json` and never reached the anchor; no other accident
  separates the two. `PublicationSpec`: the refinement. `PromotionEnds`.
- `corpus_loading`. `ServedIsVerified`, `ServedIsAnchored`, `PublishedOnce`,
  `LoadsEnd`, as in section 1.
- `public_targets`. `LeastRecentlyUsed` compares the dictionary with the full
  history of uses. `RepliesStayInCorpus`, `DeletedStaysDeleted`, and
  `ListedHasItsTarget`: a listing may catch a bookmark between its save and its
  completion, and then shows it without a target, but no later one does, and none ever
  shows the target of another request that saves at the same time.
- `service_store`. `MissIsCurrent`, `AloneReasonIsRight`, `ReadyStaysReady`,
  `EvictionSettles`. The second and the third carry a premise: the error cells are
  shared, so a reason is only reliable for a request that overlapped no other;
  and once a corpus registered after the start has been cached, a hit may raise
  `KeyError`, because two eviction loops that interleave may evict more than they
  must, down to an empty cache.

- `uud_build`. `AnswerIsCitable`, `CitationStandsOnItsLines`, `CitationSaysItsText`,
  `FurnitureIsNeverQuoted`, `ParentHoldsChildren`, `WordsChosenOnce`, `GraphCloses` and
  `NoLawLost` are about the built rows, whatever the drawing did to the page; what a
  reviewer has excluded from the law is no answer, and `NoLawLost` says so. Three of
  them have a premise that is part of the result: where a document says the same words
  twice, text search and geometry each take the first occurrence, so a unit whose words
  another unit repeats is excluded. `CleanBuildPasses`, `PublishedIsServed`,
  `ServedIsDrawn` and `LossIsNoticed` are about the gate. Whatever row is left wrong,
  what is published is served, what is served is said by the document on its lines and
  lies in its boxes; a unit, a decision or an evidence does not get lost, no amendment
  leads elsewhere and no line is read in other words without an error of the report. They state what the gate does, and
  their premises what it does not: boxes that belong to another quotation pass the gate
  and are stopped by the store's lineage check, so that the citation is dead but never
  wrong; a leaf that carries another unit's whole content passes; so does a unit that
  consistently hangs under another parent, and a clause drawn as another one of the same
  line.
- `answer_session`. `SupportOpens`, `QuoteIsDrawn`, `AnswersKeepToSource`,
  `ChoiceHolds`, `AnswerShowsSupport`, `ClaimIsProved`: the relation
  between what was asked, what is shown and what opens afterwards. `SupportOpens`
  leaves out the two kinds of support that do not open (disagreements 5 and 6 below),
  `AnswersKeepToSource` the routes of instrument parts and of relations between
  documents, which ignore the filter, an invalid one included.

Why the bounds are enough. The interesting cases of a promotion are a file before
and a file after the manifest, a file that a build adds, and a manifest that
differs while some files agree: all occur with three artifacts and two contents.
The loader needs two rebuilds, because the anchor a thread holds must be able to
go stale and come back, and a published cache smaller than the number of
listings. The dictionary must be smaller than the handles in use and larger than
one, so that order matters. Two threads are enough for each race listed under
the hazards, all of which are between one reader and one writer of a cell; the
theorems below hold for any number. The four pages of `uud_build` contain between
them every construct the builders distinguish (BAB, Pasal, Ayat, inserted and deleted
chapters, repeated words, a misprint, instrument parts, renumbering, signatories,
metadata), and each line of each page is cut, merged, lost or marked in turn; one
defect at a time is enough, because every operator that looks for a text looks at the
lines around it only. The questions of `answer_session` are one for every way through
the cascade, and each broken corpus breaks one guard of the answer gate. TLC explores
each of these state spaces to the end. No bound hides a deadlock: deadlock is checked
in every run. The `public_targets` run, which checks invariants only, takes its
threads as symmetric; `corpus_loading`, which checks liveness, does not.

### Fairness

- `Promotion`: `WF_vars(Step)`. A builder process that is running keeps
  executing. Nothing is assumed about crashes, and nobody has to start a rebuild.
- `CorpusLoading`: `WF_vars(Continue(t))` for each thread: a request thread that
  can run keeps running. Python's lock makes no promise about order, so nothing
  is assumed about who gets it next; `LoadsEnd` therefore says that a load ends
  or meets a lock another thread holds, and that a held lock is released.
- The other modules state safety only. A build and an answer are sequential code
  that calls one function after the other, so that their end needs no scheduling.

### Disagreements between the code and what is said of it

1. `promotion_anchor`, `pipeline.py:49`. Removing the temporary directory is part
   of `atomic_promote_artifacts` and comes after the last rename. When it raises,
   the exception leaves `rebuild_uud_artifact_baseline` before
   `_refresh_trusted_manifest_digest`: the manifest is new, the registry names the
   old one, no load succeeds, and `require_canonical_build_environment` refuses
   the next rebuild. No crash is needed.
2. `corpus_loading_race`, `verified.py:150`. The stat signature recorded with a
   snapshot is taken after the files were hashed. A file that changes in between
   is recorded as unchanged, and the cached snapshot is returned from then on
   although the file is not what the manifest says. (What is returned is still the
   verified snapshot: `ServedIsVerified` holds.)
3. `public_targets_open`, `service.py:190`. The dictionary drops the handle of a
   saved bookmark like any other; the bookmark stays listed as active and its
   target answers `not_found`.
4. `service_store_reason`, `verified.py:128`. The error code is shared by all
   threads; a corpus that is not registered is reported as not ready if another
   request resolves its own corpus at the wrong moment.

5. `uud_build_owner`, `proposition_builder.py:96`. The record a proposition cites is
   the one that shares most spans with its unit; the records of the Pasal and the BAB
   around it share as many, and the smallest identifier decides. Of the 877
   propositions checked in, 795 cite the evidence of another unit. The citation of a
   claim is made from that proposition and that evidence, and the viewer, which wants
   both to be of one unit, refuses it.
6. `answer_session_proof`, `service.py:1986`. The viewer takes the first relation of an
   evidence; when several rest on one record (the scope of an amendment, a clause), the
   supports of all but the first open neither highlight nor page, although
   `docs/foundation.md:25` promises at least the page.

Seen while modelling, without a run of their own because no sentence of the docs or
tests contradicts them clearly enough:

- An option of a clarification may lead nowhere: a question that names two provisions
  offers both, and asked again with one of them the lookup finds no row
  (`clarification.py:34`). `ChoiceHolds` says that what is shown, if anything, is what
  was chosen.
- The heading of a BAB is answered with the row of the whole BAB, cut to its heading
  (`_quote_projection`), and shown as a final citation although its authority is
  structural context.
- The support rows of a relation between articles lose their relation and boxes on the
  way to the API (`_article_relation_citation`) and are shown without a link.
- A scope that the guard recognises is always refused: the clarification and the reuse
  of the routed rows behind it are unreachable.
- A question for a summary asks itself again (`"BAB UUD"` or the scope of an amendment)
  and drops the choice of a clarification (`service.py:723-739`). It does no harm,
  because no such question can be offered one: the rewritten question names an
  instrument part, which is answered before any clarification, or has a word that no
  row has (`SummaryFacts` in `AnswerSessionProofs`).
- Two required healths of the report count nothing: `instrument_exact_grounding` and
  part of the precision checks (`validation.py:3380-3443`) look at a `status` that
  retrieval rows no longer have.

## 4. The proofs

Each theorem holds for all values of the constants under the `ASSUME`s of its
module, which TLC evaluates in the runs.

`PromotionProofs`. The properties are not inductive: they speak of an idle
builder, and what makes them true is where each file stands while it works. `IInv`
adds that the anchor is valid and is the snapshot's manifest while a rebuild runs
(`AnchorIsSnapshot`), that nothing has been touched before the promotion
(`UntouchedBefore`), that the stage holds what its manifest lists (`StageIntact`),
that every file of the final directory is either promoted, and equal to the
stage's, or not, and equal to the snapshot's (`Split`), which files remain
(`TodoIsTheRest`, `AllPromoted`), and which outcomes can be pending. From it:
`TypeCorrect`, `FailedRebuildIsHarmless`, `SuccessfulRebuildIsLoadable`,
`UntrustedIsAccepted`, and `PromotionPublishes`, the refinement
`Spec => PublicationSpec`.

`CorpusLoadingProofs`. `LInv` has four parts: the shape of the threads' state,
that every cached snapshot is verified, that every result and every partial
parse agrees with the digest its thread wants, and that only the holder of the
lock publishes. It uses no fact about the disk: `LoadsAreVerified` and
`LoadsAreAnchored` hold whoever changes the files and however often.
`LoadsPublishOnce` is an action property that follows from the same invariant.

`PublicTargetsProofs`. `TInv` says that a thread that was given a handle is in
that handle's corpus, and that bookmark numbers beyond those handed out are free.
`RepliesAreLocal` and `DeletionIsFinal` follow for any number of threads, corpora,
bookmarks and any limit. `MInv` adds that a thread about to complete a bookmark has the
target it was saved for, and that whatever is incomplete has such a thread; since a new
bookmark has an id that no thread holds, saves do not disturb each other, and
`ListingsAreComplete` follows. `DInv` says that the dictionary is the tail of the history
of uses, which has no repetition; `UsedStaysLast` shows that writing or finding a
handle and evicting keep it so, in the three cases of a handle that is new, one that
is remembered and one that was evicted. `DictionaryIsLRU` and `TargetsTypes` follow.

`ServiceStoreProofs`. None of the properties is inductive. `SInv` says at each place
of a request what it holds: that what is on disk for the asked corpus has been seen,
that a configuration or a store it carries is one of the versions seen
(`HoldsCurrent`), that a request that runs alone finds its own fault in the two shared
cells (`HoldsItsCode`), and that the cache has one entry for each corpus
(`CachesOK`). From it `ServiceTypes`, `MissesAreCurrent`, `ReasonsAloneAreRight` and
`EvictionsSettle`. `ReadyIsServed` needs a second invariant, `NeverFull`: as long as
only counted corpora were loaded, the cache holds at most one entry for each of them
(a pigeonhole, `CountedFit`), nothing is ever evicted, and the entry a hit has found
is there when it is moved to the end.

`LoadingTypes`, the type invariant of the loader, needs the disk after all: what a
thread is asked to load and what it records as a signature are listings because the
builder, an edit and a re-anchoring leave a directory a directory. The builder's part is
not proved again: `CorpusLoadingProofs` instantiates `PromotionProofs` and shows that
the steps of `B` are its steps (`DiskStepIsTheBuilders`). `CInv` adds to `LInv` that a
load under way wants a listing (`ThreadTypes`), that the holder of the lock is in its
second pass (`LockTypes`), and that the caches are typed and within the limit
(`CacheTypes`).

`RetrievalProofs` and `AnswerSessionProofs`. The properties of a session speak of what a
reply shows, and a reply is a function of the question, the filter and the choice. The
invariant, `SessionInv`, is therefore short: the session holds the reply to its own
question, filter and choice; the choice was offered for that question (`Offered`); what
is open is a support of that reply, as the viewer shows it. The work is in the lemmas
about one reply:

1. `RetrievalProofs`: each lookup returns rows that stand for rows of the corpus, and
   what it says of them is so: they are of the source that was asked for, a lexical row
   that is `whole` has all the words, a person found is a signatory of that fact. The
   router (`RouteFacts`) keeps that through its filters, ranking and limits.
2. One support: a row that the gate accepts (`AcceptedFacts`) is drawn, quotes only its
   own lines and boxes, and opens in the viewer (`RowSupport`, `ClaimSupportFacts`,
   `RelationSupportFacts`). This is where the gate of one request is matched with the
   checks of the next: the viewer looks the evidence up again by its identifier, finds
   the same row because identifiers are unique, and takes the first relation of it.
3. One reply: `ReplyHolds` for an answer from rows, from edges, for a part of an
   instrument and for a claim, and so for `AskQuery` and `Ask`.
4. The options of a clarification: each has a kind and a value that a later request can
   resolve (`ClarificationFacts`, `Offerable`); a question the instrument decision owns
   is offered none, and neither is a summary (`OptionsOffered`, `SummaryFacts`). This is
   what `ChoiceHolds` and `AnswersKeepToSource` need of the past: a choice reaches the
   filter it was made for, because nothing that answers before the filter could have
   offered it.

From these follow `SessionTypeOK`, `SessionSupportOpens`, `SessionQuoteIsDrawn`,
`SessionKeepsToSource`, `SessionChoiceHolds`, `SessionShowsSupport`
and `SessionClaimIsProved`: all the properties of the run `answer_session`, for any number
of sound corpora, any questions and any filters. `SessionLexicalIsWhole` says the same of
a lexical answer, that it is one row with all the words of the question; being about one
reply, it is proved only and not a property of the run.

`UudBuildProofs`. The build is a pipeline, so its invariant, `BuildInv`, says of each
artifact what it is from the builder that writes it to the last one, and there is one
lemma for each builder: it is handed the rows as the invariant says and leaves them so.
(On the corpora of `uud_build` TLC finds `BuildInv` and `GateInv` to hold, with `Nat` cut
to an interval.)

1. Units and evidence: every unit has a name of its document's role (`UnitFacts`);
   evidence is of a unit, and of the consolidated text one for each (`EvidenceFacts`).
2. Grounding: the consolidated text has provisions only, no part is cut from it and none
   is set aside by a review; so evidence that is exact, shown and on lines has a chunk
   that may be loaded, and is published (`RetrievalPublished`).
3. Dispositions: each line has one, and only a unit of the consolidated text gives the
   force of the law (`DispositionFacts`, `DisposedFacts`).
4. The graph: whatever makes an edge, its ends are among the nodes (`GraphFacts`); of
   the edges with the same ends and type one is inverted, and that one answers all of
   them (`InversesMade`).
5. Authority: what speaks as the law is citable, exact and shown (`AuthorizedEvidence`).
6. Support: a lawful line without a review has an owner, since the build has not stopped,
   and the owner is evidence (`OwnerIsEvidence`: of the candidates with the fewest lines
   one has the smallest name, which takes the finiteness of what they stand on). The rows
   of its run have the same owner, so that all of them are lines of that evidence
   (`SupportFacts`).

From these `AnswersAreCitable`, `LawIsKept` and `GraphIsClosed`, for any documents
`CorporaAssumption` allows, any drawing of their pages, and any row that is left wrong
after the build.

What a citation says is a second invariant of the pipeline, `QuoteInv`: a citation that
may be quoted has all of its unit's words in its quotation, whatever the drawing did to
the page (`CitationsSayTheirText`). `BuildInv` does not carry it, since it speaks of the
words and not of the names of rows. It takes four steps.

1. Every unit says something (`UnitsSpoken`): it begins with the line that opened it,
   and the parts of an amendment are not empty.
2. A leaf is drawn in whole lines or in the words that align with its text. Either way
   its quotation is what its boxes say, and has its text in it (`LinesDrawn`,
   `WordsAligned`, `WordsDrawn`, `LeafDrawn`). That is only so because `build_evidence`
   takes the words in their order and gives up when one is missing.
3. An aggregate is evidence only when every unit under it is, and its quotation is theirs
   one after the other in the order of the document, beginning with its own heading
   (`AggregateHolds`, `DescendantsFacts`, `AggregateDrawn`).
4. The builders after that change neither texts nor quotations nor boxes, and when a
   quotation is found in the document, the lines it is found on say it (`FoundLines`,
   `SpansSay`).

The gate is proved about in the same module. `Validate` looks at rows only, so what it
can tell rests on what the build has made of two of them; for that `BuildInv` also says
that a unit has one name and one chunk (`UnitsMade`), an evidence and a row of metadata
one name (`EvidenceMade`, `MetadataMade`), that a disposed line says what the page says
(`PagesDisposed`), that an amendment leads where the relation it names does
(`AmendmentsLead`), and that there is one decision for each row that needs one and no
other (`DecisionsMade`). A third invariant, `GateInv`, follows the row that is left
wrong. Before the report it tells (`Told`): a lost unit leaves a chunk without one, a
lost decision a row without one, a misled amendment disagrees with its relation, a line
in other words with the hash of its page (`WrongIsTold`). None of that can be seen
otherwise, which is why names have to be unique: a second unit of the same name would
stand in for the one that is lost. A report without an error tells nothing (`NoErrors`,
`ToldIsAnError`), so an accepted build has nothing left wrong of these kinds, and its
lines still have the words of the page. `LossesAreNoticed` is the first half of that.

`PublishedAreServed` is about evidence, in both directions: what an accepted build has
published the store serves, and what the store serves is said by the document on its
lines. The store asks for a quotation that is not empty, and that both the lines and the
boxes say; the gate compares it with the lines only. So the proof needs what the build
has made of the boxes. Its invariant is `ServeInv`: `Whole` is an evidence as the build
leaves it, whose boxes and whose lines both say just its quotation, and `Servable` one as
it may reach the gate; of the evidence of a document at most the wrong one is not whole
(`OneRowIsWrong`). An evidence whose quotation, or whose lines, are another's has still
the boxes it was built with: if the gate finds the quotation on the lines, the boxes say
it too, since they said the same as the lines before (`WrongServable`, `WrongIsServable`,
`WholeServable`). That it is not empty rests on `QuoteInv`. Evidence drawn as another is
left out of the first direction, since the gate accepts it and the store refuses it: the
citation is dead but never wrong. The second direction rests on the lines alone, which
have the words of the page in an accepted build (`GateInv`). On the corpora of
`uud_build` TLC finds `QuoteInv` and `ServeInv` to hold, with `Nat` cut to an interval.

`SequenceFacts` holds what both caches rest on, taking an entry out of a sequence and
appending it, and what the operators of `Rows` return. The prover knows no induction
over an operator. For lists it is replaced by the least number of `WFMin`: if a filter
went wrong, it went wrong at a first place (`LeastNumber`, `ClimbTo`,
`RecursionExists`). `Rows` is written for that: a comprehension is a recursive function
over the places of the list, or a list of the places it takes, and a sort is given by the
number of entries ahead.

Only model-checked:

- the liveness properties `PromotionEnds` and `LoadsEnd`, since fairness and
  `ENABLED` are out of the prover's reach;
- four properties of the build: `CitationStandsOnItsLines`, `FurnitureIsNeverQuoted`,
  `ParentHoldsChildren` and `WordsChosenOnce`. They compare what a search by text finds
  with what a search by geometry finds, and whether the two agree depends on how a page
  is drawn: words given back to a span need not be next to each other on their lines.
  They are claims about the layouts the run goes through and not about all;
- two properties of the gate. `CleanBuildPasses` says that no check of the report fails
  on an untouched build, which is again a claim about layouts. `ServedIsDrawn` needs
  that a lost evidence is told by a row that refers to it, and which rows do depends on
  the document.

## 5. What is not modelled, and why

Of the build:

- the hard-coded corrections of the fourth amendment (BAB IV and Pasal 23B, Pasal 37,
  ATURAN TAMBAHAN): data, not rules;
- characters, coordinates and overlay clipping: a word stands for its characters, a
  line for its place on the page; documents of more than one page, whose lines would
  only carry a page number more;
- the block of metadata of the consolidated text, whose quotation comes from
  `specs.py`, is page text in the model; the constitutional semantics fields and the
  failure wording are left out;
- segmentation labels leave out the second amendment in the code, and so do they here;
- an original document is part of every corpus, because the relations between
  documents need it.

Some definitions keep of a rule only what the rows of the model tell apart: `SplitDeleted`
splits any BAB that says it is deleted where the code splits BAB IV
(`legal_unit_builder.py:53`), `DeletedBy` takes the articles a deletion names where the
code has a list of two labels (`graph_builder.py:255`), and `SpanWords` gives a span the
words of its line, whatever made its box missing (`span_disposition_builder.py:275-281`).

Of the gate: the error about geometry nothing refers to (`validation.py:2137`), so that the
modelled gate accepts more than the code and what is proved of accepted corpora still
holds; healths that do not decide the report's status (the query-intent healths,
`validation.py:3547-3846`), the rows of the runtime projection, and code nothing calls:
`policy/validation.py`, `_validate_schema6_contract`, `_aggregate_evidence_errors`,
`_validate_relation_support`, and `verified.py:226-239`, `311-342`, `388-435`.

Of the cascade: the quotation of raw source text and the replies about source
anomalies (`service.py:2114-2490`), which return before the rest and whose viewer
targets are their own; the exact-citation route, which no question about this corpus
reaches; the rows a graph expansion adds, which no answer accepts; dense retrieval,
which is not implemented. Fields that have one value in all rows are dropped
(status final, pages, publication of retrieval rows), `temporal_context` is the
role, the unit row stands for the unit and its chunk, a box has the name of the line
it draws, the words of a claim are a set. The lexical score is reduced to the words
shared, then the shorter row, then file order.
`GroundedText` compares the fields the rows of the store have (`answer.py:113-122`,
`281-289`); whether a question names a family of relations is a field of the question, and
the labels of the options are left out (`clarification.py:100-121`). The order and the
maximum of the options, and filters that contradict each other, are abstracted.

The schema checks of single records in `verified.py` are one verdict per artifact set
(`Attested`). External wording is off unless a key is configured and replaces text
only. The catalog appears as bookmark targets, telemetry by its second `resolve`.
The web client and the scripts are not modelled.

## 6. Plan

Done, in the order of importance: the promotion (1), the loader over it (2), the
public targets (3), the store (4), the answers (5), the build and its gate (6), the
proofs of (1) to (5), the type invariant of the loader (7), the proofs of the graph and
the support of the build, and of what the gate guarantees of any documents (8), of what
a citation says and of what the store serves (9).

Left:

10. `ChatSession` and `PdfRender`, the web client: replies out of order, and
   ownership of a render task.
11. The catalog composed with `ServiceStore`: built while the corpus is not ready, and
    a store that is newer than the catalog.
