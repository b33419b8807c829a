# chromium-roots: models, model checking and proofs

`chromium-crs` downloads Chrome's PKI Metadata component, authenticates it,
validates the Chrome Root Store inside, and keeps three files in the repository:
`chromium-crs/data/crs.pb` (the payload), `chromium-crs/data/SOURCE.toml` (its
provenance) and `chromium-roots/src/generated.rs` (the library that users
compile). `chromium-roots` adds constant functions over the generated list.

These modules model that path from the network to the compiled constants. TLC
checks them on small instances and TLAPS proves the most important properties
for every value of the constants.

File names below are short for: `component.rs` of the library
(`chromium-crs/src/component.rs`), *bin* `component.rs`, `generator.rs`,
`codegen.rs` and `main.rs` (`chromium-crs/src/bin/chromium-crs/...`), `lib.rs` of
each crate as said.

## 1. Inventory

| Component | State it keeps | Operations | What is hard | What makes it correct |
|---|---|---|---|---|
| Snapshot commands (*bin* `component.rs`, `main.rs`, `generator.rs`) | the three files; what a running command has read | `update`, `generate`, `check`, `check-latest` | three files written one after the other, truncate-then-write, killed anywhere; another command in between; a file read twice | success means the three files agree; `generated.rs` is never a mixture; the newest payload is eventually checked in |
| Download (`component.rs`) | current URL, loop counter | `latest_stable_browser_version`, `download_component_crx`, `resolve_redirect`, `edge_mirror_url`, `read_limited` | servers choose the URLs; fallbacks and redirects share a counter; size limit | no request outside the allowlist; bounded work; no truncated package |
| CRX3 verification (`crx3.rs`) | proof flag and counter, names and sizes seen | `verify_and_extract`, `extract_payload`, `read_entry` | two lists of proofs, one pinned key; declared against actual sizes | nothing is unzipped before authentication; accepted exactly if sound |
| Conversion and validation (`protobuf.rs`, `generator.rs`, `certificates.rs`) | hashes, IDs and anchors seen so far | `parse_root_store`, `validate_anchors`, `generate_component` | repetition across published and unpublished entries; two trust defaults | published exactly if sound; unique; in source order |
| Trust Anchor ID validation (`certificates.rs`) | start-of-component flag | `validate_trust_anchor_id` | zero groups, unfinished components | accepted bytes are canonical encodings |
| Constants (`chromium-roots/src/lib.rs`) | arrays sized in one pass and filled in another | `trust_anchor_ids`, `encoded_trust_anchor_ids`, `trust_anchor_id_for_certificate` | the passes must agree; one-byte prefix of a `usize`; first-match lookup | the encoding reads back as the IDs; the lookup is exact |
| Wire guard and decoder (`wire.rs`, `protobuf.rs`) | remaining input; values of the open messages | `validate_root_store`, `RootStoreMessage::decode` | the schema is declared twice; varint limits, nesting, repeated singular fields | accepts exactly the well-formed messages; the decoder then reads the same fields, all of them |
| Lock file (*bin* `component.rs`, `generator.rs`) | one slot per field | `write_source_lock`, `parse_source_lock` | comment cutting, duplicate keys, texts cut short or overwritten | what is written parses back; each field on exactly one line |
| Code generation (`codegen.rs`) | position in a number's digits | `generate_source`, `constraint_tokens`, `integer_literal` | the smallest `i64`; nine look-alike fields copied twice | what users compile is the signed constraint set |
| BoringSSL example (`examples/btls.rs`) | trusted store, untrusted anchors | `build_certificate_store`, the verification callback, the report | anchors with flags that BoringSSL does not know | connects only where Chromium would |
| Update workflow (`update-check.yml`) | update branch, pull request | weekly checkout, `update`, compare, push, open request | the branch moves in between; requests are closed, merged, reverted | nobody's unseen commit is pushed away; the newest component is finally proposed |
| Release workflow (`release-plz.yml`, `check-release-commit.py`) | active and waiting run | verify, skip, guard, release | replaced waiting runs, ways to merge, paging | only verified commits are released; the tip gets its run |
| CI, API overview example, data files, schema file | none | - | - | - |

How they interact. `update` and `check-latest` call the download, which calls the
CRX3 verification; its payload goes through `generate_component` (the wire guard,
conversion, validation of certificates and IDs, code generation). `update` writes
the three files; `generate` and `check` read them back through the lock parser.
The compiler evaluates the constants over `generated.rs`. The workflows run the
commands and know only their exit status and the files. There are no threads and
no shared memory: components share files, and concurrent commands share the
working tree without a lock.

## 2. Modules

| Module | Models | Checked by | Proofs |
|---|---|---|---|
| `AuthenticatedRelease` | abstract: what the commands promise about `generated.rs` | (as a property of `SnapshotFiles`) | |
| `SnapshotFiles` | the four commands over the three files | `MCSnapshotFiles` | `SnapshotFiles_proofs` |
| `ComponentDownload` | `download_latest` up to the verifier | itself | `ComponentDownload_proofs` |
| `Crx3Verifier` | `verify_and_extract` | `MCCrx3Verifier` | `Crx3Verifier_proofs` |
| `AnchorSelection` | decoded message to published anchors, and the lookup | `MCAnchorSelection` | `AnchorSelection_proofs` |
| `RelativeOid` | `validate_trust_anchor_id` | `MCRelativeOid` | `RelativeOid_proofs` |
| `TrustAnchorIds` | constant evaluation of the two ID functions | `MCTrustAnchorIds` | `TrustAnchorIds_proofs` |
| `RootStoreWire` | the wire guard, then prost's decoder, over the same bytes | `MCCheckedInFiles` | `CheckedInFiles_proofs` |
| `LockText`, `SourceLock` | the text of `SOURCE.toml`, its writer and its parser | `MCCheckedInFiles` | `CheckedInFiles_proofs` |
| `ConstraintLiterals` | constraint sets from message to compiled constants | `MCTrustAnchorIds` | `TrustAnchorIds_proofs` |
| `BtlsClient` | the BoringSSL client of the examples | `MCAnchorSelection` | `AnchorSelection_proofs` |
| `ReleasePipeline` | `release-plz.yml` and its guard script | `MCWorkflows` | `Workflows_proofs` |
| `UpdateWorkflow` | `update-check.yml` | `MCWorkflows` | `Workflows_proofs` |

The modules are a chain by abstraction: what one treats as a predicate on abstract
values, the next opens up. `SnapshotFiles` treats the download as a choice among
the published packages (`ComponentDownload`, `Crx3Verifier`) and validation as
`Publishable` (`AnchorSelection`); `AnchorSelection` treats ID validation as
`ValidIds` (`RelativeOid`); `TrustAnchorIds` starts from the list that
`AnchorSelection` publishes and compares its assertions with the generator's
limits. `RootStoreWire` opens up the decoding that `AnchorSelection` starts behind,
`SourceLock` the reading of a lock that `SnapshotFiles` treats as a value, and
`UpdateWorkflow` uses the `update` of `SnapshotFiles` as one step. `SnapshotFiles`
and `AuthenticatedRelease` are composed by refinement.

Four MC modules put two components side by side in one run: `MCAnchorSelection`
(selection and client), `MCTrustAnchorIds` (IDs and literals), `MCCheckedInFiles`
(the two input files of `generate`) and `MCWorkflows` (the two workflows). The two
share no variable, so a property of one holds of their interleavings exactly if it
holds of that one alone. A behaviour of such a run therefore belongs to one of the two,
chosen in the initial state, and the other stays where it starts. Nothing is said about
the two together. That a run shows of each component only behaviours of that component
is proved: `SelectionProjection`, `ClientProjection`, `IdsProjection`,
`LiteralsProjection`, `WireProjection`, `LockProjection`, `ReleaseProjection` and
`UpdateProjection`. The invariants are therefore proved from each component's own steps
and carried over to the specification of the run.

### 2.1 SnapshotFiles

`tree` is the working tree; each field is a payload, a lock, a library, or one of
`Missing`, `Empty` (truncated, not yet written) and `Garbled` (a partial or mixed
write). A process `p` runs the command `cmd[p]`, is at label `at[p]`, and holds in
`held[p]` what the code holds in memory. One action is one file-system call or
one download:

| Action | Code |
|---|---|
| `DownloadAccepted`, `DownloadRejected`, `DownloadFails` | `download_latest`, `source_metadata`, `generate_component`, bin `component.rs:14-17, 64-66` |
| `CompareCheckedIn` | the first read of `crs.pb` and the early return, bin `component.rs:18-28` |
| `ReRead` | the second read, in `write_if_changed` and `write_generated_source` |
| `Truncate`, `Fill`, `WriteFails` | `std::fs::write`: open with truncation, then write |
| `ReadLock`, `ReadCrs` | `generator::generate` |
| `CompareGenerated`, `CompareLatest` | `ensure_generated_source_current`, end of `check_latest` |
| `Finish`, `Kill`, `Begin`, `Publish` | return, process death, the next command, the component service |

SHA-256 is injective, so a digest is the thing digested. Code generation is
deterministic, so `generated.rs` is the pair of its inputs. `disturbed[p]` is a
history variable: has another process written since `p` began? The code takes no
lock, so a success can only be judged where nobody interfered.

The initial tree is empty or a consistent snapshot. A repository whose files were
edited by hand is out of scope.

### 2.2 ComponentDownload

A URL is its authority and the class of its path. `fetch` and `call` are the two
halves of one loop iteration: allowlist check, then request and answer. Servers
answer anything: error, redirect to any URL or path, any status, any body size.
Redirecting to a path keeps the authority as `resolve_redirect` does, so a path
that leaves the download area of `www.google.com` is representable.

### 2.3 Crx3Verifier

A package is split at `header_end` and carries what the code looks at. One action
per proof and per ZIP entry, because flag, counter, name set and total are
accumulated there. A signature is the key that made it and the bytes it covers.
An entry has the size the directory declares and the number of bytes that come
out of decompression; `intact` is the verdict of the decompressor (checksum,
data errors).

### 2.4 AnchorSelection

`parse_root_store` keeps nothing between entries and is one step; `validate_anchors`
is one step per anchor. A certificate is one of: CA, certificate but not a CA, not a
certificate. `IdForCertificate` is the lookup of the library over the result.

### 2.5 RelativeOid and TrustAnchorIds

Both take one step per byte or per loop iteration. `Base` stands for 128 in
`RelativeOid` (values of one group) and for 256 in `TrustAnchorIds` (values of a
byte). `TrustAnchorIds` evaluates the two constant functions one after the other;
they share nothing but the anchor list. A failed assertion or an index out of
bounds is a `panic_...` label, which is a compile error of the generated crate.
`ranks` and `starts` are history variables for the proofs.

### 2.6 RootStoreWire

A configuration is a position in the bytes and the stack of open messages with
their ends. `ScanField`, `ReturnNested` and `Refuse` are the guard, one step per
field, entered message or return of `validate_message`; each configuration it
passes is appended to `trace`. `Accept` starts the decoder: `DecodeField`,
`LeaveNested`, `DecodeFails`, `Decoded`. Both declarations of the schema are in the
module as the source has them, the match of `field_kind` as `FieldKinds` and the
derive attributes of `protobuf.rs` as `Attributes`; that they agree is a result,
not an assumption. The decoder is external; what is taken from it is what the
attributes mean: numbers truncate to their type, strings must be UTF-8, the last
occurrence of a singular field counts, one alternative of a oneof displaces the
other, unknown fields are skipped. Fixed-width and group wire types are left out of
the decoder because the guard lets none through, and its recursion limit because the
schema is not recursive.

### 2.7 LockText and SourceLock

A text is a sequence of characters in which field names are single tokens. `WriteSourceLock`
is the writer behind `SourceMetadata::new`; `CutShort` stops the write at any
character, also inside a field name; `WriteOver` is the overlay of a shorter lock
over the longer one of a concurrent command; `EditByHand` is any other text. The
parser takes one step per line: `SkipLine`, `ReadField`, `RefuseLine`, and
`LinesDone` for what follows the loop. A slot is a set of at most one value.

This also backs `SnapshotFiles`, where a partially written or mixed lock is
`Garbled`, which no command accepts: here the only damaged text that is accepted is
one that has lost no more than its last line feed. It reads like the whole, so in
`SnapshotFiles` it is a completed `Fill` followed by `Kill`.

### 2.8 ConstraintLiterals

`convert_constraint`, then the fields of `RootConstraint` in the order of the
source, each from its binding in `constraint_tokens` (`Bindings`, the second copy by
name), and each number through the digit loop of `integer_literal` with its
separator counter; then the compiler's reading of the literal, which rejects a number
outside the type its suffix names. Absent values are empty sets, so absent and zero
differ.

### 2.9 BtlsClient

`build_certificate_store` takes one step per anchor, or ends at one it cannot represent
(`CannotRepresent`) or BoringSSL does not take (`CertificateRejected`); `ServerCertificate` is the
callback's input, any leaf with any intermediates; `CopyParameters` and `VerifyCert`
are `verify_with_constrained_anchors`. BoringSSL is external: it builds a chain to a
self-signed certificate in the trusted store, checks every certificate of the chain
but that one, and may miss an acceptable chain, since it follows only one. What
Chromium would do is stated independently from the documentation of the two flags
of `TrustAnchor`. An anchor with flags whose issuer is not trusted is refused by
this client: it fails closed.

### 2.10 ReleasePipeline

`pending` and `running` are the concurrency group; a newer push cancels the waiting
run (`PushToMain`). Jobs follow in the order of the workflow, each may fail. How a
release pull request reached `main` (squash, merge commit, fast-forward) decides
which of its commits are ancestors; release-plz is external and selects the last
commit of the first page, while the guard looks at all pages. `release_always =
false` makes a direct push release nothing.

The model also shows what replacing a waiting run costs. A push whose run was replaced
is not tested on its own ("Lockfile-only pushes still run CI", `README.md:23`, is then
true only of the tip that contains it), and releases nothing of its own. If the newer push changes
only `Cargo.lock`, its run ends at the comparison of `before` and `after`, which does
not reach back to the replaced push; if it is a direct push, `release_always = false`
publishes nothing.

### 2.11 UpdateWorkflow

`commits` is every commit ever pushed to the update branch, `branch` and `tracking`
are origin's ref and the job's remembered copy. One action per step of the job;
between any two of them others merge, close, delete, push or revert (`Others`).
`FetchRefused` is `git fetch || true` in all its causes. `fetched` is a history
variable: how many commits existed when the job last looked.

## 3. What the runs check

| Run | Instance | Properties |
|---|---|---|
| `snapshot_race` | two commands at once, four packages (republished, changed under the same version number, invalid), stale servers, two kills or failed writes | `TypeOK`, `OkMeansConsistent`, `ChangeDetectionAgrees`, `ShipsOnlyAuthentic` |
| `snapshot_live` | one command at a time, five packages, two browser versions, two kills or failed writes, no stale servers, fair | `EventuallyCurrent` |
| `download` | the real budget of 8 iterations, body sizes around the limit | `TypeOK`, `StaysOnAllowlist`, `SharedBudget`, `WholeBody` |
| `crx3` | four families of packages around a sound one | `TypeOK`, `AuthenticatedBeforeUnzip`, `VerifiedIffSound`, `ExtractedWhole` |
| `anchors` | messages of up to three entries; lists of up to two published anchors | `TypesOK`, `PublishedIffSound`, `PublishedInSourceOrder`, `PublishedUnique`, `LookupExact`, `ConnectedOnlyIfChromiumAccepts` |
| `relative_oid` | all strings of up to five bytes in base 3, limit four | `TypeOK`, `AcceptedIffMinimal`, `AcceptedIffEncoding` |
| `trust_anchor_ids` | all columns of up to three IDs; constraint sets over all nine-bit numbers | `TypesOK`, `RoundTrip`, `PassesAgree`, `CompilesIffAccepted`, `PublishedAsSigned` |
| `checked_in_files` | byte strings and whole fields around every boundary of the wire format; locks written, cut, overwritten, edited | `TypesOK`, `AcceptedIffWellFormed`, `Retraces`, `FullyDecoded`, `DecodesLastOccurrence`, `ReadsWhatWasWritten`, `AcceptedIffEachFieldOnce` |
| `workflows` | three pushes, requests of up to three commits; two component versions, three interferences, one failing step | `TypesOK`, `OnlyVerifiedPublished`, `ReportedRequestProposesFiles`, `TipGetsItsRun`, `UnseenCommitsSurvive`, `NewestGetsProposed` |
| `snapshot_unpaired`, `snapshot_rollback`, `download_budget` | see Findings | `UnchangedMeansPaired`, `NoRollback`, `ExceedsRedirects`, each violated |

What they show, in words:

- A command that reports success, undisturbed, leaves `crs.pb`, `SOURCE.toml` and
  `generated.rs` consistent, whatever half-written files it started from. The
  exception is deliberate and visible in the property: `unchanged` is not among
  the successes it covers (see finding 1).
- The internal error "snapshot change detection disagrees with file update" needs
  another writer between the two reads.
- `generated.rs` implements `AuthenticatedRelease`: it is a library of one offered
  package with its own provenance and a valid payload, or it is unusable. This
  holds under any interleaving and any kill; it is the property users of the crate
  depend on, and it survives the inconsistencies the other two files can have.
- The newest payload is eventually checked in, also when the version number stays,
  and whatever earlier kills and failed writes left behind.
- No redirect, path redirect or fallback leaves the allowlist; fallbacks never
  outnumber redirects; a body is passed on whole or not at all. This is about the
  download of the package; the query for the browser version, which goes to a constant
  URL, takes no part in it.
- The archive is opened only after every proof verified over exactly these bytes,
  one of them by the pinned key; acceptance is equivalent to a declarative
  definition of a sound package. Its framing (`Framed`) says what a package consists of
  and does not repeat the comparisons of lengths in the code.
- Publication is equivalent to a declarative definition of a sound store; the
  library's first-match lookup is exact although an unpublished entry may carry a
  published certificate with another ID.
- Byte-level ID acceptance is acceptance of canonical encodings, compared with an
  encoder and decoder written independently of the loop.
- The constants compile exactly for what the generator accepts, and a peer reads
  back the published IDs.
- The wire guard accepts exactly the byte strings that a grammar of the wire format,
  written independently of its loop, calls a Root Store; prost then goes through the
  same configurations, skips nothing, and fails only at a string that is not UTF-8.
  Of a repeated singular field it keeps the last.
- A lock that `update` wrote reads back; a damaged one is refused unless nothing of
  it is missing; the loop with `set_once` accepts exactly one line per field in any
  order. `root_store_version` is an unquoted number, so a cut inside it yields a
  smaller number that parses: only the line behind it, `source`, protects the reader.
- A compiled constraint set equals the signed one, including the smallest number and
  the difference between absent and zero.
- The BoringSSL client never connects over a chain that the flags of the anchors
  forbid, nor to a host the leaf is not for.
- release-plz publishes only what the same run verified, however the request was
  merged and however long it is; the tip of `main` gets a run that ends.
- An update job that nobody interfered with since it started reports a request only if
  one is open for the files it validated, whatever stale branch, closed request or
  failed step came before it. Under interference this is not claimed (somebody may
  close the request or push to the branch before the job ends). What holds under any
  interference is that the job never pushes away a commit pushed after it looked, and,
  once upstream and people come to rest, that the newest component is proposed.

### Bounds, and why they are enough

- Two processes: every check in the code compares one command's memory with the
  files, so one writer beside the observed command already produces every
  disagreement; a third adds only more writers of the same kinds of contents.
  `MaxFaults` is 2, enough to interrupt a command and then its repair.
- Packages: the race has an unchanged republication, a change under the same version
  number and an invalid payload; the long list of `snapshot_live` adds a change of
  version and two browser versions, the cases the commands tell apart.
- `MaxRedirects` is the real 8. `MaxBytes` 2 with bodies 0, 2, 3, 4 is below, at,
  just above and further above the limit.
- CRX3: limits 2, 3 and 6 with sizes on both sides of each; proof lists up to one
  RSA and one ECDSA proof over all values, and up to three and two over the
  values that interact. The two loops carry one flag and one counter.
- Anchors: interaction is between pairs (same certificate, same ID), so two
  entries over all values and three over the interacting ones. ID lengths 1, 2, 3
  against a vector of 6 make pairs fit, fit exactly and not fit.
- IDs: base 3 has a zero group, a nonzero group and a largest one, with and
  without continuation bit; five bytes exceed the limit of four.
- Wire format: real bytes, but varints of at most three bytes whose last group is at
  most 1, as it is in the tenth byte of 64 bits; so values have 15 bits and `u32` keys
  12. That keeps minimal, non-minimal, largest and just too large varints. All strings
  of up to four of twelve telling bytes, and messages of one or two whole fields at
  every level.
- Locks: base-2 digits, digests of two digits and versions up to 7, so that a numeral
  has a shorter numeral as prefix and one just outside its type.
- Literals: nine-bit numbers in base 2 with groups of three (`Width`, `Radix` and `Group`
  of `MCTrustAnchorIds`): lengths 1 to 9 in all
  residues, and both ends of both types. Every number in one field, boundary values in
  every pair of fields.
- Client: a root, a subordinate and a leaf, with every combination of flags, kinds,
  expiry, constraint violations and served intermediates; longer chains repeat the
  check of one more certificate.
- Release: with three pushes one runs, one waits and one replaces it; requests of
  three commits exceed a page of two. Update: two versions let one appear while the
  job runs; three interferences reach close, revert and deletion in one behaviour; one
  failing step at any place.

### Fairness

`snapshot_live`: a running command keeps taking steps (weak fairness of its own
steps and of its download: it is a sequential program and nothing in it waits for
another command). Starting `update` is strongly fair: the weekly cron starts it
again and again. A download by `update` that is possible infinitely often eventually
succeeds; without this the network may fail for ever. No fairness is assumed for
`Publish`, for the other commands or for failures. Stale servers are switched off,
because a service that serves an old package for ever defeats any client.

`workflows`: `WF(Pipeline)`, since GitHub starts a waiting run when the group is
free and every job ends, if only by its timeout; that a job *succeeds* is not
assumed. `WF(Job)`, since the schedule starts the job every week and each of its
steps ends; failing steps are bounded, since a job that always fails proposes nothing.
No fairness for pushes, merges or publication.

`NewestGetsProposed` assumes that update requests are squashed. After a merge
commit, a kept branch and a revert of `main`, the job finds the branch equal to its
files, makes no commit, and GitHub refuses a request without commits: the property
excludes behaviours in which a commit of the branch became an ancestor of `main`.

### Findings

1. `snapshot_unpaired`: `update` returns success when `crs.pb` equals the download
   and looks at nothing else. The run starts from a consistent snapshot
   (`CheckedInSpec`). Upstream publishes a new payload; the `update` that fetches it is
   killed after writing `crs.pb`. The next `update` reports the tree as unchanged,
   although `SOURCE.toml` and `generated.rs` are still those of the older payload. The
   property only speaks of a `SOURCE.toml` that parses: a first `update` killed at the
   same place leaves none at all, and `update` does not repair that either. `generate`
   and `check` do refuse such trees.
2. `snapshot_rollback`: `update` compares bytes only and writes a lower root store
   version over a higher one, which `check-latest` refuses.
3. `download_budget`: "exceeded 8 redirects" is reported after eight redirects or,
   with a fallback, after fewer.

## 4. What is proved

Every safety property of the runs is proved for every value of the constants. Each `_proofs` module proves an inductive invariant of its component
and derives the properties from it. The assumptions are the named `ASSUME`s of the
component modules and of their MC modules, which TLC evaluates in every run.

| Module | Theorems | Assumptions |
|---|---|---|
| `SnapshotFiles_proofs` | `TypeCorrect`, `Provenance`, `ShipsAuthentic`, `SuccessIsConsistent`, `DisagreementNeedsInterference` | `ConstantsAssumption`, `UnusableAssumption` |
| `ComponentDownload_proofs` | `TypeCorrect`, `OnlyAllowlisted`, `BudgetShared`, `NothingTruncated` | `DownloadAssumption` |
| `Crx3Verifier_proofs` | `TypeCorrect`, `AuthenticationFirst`, `NothingCutOff`, `VerdictExact` | `Crx3Assumption` |
| `AnchorSelection_proofs` | `TypeCorrect`, `UniqueAnchors`, `ExactLookup`, `SourceOrder`, `PublicationSound`, `ConnectionsAreChromiums`, `AnchorTypes` | `AnchorAssumption`; for the client `PublishedAssumption` |
| `RelativeOid_proofs` | `TypeCorrect`, `LoopDecidesMinimal`, `AcceptsEncodings` | `OidAssumption` |
| `TrustAnchorIds_proofs` | `TypeCorrect`, `PassesAlwaysAgree`, `EveryIdInPlace`, `CompilesExactly`, `ReadBackExactly`, `ConstraintsAsSigned`, `ConstantTypes` | `WireAssumption` of `TrustAnchorIds`; for the literals `LiteralsAssumption` |
| `CheckedInFiles_proofs` | `FileTypes`, `DecoderRetraces`, `DecodesInFull`, `AcceptanceIsGrammar`, `DecodesTheMeaning`, `AcceptanceExact`, `LockReadsBack` | `WireAssumption` of `RootStoreWire`, `LockAssumption` |
| `Workflows_proofs` | `OnlyVerifiedIsPublished`, `ReportedRequestsProposeFiles`, `NoUnseenCommitIsLost`, `WorkflowTypes` | `BoundsAssumption` |

The projections of section 2 stand in the module of their run.

`ShipsAuthentic` is the refinement: initial states and every step of
`SnapshotFiles` map to initial states and a step or stutter of
`AuthenticatedRelease`.

### The assumptions

Most say only that a limit is a number and that a constant set holds things of the
right shape. Those with content:

- `Crx3Assumption`: a key is of one kind; the lists of a package are lists; a signature
  is made by one key and covers one signed data and one archive, which is what a
  signature scheme gives. The digests are injective by construction of the model.
- `PublishedAssumption`: the anchors the client is compiled with repeat no certificate.
  This is what `UniqueAnchors` proves of every list the generator publishes.
- `WireAssumption` of `TrustAnchorIds`: the longest ID fits its length byte. It is the
  real relation between 255 and 256, without which the prefix would wrap.
- `OidAssumption` and `WireAssumption` of `RootStoreWire`: the base is above 1; the code
  has 128.
- `LockAssumption`: the numeral of a version consists of digits and denotes the version
  (`Display` and `from_str` of `i64`), and a digest has `HashDigits` digits.
- `UnusableAssumption`, and `None` outside the values: markers are not data.

### The invariants, and why they are needed

- `SnapshotFiles`: what each process holds at each label (`Control`), that whatever lock
  or library is on disk or in memory comes from one offered package (`AuthenticState`),
  and that an undisturbed writer's files behind its position already match its memory
  (`Reliable`). The properties only speak of the end of a run, so the invariant has to
  say what every intermediate write has achieved.
- `ComponentDownload`: the URL has been checked whenever a request is about to be sent;
  a pending fallback is paid for by an earlier redirect (a URL with a mirror was reached
  by a redirect).
- `Crx3Verifier`: all proofs before `next` are verified, and the flag is set exactly if
  one of them has the pinned key, separately in both loops. For the verdict, `Judged`
  adds the reason of every rejection (the proof or entry that failed, the name seen
  twice, the sum that went over a limit) and what has been summed so far, which has to
  be related to the sum of the whole directory that the definition of soundness speaks of.
- `AnchorSelection`: the published list and the sets of seen hashes and IDs determine each
  other (uniqueness of the list does not follow from itself); the list is what the
  reference filter makes of the entries before `next` (`Ordered`); these entries break no
  rule, and their lengths are summed (`Accepted`).
- `BtlsClient` (`ClientInv`): of the anchors before `next`, the store holds those without
  flags and the constrained list the others; whoever verifies has copied the parameters of
  the connection.
- `RelativeOid`: the flag says exactly whether the previous byte ended a component, and
  the bytes before `index` are minimal. `AcceptsEncodings` then needs no further
  invariant but the theorem `CanonicalIffMinimal` about encoder and decoder: what a
  reader knows after any bytes, written again, gives these bytes back if they are minimal
  (`RetellOneMore`), and what a writer produces is minimal (`EncodedShaped`).
- `TrustAnchorIds`: every filling position equals the prefix sum the sizing pass recorded
  for that anchor; `PassesAgree` says nothing about the middle of a pass. That an
  assertion failed only if the generator would have refused the list needs the bounds of
  what has been summed (`Limits`); reading back follows the same prefix sums.
- `ConstraintLiterals` (`LitInv`): the fields before the current one are written as signed;
  the digits denote the magnitude of the current number, and the literal, without its
  separators, the digits it was made of so far.
- `RootStoreWire` (`WireInv`): the guard's trace begins at the start, is well nested, and
  leads from each configuration to the next by a step of the guard; the decoder stands on
  `trace[steps]`. The two readings take place one after the other, so only the trace can
  relate them. For acceptance (`GrammarInv`): while the guard reads, the input belongs to
  the grammar exactly if the rest of every open message does, from the position in the
  innermost one and from the end of the nested one in the others. The verdict alone says
  nothing before the last byte. For the values (`MeaningInv`): continuing every open
  message with the meaning of what is left of it, and counting the message open in it as
  read, leads to the meaning of the whole input (`LeadsTo`). One field more and then the
  rest is the same as the rest with that field (`FieldThenRest`): appending commutes with
  what follows, a later occurrence or alternative displaces an earlier one whether it was
  merged before or is still to come.
- `SourceLock` (`LockInv`): the slots hold what the lines before `next` offer, and each of
  these lines is blank or the only one of its field: acceptance speaks of all lines at
  once, the loop of one. For reading back (`WrittenInv`): what is on disk is the lock of
  valid provenance, its beginning, or the lock with the end of another behind it; the
  rest follows from the text alone: where its lines end, that nothing in them is cut,
  trimmed or refused, and that a cut lock in which its last field, `source`, is still
  found has every line before it whole, as has one that lies over another.
- `UpdateWorkflow` (`UpdateInv`): as long as nobody has interfered, the job's copy of the
  branch is where the branch is, and after the push the branch holds the files of the work
  tree; the copy is never newer than the last look.
- `ReleasePipeline` (`ReleaseInv`): behind the `verify` job the commit of the run is
  verified, and behind the guard the commit that release-plz selects is that very commit.

### Recursive functions

Sums, filters, encoders and digit loops are recursive functions. The library's induction
theorems take an operator as a parameter and cannot be used here, so these proofs use the
least-number principle instead, taken from the theorem that `<` is well-founded on the
numbers: a set of numbers that is not empty has a least one (`LeastNumber`), hence a set
that contains 0 and with each number the next contains all of them up to `n` (`UpTo`),
hence a function with a given first value and given steps exists (`StepsExist`). That a
`CHOOSE` of such a function obeys its equation is then a lemma, not an assumption.
The grammar of the wire format calls itself on other kinds of messages and other spans:
its iterates agree on ever longer spans, so they reach a solution (`MessagesExist`). The
meaning calls itself only on the messages that the schema nests in this one, three deep:
the third iterate is a solution (`MeaningsExist`).

### Only model-checked

- `EventuallyCurrent`, `TipGetsItsRun`, `NewestGetsProposed`: liveness under fairness
  is outside what the proof system does.

## 5. What is not modelled

- X.509 DER, RSA and ECDSA, SHA-256, ZIP, JSON, HTTP, TLS: external libraries,
  modelled by the outcomes this code distinguishes.
- The flags, names and policy OIDs of an anchor in `codegen.rs`: copied one by one.
  Token layout and formatting of the generated source: wording.
- A write of the lock that is cut short and lies over another command's longer contents
  at once: each of the two is modelled alone.
- Timeouts: the requests set none; a hanging command is a killed command.
- Directories and permissions: `create_dir_all` failing is a failed write.
- What release-plz and GitHub do beyond what the workflows rely on.
- CI and the API overview example: stateless. `dependabot.yml`: configuration.

## 6. Plan

Done, in this order: `SnapshotFiles` and its refinement (the state that outlives a
command), `AnchorSelection`, `ComponentDownload`, `RelativeOid`, `TrustAnchorIds`,
`Crx3Verifier`, `RootStoreWire`, `SourceLock`, `ConstraintLiterals`,
`ReleasePipeline`, `UpdateWorkflow`, `BtlsClient`, and the theorems above.

Left:

1. Composition of the chain (download, verification, decoding, selection, files,
   constants) on one small instance, with `AuthenticatedRelease` extended to the
   constants, and a proof of that refinement.
2. The anchor flags and names on their way through `codegen.rs`, beside
   `ConstraintLiterals`.
