# Attested Key ZK: verification project

TLA+ models of the library in this repository and of the machinery that builds
and releases it, TLC configurations that check them on small instances, and
TLAPS proofs of the results that matter most, for every value of the constants.

Run everything inside this directory: `tlc -config X.cfg M` checks a model,
`tlapm M.tla` checks the proofs of a module.

## 1. The system

The library proves in zero knowledge that *some* hardware key, attested by an
issuer under an expected policy, approved the context a verifier asks about
(`src/SPEC.md`). A relying party gives the public statement (issuer key,
application, policy version, time, nonce, audience, request); the holder gives
an attestation and an approval assertion, each signed with ECDSA P-256; the
proof shows that both exist and fit without showing the device key.

| Part | Source | State | Operations | Met by |
| --- | --- | --- | --- | --- |
| C ABI and circuit | `src/src/approval_proof_v1_zk.cc`, `src/include` | none between calls | generate circuit, prove, verify, circuit id, free | bindings |
| Fiat-Shamir transcript | longfellow `random/transcript.h`, `sumcheck/transcript_sumcheck.h` | hash state, PRF snapshot, version | write, generate, clone | prover, sumcheck, verifier |
| Zk layer and sumcheck | `zk/*.h`, `sumcheck/*.h` | pad, witness, transcript | commit, prove; receive commitment, verify | C ABI |
| Ligero | `ligero/*.h` | tableau, its dimensions | lay out, commit, prove, verify | zk layer |
| Merkle tree | `merkle/*.h`, `random/random.h` | heap of digests, nonces | build, open, check; choose columns | Ligero |
| Proof and circuit codecs | `zk/zk_proof.h`, `proto/*.h` | buffer position | read, write | C ABI |
| Compiler, gadgets, fields | `circuits/`, `algebra/`, `ec/`, `gf2k/` | none | pure functions | circuit generation, all |
| Go, Swift, WebAssembly bindings | `src/bindings` | native buffers during a call | marshal, call, copy, free | applications |
| WebAssembly crypto shim | `bindings/wasm/shims/util/crypto.cc` | hash and PRF contexts | hash, expand a key, encrypt a counter | transcript, gadgets |
| Go vendoring | `scripts/sync-go-bindings.sh`, `ci.yml` | vendored tree | sync, check for drift | CI |
| Swift binary targets | `Makefile`, `build-artifactbundle.sh`, `build-apple-xcframework.sh`, `check-*.py` | build tree, bundles, XCFramework, all on disk | build, repackage, stub, check, clean | developers, CI, release workflow |
| Release | `scripts/release.sh`, `release.yml` | tags of clones and remote, assets | bump, tag, push; build, publish | everyone |

(longfellow paths are under `src/bindings/go/third_party/longfellow-zk/lib`,
the copy of the library that the repository holds.)

**How the parts interact.** The bindings call the C ABI in the caller's thread;
nothing in the native code is concurrent, and nothing survives a call but the
buffers it returns, which the binding copies and frees. A call
of the prover and one of the verifier share a proof and nothing else: each
derives the circuit, the dimensions of the tableau, the challenges and the
positions in the Merkle opening *on its own*. The release machinery is the part
that keeps state: several clones and one remote, and a working tree in which any
step may be the last.

**What is hard here.** (a) Agreement without communication: two programs walk
the same protocol in separate code, down to the order of absorbed values and
the search for a block size on machines of different word size. (b) Soundness of
a statement made of many small assertions: what is missing is never noticed by
a test that feeds honest inputs. (c) Objects left half-written by an early
return (`LigeroParam::layout`) or by a killed script (bundles, tag pairs, the
vendored tree). (d) Races for a version. (e) Tables, offsets and algorithms that
are written out once per language or per build and must stay the same: layouts
and codes in three bindings, SHA-256 in the shim and in the circuit's witness,
AES-256 in the shim and in OpenSSL. `PROJECT.json` lists each such hazard at its line.

**What makes each part correct.** C ABI: a SUCCESS of the verifier is justified
by signatures that were made; an honest approval goes through; one proof fits one
statement. Transcripts: a challenge fixes everything before it, and an honest
proof replays. Ligero parameters: both sides build the same dimensions, none of
them stale. Merkle: what is accepted was committed to. Codecs: what is written
is read back as it was. Gadgets and fields: they compute their definition.
Bindings: each native buffer is freed once, on every path. Bundles: no stub is
ever accepted, packed or released. Vendoring: what CI lets pass is what the
sources ask for. Release: one commit per version, from main, and what was
announced is what is there.

## 2. Modules

| Module | Models | Variables | Actions and the code they stand for |
| --- | --- | --- | --- |
| `ApprovalTypes` | domains and layouts of `approval_proof_v1_zk.h` and `.cc` | – | `Justified` is SPEC.md's statement |
| `ApprovalPromise` | *abstract specification* | `signatures`, `accepted` | `Sign`, `Accept` |
| `ApprovalProof` | C ABI and circuit | those and `proofs` | `Sign`; `RunProver` and `RunVerifier` (`run_approval_proof_v1_prover`, `..._verifier`, all checks in order); `ForeignProof` (a prover that is not this code) |
| `BindingLayouts` | offsets, code numbers, names and messages as each language writes them | – | tables, one per source |
| `Bindings` | the Go, Swift and WebAssembly bindings over the C ABI | per caller `pc`, `call`, `todo`, `null`, `live`, `code`, `result`; of the process `lang`, `left`, `wild`, `spoiled`; `proofs`, `accepted` | `Start` (checks and marshalling of `GenerateCircuit`, `Prove`, `Verify`, `CircuitID`), `Malloc` (index.ts, one buffer at a time), `MallocFails`, `NativeReturns`, `NativeAborts`, `AnythingHappens` (a module that has written through address 0), `CopyOut`, `CopyFails`, `Release`, `Finish`, `ProcessEnds` |
| `FiatShamir` | the transcripts of one proof | `transcript`, `challenges`, `proof`, ... of each side | `Commit`, `Prove`, `RecvCommitment`, `Verify`: the methods of `ZkProver` and `ZkVerifier`, over the three walks of the sumcheck and the two of Ligero, each with loops of its own |
| `LigeroParam` | search for the block size | `param` (the members as they are), `best`, `e` | `Try`: one turn of the search, `Finish`: the last `layout()` and `sanity()` |
| `MerkleOpening` | commitment, choice, opening, check | the heap, `idx`, `tree`, `opening`, what the verifier rebuilds | one action per loop of the code; `Receive` is whatever opening arrives |
| `ProofCodec` | `ZkProof::write` and `read`, between the two halves of `MerkleOpening` | `wire`, `reading`, `part`, `pos`, `got`, `req`, `run` | `Send` (write, and what becomes of the bytes), `ReadFirst` (one part of fixed length a step), `ReadRun`, `ReadPath` |
| `Words` | 32-bit words as sets of bits | – | xor, rotations, sums modulo 2^32 |
| `Sha256` | one message hashed by the WebAssembly shim and, beside it, by the circuit's witness code | `msg`, `block`, `shim`, `wit`, `done` | `Extend`, `Round`, `EndBlock`: a turn of each loop of both |
| `Prf` | AES-256 of the shim, keyed by the digest of a transcript | `roundKey`, `nblock`, `state`, `round` | `ExpandKey`, `Refill`, `AesRound`, `LastRound` |
| `Shim` | `Sha256` and `Prf` in turn | those | `Hash`, `Get`, `Draw` |
| `Release` | `release.sh` | tags of `remote` and `local`, `pc`, `plan`, `main`, `head` | one action per command that talks to the remote, `Interrupt`, and what others do meanwhile |
| `SwiftBundles` | Makefile, bundle scripts, release jobs | what is on disk: `libcrypto`, `core`, `library`, `bundle`, `xcframework`; `todo` | one action per step of the scripts, `Start` of any goal, `Kill` at any step, `Edit`, `Clone` |
| `GoVendor` | `sync-go-bindings.sh` in a developer's clone and in CI, the drift check | `work` (trees), `head`, `pc`, `todo`, `noted`, `fresh`; `commits`, `whole`, `green`, `red` | one action per step of the script, `Stops` anywhere, `Edit`, `Commit` of any part, `Checkout`, `Diff` |

`MC<module>` gives the constants of a module values for TLC;
`<module>Theorems` holds its theorems, `OpeningTheorems` those of `MerkleOpening`
and `ProofCodec`, `AgreementTheorems` those of `FiatShamir` and `LigeroParam` (whose
specification is named `SearchSpec`, so that one module can speak of both), and
`ShimTheorems` those of `Shim` with its parts `Words`, `Sha256` and `Prf`. Every action stands for the whole handler. `map` in
`PROJECT.json` gives the lines of each definition.

**Compositions and refinements.** Three, from the outside in:

* `ApprovalProof` implements `ApprovalPromise` (`KeepsPromise`, theorem
  `Refinement`) under the mapping that forgets the proofs.
* `Bindings` implements the prover and verifier steps of `ApprovalProof`
  (`ABI == INSTANCE ApprovalProof`; `ImplementsTheCAbi`, theorem
  `BindingsImplementTheCAbi`): the proof or verdict an application is handed, after
  marshalling at each language's own offsets, is that of one native call with the
  caller's arguments; all other steps stutter. The signatures are a constant
  there, as no binding signs.
* `ProofCodec` carries out `MerkleOpening` (`CarriesOutTheOpening`, theorem
  `ReadIsAnOpening`): whatever becomes of the bytes, what is read is one of the
  openings `Receive` allows, or nothing is. So `AcceptedIsCommitted`, proved of any
  opening, covers proofs damaged on their way (`AcceptedBytesAreCommitted`).

### Abstractions

* **C ABI.** The proof system is ideal: a proof exists for a circuit and a
  vector of public inputs if a witness satisfies the circuit, and verifies for
  these alone. A signature is its signer and message, the hash is injective. Circuit
  bytes are what the parser and the id comparison tell apart (unreadable,
  another circuit with a forged id, another circuit, the canonical one). Left
  out: keys with x = 0, ECDSA signatures whose R.x is not
  below the group order, bytes after the end of a proof (they are ignored).
* **Bindings.** The checks of lengths that each binding makes before it allocates
  anything keep no state and are left out: messages and signatures have their
  lengths. The issuer's two coordinates are one field. A proof argument is a proof,
  unreadable bytes or empty. `malloc` returning 0 is noticed by nobody in index.ts. Where
  the pointer is an out-pointer, or the input is empty, nothing is written and the
  native side answers NULL_INPUT; where the input is longer than the module's
  memory, `set()` throws; in every other case it overwrites the module's own stack,
  data and heap (`spoiled`), and from that step on, *the same call included*, malloc, the
  native call, free and the text of the error do anything: the call ends with any
  code, traps or throws, or does not end. Nothing is claimed of a spoiled module, and
  what it answers is not recorded in `proofs` and `accepted`.
* **FiatShamir.** A hash is what was hashed. Random bytes come from a generator
  (`prf_`) that a transcript keys with what it has absorbed at the first draw and that a
  write drops: a challenge is the generator's key with the place in its stream, so that one
  drawn from a generator that outlived a write would show an older past. Whether the
  checks pass is not modelled. The round loops of `prover_layers.h` and of `zk_common.h`
  are two definitions (`ProveRounds`, `ConstrainRounds`), as in the code. The
  two sides may be of different versions: the code stores the version and absorbs it nowhere.
* **Sha256, Prf.** Full width, all rounds; the counter of blocks has the 64 bits, lowest
  byte first, of `u64_to_le`. The bit plucker, which packs the words
  of the witness for the circuit, is transparent.
* **LigeroParam.** The numbers are naturals; SIZE_MAX is a constant of each
  machine. Members that nothing was written to hold garbage: any value for each
  member, chosen for each machine by itself (`Garbage` is a set of contents of the whole
  object). The constructor given a block size is left out.
* **MerkleOpening.** A digest is what was hashed. What is received is any column
  contents of the right shape with any path of digests, of the tree or of
  nothing in it, of any length.
* **ProofCodec.** The buffer is in units of the four bytes of a size; elements,
  digests and nonces are two units long (eight in the code), so that a reader out
  of step by one unit does go out of step. The field is prime, as the
  library's is: it is its own subfield, and a run of no full elements comes first. The
  root is not changed on its way: a proof with another root is another commitment,
  for which other columns are drawn. Which openings are sent (`Sends`) and what becomes of the bytes
  (`Damages`) are constants of which the theorems assume nothing but that units
  are units. `CodecAssumption` and `PartsAssumption` state what the
  code takes for granted: a path's length fits the four bytes of a size, no run
  reaches `MaxRunLen`, no part is longer than a size_t can count, elements are
  below the modulus. A digest is numbered as its node is. Left out: `size()`,
  and `logc`, which is 0 in every circuit of the library.
* **Release.** A run that fails before it changes anything is not a step. The
  remote takes the refs of a push one at a time, as git does without `--atomic`. Nobody
  works in a clone while release.sh runs there: the check for a clean tree on main and
  the tag that is made later see the same commit. `ReleasedFromMain` rests on that; in
  *other* clones, and on the remote, anything happens meanwhile. That git replaces no
  tag on a push without `--force` is git's, and part of `RemoteTakes`.
* **SwiftBundles.** A library is the version of the sources and the OpenSSL it
  holds; headers travel with it. A compiler or archiver that is killed leaves
  no output, but the steps before it are steps: `rm -f` of a library, and the archiver that
  makes it again (`RemoveLibrary`, `Combine`). Staging takes the libraries of a bundle and,
  on macOS, the XCFramework. `git clone` of a commit of the present tree keeps the bundles and
  drops the build directory. The Actions cache is left out: its key
  hashes the sources, so a hit restores what a run of the same sources left
  (the key has neither `patches/` nor the environment overrides).
* **GoVendor.** A file is what it was copied from. Which headers a build includes
  (`Needs`) depends on the version of our own sources, on the revision the Longfellow
  .cc files were copied from, and on the revision whose headers are in the submodule
  when `clang++ -MM` reads them: three that differ if someone works while the script runs. One of the two clones moves at a
  time: the job shares nothing with the developer's clone but commits, which do
  not change. `git describe`, recorded in PROVENANCE.md, depends on the tags
  there are (`Tagged`); its `--short` length and `--dirty` are left out, and so is
  LICENSE.

## 3. Runs

| Run | Question | Result |
| --- | --- | --- |
| `approval` | Is every SUCCESS justified by signatures that were made, a proof good for one statement, an honest approval always accepted, an error code its cause, a pinned circuit usable by prover and verifier? | holds, and refines `ApprovalPromise` |
| `bindings` | Two callers of a binding, any allocation failing, copies that throw, aborts and restarts: who frees what, do the three languages answer like the C ABI, does each call end? | holds, and refines `ApprovalProof` |
| `fiat_shamir` | Do equal challenges mean equal pasts, and do three walks of one protocol draw the same? | holds |
| `ligero_param` | Do builds of different word size, each with garbage of its own, settle on the same, fresh dimensions? | holds |
| `proof_codec` | Is a proof read as it was written, refused or misread without harm when damaged, and is what is accepted what was committed to? | holds, and refines `MerkleOpening` |
| `shim` | Do the shim's SHA-256 and the circuit's witness agree on every step, does the circuit accept the witness, is the shim's AES the one of FIPS 197? | holds |
| `release_race` | Two releasers, merges, lost connections, interrupts: one release per version, from main, and is what is announced there? | holds |
| `release_again` | release.sh line 126: does running again push what was tagged? | **violated** |
| `swift_bundles` | Any make targets in any order, killed anywhere: is a stub ever accepted, packed or staged, does `ensure` repair, is the other platform left alone? | holds |
| `swift_release` | README: does the workflow build what it releases? | **violated** |
| `go_vendor` | Does a sync repair whatever was there, is what CI passes current, does a whole sync pass? | holds |
| `go_vendor_drift` | sync-go-bindings.sh line 5: does CI let no drift pass? | **violated** |

The violated ones are disagreements between a document and the code; `findings`
in `PROJECT.json` quotes both. More of the same kind, met while modelling, have
no run of their own:

* `release.sh:19` announces two tags on one commit; a plain push takes the refs
  one by one, and after a refused one the two may end up on different commits.
* `transcript.h:77` stores the proof version, and no absorbed byte depends on it,
  against SPEC.md:180 and 187.
* `build-artifactbundle.sh:376` reuses a libcrypto.a of an earlier pin, against
  `OPENSSL_PROVENANCE.md:3`; and `make artifactbundle-*` repackages a compiled
  core of earlier sources (269, 309, 387).
* `make ensure-placeholder-*` keeps a bundle whose `info.json` was cut short
  (`Makefile:97`, 125, against `test-artifactbundle-split.sh:51`).
* `release.sh:40` picks the latest version before it fetches the tags.
* `approvalproofv1zk_test.go:121` says an empty buffer triggers INVALID_INPUT;
  `bytePtr` makes it a null pointer, and the answer is NULL_INPUT, in Go only.
  `AnswersLikeTheCAbi` names this exception.

**Bounds.**

* `approval`: two keys, two hashes, and around one good attestation, assertion and
  statement others that break one clause each, in the message or in the statement; three
  statements differ from the good one only in policy version, nonce or request. Every
  clause that the circuit asserts of the messages, and every check of a signature but one, is the
  only one in the way of some acceptance: without it `AcceptedJustified` fails in this run.
  The one is the range check of a malformed signature, which verifies under no key
  anyway; it decides about the error code (`ProverCodeNamesTheCause`). Two signatures
  suffice for an approval; one proof (`MaxProofs`) is enough for a mix-up, as it is verified for every statement.
* `bindings`: two callers of a process; one attestation and one assertion, the
  statement they justify and the one with nonce and audience exchanged, which
  differs from it only by the place of its fields; a circuit argument that is good
  or empty; three proofs. Which of its buffers a WebAssembly call gets is chosen one by one.
  A call interacts with another through what is spoiled and what is left only, so
  that a third caller adds nothing (and the theorems have any number).
* `fiat_shamir`: a layer of two rounds and one of one round, so that both a
  next round and a next layer occur, and proofs whose neighbouring values differ.
* `ligero_param`: 8-bit sizes with the ratio of run limit and largest size
  of the code, requests from nothing up to what no size holds, and a SIZE_MAX that
  only the larger ones exceed; memory that is all zero, never zero, or passes
  `sanity()` by itself, for each machine separately.
* `proof_codec`: five leaves put leaves at two depths, and two of them are
  siblings, cousins or neither; columns of two elements make the order of rows
  and columns in the runs visible; one layer of two rounds. Every unit of the bytes after the root is
  changed to 0, 2 and 63, and the bytes are cut at every length. Sizes are below
  64, where `size_t` wraps, and runs below 16: the ratio of 2^25 elements of 32 bytes to 2^32
  is kept, so a wrapped product would show.
* `shim`: the published examples and messages of 55, 56, 63, 64, 119, 120, 136 and
  183 bytes: every length around which padding takes a block more, an attestation,
  and the longest that three blocks hold. Two counter blocks per key (`Blocks`), and 258 for
  one of them, so that the counter has a second byte; `kMaxBlocks`, where the generator
  ends the process, is 2^40 in the code and 100000 in the run (TLC's integers have 32 bits),
  which neither meets.
* `release_race`: two clones race for two versions with two commits on main;
  the run about bumping again has four versions.
* `swift_bundles`: two Apple variants, one of them with Homebrew's OpenSSL,
  and one Android variant let a run be killed between two copies; two versions of
  the sources make "stale" visible.
* `go_vendor`: sources that include one header or two, by themselves or because
  a header or a .cc file of another revision does, three revisions (one tagged
  later, one the patch does not apply to), two edits and one commit, each of any part. The
  job checks one commit at a time, and commits share nothing.

**Fairness.** Only `Bindings` assumes any: weak fairness of each caller's steps
after `Start`. It is code that runs: a loop over a few buffers, a
native call whose loops are bounded, a copy, frees; no lock is taken and nothing is
waited for. Nobody must start a call, and the process may end instead.
`EveryCallEnds` then says that no path gets stuck, the nested `finally` blocks of
index.ts included, unless the module has overwritten its own memory: of that nothing
is assumed. All other properties are safety properties: a release or a
build may be abandoned at any point, and the other components are loops that a
caller drives. Where a run reaches an end by design
(a finished proof, used-up bounds) its configuration says
`CHECK_DEADLOCK FALSE`; `bindings`, `release_race` and the Swift and vendoring runs, where
someone can always act, check for deadlock.

## 4. Theorems

| Module | Proved, for every value of the constants | Inductive invariant and argument |
| --- | --- | --- |
| `ApprovalProofTheorems` | `TypeCorrect`, `Soundness`, `ProofsHaveWitnesses`, `Binding`, `Completeness`, `PinnedCircuit`, `ErrorNamesTheCause`, `Refinement` | Acceptance alone is not inductive: it speaks of a proof made earlier. `IInv` adds that every canonical proof has a witness of signatures that exist; witnesses only grow, and a witness of the canonical circuit justifies the statement it was made for. Binding: a statement is determined by its vector of public inputs. `ErrorNamesTheCause` has all four codes of a prover call with the canonical circuit: malformed values, a signature that does not verify, a violated policy, or success, each exactly when its cause is the first; `PinnedCircuit` is about prover and verifier. Both follow from the order of the checks alone. |
| `BindingsTheorems` | `NothingLeaks`, `NothingTwice`, `OutOfMemoryShows`, `CallsWearOff`, `BindingsImplementTheCAbi`, `SameAnswerEverywhere` | Three invariants, each over the one before. `IInv` says for every place in a call which blocks it owns: those allocated so far and those still in `todo` are together the operation's, once each; after the native call exactly what its code implies, and with a null buffer, that the code is an exception or NULL_INPUT (all this under `Accounted`, as long as the module's memory is its own). `RInv`: the layouts of the three languages are injective and equal the header's, so reading what was written gives the arguments back; a result is native, and native results are those of `ApprovalProof`'s prover and verifier. `AInv` (`Candid`): a caller who was answered got a check of its own language that the C ABI would have made first, or the C ABI's answer to its arguments by name, as long as it had all its buffers and the module's memory is its own. `CallsWearOff` counts the stages and buffers a call still has before it (`StepsLeft`): its own steps take from them, and nobody else's adds any. |
| `AgreementTheorems` | of `FiatShamir`: `Replay`, `ChallengesSettle`, `LockStep` | The prover's transcript at each stage *is* a function of statement and proof (`ProverOnCourse`), and so is the verifier's; on equal arguments they are equal. A generator in use is keyed with the whole of what its transcript has absorbed, as no write leaves it alive; so equal challenges come from equal pasts; the walks over two proofs are taken together, round by round and layer by layer, for every number of both: as long as their pasts are equal, so is every value absorbed so far. |
| `AgreementTheorems` | of `LigeroParam`: `OneSize`, `SameTableau`, `Dimensions` (of `DimensionsHold`) | `SearchIInv`. `Searching`: what is found is the first smallest size among those tried, or nothing fits; `BlockAssigned`: once a size could hold a code, no member that `sanity()` reads is garbage; so a build that passes `sanity()` had a size, and the last `layout()` set every member from it. The smallest size does not depend on SIZE_MAX, nor on what any machine found in its memory. Then arithmetic of the quotients. |
| `OpeningTheorems` | of `MerkleOpening`: `Distinct`, `Binding`, `HonestVerifies`; of `ProofCodec`: `NeverPastTheEnd`, `ReadIsAnOpening`, `WrittenIsRead`, `AcceptedBytesAreCommitted` | `Shuffled`: A stays a permutation and the prefix is what was drawn. For binding: a rebuilt node equal to the committed one has equal children, so an equal root makes every defined node above a chosen leaf equal (least counterexample on the path). For the honest opening, `HInv`: the digest of the child that node k lacks is in the path at the number of such nodes from k up (`Lacking`), where the verifier's counter stands when it comes to k. The upper bound of `ZkProof::read` refuses no such path: every marked node is one of the `PathLen` steps up from a chosen leaf. For the reader, `Reads`: it stands inside the bytes, has as many elements of `req` as `ci` says, each below the modulus, and nobody else moves meanwhile; then each length it asks for before reading, products and sums of size_t included, is what it takes. For an untouched proof, `AsSent`: it stands where the writer was at that place (`Layout`, from lemmas on `FlattenSeq`) and holds what the writer held, so that the values spelled there are found, pass their checks and are put together to the opening sent. |
| `ShimTheorems` | of `Sha256`: `TheHashesKeepInStep`, `WitnessSatisfiesTheSums`; of `Prf`: `TheBlocksAreAes` | For the hashes `HashInv`: at every place of the loops the shim's words and the witness's are those of the same block and round (`InStep`), although the two build the padding, the schedule and the sums in different ways. Bits as sets become numbers (`Num`, `Val`): a word is determined by its number, and a sum kept modulo 2^32 is the sum with its carry taken away; the carry is smaller than the number of words summed, which is what the circuit's few carry bits hold. For AES `PrfInv`: every word of the expanded key is the standard's, whatever part of the schedule is done (`KeysAreStandard`), and a block in work has the whole of it. Then a round of the shim, on sixteen bytes in a row with its own order of places, is the standard's on rows and columns: `ShiftRows` by the places, `MixColumns` because doubling and tripling a byte is linear, the last round without it. The eight bytes of a counter are the digits of its number to the base 256, by the quotients they are taken from (`Shifted`). |
| `ReleaseTheorems` | `TypeCorrect`, `TaggedFromMain`, `SaidIsSo`, `OneWinner` | Tag objects are unique, a tag made by a run is on the commit it compared with main, and a push replaces nothing; announced runs found both their objects taken by the remote. |
| `GoVendorTheorems` | `SyncRepairsWhateverWasThere`, `WhatPassesIsCurrent`, `OnlyATagSpoilsAWholeSync` | `OnCourse`: how far an undisturbed run has come, i.e. which copies are there and what they are, at every step of the script; at the end it is `Vendored`. A job is undisturbed, so it compares a commit with what its sources ask for; files `git diff` does not see only explain what is missing. A whole commit is `Vendored` for the developer, which differs from the job's in git describe at most. |
| `SwiftBundlesTheorems` | `AcceptedBundlesAreReal`, `StagedLibrariesAreReal`, `EnsuredBundlesAreAccepted`, `PlaceholdersReplaceNothing` | Four parts, of what is on disk and of the steps still to run. `CombinesACore`: a library is combined from a core that was compiled; `StagesTheChecked`: a bundle is staged directly after it was checked; `StubsTheMissing`: a stub is written only where nothing was found, and marked as one; `WillBeAccepted`: what is left of a run makes the bundle an accepted one, whatever an earlier run left. |

Assumptions are the named `ASSUME`s of the modules: the shape of the constants
(sequences not empty, bounds positive, sizes the powers of two), that a
malformed or forged value is not a signature, that requests are those the
library makes, that headers have names of their own, and the patch applies to revisions there are (`NameAssumption`); that an encoded signature is no
other value (`SigValueAssumption`), that the Apple and Android variants are disjoint
(`VariantsAssumption`), and what statements and proofs hold (`ContentAssumption`). Of the
proof's bytes: that an element, a nonce and a digest's number fit their two units
(`ContentsAssumption`), that the reader's limits can be counted in a size_t
(`CodecAssumption`), and that the writer's elements are below the modulus and no list it
writes reaches those limits (`PartsAssumption`): a longer list would be written and not
read back. Of the shim:
messages are bytes, at most what the witness's buffer of `CircuitBlocks` blocks holds
(`MessagesAssumption`, from the two callers, which hash structures of fixed size,
`approval_proof_v1_zk.cc:508` and 556); `kMaxBlocks` is no more than some 2^40, so that the
counter fits its 64 bits (`MaxBlocksAssumption`); and `TablesAssumption`, closed facts with no constant in them
(the S-box is the affine image of the inverse at each of the 256 bytes, the round
constants are powers of x, the first multiples of a byte are what doubling gives). TLC evaluates
them for every byte whenever it runs `shim`, so they are checked exhaustively and
not on an instance; the provers cannot compute a fold over 256 cases. The properties the theorems
state are checked by the runs too, but for `CallsOnlyGetNearer`, of which the runs check
the liveness half.

**Induction over data.** The libraries' induction theorems take a predicate as
parameter, which the provers cannot instantiate. Where the code recurses (halvings
of a node, rounds, layers) the proofs go by the least counterexample instead
(`Climb`, `ClimbFrom`, over sets of naturals), so do the facts about sums over a finite
set (that the order of the summands does not matter, that parts add up), and a recursive function is shown to
exist before its equation is used (`Halve`, `FlattenSteps`, `RunsAre`).

**Only model-checked.** `DigestIsSha256`: that the shim computes the published digests is
a computation on given messages, sixty-four rounds a block, and nothing to be proved
for every value of a constant; what is proved is that shim and witness compute the same.
`EveryCallEnds` of `Bindings`: liveness needs ENABLED, which is out of the prover's
reach. Its safety half is proved (`CallsWearOff`); what stays with TLC is that a call
which has not ended always has a step to take.

## 5. Not modelled, and what could come next

Not modelled for good: P-256 and GF(2^128) at their real size (pure
arithmetic far beyond enumeration), the assembler of `sysdep.h`, logging,
`rand_bytes`.

What the project could grow by, in order:

1. `Publish`: the release workflow's publishing job with repeated and dispatched
   runs, interrupted uploads and `SHA256SUMS`, and the Actions cache. It would compose with `Release`
   (whose tags start it) and `SwiftBundles` (whose staged libraries it uploads).
   To be proved: what the assets of a release come from.
2. `SumcheckAlgebra` and `LigeroAlgebra`: one layer of the sumcheck with its
   pad and linear constraints, and the three Ligero tests, over the field of
   five or seven elements: completeness, and the fraction of challenges under
   which a false claim survives. To be composed with `FiatShamir`'s order and with the
   columns `ProofCodec` reads.
3. `CircuitCodec` and `Compiler`: the delta-coded terms, the id, and
   the levelling of expressions against their direct evaluation.
4. `SmallFields`: interpolation, Reed-Solomon extension, FFT and the comparison
   gadgets against their definitions; the bit plucker.
5. Extension fields in `ProofCodec`, whose elements are not all of the subfield,
   so that runs alternate: `RunLens` and `RunsAre` are the only proofs that use
   the field being prime.
