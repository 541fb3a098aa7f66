# Verification of the Path ORAM libraries

TLA+ models, TLC runs and TLAPS proofs for this repository: the C++ Path ORAM of `path-oram`, the variant
`path_oram_Cloak_Query` that authenticates its buckets and stores containers of secret shares, and the table of shares
around them: the parser that writes it, the servers that query it, the programs that reconstruct it. `PROJECT.json` lists
components, runs, mutants, findings, hazards and theorems, and maps every definition to the lines it models.

## The system

| component | source | state | operations |
|---|---|---|---|
| ORAM protocol | `path-oram/src/oram.cpp` | bucket cache; owns nothing else, works on the three adapters | `get`, `put`, `multiple`, `load`; each access remaps, reads a path, updates, writes the path; `syncCache` ends a call |
| stash adapter | `path-oram/src/stash-adapter.cpp` | map block -> payload, at most `capacity` | `add` (keeps the old payload), `update` (replaces it), `get`, `deleteBlock`, `getAll` (shuffled), files |
| position map adapter | `path-oram/src/position-map-adapter.cpp` | array block -> leaf | `get`, `set`, files; or the same through another ORAM |
| storage adapter | `path-oram/src/storage-adapter.cpp` | back end location -> bucket, event handlers | `get`, `set` of many buckets: checks, padding, encryption, cut into batches; back ends in memory, in a file, in Redis |
| Cloak storage in a file | `path_oram_Cloak_Query/src/storage-adapter.cpp` | file, fstream with the bucket not yet written, key | constructor (create or reopen), `get`, `set`, destructor |
| Cloak ORAM | `path_oram_Cloak_Query/src/oram.cpp` | as above, and MAC per bucket, access counts, key | `putContainer`, `getContainer`, `computeAndStoreAllBucketMACs`, check of MACs on every read, files of MACs and key |
| Cloak stash | `path_oram_Cloak_Query/src/stash-adapter.cpp` | as above, all payloads of one size | resizing `add` and `update`, files |
| server programs | `path_oram_Cloak_Query/test/test-ser{3,4,5,6}.cpp` | files of a backup | `initialize`, `populateStorage`, `backupGenerator`, `initializeFromBackup`, reads over used blocks, SQL on shares |
| secret sharing | `path-oram/src/helpers.cpp`, `shamir.cpp` | none | `split`, `restore` modulo a prime |
| splitter, trusted proxy | `path-oram/src/splitter.cpp`, `trusted_proxy_layer.cpp` | share files of key and data, the ciphertext put together from them | `-decrypt`, the only option that can be reached; removes files as it goes |
| Shamir parser | `Shamir_Parser/shamir_parser.cpp` | one share file per server | encrypt (append a line per row and server), decrypt (load, transform, interpolate) |
| SQL server | `cpp-sql-server/src/sql_handler.cpp` | query file | appends the shares of the conditions of a query |
| queries over shares | `path_oram_Cloak_Query/test/test-{ser3,sss,sss-sql,sum,min,max,avg}.cpp` | one result file per server | a session compares shares, writes the lines it selects; others reconstruct COUNT, SUM, MIN, MAX, AVG |

**Interaction.** The ORAM class calls its adapters synchronously; there are no threads, callbacks (but for the storage's
traffic events) or messages. A call holds a *cache* of the buckets it has read and will write, so that `multiple` touches
the storage twice however many requests it has. What makes the protocol hard is not concurrency but the following.

- *Exceptions between steps.* Every adapter call may throw, and nothing is rolled back: a block is remapped before its
  path is read, blocks enter the stash one by one, buckets leave the cache only when all of them are stored.
  The object remains usable after an exception, and callers do use it.
- *The same block in several places.* Stash, cache and storage all hold copies; which one counts depends on the step.
- *Order inside a call.* `multiple` computes paths before it remaps; `update` happens while the path is in the stash.
- *Sizes.* Payloads are padded only when they reach the storage, refused only there, and in the Cloak stash cut.
- *ORAM in ORAM.* A position map may be another ORAM: each question to it is a call that may fail, in the middle of a step
  of the outer one.
- *What has not been written yet.* A file stream holds back the bucket written last; the programs open the storage a
  second time, are killed, or go on with a stream that has failed.
- *Runs that leave files.* The trusted proxy removes share files one by one and appends to its own; the next run works from what it finds.
- *Restarts.* Position map, stash, MACs, key and storage are saved separately and at different times.
- *Files of several servers.* The parser appends to them one by one and passes over one that does not open; a repeated run
  appends again. The sessions read them at other times, and what they answer is put together by position in the file.

**What makes each part correct.** Protocol: a block is in the stash or on the path of its leaf; all copies agree;
nothing exceeds its capacity; together, the ORAM is an array of blocks. `load`: it leaves a state the protocol could have
reached. Storage adapter: a call has the effect of its buckets in order, or of a prefix; answers stay in order; each bucket is reported once; it ends. In
a file: who has the key reads what was written, but for the last bucket before a failure. Trusted proxy: enough shares of
one encryption restore it, whatever ran before. Formats: what is read back is what was written. Cloak:
MACs fit the buckets and check them; restored sessions have their blocks on their paths and read what was put (of this, MACs do not check
and sessions do not always read what was put, see the findings). Shares: the lines of all files that stand at one
place are shares of one row; what enough servers answer reconstructs what the query asks of the table.

## Modules

| module | what it is |
|---|---|
| `TreeGeometry` | `bucketForLevelLeaf`, `canInclude`, `leavesForLocation` and the level search of Cloak's `getCache`, as pure operators |
| `BlockStore` | abstract specification of an ORAM: an array of blocks, served request by request, whose exceptions damage at most one block |
| `PathORAM` | the ORAM class with position map, stash, cache and storage; implements `BlockStore` |
| `PathORAM_proofs` | proofs about it: the ORAM invariant, the refinement, the bounds |
| `RecursiveMap` | `PathORAM` with its position map in an inner ORAM, which is an instance of `BlockStore`; the two together implement `BlockStore` again |
| `RecursiveMap_proofs` | proofs about it, from those about `PathORAM` |
| `BulkBuckets` | how many buckets `load` makes, of which size and for which locations, as pure operators |
| `BulkLoad` | `load`, then the actions of `PathORAM` |
| `BulkLoad_proofs` | proofs about the tree of `TreeGeometry` and `TreePaths`, about `LoadPlans`, and about it |
| `StorageAdapter` | the storage adapter with its back ends |
| `BucketStore` | abstract specification of a storage of encrypted buckets in a file: reads, writes, and what may be lost |
| `StorageFile` | the file storage of Cloak with its stream, its key and the processes that use it; implements `BucketStore` |
| `ModularSharing` | Shamir's scheme modulo a prime in words of the machine, as pure operators |
| `Splitter`, `StashFile` | the numbers that stand for files and keys, the records of a stash, as pure operators |
| `PureInput` | a pure algorithm as a state machine whose one state is its input, so that what is said of its result is an invariant |
| `TreePaths`, `LoadPlans`, `FileFormats` | with it, what `TreeGeometry`, `BulkBuckets`, `Splitter` and `StashFile` should compute, for inputs given by constants or parameters |
| `TrustedProxy` | runs of the trusted proxy, file by file |
| `CloakORAM` | the Cloak ORAM, its stash and the sessions of the server programs; extends `PathORAM` and reuses what the two share |
| `Sharing` | Shamir's scheme over the integers, shares and interpolation, as pure operators |
| `SharedTable` | the Shamir parser, the sessions that query its files, and the reconstruction of rows and results |
| `SharedTable_proofs` | proofs about it |
| `StorageAdapter_proofs`, `StorageFile_proofs`, `TrustedProxy_proofs`, `CloakORAM_proofs` | proofs about the storage adapter, the refinement of `BucketStore`, the trusted proxy and the formats, and the MACs and paths of Cloak |
| `MC...` | instances for TLC; `MCAlgorithms` puts the inputs of `TreePaths`, `LoadPlans`, `FileFormats` and of the modular shares together |

### PathORAM

`phase` is the program counter inside a call: `prefetch` (only `multiple`), then for each request `remap`, `read`,
`update`, `write`, then `sync`; `returned` and `threw` are the states between calls. One action stands for one of these
steps with everything it calls:

- `Remap`, `ReadPath`, `Update`, `WritePath`: the four steps of `ORAM::access`. `ReadPath` includes `getCache` and all
  `stash->add`; `WritePath` includes the greedy choice from leaf to root, `setCache` and all `deleteBlock`.
  Which of the blocks that fit a bucket go into it is open, as the stash is shuffled (`Greedy`).
- `Prefetch`, `Sync`: `getCache` for all requests, and `syncCache`.
- `ReadPathOverflows`, `UpdateOverflows`: the stash throws; `StorageGetFails`, `StorageSetFails`: the storage throws,
  the latter after any subset of the buckets; `SyncRejected`: a payload is too large, found after some of the cache
  was padded in place.

Buckets are functions from the blocks they hold to payloads; dummies are left out. `damaged` is a history variable: the
blocks whose only tree copy is off their path because their own access threw while reading. The stash capacity counts as
in `checkOverflow`, and the position map is total: the models use block ids below its capacity.

### RecursiveMap

The inner ORAM is `Map == INSTANCE BlockStore`: what a run of `PathORAM` was shown to implement takes the place of the code
behind `ORAMPositionMapAdapter`, its `contents` being `positionMap`. Where `PathORAM` reads or sets an entry, `RecursiveMap` has two
steps, the question (`GetPosition`, `SetPosition`) and the answer (`MapReturns`), and in between the inner ORAM runs (`MapServes`) or
throws (`MapThrows`, which ends the outer call on the spot). `multiple` asks for every request, an access asks once and sets
once, `writePath` asks for the blocks of the stash. What needs no map is the action of `PathORAM` itself.

An entry that an exception of the inner ORAM has damaged answers any number, as the code takes the first bytes of whatever
payload it gets, even of an empty one; `PathRefused` is the storage refusing a location from such a number. `Strands` says what an exception does to the outer
block: it is off its path once its entry has changed, and its tree copy is stale once it has been updated in the stash.

### BulkLoad

`Load` is `ORAM::load` on a fresh ORAM; `LoadTooMuch` its exception. The shuffle is a choice of the deal of records to
buckets, the spacing is exact instead of floating point. A load the storage refuses has set the position map already.

`BulkBuckets` has the arithmetic. The last bucket is padded by a loop (`oram.cpp:147`) whose condition compares with `bucket.size() - Z`, of
unsigned numbers: while blocks are missing the difference wraps around to a number beyond any `i`, and when none are it is 0. `Dummies` is the
number of its rounds, with `NumberRange` values instead of 2^64; a comparison with signs would add none.

For location 2^Height, which no path visits, `leavesForLocation` shifts by a negative count. That is undefined; the leaf may come out in or
beyond the tree. A block with such a leaf is `astray`: the storage refuses its path (`UseAstray`), before anything is remapped in
`multiple`, after its block is remapped to a leaf of the tree in an access.

### StorageAdapter

A call starts with all checks (`Call`). Then `step` is its place in the code: it cuts off a batch (`Cut`), executes requests (`BackEndGets`,
`BackEndSets`), any of which may fail instead (`BackEndFails`), and reports them. `RECORD_AND_EXECUTE` is used twice, around a
batch and around each single request, and its conditions decide separately whether a request is reported. So these are steps of
their own: `RecordOne` for a single bucket, `RecordBatch` for a batch. A back end with batch operations (Redis, `supports`) takes a batch as a whole and only
the batch is reported; for one without, each bucket is executed and reported, and at the end of the batch the outer macro must stay silent
(`BatchHeard`). A call of one bucket has no batch. `heard` counts for each bucket how often the handler was told. `batchLimit` is 0 for no limit.
`before` and `heard` are history variables. Encryption is an identity here; its IVs and keys show in no property.

### StorageFile

The adapter of Cloak over an `fstream`. A `set` writes bucket by bucket (`WriteBucket`); `pending` is the bucket the stream
still holds, which it writes when it seeks (`Flushed`), that is with the next bucket or the next `get`, and when it is closed (`Destroy`). `failed`
is a stream whose failbit is set: no code looks at it, all later operations do nothing, and `get` answers from an array nobody
has set (`Noise`). A constructor that creates the file writes placeholders of unset memory, then zeroes all buckets with
a `set`. Cells hold the key they were encrypted with; `keyFile` is the file of `storeKey`, `owner` a history variable.

Adapters may overlap as in `disaster()` of `test-oram-big.cpp`: the new one is constructed while the old one is still held by the
ORAM, and used once the old one is gone. `Kill` may come at any step.

### ModularSharing, Splitter, StashFile

Functions of the code as operators of the same names. Words wrap around at `Width` bits and remainders take the sign of the
dividend, as in C++. A buffer has `BufferBytes` bytes, a number `ChunkBytes`; unset memory is a set of possible values. `split`
returns all the lists of shares that some coefficients give. `ChunkAssumption` says that a buffer holds whole chunks, as the 42000 bytes
of `CHUNK_SIZE` do (`splitter.cpp:10`); a size that is none of them would lose bytes at the end of each buffer. `handle_text`
appends number by number to its file; `BytesOf` says which byte of which number is in which place. The records of `storeToFile` are copied one
after the other, so that a cell has what was written to it last. The inputs of these operators are states (`Given`): `Files` with the values that
an unset field may have, `Keys` with what follows them in memory, `Stashes` with an order for their blocks.

### TrustedProxy

The option of the program is the constant `"-decrypt"` (`trusted_proxy_layer.cpp:158`): whatever its first argument says it decrypts, and the
branch that encrypts (lines 220 to 246) is never taken. So a run is a decryption, and share files come from outside (`Exchange`, between runs: a
file is lost, or one of any encryption is brought, whole or not). What the unreachable branch would compute is in `Splitter`, its steps are
not modelled.

`pc` and `share` are the place in the program: reading and removing share files are loops over the shares (`EachShare`),
one file per step. A run may be killed before any step or while it writes a file (`CutShort`). A file is named by the encryption it is from, its
generation: that enough shares restore a number is `SharesRestore`. `begun` is a history variable: the share files a run has started from.

### CloakORAM

A payload is a record: its value, how many bytes of it are left, its size. MACs stand for the bag of payloads of a bucket,
since `computeAndStoreBucketMAC` leaves the ids out. `SetUp`, `Backup`, `Restart` are the set-up, the backup and the
restore of the server programs. The constants say which program is meant:

| constant | meaning |
|---|---|
| `Populated` | `populateStorage` is run |
| `MacsRestored` | sessions that call `loadMacMap`, sessions that do not, or both |
| `SameKey` | the key that is saved is that of the storage |
| `KeepOutdated` | a session may start from a backup older than an access |

`getCache` of this library looks for the level of a location as though it were a leaf, and may shift by a negative count:
the bucket whose MAC it looks up is then any (`CheckedFor`).

### SharedTable

The parser works on a row at a time: `Encrypt` takes it up, `SaveShare` appends its line to the file of one server,
`SaveFails` is a file that does not open, `Crash` a run that dies between two files. A row the parser is given again is a
new row. A session of a server does `Load` and then `Answer`, once each; loading stands for the way of the lines through
containers and ORAM, which `CloakORAM` models. Parser and sessions interleave freely.

Decryption and the programs for results change no state and are operators: `LoadAllShares` (which leaves out the last
server, as the code does), `Pairs` (`transformShares`: the line number is the row, the server the x of the share),
`Decrypt`, `ServerSums`. What is reconstructed from fewer than K shares is `NoRow`: the code then reads past the end of
its vectors. `sound` is a history variable: how many lines of a file precede the first row it missed.

The conversions between attributes and integers are left out: rows are given as integers. Numbers are exact instead of
doubles, which agree below 2^53. `Queries` holds what the shipped queries have in common: conditions on text columns, at
most one for each column, joined by one clause. `NoCollisions` says that no share of a condition equals that of another
value of its column; the coefficients are random, and with unlucky ones a comparison would select too much. `SharesRestore` says that
any K shares of a row interpolate to it, a fact about polynomials that TLC evaluates for the instance and the proofs build on; `SumsRestore`
says the same of the sums of the shares of several rows, as the programs for SUM add up the selected column (`SumOf`, `Column`) before they interpolate.
The loops that collect some lines of a sequence are written by position (`Collect`, `Nth`): "the k-th line selected" is what
all statements about results are about.

## Runs

All end with 2 workers within four minutes each.

| run | shows | bounds |
|---|---|---|
| `algorithms` | paths are branches of the tree, `canInclude` holds on the shared part of two paths, `leavesForLocation` gives the leaves below; a load makes the buckets it has counted, all of Z blocks and at locations that differ (`LoadFillsBuckets`); shares restore their secret, files, keys and stashes come back from their formats | all trees to height 5, all pairs of leaves, all locations; loads of 1 to Z 2^height records with Z to 4 and numbers below 16; prime 11, 3 of 5 shares, all secrets, coefficients and holders; files to 14 bytes with chunks of 3 and buffers of 6; stashes of up to 3 blocks in all orders |
| `oram_faults` | `OnMappedPath`, `CopiesAgree` and the refinement `KeepsPromise` under failing reads and writes and overflows | 2 blocks, height 2, Z = 1, stash of 1 |
| `oram_batches` | `WithinCapacity`, `PrefetchCovers`, `NothingOversizedStored`, `KeepsPromise` for calls of up to 2 requests, the same block twice included (`PrefetchCovers` is about the first request for it), and payloads that are refused | as above, stash of 2 |
| `recursive_map` | `OnPathOfEntry`; the refinement `KeepsPromiseRecursively`: an ORAM over an ORAM is an array of blocks too, at the price of two blocks for an exception instead of one; `CallsEnd` | 2 blocks, height 2, Z = 1, stash of 1; batches of none and of two; after a block is damaged only reads |
| `bulk_load` | what `load` wrote is on its path and is served until overwritten | 5 blocks, height 2, Z = 1: 0 to 5 buckets for 3 locations |
| `bulk_load_spare` | *violated*: see findings | 4 records, a storage of 5 locations |
| `storage` | prefix of the writes, answers in order, nothing refused is stored, every bucket reported once (`AllTrafficReported`), every call ends | calls of up to 3 buckets, limit 0 or 2, both kinds of back end |
| `storage_file` | the refinement `KeepsBuckets`: who has the key reads what was written, before and after reopening; a kill or a failure costs the bucket written last at most; another key shows nothing | 2 locations, 2 adapters, calls of up to 2 buckets, 3 adapters opened in all, failing writes |
| `trusted_proxy` | enough shares restore the file whatever ran before (`EnoughSharesRecover`), a shortage of data files leaves them alone (`ShortageKeepsData`) | 2 of 3 shares, 2 generations, files lost and brought at any time between runs, two kills, any number of runs |
| `cloak` | MACs match their buckets, blocks of the same and of the restored session are on their paths | 3 blocks, one payload, height 2, Z = 1, stash of 2, faults, one restart, with and without its MACs |
| `cloak_verified` | *violated*: see findings | as `cloak`, without faults |
| `shared_table` | `Aligned`, `FilesInStep`: lines stay at the place of their row but for those after a missed one; `RowsSurvive`, `ResultsReconstruct`, `SumReconstructs`, `CountsAreExact`: what decryption and queries make of them | 4 servers, K = 2, 2 rows out of 3, one fault; COUNT and SUM with AND, MIN with OR |

**Why the bounds are enough.** Two leaves, a shared root and a bucket of one block make every eviction compete: with two
blocks one of them already finds its bucket taken and stays in the stash, which then is full. Overflow, orphaned blocks,
duplicates in stash and tree after a failed sync, and reading them back all occur. Deeper trees add levels that behave as
these (the geometry is checked separately); more payloads add nothing, as the code never looks into them. The number of
calls is not bounded. Blocks are symmetric: no definition and no property of the runs that use symmetry names one
(`MCCloakORAM_populated.cfg`, where ids are numbers, does without, and so does `recursive_map`, for the sake of its liveness property).

In `recursive_map` the inner ORAM is abstract, so that only its outcomes count: an answer, an exception before or after it
served, an entry damaged. Two blocks suffice for the entry that is damaged to be that of the block accessed or of another one in
the stash. In `storage_file` two locations tell the bucket held back from one in the file, two adapters are the most that overlap,
and a third one opens the file after both. In `trusted_proxy` the third share is the one to spare; two generations are needed for
shares of different ones to meet, and a third would only be another that does not fit. Two kills reach every
pair of steps, and what killed runs leave is met by one that ends. In `algorithms` the prime must be larger than the number of shares, the word
such that `RoomInWord` holds, which is the bound the code needs: with its own prime and 64 bits it fails from the tenth share on. Z goes to 4, so that a last bucket lacks one block, several,
or none, and 16 numbers are more than twice that, as 2^64 are in the code. In `bulk_load` Z is 1: what it asks is where records go and what accesses make of
them, and the size of buckets is the matter of `algorithms`.

In `shared_table`, four servers are the fewest for which a row may be missing at one that is read and still have K = 2 shares
to spare, and the last one is left out. Two rows are needed for a line to be shifted; the three to choose from match both
conditions, one, and none, and quantities 1 and 2 have equal shares at server 1, which is harmless outside of conditions.
More rows repeat the shift, and `FilesAligned` is proved for any number. One fault meets every point of the loop.

**Fairness.** A call runs on the thread of its caller to its end, so what it can do next it does: weak fairness of the steps of a
call, `RunCall` in `RecursiveMap` and `Steps` in `StorageAdapter`. Nothing is assumed of the callers, and no failure has to happen. The
two `CallsEnd` say that this suffices: an outer call, which takes as many inner calls as the stash has blocks, comes to an
end whichever of them throw, and the loop over batches does for any limit, 0 included. The other modules have no fairness: their
calls and runs are straight sequences, for which "every call ends" would restate the model.

**Deadlock** is checked in all runs but `shared_table`: in every state some step or some call is possible. There the programs
end, and nothing is left to do when the parser has had its `MaxRows` rows and every session has answered.

**Mutants.** Definitions preceded by "Faulty variant" are plausible bugs of the definition that follows; each property is
violated when one of them takes its place.

### Findings

1. `bulk_load_spare`: `load` accepts 2^height buckets, the tree has 2^height - 1. The last one goes to location 2^height,
   which no path visits; if the storage has that location (its capacity is up to the caller) its records are lost silently.
2. `cloak_verified`: the check of a MAC compares the computed MAC with itself.

`test-ser3.cpp` asserts that what a restored session reads are the shares that were put (`ASSERT_EQ(secretShares[j], retrievedShares_global[j]);`,
line 463). `SharesAreReturned` says so, and it does not hold of the programs, for four reasons. So no run checks it and no theorem states
it. For each reason there is a configuration, with which `tlc -config <file> MCCloakORAM` shows a trace:

- `MCCloakORAM_key.cfg`: `backupGenerator` saves `oram->getKey()`, the key of the MACs (`test-ser3.cpp:322`), and `initializeFromBackup`
  opens the storage with it, which was written with a key of its own. In 13 states a container is put and stored, the session is backed up and
  restored, and the container is read: the storage gives noise, ids beyond 10^12 are skipped, and the answer is empty.
- `MCCloakORAM_cut.cfg`: `add` and `update` of the Cloak stash resize every payload to the size of the first one in it
  (`stash-adapter.cpp:60`). A short container put into an empty stash makes the stash cut longer ones read or put later.
- `MCCloakORAM_populated.cfg`: `populateStorage` (`test-ser3.cpp:290`, called at `:372`) leaves zero blocks under real ids off their paths; they come back.
- `MCCloakORAM_again.cfg`: all sessions restore the same client state over a storage that earlier sessions changed (`test-ser3.cpp:340`, `:428`).

`cloak` checks what does hold: `MacsMatch` of callers that save the right key and use the latest backup, `RestoredOnPath` of those that use the
latest backup and do not populate. The hypotheses of the theorems say which is needed for what.

Observed while modelling, without a run of their own:

- An ORAM constructed with `initialize = false` refuses every access until `loadMacMap` is called: the read fails for
  want of a MAC. `cloak` has such sessions (`MacsRestored`).
- The COUNT queries of server 2 (`test-sss.cpp:484` and `:542`) compare with `id_0`, the share made for server 1, and so count
  nothing. `ShareID` follows the code; `CountsAreExact` leaves server 2 out.
- `test-avg.cpp:90` adds up the tuples of all servers, so that the average is divided by the number of servers.
- `loadAllShares` never reads the file of the last server, so that one server fewer can be missing than there are.
- An exception of an inner ORAM in `writePath` leaves the updated block in the stash and its old copy in the tree. Later accesses read one or the other,
  depending on which is met first; `RecursiveMap` counts the block as damaged.
- The file storage never asks its stream whether an operation succeeded. After one failure, or one read past the end of a short file,
  `set` does nothing and `get` answers from unset memory (`storage-adapter.cpp:424`, `:434`). A storage whose process is killed right after creating it
  may have a placeholder of unset memory for its last bucket.
- `test-tpl.cpp:34` runs `./main -encrypt` and expects shares to come of it. As the option is a constant the program decrypts, and its second argument, the
  file to be encrypted, is opened for writing once key files are found.
- The padding of the last bucket in `load` (`oram.cpp:147`) looks wrong and is right, by the wrap-around of an unsigned difference (`LoadFillsBuckets`).
- `shamirSecretSharing` of the Shamir parser keeps k coefficients in a vector of k - 1 (`shamir_parser.cpp:78`, `:87`): the last one is written and read beyond its
  end. `Share` takes it for what was written, as long as nothing else is there.
- The trusted proxy removes key files as it reads them, and with too few of them ends with 0, the others gone. `handle_text` returns
  nothing, so that with too few data files its caller decrypts the `combined_shares.dat` of an earlier run, if there is one, or reads from a null pointer.
  `close_files_return()` is called and its result dropped: a wrong key does not end the decryption. The output is never closed.
  `restore` ignores `k` and uses all shares found: one that is cut or of another encryption spoils the rest.
- `read_file` leaves `ct_empty` unset for a file of whole chunks and uses it: it may run off its buffer (`splitter.cpp:27`).
- Ids go through `vector<int>` in `writePath` (`oram.cpp:209`), leaves through `1 << (height - 1)` (`:280`): ids from 2^31 and trees
  from height 32 on would go wrong. No program of the repository comes near.

## Proofs

All safety properties that the runs check of `PathORAM` are proved, for all values of the constants that satisfy its
assumptions: the buckets of a path are distinct and belong to one level each, which `TreeAsAssumed` proves of the tree of
`oram.cpp`; padding is idempotent and makes no payload too
large; the set of blocks is finite, as the position map is an array; sizes are natural numbers. `PathORAM_proofs`:

- `TypeCorrect`: `Spec => [](TypeOK /\ CallOK)`. `CallOK` ties `phase` to the rest: inside a call there is a request to
  serve, inside an access a path.
- `OramInvariant`: `Spec => [](OnMappedPath /\ CopiesAgree)`. Neither is inductive. What is missing is `PathLoaded`: from
  reading a path to writing it, every block of that path is in the stash, so that overwriting its buckets loses nothing and
  leaves no stale copy. `IInv` is the conjunction of the three. The proof goes action by action; those that change no copy
  share `QuietStep`, those that throw `ThrowingStep`; `ReadPath`, `Update`, `WritePath` and the sync actions have lemmas of
  their own. `WritePath` is the heart of it: an old copy on the path is gone, a new one is on the shared part of two paths.
  `CopiesStayEqual` is its second half.

It implements `BlockStore`:

- `OramKeepsPromise`: `Spec => KeepsPromise`. The mapping takes `contents` to the value each block would be served with: its
  stash copy, or the one on its path, or nothing (`ValueOf`). `InitRefines` and `StepRefines` are the two halves. Each action keeps all
  values (`KeptView`: the copies of a block may move, but not change), or serves the request (`ServedStep`, at `Update`), or
  throws. The invariant is `IInv`: without `CopiesAgree` the value of a block would depend on which copy is met, and without
  `OnMappedPath` writing a path could lose one. `WritePathValues` is where both are needed.

It keeps its bounds, by the cardinalities of `FiniteSetTheorems`:

- `CapacitiesHold`: buckets hold at most Z blocks and the stash its capacity.
- `OversizedStaysOut`: what is too large stays out of the storage. The buckets `Sync` may have stored when one of them was
  refused were all checked before.
- `PrefetchSuffices`: when an access inside `multiple` reads its path, the cache has it, unless an earlier request of the call was
  for the same block. Its strengthening `StillCovered` says so all through the call, of the paths the map gives for the requests to
  come that are the first for their block.

`RecursiveMap_proofs`, from the assumptions of `PathORAM` and that batches are calls it accepts:

- `EntriesLeadToBlocks`: `SpecRecursive => []OnPathOfEntry`. The invariant `RInv` is that of `PathORAM` with one more phase, and
  `MapCallOK`: the inner call is the one that the phase of the outer ORAM makes, and what it has answered about a sound entry is
  still what the entry holds. Between reading an entry and setting it, and when an entry led nowhere, the outer ORAM is in no state of
  `PathORAM`; in all others it is (`IsORAM`, `FromORAM`), so that the steps the two share are taken from `PathORAM_proofs`, and only those around
  an inner call, and its exceptions, are new.
- `RecursionKeepsPromise`: `SpecRecursive => KeepsPromiseRecursively`. The inner ORAM is any that keeps the promise of `BlockStore`, not
  only a `PathORAM`.
- `CallsAdvance`: `SpecRecursive => [][CallAdvances]_recursiveVars`, the part of `CallsEnd` that needs no fairness: each step inside a call
  ends it, takes up the next request, goes to a later stage, has asked about one thing more, or gets further with asking. All of these
  are bounded, so that no call goes on forever. `AskedOK` is what it needs: a request or a block that is being asked about has not been asked about before.

`BulkLoad_proofs` starts with the tree itself. Theorems about it hold for every height h, and rest on nothing but that powers of two
double up to some n (`Doubling`), of which the provers know nothing. Induction is over a set of numbers (`UpTo`: of those
it lacks none can be the least), as induction over predicates is out of the prover's reach.

- `TreeAsAssumed`, `PathGoesDown`: the buckets of a path are locations of the tree, each a child of the one before, from the root to
  the leaf; no two levels share one. The bucket of level l is one of 2^l .. 2^(l+1) - 1 (`BucketOfLevel`), and dividing
  by 2d is dividing by d and halving (`ParentAbove`).
- `SharedFromTheRoot`: `canInclude` accepts the levels on which two paths share a bucket, and these are all levels down to one of them.
- `LeavesBelow`: `leavesForLocation` gives the leaves whose path goes through the location, and no other.

From these come the invariants of `TreePaths` that `algorithms` checks to height 5, for trees of any height and together with inputs of
other kinds:

- `PathsAreBranches`: a path has as many buckets as the tree has levels (`PathLength`: levels and buckets of a path correspond one to one),
  and left of its end are as many leaves as its leaf has in its number (`LeavesToTheLeft`), both by the cardinalities of `FiniteSetTheorems`.
- `PathsShareTheirTop`, `LeavesOfLocations`: the above for all pairs of leaves and all locations.

Then `load`, with `StorageAssumption` and `PowersOfTwo`:

- `LoadsFillBuckets`: `LoadFillsBuckets` for loads of any Z and number of records into trees of any height. Dealing n records gives (n + Z - 1) / Z buckets
  (`Requests`), the padding loop stops when nothing is missing and not before (`Padding`), and locations rise with the iteration (`LocationsRise`).
- `BucketsFit`: `LoadSpec => []LoadFitsBuckets`, that no bucket has more than Z blocks after a load and whatever follows it, without any hypothesis. Z records in all buckets but one leave at most Z for the last
  (`Buckets`, by adding up the cardinalities of a deal), and locations are distinct as long as there are enough (`Spread`).
- `LoadKeepsOram`, `LoadedComesBack`: `LoadPreservesInvariant` and `LoadedIsServed`. The invariant is that of `PathORAM` with `Holding`: what
  a block would be served with is what it was last given; nothing is `astray`. `LeavesBelow` puts a record on its path. The hypothesis
  `NoSpareLocations`, that the storage has 2^height locations, is what `bulk_load_spare` shows to be needed: with a spare one, `load`
  writes records where no path goes.

`SharedTable_proofs`, for any numbers of servers, rows and faults, from `TableConstants`:

- `FilesAligned`: `Spec => [](TypeOK /\ Aligned /\ FilesInStep)`. What induction lacks is `Bounded`: no file is counted as
  sound beyond the rows it was offered, and no session holds more lines than the file. With it, a line saved for a file that
  has missed none lands exactly at the end of the sound part (`SaveShareInv`), any other one behind it; and no session can
  hold a line that is yet to be written. `FilesInStep` gives the length of the file that this needs. `TypeCorrect` and `FilesKeepStep` are
  its other parts.
- `RowsComeBack`: `Spec => []RowsSurvive`, with `SharesRestore`. The servers `Holders` names are distinct and have the line
  (`HolderFacts`), and K of their shares make the row (`RowRestored`). Being sound at its place is all that a line needs.
- `CountsHold`, `ResultsComeBack`: `CountsAreExact` and `ResultsReconstruct`, with `NoCollisions` besides. `Answered` says of each answer which
  lines it was made of. A session that compares with shares of its own selects the positions of the rows that match
  (`SelectedAreMatching`); the k-th of these is the same row at every server, however few lines it had loaded, since the
  matching positions of a shorter file are the first of those of a longer one (`NthOfMore`).

- `SumsComeBack`: `SumReconstructs`, with `SumsRestore` besides. Sums over sets are operators with operators for arguments, of which the
  provers know nothing; so `AnswerRows` shows that the answers of the first K servers are, line by line, the shares of the same rows, and the sums
  are equal because what is summed is. That sums of shares restore sums of rows stays an assumption, the linearity of interpolation.

`StorageAdapter_proofs`, from `StorageConstants`, for any number of locations, buckets in a call, batch limits and kinds of
back ends. `StorageTypeCorrect` has the types. What the safety properties lack is `CallOK`: inside a call its arguments have passed the checks,
and at each step `first`, `pointer` and `until` stand as that step needs them. With it, a batch takes at least one argument and
none that is not there (`BatchFits`), and so does a request (`RequestFits`).

- `WritesArePrefixes`: a prefix is extended by the request that writes (`WriteExtends`). Of several buckets for one location the last
  one counts; that there is a last one (`LastOf`) comes from the inclusion of finite sets being well-founded.
- `AnswersStayInOrder`, `NothingMalformed`: likewise request by request.
- `TrafficReported`: `AllTrafficReported` says which buckets have been executed and reported at each step (`Accounted`). At the end of a batch the
  outer report is made just when no inner one was (`BatchHeard` is `subscribed /\ AsBatch`), so that each report adds to buckets
  that nobody has heard of (`TellOnce`).
- `BatchesAdvance`: `Spec => [][StepsAdvance]_vars`, the part of `CallsEnd` that needs no fairness: each step of a call ends it or makes `Left` smaller, which counts
  the arguments not yet served and the steps due for those in hand, whatever the limit.

`StorageFile_proofs`, from `FileConstants`, for any number of locations, keys, adapters and openings.

- `FileKeepsBuckets`: `Spec => KeepsBuckets`, the refinement of `BucketStore`. Its invariant is `IInv`: only one stream holds back a bucket and
  adapters overlap only between calls (`Alone`); a complete file has only cells of its own key, or of none (`Keyed`); the
  constructor has zeroed all but the bucket its stream still holds (`Zeroing`). Hence what is promised is the file as that one stream
  will leave it (`LatestIsKnown`, `LatestKept`, `LatestWritten`), and each action is one step of the promise or none (`StepRefines`). The
  promise begins where the constructor ends, with the last bucket not yet in the file (`CreateRefines`).

`TrustedProxy_proofs`, from `ShareAssumption`, for any numbers of shares, generations and kills. `TypeOK` says also that a step
is part of a run and that loops start at the first share.

- `EnoughSharesSuffice`: `Restoring` follows the file of a generation through the run, from the share files (`FoundSoFar`: one content for
  each file met, all the same; `Unread`: those to come are as they were) over key and combined ciphertext to the output. At the last share as many
  contents are found as there are files (`FoundAll`, by cardinalities). The combined ciphertext is alone in its file because a run removes
  what an earlier one left.
- `ShortageLeavesData`: a run that lacks data files is never at a step that reads them (`ShortageSeen`).

The second half of `TrustedProxy_proofs` is about the formats of `FileFormats`: what `Restored` of `TrustedProxy` takes for granted of the
numbers, and what the stash does with its file.

- `FilesAndKeysComeBack`: for files of any bytes and length, any chunks and keys, and buffers of whole chunks. A byte of what is put together is the
  same byte of what was cut (`ChunksJoined`, by the place `Division` gives it: its number and its place therein). The header says how many numbers
  to take (`TextHandled`); if nothing had to be filled up, the unset field it counts makes that too many or not, and `tot_sz` cuts what is too
  much. A key of `KeyBytes` bytes ends in the last number but one or in the last, and only it is filled from what follows in memory.
- `StashesComeBack`: for any finite set of blocks and payloads of the block size. Each record stands in its own cells, so that what was copied
  last there is itself (`RecordsStored`), and each number is found at one place only, since the order names no block twice (`RecordsLoaded`).

`CloakORAM_proofs`:

- `MacsStayInStep`: `CloakSpec => []MacsMatch`, under `ProperSessions`: `SameKey`, not `KeepOutdated`, and a padding that leaves full
  payloads alone. `MacsMatch` is not inductive: a store pads what is in the cache, which must change no MAC (`AllFull`: only payloads that fill
  a block get to the tree), and a restored session takes MACs from a file (`BackupFits`: while there is a backup to
  restore, nothing has been written since, and the cache is empty). Without the hypothesis it fails: with
  another key, or an outdated backup, the MACs are those of other buckets.
- `RestoredStaysOnPath`: `CloakSpec => []RestoredOnPath`, under `FreshSessions`: nothing is populated, no backup is outdated. It holds whatever
  the MACs and keys are, refused paths included. `OnPathInv` adds that a path that was read is in the stash (`PathLoaded`), and that the
  position map of a backup is the one in use until the next access (`BackupMaps`).

What `SharesAreReturned` says is no theorem: every program of the repository that puts containers violates at least one of the hypotheses it would need.

Only model-checked: liveness (`CallsEnd` of two modules), which is beyond the prover, but for the progress that `BatchesAdvance` and
`CallsAdvance` prove of their steps; and `SharesRestore` of `algorithms`, the modular shares: sums, products and Euclid's algorithm go
through data step by step, and need an induction that is beyond the prover. The assumptions `SharesRestore` and `SumsRestore` of
`SharedTable`, about products of the same kind, are evaluated by TLC for its instance. Bulk loads into a storage with spare locations are
left out of the theorems because there the properties fail.

## Plan

Done, in this order: geometry, protocol and promise, its proofs, bulk load, storage adapter, Cloak sessions, shared table
and the proofs about its files; then the position map in another ORAM, modular shares and formats, the trusted proxy, the
storage in a file, liveness, and the proofs of the two refinements and the bounds, of the storage adapter, the trusted proxy and the MACs;
then the proofs of the recursive map, of the tree and bulk loads, of the sessions of Cloak, and of queries over shares;
then the invariants of paths and formats for inputs of any size, those of sums, and the progress of calls; last the buckets of a load and the
reports of the storage adapter step by step.

Next: `RecursiveMap` with the faults of the outer storage; the range queries over used blocks of the sessions; the modular shares, for a
prover with induction over data.

## Not modelled

- Ciphers, hashes, random numbers (`utility.cpp`): what is decrypted with the key it was encrypted with comes back,
  anything else is noise. Obliviousness, a property of distributions, is out of scope of these models. So are the cipher mode `NONE`
  and what it does to keys.
- Buckets that reach a file in part, and crashes of the machine rather than the process: pages and caches of the operating system.
- The branch of the trusted proxy that encrypts, which is never taken, and `-config`, whose file is never read.
- Doubles in the Shamir parser, and integers of the ORAM at the ends of their ranges.
- `cache-adapter.*` (an unused interface), Cloak's `trusted_proxy_layer.cpp` (commented out), Aerospike (commented out).
- Cloak's `multiple` and `load`, and the checks, batches and events of its storage adapter, which repeat those of path-oram and are
  modelled there.
- The syntax of queries (`cpp-sql-server/sql_parser.py`, the query files) and the division of AVG: wording, and one line.
- Benchmarks, test data, editor and build files.
