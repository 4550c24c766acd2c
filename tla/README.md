# TLA+ verification of haybarn-httpfs

This directory holds a TLA+ model of the parts of the httpfs extension whose
correctness depends on the order of events: threads that share counters and
buffers, requests that fail half way, objects that outlive the calls that made
them. TLC checks the models on small instances; TLAPS proves the most important
properties for every value of the parameters. `PROJECT.json` lists the runs,
the source lines every definition models, the hazards the properties are aimed
at, the findings and the theorems.

To reproduce: `tlc -config X.cfg Module` for a run of `PROJECT.json`,
`tlapm Module.tla` for a module with proofs.

## 1. Inventory of the system

The extension gives DuckDB file systems over HTTP(S), S3 and Hugging Face.
A query opens file handles through one of them; a handle sends requests through
an HTTP client (curl or httplib); clients, metadata and whole files are shared
through caches.

| Component (source) | State | Operations | Hard behaviour | What makes it correct |
|---|---|---|---|---|
| S3 write path (`s3_multi_part_upload.cpp`, `S3FileSystem::Write`, `FileSync`, `Close` in `s3fs.cpp`) | write buffers by part number, slot counter, two condition variables, ETags, error manager | Write, FlushBuffer, UploadBuffer (detached thread), Finalize | a detached thread per part; errors that surface later; retried completion; `uint16_t` part numbers | object complete or untouched; no error lost; no slot lost; calls return |
| curl multi dispatcher (`httpfs_curl_multi_dispatcher.cpp`) | queue, in-flight list, multi handle, stop flags | Submit, LoopOnce, FailAllPending, destructor | frames on other threads' stacks; shutdown during Submit; exceptions in the loop | no dangling frame; every Submit returns with its own result |
| HTTP file handle (`httpfs.cpp`, `httpfs.hpp`) | read buffer and its window, offsets, length, ETag, client cache | Open (HEAD, range probe, full download), Read, Seek | servers without ranges; files that change between requests; requests that fail half way | bytes returned are bytes of the file at that offset, of one version |
| HTTP state, file cache, metadata cache (`http_state.cpp`, `http_metadata_cache.hpp`) | shared `CachedFile`s with a lock, cached metadata by path | GetCachedFile, FullDownload, Insert/Find/Erase, Reset | several handles of a query share one download | a file is complete when marked initialized; stale metadata is dropped |
| S3 credential refresh and region redirect (`s3fs.cpp`, `create_secret_functions.cpp`) | auth material per handle, input and listing; secret; client generation; refresh lock | request, refresh, redirect, retry | concurrent refreshes; a redirect and an expiry in one request; clients of an old host | three attempts at most; one call of the provider per expiry; a redirect is never undone |
| HTTP connection cache (`httpfs_connection_caching.cpp`) | pools of idle clients, a lock each | Find, Store, Clear, CloseClient | limits; eviction; Clear while clients are out; `try_lock` | one owner per client; nobody waits |
| S3 listing and glob (`s3fs.cpp`) | continuation tokens, pending prefixes | list page, descend, match | page boundaries; the change to hierarchical listing; writes of others | each key once, none missed; the glob ends |
| S3 deletion (`s3fs.cpp`) | delete batches, their credentials | RemoveFiles | chunks, failing keys, credentials that expire in between | normal return only when all is gone |
| Hugging Face (`hffs.cpp`) | page cursor, stack of directories, a hand-written scanner | glob, open | pagination, retries | each file once |
| HTTP clients (`httpfs_curl_client.cpp`, `httpfs_httplib_client.cpp`) | one easy handle and its options | Initialize, Get, Put, Post, Head, Delete, Cleanup | options and pointers that survive a request | what is sent is what was asked for; no dangling pointer |
| Signing, crypto, settings, extension entry | - | - | - | - |

A write to `s3://` calls the write path, which sends PUT and POST requests through
a client; with `http2_multiplex` a curl client hands its request to the
dispatcher. A read calls the file handle, which takes a client from its own
cache or the connection cache. S3 handles wrap every request in the credential
refresh. The metadata cache is filled by opens and erased by failed
preconditions and by writes.

## 2. Modules

Except for the write path, a module takes its instances as a constant `Situations`, a function
from names to records (who calls what, what may fail, how often), and its variable `situation`
chooses one in `Init` and never changes: one run checks them all. The situations are in the MC
module of the component, each with a comment. Settings and sizes that stay the same are plain
constants.

### S3ObjectWriter

The abstract promise of a file opened for writing: it grows by appends, and an
object appears at most as a whole, with all the bytes appended, whether or not
the call that published it reported success. A call may fail at any time; an
acknowledged close of a non-empty file implies the object is there.

### S3MultiPartUpload

The write path. Processes are the thread that owns the handle, one detached
thread per part, and S3.

* **State.** `pc`, `call` and the loop variables of the owner; the members of
  `S3MultiPartUpload` under their own names; `thread_pc[p]` for the thread of
  part `p`; what S3 holds. A buffer's content is its length: `AppendsInPlace`
  is checked and proved and says that bytes land where they belong, which is
  what makes that abstraction right. An ETag is the length S3 stored (0: none).
* **Steps.** The owner's code is cut at every point where another thread can
  observe or change what it uses: lock regions (`AcquireSlot`, `FinalFlush`),
  requests (`FlushInit`, `SinglePut`, `CompletePost`), thread creation
  (`Spawn`). An upload thread takes six steps: PUT, ETag insert, count, slot
  release, two notifications. A request that fails may have taken effect.
* **Failures.** Any request, the allocation of a write buffer, `std::thread`
  (if `CanSpawnFail`), an exception type `UploadBuffer` does not catch
  (`Terminate`).
* **Caller.** Writes are sequential (`Write` throws otherwise), stop after an
  exception and after the first FileSync or Close; the comment above
  `FlushAllBuffers` makes the last restriction explicit. The caller may call
  FileSync or Close again after success or failure, and destroys the handle last.

### CurlMultiDispatcher

Workers in `Submit`, the dispatcher thread in `Loop`/`LoopOnce`/`FailAllPending`,
the destructor, and libcurl as an external component (attached handles, pending
messages, the private pointer). A `PendingTransfer` lives on the stack of the
worker; it is named by worker and call number so that a pointer to an old frame is
recognised. Vectors are sets: an element is never in one twice and no
property depends on order. With `CanAllocFail`, the constructor, each
`push_back` and `curl_multi_add_handle` may fail.

### HTTPFileHandle

The read path of one http(s) file, for handles that are opened one after the
other by one thread, while the file may be rewritten between any two attempts
of a request.

* **State.** The members of `HTTPFileHandle` under their own names
  (`buffer_idx` and `buffer_available` are derived from the window within one
  call), the entry of the metadata cache, the `CachedFile`, and the locals of
  `Read`/`ReadInternal` in `call`. A byte is the pair of the version of the file
  it comes from and its offset, or `Garbage` for memory nobody has written, so a
  property can compare what `Read` delivers with what the file holds. An ETag
  is the version it names; lengths and offsets are numbers.
* **Steps.** `Open`, `HeadRequest`, `Probe` are `Initialize` and `LoadFileInfo`
  cut at their requests; `FullDownload` and `TryRangeRequest` are one attempt
  of a request each, with one disjunct per outcome; `ReadCached`, `ReadDirect`
  and `ReadBuffered` are `ReadInternal` up to its request. `Close`, `Seek` and
  `QueryEnd` are single steps.
* **Server and client** (`ServerTraits`, `ClientTraits`): with or without
  ranges, preconditions, weak or strong ETags, dates, `Content-Length`, HEAD;
  the settings, curl (the content handler is called once, when the transfer is
  complete) or httplib (called as the body arrives), buffered or direct reads,
  the global or the per-query metadata cache.
* **Outside.** The server, and the request loop of DuckDB's `HTTPUtil`, which
  repeats an attempt that failed or whose handlers threw, up to
  `http_retries` times. The server is assumed to answer from one version of the
  file per response, to send 200 to a GET without Range, and not to truncate a
  body without a transport error.
* **Caller.** Reads within the length the handle reports (`CallRead`), or at the
  file offset (`CallReadNext`). Unless `goes_on`, a handle is not read again
  after a Read failed.

`Validated` says when the code can notice that a file has changed: the server
enforces a precondition that tells versions apart, or ranged answers carry an
ETag (`ServerValidates`), and the handle knows one to compare with, or has not read by ranges
(`Blind`, finding 16). Without a validator nothing is claimed once the file has been rewritten.

### CachedFile

The whole files that handles of one path share, and who holds their locks. A
`CachedFileHandle` is in the hands of a thread until it is assigned to a file
handle; `files[f].lock` names the one or the other. The constructor reads
`initialized` (`GetHandle`) and then takes the lock (`TakeLock`) without looking
again: everything depends on what the callers (`LoadFileInfo`, `FullDownload`)
do with a file that became ready in between. `Assign` keeps the order of
`cached_file_handle = GetHandle()`: the new handle is there before the old one is
destroyed. `OpenAgain` is the second `Initialize` of `S3FileHandle`.
The contents of a file are the matter of `HTTPFileHandle`.

### S3AuthRefresh

The request loop of `s3fs.cpp`. An owner is an `S3FileHandle` (with a client
cache), an `S3HTTPInput` (PUT and POST) or a listing; several threads share a
handle or an input. The auth material is a version of the credentials and a region, which
stands for the endpoint made of it. One action per step that another thread can
tell apart: data is copied under the owner's mutex, the client is checked out,
sent, stored; the response is judged; the refresh holds the mutex of the owner
from `TryRefresh` on, and the refresh lock from `TakeRefreshLock` to its result.
A response with an error status and the exception made of one lead to the same
turns. Outside: the service, the secret manager and its provider.
`steady[t]` is a history variable: nothing outside (an expiry during the request, a
failing provider or network, a context that is gone, no permission) excuses a failure.
`made_at`, `late` and `misled` are history too. The code takes the request data and the client with its
generation in two steps, under two locks. A request is `Overtaken` if a redirect or a refresh came between
them: `made_at`, the generation when its data was made, is not that of its checkout. `late` says that such
a request has put a client of another host into the cache, which the next `Clear` drops, and `misled` that
a request took its client from a cache in that state. They let `ClientsOfCurrentHost` say exactly what the generation
check of `StoreClient` achieves, for handles that are shared while they are redirected.

### HTTPFSCurlClient and HTTPFSCurlUtil

`HTTPFSCurlClient` has no variables: a client is a record of the options of its
easy handle that differ between requests, and each method is an operator that
sets them as `curl_easy_setopt` does, with the interactions libcurl documents
(setting the fields of a POST makes the request a POST). `HTTPFSCurlUtil` moves
such clients between threads, handles and the connection cache: `Find` and `Store`
are cut at every `try_lock`, `Clear` holds one pool after the other. Memory a client
points to is named by the thread whose query owns it, and becomes `Freed` at `End`.

### GlobMatch, S3Glob, S3Delete, HFGlob

`GlobMatch` holds the two recursive matchers, as recursive functions so that they can be
reasoned about, beside a definition of what a
pattern means that has no recursion: an assignment of name components to
pattern components. `S3Glob` is `ExpandNextPath`, one action per listing request, over
a bucket in which others write; keys are sequences of components, tokens name the
request they were given out for. `S3Delete` is `RemoveFiles`: batches by what
`CreateDeleteBatchKey` encodes, chunks, one refresh per chunk. `HFGlob` is the walk over
directories and pages with the scanner of list results on the level of its
tokens; `Written` gives what the scanner makes of a name in the response. Its situations are called
`Repositories`, and names that `S3Glob` has too begin with HF, so that one module of proofs extends both.

What the walks assume of the outside is stated in their modules. The bucket lists keys in the order of
their bytes, so what is below a folder is listed in one piece; in a repository every path is in directories,
which are there as long as it is. A key or path that matches begins with the text before the first wildcard. That text is
cut at the first of `*`, `[` and `\`, but `?` is a wildcard of a component too: a pattern with a `?` before those
is outside the assumption (in S3 urls a `?` starts the query parameters).

## 3. Runs

| Run | Instance | Shows |
|---|---|---|
| `upload_safety` | up to 11 bytes in parts of 2, two threads, S3 accepts two parts, part numbers modulo 6, all failures | the object is never partial, no loss is acknowledged, bytes land in place although parts are refused, the completion list has no gap; refinement of `S3ObjectWriter`; the inductive invariant of the proofs |
| `upload_slots` | 5 bytes, two threads, threads can be created | slots are given back, no lost wakeup, every call returns |
| `upload_spawnfails` | one thread | **violation**: finding 1 |
| `dispatcher` | two workers with two calls, with and without allocations that fail; three with one; shutdown at any time | no dangling frame, handle detached on return, own result; while memory lasts nobody is forgotten, every Submit and the destructor return |
| `read` | `ranges`: files of 2 and 4 bytes, buffers of 1 to 2 bytes, three reads, one retry, a rewrite at any time, every kind of validator. `fallback`: servers without ranges, two handles with two reads each, files of 1 and 3 bytes around the download threshold, a query end in between | right bytes, one version per handle, a true end of file; a full download is whole and does not mix versions; a rejected entry leaves the global cache |
| `read_httplib` | one server, the streaming client | **violation**: finding 2 |
| `refresh` | `handles`: two threads on one handle, one on another; `shared`: two threads on one handle, a wrong region, an expiry; `redirect`: two on an input, one on a handle, a wrong region; `again`: two requests each, two expiries; `failing`: a thread without permission, all failures; `listing`: a listing and a handle, two expiries | one renewal of the secret per expiry; no failure caused by other threads; a client that is out while another thread redirects or refreshes the handle does not come back into its cache; three attempts at most, and no deadlock |
| `cached` | `opens`: three handles opened twice, failures, two files; `exclusion`: two, with redirects and use after a failure | one download at a time; no internal error; calls return |
| `curl` | `contended`: two threads, two pools of one slot, Clear and the setting; `alone`: every sequence of four requests; `endpoints`: three to two endpoints; fairness for one thread | one owner per client, the wire carries the request, pointers are live, cancellation is armed, requests finish whatever the others hold |
| `glob` | `folders`: nine possible keys in pages of two, two writes by others, failures; `patterns`: 156 patterns of up to four components; `flat`: the flat listing only | each key once, none missed, the glob ends |
| `delete` | `faults`, `expiry`: five paths, two secrets, chunks of two | normal return only when all is gone; expiries are survived; RemoveFiles returns |
| `hf` | `walk`: four directories, pages of two, commits (one adds a directory), retries; `httplib`: bodies that arrive in pieces; `patterns`: 84 patterns of up to three components | exactly the matching files, each once, with the curl client; the walk ends |

Besides, TLC evaluates two assumptions of the MC modules: `MatchIsExact` (`MCS3Glob`) and
`HFMatchIsExact` (`MCHFGlob`) compare both recursive matchers, and the filter of folders, with
`Matches` for every name of up to three or four and every pattern of up to three components.
That was the test of what is now proved of every name and pattern (section 4).
The `TypeOK` of the write path is checked in a run. Those of the other modules hold in the
instances of the table too (add them to the configuration); the runs spend their time on the
other properties, and most of them are proved (section 4).

**Bounds.** Up to six parts with a limit of two threads make the
owner wait for a slot, the final flush wait for several threads, parts finish
out of order, and parts fail before, between and after others; S3 accepts two of them, so that
the owner runs into the limit with threads under way. Two finalizing calls
plus the destructor cover every repetition of Finalize: its effect depends only on
`upload_finalized`, the buffers left and the session. `Uint16` is 2^16 in the
code; the small value keeps the assumption that matters, that S3's part limit
plus the thread limit is below it. Two calls per worker are what it takes for an old
frame or an old private pointer to exist beside a new one; three workers put one
transfer in the queue, one in the multi handle and one in a batch. Four bytes, a
buffer that grows from one to two and three reads give reads inside, across and
outside of the window, before and after it grows and moves, and two versions
with two lengths each a file that stays, grows or shrinks. Threshold 0 and sizes
around 2 make both sides of the forced download happen.

Two threads on a redirected handle are what it takes for one to hold a client while the other clears the cache.
Two threads on one owner and one on another are what it takes for a refresh to be
found done by a thread of the same owner and by one of another; two expiries let
the second begin while the first is being repaired. Two pools of one slot are both
full, and both locked, at times; a third would only be visited likewise. Four
requests give every pair of verbs with a retry and a change of owner between them.
Pages of two entries make a page end inside a folder, between folders and at the
end; names of two components that match, fail or are ambiguous let two `**` compete.
Chunks of two make one batch span chunks. Three handles, each opened
twice, give a downloader, a waiter and one that comes too late. The number of
sessions of a secret and of files is bounded for the state space only; their values
are compared for equality and nothing else. There are as many clients as threads and pool
entries together, so that a thread never lacks one.

`ExpirySurvived` is claimed where nothing else fails and credentials expire only when nobody
holds older ones (`FarApart`). Otherwise the one refresh of a chunk may be spent on adopting
credentials of the secret that have expired as well, and RemoveFiles reports the error, since a single
retry cannot survive that. This excludes two expiries within one request, and also a batch that waits with
credentials that have expired while the ones that replaced them expire too, without any request between the two.
`NoSpuriousFailure` excuses the former with `steady`. In the situation `listing` a listing has one page, because of finding 5.
`ClientsOfCurrentHost` and `NoSpuriousFailure` except a client left behind by an overtaken request (`late`, `misled`),
because of finding 6; every other client that is out during a redirect or a refresh is in their scope, and dropping the comparison of
generations (`StoredAlways`) breaks both. `CallsReturnUndirected` says that calls
return where errors do not redirect, `NobodyFindsItUnready` that no internal error is thrown there to
handles that are not used after a failure; each handle has one thread: findings 9 to 11 and 15 are the rest.
`CancelReaches` is checked for parameters that are not cloned (finding 8), `NoWorkerForgottenInMemory` while allocations
succeed (finding 4).

**Fairness.** Weak fairness of every thread: the operating system schedules it,
and every request ends, because both clients run with connect and low-speed
timeouts and `curl_multi_poll` returns within 100 ms. `CurlMultiDispatcher` has
strong fairness on the completion of a transfer, since polling steps interleave
with it: curl ends every transfer by data or by timeout. `CachedFile` has strong
fairness on taking the lock, which is a `std::mutex`: it promises no order, but a thread
that finds it free again and again gets it, and handles are closed some day. `HTTPFSCurlUtil` has fairness
for a single thread, which is the point of `RequestNeedsNobody`. `S3Glob`, `S3Delete` and `HFGlob` have one
thread; it is scheduled, and its requests end. `S3AuthRefresh` needs no fairness: `RequestsEnd` bounds the attempts of
a request and says, with ENABLED, that some thread can always go on. Callers, spurious wakeups,
process exit and failures are not fair.

## 4. Proofs

The theorems hold for every value of the constants that the assumptions of a
module admit: any number of workers, threads, handles, clients, pools, owners,
paths and requests, any situation (who calls what and what may fail), and any
bound. The assumptions are types and sizes (an empty set of threads, say, is no
instance), that the constant for "nobody" is no thread or client, and what is said
below. `PROJECT.json` lists the theorems with the properties they state.

Each proof has the same shape: an inductive invariant, a conjunction of named parts; lemmas about
the operators (sequences, locks, records of options); one lemma per action, with a step per
part of the invariant that the action can disturb; and the theorems, which follow from the
invariant. Each invariant was first checked by TLC, with the actions unchanged, in the runs of the
table and on larger sets of situations; that of `HTTPFileHandle` in its final form by simulation,
those of the two globs on the situations of `Glob.cfg`, `Glob_plus.cfg` and `HF.cfg`.

### The write path

For every `PartSize`, `MaxUploadThreads`, `S3MaxParts`,
`Uint16`, `Retries` and `MaxLen` under the assumptions of `S3MultiPartUpload`:
sizes and limits are positive, and `S3MaxParts + MaxUploadThreads + 1 < Uint16`
(10000 + limit + 1 < 65536 in the code).

* `S3MultiPartUploadProofs`: `Inv` is inductive. `PublishedIsComplete` alone is
  not: that the completion list is right depends on which parts have a thread,
  which a stored ETag, how many were counted, and that a part that failed has left
  `has_error` behind. `Inv` therefore relates, as long as the process lives
  (`Alive`), the buffers to the offset (`WriterInv`), the parts below the offset
  to threads, ETags and S3 (`PartsInv`, `ThreadInv`), the counter to the threads
  past their count (`CountInv`), the slots to the threads (`SlotInv`) and the object
  to what was published (`PublishInv`). The part number cannot wrap because a part
  beyond S3's limit always ends in an error, at most `MaxUploadThreads` of them
  can be under way, and `FlushBuffer` looks at the error before it starts
  another (`SlotInv` with `CountInv`).
* At its end: if thread creation cannot fail, slots are returned and no writer is
  forgotten, from the extra invariant that a sleeping writer has a pending wakeup (`WakeupPending`).
* After that, the refinement: every step is a step of `S3ObjectWriter` or leaves its
  variables unchanged.

### The dispatcher: `CurlMultiDispatcherProofs`

`DispatcherInv` says where the transfer of a call is. A frame is in at most one of queue, batch and
in-flight list (`HeldOnce`), everything that points to a frame points to that of a call which is
still blocked, attached handles have the private pointer of the
current call (`PrivateIsCurrent`, `AttachedIsPrivate`), and a worker is signalled only after its
frame has been released everywhere (`SignalledIsReleased`). The last is the
crux: `FramesAlive` needs that the order "forget, then notify" holds on each of the ways out
(done, add failed, push failed, shutdown, exception). While no allocation fails, `KnownInMemory` adds the other direction:
a blocked worker's frame is known to the dispatcher, or the worker has been signalled.

### The connection cache and the easy handles: `HTTPFSCurlUtilProofs`

`CacheInv` counts places. `OneOwner` is not inductive: that `Store` does not put a client
into a slot that another thread evicts needs to know which locks a thread holds
at each of its steps, and which pool it has visited.
What is sent depends on options that survive a request, so the invariant
has, for every client that waits in a pool or at a handle, the state its options are left in
(`ResetRequestInfo` and the restoring of the verb), and for one in use what has been set so
far. `ClientsAssumption` says that there is a client for every thread and place: `new` does
not fail. `CancelReaches` is proved where no parameters are cloned; where they are, finding 8 is
the counterexample.

### Cached files: `CachedFileProofs`

`OneDownload` is not inductive: two threads do not download one file because the handle of each has the
file's lock (`Downloading`), and it has that because the thread had it before (`PastGetHandle`); the
lock of a thread is of the file it works on, that of a handle of the file it has (`LockOfThread`,
`LockOfHandle`). Without redirects a handle gets a file once, and is open when the file is there
(`FileWhenOpen`). The theorems
take handles with one thread each (`OwnHandles`; finding 9 is the
rest). The attempt to prove `NobodyFindsItUnready` under its former hypothesis failed
for a good reason, which became finding 15; the property is now about errors that do not redirect.

### Deleting: `S3DeleteProofs`

`DeleteInv` follows the paths: until there is an error, each is still to be put into a batch, in a batch to come,
in the rest of the current one, or deleted (`NothingForgotten`). For `ExpirySurvived` it says
that the credentials of a batch are of the secret that each of its paths has (`SecretsFit`), that of
those still held at most one has expired (`OneExpired`), and so that those of a second attempt
are accepted (`SecondIsLive`). It is proved for `RefreshEnabled`; without it nothing refreshes.

### The refresh: `S3AuthRefreshProofs`

`AuthInv` has two halves. `RefreshInv` holds always: who holds which mutex (`Locks`), nobody has
credentials of the future (`Past`), a request that looks for new
credentials was refused and has some that are not valid (`Refusals`), the renewals so far are at most the version
of the secret (`Renewals`), and the flags count the attempts (`Sends`). From it
follow `SingleFlight`, with any failures and redirects, and `AtMostThreeSends`, which is the bound in
`RequestsEnd`. The second half, `SettledInv`, says that an owner which has found the region of the
bucket stays there (`InRegion`), that the clients stored and checked out are of the owner's region
(`OwnClients`), and what credentials a request finds that nothing excuses from succeeding
(`Steadiness`, with `EveryFailureExcused`, which is `NoSpuriousFailure` without its exception). It needs `RegionsSettled`: the secret names the right region; or a handle has one thread, no
upload was opened by a redirected HEAD and a listing has one page. That is where the code keeps these promises;
`Refresh_staleclient.cfg`, `Refresh_listregion.cfg` and `Refresh_upload.cfg` break each of the three
conditions. All situations of the run `refresh` but `shared` meet it; what is proved of handles like that of `shared` is
`ClientsOfCurrentHost`.

`ClientsOfCurrentHost` needs none of that. Its invariant, `CacheInv`, says what generations mean: data made
under the present generation of its handle has the present region (`Timely`), and so has a client that is
out under it (`OutOf`), because whatever changes the region also advances the generation (`ClearCache`). A client of an
older generation is refused (`StoreCache`), and one of the present generation is of the present host, or
belongs to a request that was overtaken, and marks the cache as `late`.

The attempt to prove the former `SingleFlight`, which counted calls of the provider as they begin, showed
that it held only in the instance: a provider that answers, but whose answer is not stored because
something fails between the two, is called once more for the same expiry, rightly. `calls` now
counts the renewals that reach the secret.

### Reading: `HTTPFileHandleProofs`

For every server, client and setting, size of the file and of the read buffer, and number of rewrites,
handles, reads and retries; assumed is only that the buffer starts no larger than its maximum
(`ReadBoundsAssumption`; 1 MiB and 32 MiB in the code). `HandleInv` has two layers.

`Base` holds for every client: types and the shape of the window, validators are those of versions there were
and rejected ones of an older version than the present (`Told`, from which `StaleEntryIsDropped`), and
with curl a cached file is a whole version or empty (`Downloads`, from which `CurlCachesWhole`).

`Reads` is about what is delivered. `RightBytes`, `OneVersion` and `EofIsTrue` depend on each other and on how
the handle came to know the file, so the invariant tells handles apart. A ranged handle (`Ranged`)
has the length, ETag and date of one version, or no validator at all (`Infos`);
what it delivered, its window and the part of a read copied so far are of that version and in
place (`RangedBytes`), since each answer that the precondition and the
comparison of ETags let through is (`CurrentFits`, `AnswerFits`). A cached handle
(`Cached`) reads from one whole version, which must be the version of what it read by ranges
before (`CachedBytes`). That is the crux: a fallback in the middle of reading keeps the handle and what it
delivered, so the invariant has to know that the download is of the same version. It is, because who could tell versions
apart by ranged answers alone never falls back (`NoFallback`: the range lies within the version it
knows, so an answer of the wrong length is of another version, and that is noticed first), and who tells them apart
by preconditions sends them with the download too.

The last three theorems are about a `Careful` client: curl, and a caller that closes a handle
on an error. Without these the properties are false: findings 2 and 14. What
the httplib client reads by ranges is only model-checked. To make `OneVersion` inductive `Validated` had to exclude
a handle that knows no validator, which the former bounds hid: finding 16.

### Globs: `GlobProofs`

*The matchers.* `MatchIsExact` and `HFMatchIsExact` say of every name and pattern, of any length,
that the recursive matcher accepts exactly when the pattern can be laid over the name. The library's induction
theorems cannot be used here (below), so the argument is by a shortest counterexample: a set of lengths that is
not empty has a least element. That the recursive functions exist is proved first (`MatchUnfolds`), from
the least set of pairs that the recursion is closed under. For the filter of folders, a key that is
accepted has only folders that `Match` accepts as incomplete keys: the descent cuts off nothing.

*The bucket.* `ListedOnce` and `NothingLost` are not inductive: they count what was read, and what matters is what is
still to be read. `IInv` names the parts that are: what the next request at the top lists (`AtTop`),
the rest of the current folder (`InCurrent`), and the folders that wait (`InWaiting`). It says
that they do not overlap (`Apart`), that a key that was read is in none of them (`Read`), that a matching key
which was there all the time has been read or is in one (`Pending`), and what the tokens
were given out for (`Control`). The step lemmas rest on one about a page, `PageIs`: what was unread at a token is
divided into what the page yields, the folders it names and what its next token leaves. When the
glob is over nothing is unread, and `NothingLost` follows from `Pending`. A restart with a
delimiter loses nothing since it happens before the first page is used. Requests may be refused, and other clients put and
delete, at any time and as often as they like.

*The repository.* `HFInv` is of the same kind, but the unread part also has what the scanner holds: there
is a page of which k entries and r tokens of the next one have been scanned (`Place`), and what is still to be
listed is in the rest of the page (`OnPage`), behind the next link (`NextOn`) or below a directory on the
stack (`InDirs`). `Found` and `Awaited` play the parts of `Read` and `Pending`. The page is not a variable of the code,
which has only the text that is left and the state of its scanner; the existential quantifier in the invariant
recovers it. `FilesAreExactByCurlHolds` is about clients that hand over whole bodies, and about names without
quotes (`PlainNames`), which the situations of the run meet; findings 12 and 13 are the rest.

### Only model-checked

Liveness (outside this prover's reach): `CallsReturn`, `EverybodyReturns`, `CallsReturnUndirected`,
`RequestNeedsNobody`, `GlobTerminates`, `RemoveReturns`, `GlobReturns`; the part of `RequestsEnd`
that says with ENABLED that no deadlock arises. Ranged reads with the httplib client in `HTTPFileHandle`.

The prover takes no RECURSIVE operators and cannot instantiate the library's induction
theorems, whose parameter is an operator. Recursive functions with an argument by the least counterexample, as in
`GlobProofs`, are the way around both.

## 5. Findings

1 and 2 are runs of `PROJECT.json`, which quotes the text they contradict. The others have a
configuration beside those of the runs, named in parentheses with the property that TLC
finds violated.

1. `upload_spawnfails` (`WaitsForSomeone`): `FlushBuffer` takes a slot and then constructs a
   `std::thread` outside of any handler. If the constructor throws, the slot is
   never given back and Close waits for a thread that does not exist.
2. `read_httplib` (`CachedIsWhole`): with the httplib client, a full download that is retried after
   a broken transfer is appended to what the first attempt delivered, and is
   marked as complete. The curl client hands over complete bodies only
   (`CurlCachesWhole`).
3. (`Dispatcher_wakeup.cfg`, `NobodyTouchesMulti`) `Submit` calls `curl_multi_wakeup` after it has released
   `queue_mu`; the destructor may have cleaned up the multi handle by then, although its comment says "Thread
   joined -> no one else touches `multi`".
4. (`Dispatcher_allocfails.cfg`, `NoWorkerForgotten`) An exception of `in_flight.push_back` unwinds `LoopOnce`
   and forgets the rest of the batch; those workers sleep forever.
5. (`Refresh_listregion.cfg`, `NoSpuriousFailure`) A listing forgets a redirect between pages. The refresh of a later page takes
   the secret's old region for new material, never asks the provider, and fails. `Refresh_upload.cfg` shows the same for
   uploads of a file whose open was redirected, because the handle and its input each have a
   `region_redirected` for one shared region.
6. (`Refresh_staleclient.cfg`, `EveryFailureExcused`) A request made before a redirect reads the generation of the
   client cache after it (`src/src/s3fs.cpp:379` and `:530` are two critical sections), and stores a client of the old
   host. The next request is sent through it and fails. It is the only way for such a client to get in (section 4).
7. (`Glob_plus.cfg`, `GlobTerminates`) The current folder is url-decoded once per page. A folder with a plus in its
   name and more than one page is skipped for ever after the first.
8. (`Curl_clone.cfg`, `CancelReaches`) `HTTPFSParams::Clone` drops the interrupt flag, and every S3 request
   uses a clone: cancelling a query does not abort it.
9. (`Cached_shared.cfg`, `NoInternalError`) A second reader of a handle that falls back to a full download throws
   an InternalException.
10. (`Cached_waiter.cfg`, `NobodyWaitsForReaders`) Who waited for a download keeps the lock of the finished file until its
    handle is closed; other waiters sleep that long, and for ever if the same thread has to open them.
11. (`Cached_region.cfg`, `CallsReturn`) The second `Initialize` of an S3 handle whose forced download failed with a
    region asks for a mutex that the first still holds.
12. (`HF_httplib.cfg`, `FilesAreExact`) A page of a Hugging Face listing that is retried with httplib is parsed
    behind the torn text of the first attempt.
13. (`HF_quote.cfg`, `FilesAreExact`) The scanner's test for an escaped quote can never be true; a name with a quote is cut.
14. (`Read_goeson.cfg`, `RightBytes`) `AdaptReadBufferSize` replaces the read buffer before the request
    that fills it. If that request fails, the window still describes the old
    contents, and a later Read of it on the same handle succeeds with uninitialized
    bytes. It takes a caller that goes on after an error.

15. (`Cached_redirected.cfg`, `NoInternalError`) An S3 handle whose first `Initialize` failed with a region
    after `FullDownload` had given it a cached file (`src/src/httpfs.cpp:995`) is initialized once more
    (`src/src/s3fs.cpp:1149`). If another handle has replaced the cached file meanwhile, the second attempt may
    succeed with a HEAD and leave the handle with the old file, which nobody downloads any more; its first
    Read throws an InternalException.

16. (`Read_blind.cfg`, `OneVersionOfServer`) A file whose full download is in the `HTTPState` is opened from it
    without a request (`src/src/httpfs.cpp:1061`) and then put into the metadata cache with the length
    but neither ETag nor date (`src/src/httpfs.cpp:1235`), although the comment at `src/src/httpfs.cpp:1010` sees "No need to cache
    metadata for fully downloaded files". In a later query the download is gone and the entry of the
    global cache is not: a handle opened from it reads by ranges without preconditions or comparison of ETags,
    and mixes versions of a file whose server would have told them apart.

Besides these, a server that ignores Range, sends no validator and whose
rewritten file happens to have the length of the range asked for is not
recognised by the comparison of lengths; `Validated` excludes it.

## 6. Not modelled

Signing, hashing and cryptography (calls of a library and string formatting);
registration of settings, secrets and functions; headers, URL and XML parsing;
httplib beyond the way it delivers a body, and the browser's fetch;
logging, statistics and profiling output. They have no state whose
evolution a model checker could explore. Of the parts that are modelled: writing
through plain HTTP handles throws; handles opened with extended information,
version pinning and the read buffer under parallel reads of one handle; the deletion
of a single file and of a directory; globs without a wildcard; requests through a proxy; the sleep and
retry on S3's RequestTimeout, which is one more reason for HTTPUtil to repeat a request; a Reset of `HTTPState`
in the middle of a call.

## 7. Plan

What is left, in this order:

1. The composition of the request loop, its cancellation and the dispatcher: `Execute` of
   `HTTPFSCurlClient` as `Submit`.
2. An abstract listing (every stable key once, in any order) that `S3Glob` refines. Its safety is what
   `ListedOnce` and `NothingLost` say; the abstract module would say it for `HFGlob` and `S3Glob` at once.
3. The ranged reads of the httplib client, with an invariant for a handle that is not `Careful`.
