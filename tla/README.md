# Verification of Xodus

Xodus installs and runs Xbox games on other systems. It reads packages in the
XVD/MSIXVC format, mostly straight from a web server, logs a user and a device
in, obtains licences and answers token requests of games through a service.
This directory holds TLA+ models of the program's core, the TLC configurations
that check them on small instances, and TLAPS proofs that hold for every value
of the constants. Every definition is translated from the code under `src/`;
`PROJECT.json` names the lines each one stands for.

To check a run: `tlc -config MCHttpRead.cfg MCHttpRead`. To check proofs:
`tlapm StreamingProofs.tla`.

## 1. Inventory

### Reading and installing a package (crate `msixvc`, `xodus-cli`)

| Component | State | Operations | Made right by |
|---|---|---|---|
| **HttpRead** `streaming.rs` | position, announced length, open or pending response, left-over chunk | `poll_read`: copy, open, poll the body | the bytes handed over are the file's, in order, across reopened connections |
| **PrefixCacheFile** `streaming.rs` | position, cached length, chunk on its way to the cache file, two tokio Files on one path | `poll_read`, `start_seek`, `poll_complete`; flush and fill inside | the cache is a prefix of the remote file; a read returns the file's bytes at its position |
| **XVD parser and layout** `xvd.rs`, `models/xvd/layout.rs`, `math.rs` | header, region headers, hash entries per encrypted region, file list | `XvdFile::parse` and what it calls | each page has the hash entry the layout stores for it |
| **Hash tree stream** `hash_tree.rs` | page buffer, the counters of pages, level 1 entries and hashes | `poll_next` | only verified entries, in order, and the right verdict |
| **File download** `xvd.rs` `download_file_http` | received and pending bytes, page, remaining bytes | request, poll, reopen, decrypt, write, retry | the output is the plain text of the file, without padding |
| **Segment metadata, file table, NTFS walk** `xvd.rs`, `streaming_ntfs.rs` | list of files with their hashes | `parse_segment_metadata`, `populate_segment_hashes`, walk | each file has its own pages' hashes |
| **XTS page cipher** `crypt.rs` | none | decrypt and encrypt a page | inverse of each other |
| **Streaming installer** `xodus-cli/.../streaming.rs` | the directory: files, the kept cache, the temporary cache | one run: parse, compare, download, replace the cache | the directory is what the kept cache describes |
| **Extraction and launch** `xvd.rs`, `run.rs`, `extract.rs` | mounted files, the child process | `extract_file_ex`, `run` | the game sees the decrypted file |

The installer reads the package through `PrefixCacheFile` over `HttpRead`, has
`XvdFile::parse` build the file list, compares the page hashes with those of
the cache the last finished run kept, and downloads the files that differ, some
at a time, each with `download_file_http`. All run on one tokio runtime; every
tokio File writes on a blocking thread.

### Accounts, licences and service (crates `xodus`, `xodus-cli`, `xodus-service`)

| Component | State | Operations | Made right by |
|---|---|---|---|
| **Token manager** `tokens/manager.rs` and backends | maps of tokens in the system keychain; a process-local cache that expires | get, save (read, merge, write), remove | no saved token is lost; nothing is left after a logout |
| **Device credentials** `tokens/device.rs` | device licence and token in the keychain | ensure, provision, reauthenticate | a usable device token after it returns |
| **Login and webview** `login.rs`, `webview.rs` | active session, login handler | bootstrap, events of sessions | only the active session's events count |
| **Service** `xodus-service` | listening socket, device token read at the start, shared token manager | bind, accept, route, MSA token request, removal of the socket | a request's tokens do not mix with another account's; every request gets one answer |
| **Xbox authorisation** `auth.rs` | token store | `do_sisu` | as the service |
| **Licences** `licensing/`, `clep/` | licence fields | decode TLVs, answer the challenge, request | decoding loses nothing |
| **SOAP and Xbox messages** | none | serialise, sign | |

### The rest

**Package resource index** (`msixvc-common/src/resources`): reads a PRI file whole,
follows offsets, counts and indexes through four kinds of section, and chooses a
candidate of a resource for a context of languages, scales and themes. It is
right when only a whole file becomes an index, the index names what the file
says, and the choice is the one the context fits best. **Typed byte parser**
(`parse.rs`): reads the records of the index field by field. **Hardware
identity** (`hardware.rs`), **XSP files**: conversions without state.

### What is hard

- *Delayed and failing writes.* A tokio write returns before its bytes are on
  disk; an error shows at the next write. Prefix cache and file download both
  count bytes when the write returns.
- *A network that breaks off.* Bodies stall, end early, overrun, resume; each
  retry has to continue at exactly the right byte.
- *Runs cut short.* Every error in the installer is an `expect`; a run can end
  with files half written, and the next run decides from the two caches only.
- *Two ways to compute one number.* Where a page's hash is stored follows from
  the layout of the tree and, separately, from a formula.
- *Two processes on one keychain.* CLI and service read, merge and write whole
  maps without a lock.
- *Events that outlive their session.* A page of a login may post its token
  twice, or after another session has taken its place.
- *Tables that point into tables.* An item of the resource index is found through
  groups, ranges and packings, each with its own numbering.

`PROJECT.json` lists the hazards at their lines, with the properties that watch
them.

## 2. Modules

| Module | Models | Bound to |
|---|---|---|
| `ByteReader` | abstract: what a reader of a remote file promises | — |
| `HttpRead` | one action per way an iteration of `poll_read` can go | implements `ByteReader!SequentialSpec` |
| `PrefixCache` | reads, seeks, flush and fill, the two Files and the blocking thread | implements `ByteReader!SeekableSpec`; its file alone `ByteReader!SequentialSpec` |
| `VerifiedStream` | abstract: what a stream of verified hashes promises | — |
| `HashTreeStream` | `poll_next`, `poll_next_page`, `verify_page` | implements `VerifiedStream!Spec` |
| `PageDownload` | `download_file_http` and its output File | implements `ByteReader!SequentialSpec` while the disk does not fail |
| `XvdParse` | header, layout, region loop, first read of the user data | |
| `Segments` | the list of files and their hashes, from both sources | composes `XvdParse` |
| `Installer` | runs of `run_reader` over one directory | |
| `AccountStore` | abstract: the keychain when commands are transactions | — |
| `Credentials` | the keychain under logins, licence commands, services, requests and logouts at once | implements `AccountStore!Spec` while commands run alone |
| `TokenStore` | saving a user and tokens, call by call | |
| `Login` | the webview runtime and its login handler | over `TokenStore` |
| `Service` | processes, socket, connections and requests | over `TokenStore` |
| `ServiceContract` | abstract: what the service promises its clients | — |
| `Session` | logins and the service at once | composes `Login` and `Service`, implements `ServiceContract!Spec` |
| `PriStructs` | the records of a resource index and where their fields are | |
| `PriQuery` | the choice of a candidate | |
| `PriImage` | the bytes of an index for given contents, as the tests' builders write them | |
| `PriFile` | `Pri::read`, the sections' builders and the questions to the index | composes the three |

`MC<module>` gives each its instance, `<module>Proofs` its theorems; those of
`HttpRead`, `HashTreeStream` and `Installer`, the parts of a streaming installation,
are together in `StreamingProofs` (hence the prefixes `Http` and `Tree` of what these
modules call `Init`, `Next` and so on), those of `PriFile` in `PriTableProofs` (lists,
records and the two simpler sections) and `PriProofs` (the rest). Operators
whose comment begins with "Variant" are no part of a specification: they are
slightly wrong forms of the definition after them, kept to show that the
properties tell the two apart (`PROJECT.json`, "mutants").

### HttpRead
A byte is its offset in the remote file. `conn` is the pair of `pending_open`
and `active`; `chunk` is `pending_chunk`; `wire` is where the body that is open
really stands, which the code cannot see. `Responses` is what a server may
answer (a truthful `Content-Range`, not necessarily the one asked for), `Accepts`
is the check in `open_http_stream`. Bodies may break off anywhere and carry
`Extra` bytes past the end of the file. `DropRead` is a caller's future that is
dropped while it waits. `Reader == INSTANCE ByteReader` maps the abstract
position to `pos` and the abstract delivery to the last bytes handed over; the
same is done in `PrefixCache`.

### PrefixCache
`cached_len` and `cache_write_pos` are the code's belief; `file`, `size`,
`inflight` and `write_failed` are what is true of the disk. A write hands bytes
to the blocking thread, `WriteReachesFile` lets some arrive, `WriteFails` drops
them and leaves an error for the next write. The caller stops at the first
error and drops a read only in the fill loop: that is what the parsers in
`xvd.rs` do. Upstream is any reader that returns the file's bytes in order,
which is what `HttpRead` is proved to be.

### HashTreeStream
A page of the reader matches one entry of level 1 or, if it is `corrupt`, none;
that stands for SHA-256. The reader delivers any split of the pages and may fail
or end early. `PollAfterError` says whether the consumer polls again after an
error. `VerifiedStream` knows neither buffer nor counters of pages, only how many
hashes were given: page and entry of the next follow from that number by
division. `ImplementsStream` maps it to `Hashes - remaining`. It says in one
formula that the hashes are of right pages only, in order and without a gap,
that the end comes after the last one, and that a mismatch is reported where the
wrong page begins and not for any other. The three invariants it replaces in the run
(`OnlyVerifiedYielded`, `InOrder`, `VerdictIsRight`) are proved beside it.

### PageDownload
Offsets count units of which `PageUnits` make a page. `have` is the code's `v`.
A page decrypts to its plain text only with the data unit of its own position
in the section; otherwise to `Garbage`. The output is a tokio File, as the
installer passes it. The server honours ranges: the code does not check the
`Content-Range` of a 206 here (see hazards). `Output` reads the output File as a
sequential reader: its size is the position, what it holds is what was delivered.

### XvdParse
Page and entry size are constants, so that small trees have all four shapes of
levels. A hash is represented by the offset it was read from;
`EntryOffset` is where the layout stores it, `ReadRun` reads where `math.rs`
says. Regions lie within the hashed pages; a region with another key than the
first meets the code's `todo!()`.

### Segments
What `run_reader` does after the parse. `section`, `segment` and `at` are the
variables of the two loops of `parse_segment_metadata`: the files named there lie
one after another in the sections, each on a page of its own, and the inner loop
starts anew with every section. Then `ReadNtfs` adds files of the file system;
what the gpt and ntfs crates list is external and taken from small sets.
`Taken` is the filter for files before the first encrypted page (`PlainPrefix` is
`non_encrypted_prefix_len`), `Populated` the lookup of hashes. Since the header
of the user data is read at the wrong place (finding 3), what the metadata hold
is left open: none, or any of `SegmentLists`. `FilesHaveOwnHashes` says of the
last filter only what holds when the sections come in the order of their
offsets: `non_encrypted_prefix_len` takes the first section of the list that
overlaps, which need not be the earliest. `FilesApart` is about `Slot`, the pages set
aside for a file: since the inner loop starts anew with every section, a later
section overwrites the place of a file, and all the same no two files share a page
as long as no two sections do.

### Installer
A version gives each file a content or none. `final` and `tmp` are the versions
that the two cache files describe, `disk` is the directory. A crash is possible
in every phase. A file has `Content` equal in two versions exactly when its
hashes are equal; files without hashes (`Unhashed`) are always downloaded. One
run at a time. `OnlyChangedWritten` is what the comparison with the kept cache is
for: what has not changed is neither truncated nor written.

### Credentials
The four entries of the keychain are `license` (`dev_license`), `dev_token`
(`device-tokens`), `user_tokens` and `user_info` (`user-DA`). A single get, set
or delete is atomic; whatever the code does between two of them, others may
step in. `pc[p]` is the next such call of a process or a task of the service,
`run[p]` what it carries from one call to the next. A token is represented by
the account or device it belongs to; whether it has expired changes nothing in
what the code does, so it is not recorded. Tokens lie at
addresses: a login brings those at `LoginAddresses`, of the STS and of the Xbox
service; a request of a game brings a new STS token and, if the response has
only the one token it asked for, that one at an address made of its scope and
client id (`Requested`, any set). A login of another account does not touch the
latter, so that it may be another account's from then on; and since nothing is
left for the answer, the command panics after the save (`AfterSave`). Any
process may be interrupted or may panic between two calls (`CutShort`); a read
of the licence or the device token that fails counts as not found, as in the
code. `removed`, `written` and `clean` are history: they say whom a logout took
the device token from, who was overtaken by a write, and whether everything so
far ran alone and to its end. What is found: a device token, by whoever made
sure of it, unless a logout or the server interfered (`EnsuredIsFound`); nothing,
by whoever logged out, unless others wrote (`LogoutRemovesAll`). `StoreAgrees`
says that between commands the device token is the licensed device's, that
the tokens at a login's addresses are the signed-in account's, and that without an
account no address has a token. It leaves three things out because the code
does not keep it then: commands that
overlap (a save writes back the whole map it read), keychain failures (a second
device is provisioned under the first one's token), and a login whose first
exchange is answered at once (it asks for no STS token, and that of the account
before stays). Outside of these a command is a transaction: `OneAfterAnother` maps
the keychain to an `AccountStore` in which a device is provisioned and
authenticated, an account signs in with the tokens of its login at once, a
request keeps a token of the account at some address, and signing out takes
everything away at once. The mapping counts the device token only while its
license is there, the user's entries only while the device token is, and a
token that is still to be saved as saved.

### TokenStore, Login, Service, Session
Here the user's entries alone are looked at, with the two programs that write
them. `saving[s]` is how far a save has got: the map is read, merged and set once
per address, and others may step in between. `Login` is the event loop of
`webview.rs`: at most one `active_session`, a queue of events that name their
session, and the handler that exchanges a posted token and opens a second
session when the first exchange asks for approval. A page may load `post.srf`
and post its token more than once; events stay queued when their session is
replaced. `Service` has processes that bind, serve, remove the socket when they
are interrupted, or crash; per connection a task that reads a request, reads the
user's token, exchanges and saves, and answers. Every exchange and every keychain
call may fail, and a panic ends the task. A message is its kind and its size: a
size that does not fit sixteen bits costs the client the framing (`Answered`
excuses what comes after that). The addresses are those of Credentials.
`TokensAgree` is about those a login asks for and names the cases in which the code
lets tokens of two accounts stand side by side there: while a login saves or was cut
short, after one whose first exchange was answered at once, and after a request
that read its token before a login was done and saved afterwards. `Contract` shows
of all this what a client sees: who holds the socket, whether one was left
behind, and per connection its service and the numbers of requests and answers.

### PriStructs, PriQuery, PriImage, PriFile
A record of `structs.rs` is the list of its fields with their widths; offsets
and sizes follow. `PriImage` writes an index for given contents with the
builders of the tests, and `PriFile` reads it back as the code does, by offset
and width only: a field that is not there, because the file ends before it or the
section is declared too short, is an error. `ask` puts a path and a context to
the index. `Contents` and `Contexts` are constants: what may be written to a file
and what may be asked. `IsContents` says which contents a writer of the format can
mean (every name stands below another of the table, no two have one path, items have
properties of their own, consecutive where the packing needs it, and a variant for
each set of their decision), `IsContext` that a context gives each type of qualifier a
value of its kind. A field holds its number whole: the contents that a real file can
carry are those whose numbers fit. `AnswersAsWritten` compares the answer with
the contents, which the reader has never seen; `IncompleteIsRefused` says that a cut
file never becomes an index; `MoreSpecificWins` and `ClosestWins` speak of the
choice among the candidates without repeating how the scores are made. The first
asks that the chosen set tests no condition twice: a set that repeats one adds its
score twice and may win over one that asks for more. The second is about numbers,
of which the nearest at or below the current one is preferred, as far as the code
keeps the distance: a thousand and more are one distance, and of equally near ones
the first listed is taken (see the observations). `Best` is the loop over the sets, as a function of how many of them
it has seen. The tests' builders write neither a footer to a section nor one to the
file, and the reader looks at none: a real file that is cut in its last footer is
outside the model.

## 3. Runs

| Run | Asks | Bounds, and why they are enough |
|---|---|---|
| `http_read` | refinement (delivery in order), completion | 5 bytes, chunks to 2, buffers to 3: a chunk smaller and larger than the buffer, several reopenings, one byte too many |
| `prefix_cache` | prefix, conservation, refinement, reads return | 4 bytes, fills of 3, writes of 2: a chunk needs two writes, a read several fills, a seek leads back into the cache and ahead of it |
| `prefix_cache_race` | *finding*: cached bytes are readable | no disk failure, whole writes: the delay alone suffices |
| `hash_tree_stream` | refinement (verified, in order, right verdict), end | 3 pages of 3 entries, the last with 2; every set of corrupt pages; every split |
| `page_download` | resumption, plain text, end | 5 units in 3 pages of 2, chunks to 3: chunks within, across and over pages; a last page half used; all three modes |
| `page_download_disk` | *finding*: a download that ends well is whole | as above, with failing writes; the last page's suffices |
| `installer` | directory, stale files, nothing written without need, progress | 3 versions, 4 files (changed and changed back, added, dropped, without hashes), 2 at a time, 2 crashes |
| `xvd_parse` | hashes of pages and of files, places of files, end | 2 entries to a page, so that 0, 1, ... 16 and more pages give no tree, 1 to 4 levels and too large a tree; up to 2 regions at offsets 0, 1 and 4 of 0, 2 or 5 pages, so that they begin and end anywhere in a page of hashes, touch and overlap; up to 2 files in the metadata and 1 in the file system, of which some fit and some do not, and of which one is longer than a page by a part |
| `xvd_user_data` | *finding*: the user data is read inside its section | as above |
| `credentials` | found when ensured, gone after a logout, agreeing, transactions | 2 processes, 2 accounts, 2 devices: every pair of commands interleaved, one account replacing another, a second provisioning; 1 address that only requests ask for, since one request writes one; processes, accounts and devices are symmetric |
| `session` | tokens of one account, the window, the socket, answers | 2 logins of 2 accounts, of up to 3 and 2 sessions, pages that post twice; 1 address that only requests ask for; 1 connection with 2 requests and answers of 3000 and 70000 bytes; 2 service processes, 1 crash. `Bounded` keeps crashes, the second process and the second request to the time before the first login, since they do not touch the store |
| `pri` | only whole files, answers as written, the choice | 6 contents that between them use each packing, both layouts of a schema, all kinds of value; each cut off before any field or with any section a byte short; 8 contexts, among them a scale below all that are written, between them, a thousand above one and more than a thousand above all |

Deadlock is checked in `credentials` and `session`. The others may stop: reading,
parsing and downloading end, and the installer's last crash leaves states in
which only publishing is left.

### Fairness
- *HttpRead*: the caller reads on and the runtime polls what is ready (weak);
  a request is answered acceptably and a fitting chunk arrives when they are
  possible again and again (strong): the network may fail any number of times
  but not for ever. Without it nothing can complete, since reopening is without
  limit.
- *PrefixCache*: the runtime polls, blocking threads run, upstream answers
  (weak). Nothing is assumed of the caller.
- *HashTreeStream*: the consumer polls on; a reader that has less than a page
  left reports its end.
- *PageDownload*: weak for the task and the blocking thread, strong for accepted
  requests and delivered chunks, as in HttpRead.
- *XvdParse, Segments*: local reads return, and they need not fail (weak, for all
  steps but the failures together).
- *Session*: the runtime polls the service's tasks and the servers answer them
  (weak, per connection). The code sets no timeout, so a server that never
  answers keeps its request for ever. Nothing is assumed of logins and clients.
- *Credentials, PriFile*: none, their properties are safety properties.
- *Installer*: the user runs it again and each run goes on (weak), a run is not
  declined every time (strong).

### Findings
1. **Cached bytes that are not there yet** (`streaming.rs:402`).
   `cached_len` grows when the write returns; the second File may look before
   the blocking thread has written, and the read fails with "cache ended before
   cached_len". A `flush` after the last write of a chunk would close the gap.
2. **A failed write that nobody reports** (`xvd.rs:889`). The retry takes a write
   for done when `write_all` returns. A tokio File returns once a blocking thread
   has the bytes and keeps an error for the next call; after the last page there is
   none, the download ends well, and the installer drops the File (`streaming.rs:455`
   of `xodus-cli`). The file lacks its last page. A `flush` before the download ends
   would report the error.
3. **Pages taken for bytes** (`xvd.rs:451`). The user data header is read at the
   number of its page, inside the header section.

### Observations
What the models show of the code, without a statement in the repository that it
contradicts outright, or outside what its callers do:
- A hash tree stream that is polled again after a mismatch on its first page
  (`hash_tree.rs:230`) yields entries of the rejected page, which is still in the
  buffer. Nothing in `src/` consumes the stream yet; that a consumer stops at the
  first error is an assumption of the proofs (`~PollAfterError`) and of the run.
- A device token is used as it is stored, expired or not (`device.rs:14`),
  although the comment above speaks of one that is missing or expired.
- A token event of a session that was replaced is exchanged with the scope of
  the second session, and may end the login as "not logged in" while the newer
  window is open (`webview.rs:206`).
- A write error before the last page is reported to the write after it, which
  then repeats its own page and not the one that was lost (`xvd.rs:889`). The
  model has this step too (`WriteError`); TLC's trace of finding 2 is the shorter one.
- A response with a single token is saved before the second one is missed: the
  task panics with the store changed (`connection/xml.rs:110`). The token lies at
  an address of its own scope and client id (`xml.rs:98-106`), where the login of
  another account leaves it; nothing reads it, and a logout removes it.
- The closest number at or below the current one is to be preferred
  (`query.rs:223`), but the distance is cut to 1000 and all that are further below
  score 0 (`query.rs:224`): the first listed of them is chosen. For a scale of 5000,
  which the run asks for, the variant for 100 comes before the one for 400.
  `ClosestWins` says so by counting a thousand and more as one distance.
- Languages are meant to be ordered by preference (`query.rs:19`), but an exact
  match of a later language (1000 + 999) beats a match in the primary subtag
  alone of the first (500 + 1000). `fallback_score` is added to a match and
  `priority` is never used.
- `first_index_property + offset` (`resource_map.rs`) is added in 32 bits without
  a check. The index is used by the example `pri_parse` only.

## 4. Proofs

All theorems are about `Spec` (`HttpSpec`, `TreeSpec`), without fairness, and
hold for all constants that satisfy the named assumptions of their module
(positive sizes; in the installer finitely many files and distinct markers; in
`Login` and `Service` natural bounds and a marker that is no service). Further
hypotheses are `~PollAfterError` about HashTreeStream; `[]~disk_failed` in
`PageDownloadProofs!Refinement`, since finding 2 shows what a failing disk does;
`[]clean` in `CredentialsProofs!StoreRefinement`, where `Transactions` says the
same of each step without it; and `[][remote' = remote]_vars` in
`StreamingProofs!Repaired`. The theorems of refinement name the abstract
specification, and each proof is the same two facts: initial states map to
initial states, and under the inductive invariant each step maps to a step or a
stutter.

**StreamingProofs, HttpRead.** `HttpIInv` is `HttpTypeOK`, `DeliveredInOrder`
and `OffsetsAgree`. Delivery alone is not inductive: that the chunk begins at
`pos` has to follow from the bookkeeping of the response, `next_offset = pos +
chunk.n` while the response has not overrun, and `wire = next_offset`, which
rests on `Accepts` refusing another start. From it: `HttpTypeCorrect`,
`DeliveryCorrect` and `HttpRefinement` (a copy is a delivery, any other step a
stutter).

**StreamingProofs, HashTreeStream.** `TreeTypeCorrect` holds for every consumer.
`OnlyVerified`, `OrderCorrect` and `VerdictCorrect` assume `~PollAfterError`;
`TreeIInv` says how the counters go together while the stream runs (`Progress`):
hashes given are those of the full pages before, plus the entries taken of the
page in the buffer. Two lemmas supply the arithmetic of quotient and remainder,
which the solver does not find. `TreeRefinement` has one step per action: a
yield is `Give` because the page and entry of the code's counters are quotient
and remainder of the hashes given; the check of a page is a stutter or a
`Mismatch` because pages are checked only when all entries of the one before are
out.

**StreamingProofs, Installer.** `InstallIInv` has four parts beside the theorem
itself: what each phase fixes (`RunInv`), what the files at work and the
finished ones hold (`WorkInv`), what is between removal and renaming of the
cache (`GapInv`), and that without a crash nothing is stale (`UncutInv`). From
it: `InstallTypeCorrect`, `DirectoryCorrect`, `StaleCorrect`. `Repaired` adds
`OneVersion`: if the url keeps its version, the caches, the target and whatever
a file was opened for are that version or none. `UpdateIsMinimal` is the action
property: files are opened from the plan only, and in phase installing the plan
is what differs from the kept cache, which is still the one that was compared.

**PrefixCacheProofs.** `IInv` adds to the two checked invariants that a reader in
state Reading stands at `pos` (`ReaderAtPos`), that the writer stands at
`cached_len` whenever it may write (`WriterAtEnd`) and that what was delivered is
right (`DeliveredRight`). `NoByteLost` is what makes `CacheIsPrefix` inductive:
bytes on their way to the disk begin where the file ends. From it:
`TypeCorrect`, `CacheCorrect`, `Conservation`, `Refinement`, and `CacheRefinement`,
which is stronger than `CacheCorrect`: the file not only is a prefix but grows as
one, and no step overwrites or shortens it.

**PageDownloadProofs.** `NetInv` is the bookkeeping between the response and the
pages: what was received is what was cut into pages plus what is pending, and
`remaining` is the length less the pages done. With the lemmas on the pages that
cover a length it gives `ResumeCorrect`. `DiskInv` says that, while the disk has not
failed, the file and the bytes on their way are the pages so far, and the bytes on
their way begin where the file ends; with it `TypeCorrect`, `PlainTextCorrect` and
`Refinement`: of all steps only the arrival of a write delivers, and what it
delivers are the next bytes.

**XvdParseProofs.** Rounding up twice is rounding up once (`CeilCeil`), so the
levels of the layout, each a rounded quotient of the one below, are the rounded
quotients by powers of E that `math.rs` adds up; `FormulaIsLayout` draws that
conclusion for each number of levels, for every page and entry size. Entries of
one run lie in one page (`EntriesOfRun`), hence what `ReadRun` appends is right
(`RunIsOwn`). `IInv` adds the shapes of the sequences and that hashes are collected
only for a region with the first key (`Progress`): `TypeCorrect`, `HashesCorrect`.
`FilesInv` goes on from there: the next file of the metadata begins in its section
(`ListInv`), a part of a section's hashes is that of the pages it begins at
(`Slice`), and the pages before the first encrypted one lie in no section
(`PlainHolds`): `FilesCorrect`. `PlacesCorrect` has its own invariant (`PlacedInv`):
every file so far lies, with its slot, in a section up to the one at hand, and in
that one before `at`; so the next file meets none of them.

**CredentialsProofs.** Three invariants, one for each theorem beside
`TypeCorrect`. `EnsureInv` adds what a process knows when it is about to read the
device token; `LogoutInv` says how far a logout has got that nobody has undone;
`CleanInv` says that while `clean` there is at most one process, and that the
store agrees up to what this one has still to save or to remove: a token differs
from the account only while it is to be saved or the account to be removed, and
an account without a device token only while a logout is on its way. From them:
`EnsuredCorrect`, `LogoutCorrect`, `StoreCorrect`. `CleanInv` also carries
`Transactions` and `StoreRefinement`: by `TokensOfSeenUser` what is seen of a
login's tokens follows from what is seen of the user, so that only six steps of
the code are seen at all: the license, the device token and the user being set, the
license or the device token being removed, and, as `Keep`, the answer to a request
that brings a token for an address of its own.

**SessionProofs.** `SocketStanding` is inductive with the types of the processes
(`SocketInv`). `LoopInv` says what the event loop knows of window, session and
queue and gives `WindowCorrect`. `TokensCorrect` needs more: what the handler knows
of the exchanges (`FinishInv`), what a save in progress holds (`StoreForm`,
`TaskInv`), where issued tokens come from (`IssuedInv`), and agreement up to what
a saver has still to write (`AgreeInv`). The bound `Bounded` of the run is no part
of these theorems.

`TypeCorrect` takes the longest argument, since the types bound counters that are
spent in one place and earned in another. Scripts still to run and events in
the queue are tied to the pages and sessions that put them there (`PageInv`,
`QueueInv`); requests on the wire, the one a task works on and those answered are
together at most those sent (`Counted`); a task that exchanges or saves has the token
it read (`Holding`); and a connection belongs to a process that runs (`OwnersInv`).
`ContractKept` rests on the same facts: an answer is owed when it is given
(`Counted`), a dialog ends with its process (`OwnersInv`), a connection without a service
is as it was at first (`QuietInv`), and a socket left behind has no holder (`LeftInv`).
A process that ends takes its hold on the socket and its dialogs with it in one
step, hence `Stop` in the contract.

**PriTableProofs, PriProofs.** A reader that never saw the contents finds them by
offsets, and offsets are sums over lists. The argument follows the code from the
bytes up.
1. *Lists.* What is written one after another lies where the sums of the sizes
   say (`TotalOf`, `FlattenSeq`, `Laid`); `Rows` over a table gives back its rows.
   These need induction along a list. The library's induction theorems take an
   operator, which the provers cannot instantiate; `InductionOnSet` derives induction
   for a set of numbers from the well-foundedness of `<` (`NatLessThanWellFounded`,
   `WFMin`), and every statement along a list is put as the set of numbers it is true
   of. `RecursionExists` gives the recursive functions of the library their equations.
2. *Sections.* For each of the four builders: given a section laid out anywhere in
   the file, it returns what the contents say if the section is as long as its
   tables and an error if not (`DecisionsRead`, `DataItemsRead`, `MapRead`,
   `SchemaRead`). The longest are the map, whose items are found through ranges,
   groups and the extension table (the counts before an item, by `Sums`, are its
   place), and the schema, where the paths come from following parents as often as
   there are names (`PathsFollowed`).
3. *The invariant* `IInv` says for every phase of `Pri::read` what is known: the
   file carries the contents but for what was cut off (`FileIsWritten`), the table
   of contents is the written one (`TocIsRead`), the sections are sliced where
   they lie (`DataIsSliced`), and after k of the queued parts the index has these
   k (`Stage`). That an index is complete when its queue is empty is what the
   checked properties need and do not say.
4. *Answers.* `Locate` finds an item by its path and its candidates by the item,
   whatever the numbering (`AnswersAreWritten`); a field that was cut off makes some
   builder fail, since the tables fill their sections (`OnlyWholeFilesAreRead`);
   `TypesAreKept` is about the ranges of the sections.
5. *The choice.* `BestLoop` says, by induction along the sets, what the loop keeps
   after each of them, and `BestDef` what it returns: the first of the satisfied sets
   with the highest score. A set that
   refines another scores more because every score is positive and sums over
   different places of a list add up (`SpecificIsPreferred`, by an injection of the
   tests of the one into those of the other); among sets of one number the score
   falls with the distance up to a thousand (`ScoreOfDistance`), so that the first of
   the nearest is chosen (`ClosestIsPreferred`).

The theorems hold for all sets `Contents` and `Contexts` whose members satisfy
`IsContents` and `IsContext` (`ContentsAssumption`, `ContextsAssumption`, which TLC
evaluates for those of the run): files of any size, whole, cut off before any field or
with any section a byte short.

Every safety property of a passing run, invariant, action property or refinement,
is stated by a theorem.

**Only model-checked.** Liveness (`Completes`, `ReadReturns`, `Terminates`,
`Installs`, `Lists`, `Answered`): the proof system has no rule for fairness here.

## 5. Plan

Done: the reading path, the installer, the list of files, the keychain, logins
and the service, and the resource index, in the order of section 2. Next:

1. **Launch** over Installer: extraction and mounting of files that are stale or
   partial, and a second run in the same directory.
2. **Xbox authorisation** with the cache of tokens in memory, over TokenStore.
3. Pure operators, each against a reference definition: TLV merging, the
   Feistel rounds of the challenge, the substreams.

Runs are composed so that one run covers interacting modules.

## 6. Not modelled

- Encryption, hashing, signing: only what their results tell apart (a page
  matches a hash or not, decrypts with its data unit or not).
- The GPT and NTFS crates, TLS and HTTP, the keychain daemon, wine, the webview:
  external; modelled, where they are, from how the code uses them.
- Messages to Microsoft's services and their serialisation: no state.
- Hardware identity, XSP files, progress display, command line parsing.
- A prefix cache caller that goes on after an error or abandons a cache read,
  and two installers in one directory: recorded as hazards.
