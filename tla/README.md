# A verification project for xget

`xget` is a command line downloader: HTTP in parallel byte ranges, FTP, SFTP and
BitTorrent, each resumable. This directory holds TLA+ models of its core, the
TLC configurations that check them on small instances, and proofs that TLAPS
checks for every instance. Paths below are those of the repository; line numbers
of every definition are in `PROJECT.json` under `map`.

## Inventory

| part | state | operations | interacts with | what makes it correct |
|---|---|---|---|---|
| HTTP downloader `src/http.rs` | output file, one task per segment with its position and count of unsaved bytes | `download` (HEAD, choice of mode), `segmented_download`, `download_segment`, `simple_download` | part file; tokio's file buffers; the server | success means every byte is right, over any sequence of interrupted runs |
| Part file `src/resume.rs` | `.get.part`: url, total size, per segment bytes downloaded | `load`, `save`, `remove`, `create_segments`, `mark_progress`, `mark_segment_done` | all HTTP tasks through one mutex, FTP | it never counts a byte that is not in the file; its counts only grow; its segments partition the file |
| FTP `src/ftp.rs` | control dialogue, one stream, the part file | `download` | part file | as HTTP |
| SSH `src/ssh.rs` | one stream, local file size | `parse`, `download` | SFTP server | resumes only its own prefix |
| Torrent session `src/torrent/mod.rs` | `PieceManager` states, queue of addresses, set of peer tasks, `FileWriter` | `download`, `run_download_stream`, `next_piece`, `piece_done`, `piece_failed`, `read_piece`, `write_piece` | peer tasks, discovery, disk | one owner per piece, done only with data, done for good, ends when complete |
| Peer connection `src/torrent/peer.rs` | what the peer has, choked, current piece, guard, blocks | `run`, `try_start`, `flush_requests`, `PieceGuard::drop`, `fetch_metadata` | the piece manager, PEX queue | what it reserves it stores or gives back |
| Discovery `src/torrent/tracker.rs` | channel of addresses | `discover_peers`, `get_peers_for_hash`, announces | main loop, DHT | keeps finding peers until the download ends |
| DHT `src/torrent/dht.rs` | candidates, queried addresses, peers found | `find_peers` | a UDP socket; discovery | loses nothing it was told |
| Formats `bencode.rs`, `metainfo.rs`, `magnet.rs` | none | parse, encode | session | decode and encode agree; the pieces partition the files |
| History and batch `src/history.rs`, `src/main.rs`, `src/cli.rs` | `history.jsonl` | append, load, clear; one download after the other | every downloader | every download is logged |
| Output `progress.rs`, `log.rs`, `completions.rs` | none | | terminal | not modelled: terminal output |

The behaviours that are hard here: progress that is recorded before the write
behind it is performed; two modes that share an output file and disagree on the
part file; kills between any two steps of the file protocol; several tasks
saving one part file; peers that come, go, choke and lie while they share a set of
pieces; replies that are recognised by what the peer said earlier; requests in a
pipeline whose count must not drift; several processes that append to one file; a queue of addresses that is filled from three sides; a program that must
end when all is done and must not end before. `PROJECT.json` lists them as
`hazards`, each at its line.

## Plan

1. `Segments`, `HttpDownload` with its invariants and proofs. *Done.*
2. `PiecePool`, the promise of the piece manager, and `PeerSwarm`, the torrent
   download at the level of pieces, shown to implement it. *Done; all its safety
   properties and the refinement are proved too.*
3. `FtpDownload` and `SshDownload`, on the same output file (`OutputFile`) as
   `HttpDownload`. *Done; all properties are proved too.*
4. `PieceLayout`: `piece_size`, `read_piece`, `write_piece` over several files, with
   the theorem that the pieces partition the bytes of the files; `BlockPipeline`:
   requests, blocks and chokes within a piece. *Done, with proofs.*
5. `DhtLookup` and `MetadataExchange` (BEP 9, 10). *Done, with proofs.*
6. `History`, and `MagnetSession`, which composes 4 to 6 along one run of the program
   over a batch of links. *Done, with proofs.*
7. `PieceStore`, what a transfer promises of its pieces and files without blocks,
   requests, chokes or connections, and `BlockPipeline` shown to implement it. *Done, with proofs.*
   It plays for the bytes of `PieceLayout` the part `PiecePool` plays for the tasks of `PeerSwarm`.
8. One abstract specification of a resumable download that the HTTP, FTP and SSH
   modules implement. *Open.*
9. `Bencode`, a decoder and encoder without state. *Left out*, see *Not modelled*.

## Modules

| module | role |
|---|---|
| `OutputFile` | the output file of every stream downloader: contents, holes, writes; no state |
| `Segments` | `Segment` and `create_segments` of `resume.rs`, no state |
| `HttpDownload` | the HTTP downloader over many runs; its properties |
| `HttpInvariant` | the inductive invariants of its proofs, which TLC checks too |
| `SegmentsProofs`, `HttpDownloadProofs` | theorems |
| `FtpDownload`, `SshDownload` | the FTP and SFTP downloaders over many runs; their properties |
| `FtpProofs`, `SshProofs` | theorems |
| `PiecePool` | abstract specification: pieces with one owner |
| `PeerSwarm` | the torrent download at the level of pieces; its properties, and the mapping to `PiecePool` |
| `SwarmInvariant` | the inductive invariants of its proofs, which TLC checks too |
| `SwarmProofs` | theorems |
| `Addresses` | the peers of a torrent, honest and other ones; no state |
| `DhtLookup` | one lookup in the DHT |
| `MetadataExchange` | the metadata of a magnet link from one peer |
| `PieceLayout` | where pieces lie in the files of a torrent; no state |
| `BlockPipeline` | a transfer at the level of blocks and bytes |
| `PieceStore` | abstract specification: whole pieces on disk, each fetched by one peer |
| `History` | the history file, shared by processes |
| `MagnetSession` | the composition of `DhtLookup`, `MetadataExchange`, `BlockPipeline` and `History` along a run over a batch of links; the mapping to `PieceStore` |
| `MagnetProofs`, `LayoutProofs`, `TransferProofs` | theorems |
| `MCHttpDownload`, `MCFtpDownload`, `MCSshDownload`, `MCPeerSwarm`, `MCMagnetSession` | instances for TLC |

Operators marked `mutant` belong to no specification: each is a plausible mistake
in the definition it stands next to, named in `PROJECT.json` with the property
that must fail when it takes that definition's place.

### HttpDownload

`disk` is the output file, an array of units that hold a content, a hole or lie
past the end; `partFile` is the part file, absent, torn or a record as `resume.rs`
serialises it. Everything else is the memory of one process: `phase` follows
`segmented_download` (`open`: before `set_len`, `save`: before the first save,
`running`) or `simple_download` (`simple`); `shared` is the `SharedPart`; a task
has the stages `request`, `stream`, `mark` (inside `mark_progress`), `flush`, and `pend` units
in the write buffer of its handle, because `write_all` of `tokio::fs::File` returns
before the write is performed (`WriteLands`, `WriteFails`). A unit is any number
of bytes; `SaveInterval` stands for 256 KiB and `MinSegment` for the constant of
the same name. `saved` belongs to the model only: whether the last save of the run did its work.

| action | code |
|---|---|
| `AlreadyComplete`, `StartSegmented`, `StartSimple`, `StartFails` | `download` up to the first effect of either mode |
| `OpenOutput`, `SavePart`, `SavePartFails` | `set_len`, first `save` and its `?` |
| `Request`, `Receive`, `MarkProgress`, `StreamEnds`, `FinishSegment`, `ReportError`, `TaskFails` | `download_segment` (and the loop of `simple_download`, task 0) |
| `Complete`, `CompleteSimple`, `Fail` | the await loop and `remove` |
| `Kill` | the process dies, inside a save too (torn part file) |

What the environment does wrong is the constant `Faults`, so that each run can
say what its result depends on.

### FtpDownload

`disk`, `partFile` and `pend` are those of `HttpDownload`; of a part file `ftp.rs`
reads only url, total size and the count of the first segment, so that is all the
record has. `phase` follows `download`: `save` (the first save, only for a download
from the start of a file of known size), `stream`, `mark` (a save in the loop),
`flush` (from the end of the data to the answer 226 and QUIT). The control dialogue up
to RETR touches no file, and is one step: `Start`, or `StartFails` when a reply is not
the expected one (`BadReply`); `SizeAnswer` is what SIZE may tell.

The environment is a variable, `faults`, chosen at the start from `FaultSets` and
never changed: so one run, and one proof, covers the benign environment (`Benign`: connections,
kills, saves), where success means the whole file, the one in which data may end early, too
(`Truthful`), where the part file is still right, and the others, where less holds.

### SshDownload

No part file: the length of the output decides what is resumed (`Resumes`), and
the output is opened to append. `Start` covers connecting up to the opened file; a
write may be in the buffer when `download` returns, because nothing is flushed
(`closing`), and the runtime performs it before the process ends (`Complete`). An append
goes to the end of the file (`WriteLands`), not to a position of the process.

### PeerSwarm

`states` is `PieceManager.states`; `current` and `guard` are the variables of the same
names in `peer::run`, `piece` is the piece between `current.take()` and
`piece_done`/`piece_failed`. A peer task is at the head of its loop (`top`), waiting for
a message (`read`), between `try_start` and `has_needed_for` (`check`: two
acquisitions of one lock), or in the code after a complete piece (`write`, `mark`,
`failed`, `next`). `main` is `top` or `select` of `run_download_stream`. A message is read
and handled up to the next lock or await in one step. A piece is a unit that is
complete at some message: the blocks within it are left out, and with them
requests and `flush_requests`. Queues of addresses are sets: every address is
acted on once (`seen`), and nothing depends on their order.

`store` says which pieces have their hash on disk, `buffered` those whose last
write is still in a buffer; the runtime performs these before a process that
returns from `main` ends (`Exit`), a kill loses them.

The modules that follow are the stages of `MagnetSession`, and `PieceStore`. Each stage has its
own variables, an idle state, and actions that the session lets happen in it.

### DhtLookup

`cand` is `candidates` and `queried` the set of the same name; `asked` are the nodes whose answer
may still come, from this batch or an earlier one, because any datagram counts
(`Answers`). `lookup` says where `find_peers` is: `resolve` the bootstrap names, `pick` at the
head of the loop, `wait` for answers. A node that is told of twice may be a
candidate twice, as in the code, and a candidate from a bootstrap name has the id 0.

### MetadataExchange

`ut`, `announced`, `chunks` and `upto` are `remote_ut_metadata`, `metadata_size`, `pieces` and
`requested_up_to` of `fetch_metadata`. A message is handled in one step: an extension
handshake (again, too, which resizes the vector), data, or one that ends the exchange. `requests` are
those an honest peer has not answered; the other peers send what they like (`AnyHandshake`,
`AnyData`), and need not read: `send` is the loop that writes requests (`RequestUpTo`), which has no
timeout and waits until the peer reads (`PeerReads`) or the connection breaks. The deadline is looked at in `open`. Whether a chunk is right is known to the model only; the code sees the hash
of all of them.

### PieceLayout and BlockPipeline

A torrent is what `metainfo::parse` lets through: lengths, a piece length and a
number of hashes that nothing ties to the size. `Pass` is one round of the loop that
`read_piece` and `write_piece` share, `Walk` its end after all files, `PlacesOf` what a
piece should be: the properties compare the two.

`states` is as in `PeerSwarm`; `cur` is `current`, a `PieceDownload` (`blocks`, `next`,
`outstanding`); `right` the places of the files on disk that hold the right byte, those of
earlier runs included. `Send` is `try_start` followed by `flush_requests`. `inflight` belongs to the
peer: requests it will answer; a choke empties it and `discarded` remembers that it
was not empty. Every peer has every piece, since `PeerSwarm` has what a peer has, and
what comes between a complete piece and the next, several steps there, is one here.

### PieceStore

`torrent` and `right` are those of `BlockPipeline`, `done` its pieces with the state `done` (`DonePieces`), `held` the
piece of each peer's `cur` (`HeldPieces`). A peer takes or gives back a piece (`Turn`) or has its piece written and goes
on (`Deliver`); files start with whole pieces (`Open`), and a transfer is left when no peer has a piece (`Close`).
Sending requests, a block that does not complete its piece, and everything outside a transfer leave it alone.

### History and MagnetSession

The file is opened to append and unbuffered; `writeln!` makes two writes, the text and
the end of the line, and another process may write, remove the file, or die between
them. `LoadOf` is what `load` gives for one writer: the lines with one text in them (`Lines`), in
their order (`Pick`). `MagnetSession` is the batch loop of `main.rs`: `NextLink`, the download, `SaveText` and
`SaveEnd`, and `Return`, which a failed download brings about early. A save may fail before it wrote (`SaveFails`) or
between its writes (`SaveBreaks`); either way the batch goes on. A magnet link goes
through the stages `peers` (`Search`, `TrackersTell`, `SearchEnds`), `metadata` (`TryPeer`, `Exchange`,
`PeerFailed`, `NoMetadata`) and `transfer` (`StartTransfer`, `Transfer`, `TransferEnds`,
`TransferIncomplete`); any other link is one step (`PlainDownload`), or is refused by a `?` before
the download (`PlainRefused`).

## Runs

Deadlock is checked in every run; `GiveUp` (stuttering) stands for a user who
does not start the program again.

| run | instance | shows |
|---|---|---|
| `http_segmented` | three bodies (two URLs, two lengths at one of them) of 5 or 4 units, 2 or 3 segments, 3 runs; net, kill, save | `CompletedIntact`, `ClaimsOnDisk`, `TypeOK`, and the invariant of the proofs (`SafeInv`); a part file of one body is not used for another |
| `http_all_faults` | one body of 7 units, 2 runs, every fault, `FairSpec` | what holds always: `UnsavedBounded`, which compares the tasks with the part file itself, and `ClaimsKept`; `SimpleExact` of the one-stream mode; every run ends, and reports success if nothing failed |
| `http_mixed_modes`, `http_kill_in_flight` | faults the passing runs leave out | `CompletedIntact` fails: see *Findings* |
| `ftp_runs` | four files, one empty, of 7, 5 or 0 units, 3 runs; a benign environment, one where data may end early, one with every fault | `CompletedIntact` in the first, `ClaimsOnDisk` in the first two; `LossBounded`, `ClaimsKept`, `TypeOK` in all |
| `ssh_runs` | one remote file of 6 units, 3 runs; net, kill (also with a write in the buffer), write, nosize | `CompletedIntact`, `PrefixOnly`, `OnlyGrows`, `TypeOK` |
| `ssh_other_file` | two remote files, one output path | `CompletedIntact` fails: see *Findings* |
| `swarm_pieces` | 2 peers, 2 pieces, 2 runs; trickle, net, corrupt, choke, kill | `OwnedOnce`, `NoPieceStranded`, `DonePermanent`, `DoneIsWritten`, `StoredNotFetched`, `SuccessOnDisk`, the refinement of `PiecePool` (`ImplementsPool`), and the invariant of the proofs (`SwarmInv`, types included) |
| `swarm_peers` | 3 addresses, 2 connections, 1 piece; pex, net, dht, failing writes | `ActiveBounded`, `GaveUpTriedAll`, and the part of the invariant that survives a write error (`OwnerInv`) |
| `swarm_live` | 2 peers, 2 pieces; corrupt; `FairSpec` | `Completes` |
| `magnet_session` | a magnet link and another one; 6 DHT nodes, 2 honest peers and another, 3 torrents, 1 other process; `FairSpec` | `LookupExhaustive`, `ChunksSized`, `NoReplyLost`, `RequestsCounted`, `NeverIdle`, `DoneOnDisk`, `FilesIntact`, `LogComplete`, the refinement of `PieceStore` (`ImplementsStore`), and `MetadataSettles` |
| `magnet_own_id` | the same peers with another id for metadata messages | `HonestPeerSuffices` fails: see *Findings* |

**Bounds.** Three runs are needed for a download that is interrupted, continued by
a run that does damage and then completed. Five units over two or three segments
give segments of unequal length, several saves in one segment, chunks that cross
a save interval and chunks that do not. Three bodies are one that matches the
part file, one with its URL and another length, and one with its length and
another URL. FTP has a save interval of 3 and chunks of up to 4 units, so that a
chunk may span an interval. (In the code a chunk of an FTP read is at most 64 KiB and an
interval 256 KiB.) In the swarm two peers can compete for a piece, hand it over, and
leave each other behind; a third address with two connections makes one wait. An
address channel of capacity 1 blocks its senders as one of 200 does. In the code
`max_concurrent` is at least 30, which no small instance reaches; `MaxActive` has
the same role.

In the magnet session the six nodes of the DHT are two parts: one tracks enough
peers to stop early (`PeerLimit` 3), the other does not. With batches of one node and four
rounds a lookup may end for each of its three reasons, and an answer may come in a later
batch than its query. Three peers with `MaxTries` 2 leave one unasked. Chunks of 2 bytes
and announced sizes of 0, 2, 3, 5 and 7 with a `MaxInfo` of 6 cover no chunk, one, several, a short
last one, and a size that is refused. The torrents are three files (one empty) with pieces
across their ends and a short last piece, a file that is a multiple of the piece length, and one with
fewer hashes than its size asks for. Blocks of one byte and a pipeline of 2 make a piece
of three blocks need a second flush. One entry of another process is enough to
disturb a save at each of its steps.

**Fairness.** `HttpDownload!FairSpec`: weak fairness of the steps a run owes
(tokio runs every task that is ready); faults, kills and the next run of the
user are not owed. The client sets no timeout, so a server that stays silent for
ever blocks a run: fairness of `Request` and `StreamEnds` assumes that it closes in the end.
`PeerSwarm!FairSpec`: weak fairness of the main loop and of each peer task; strong
fairness of receiving and joining, because `select!` picks among ready branches at
random; a peer sends its bitfield and its first unchoke, answers requests, and is
found by discovery as long as it was not (the DHT task repeats for ever). This is for instances without the fault `choke`:
requests that a choke discarded are not sent again, so no answer to them is owed.
`MagnetSession!FairSpec`: weak fairness of the steps the program owes, of the timeouts of trackers
and DHT (each announce and each batch has one), and of the replies of an honest peer; strong fairness of the 30 seconds of the exchange, since a deadline that
has passed stays so and is seen when the loop next waits for a message. Nobody owes it that a peer reads
what it was sent, so `MetadataSettles` excepts an exchange that waits for that for ever. Nothing is assumed of a transfer, which has no deadline: `MetadataSettles` goes
from the link to the metadata, or to the failure to get it.

## Findings

The first two violate `CompletedIntact` of HTTP: the program reports success
over a file with a hole. README.md:217 promises that an interrupted download is
continued by the same command.

- `http_mixed_modes`: `simple_download` truncates the output and leaves an older part file in place.
- `http_kill_in_flight`: `mark_progress` records a chunk when `write_all` returned, before it is written. A write
  that fails then (fault `write`) has the same effect.
- `ssh_other_file`: README.md:242 says that an SSH download is not resumed and overwrites the file;
  `ssh.rs` resumes any local file that is shorter than the remote one, so that another
  file at that path becomes its beginning.
- `magnet_own_id`: `fetch_metadata` (peer.rs:566) expects metadata under the id the peer chose for itself, while
  BEP 10 has the peer send it under the id of our handshake. An honest peer with any other id
  than 1 answers every request, and is given up at the deadline. README.md:115 says that the
  metadata is fetched from peers by these extensions. `SameIdSuffices` proves that a peer with
  our id is always enough.

## Proofs

All assume the named `ASSUME`s of the module on its constants, and nothing else
unless said.

`SegmentsProofs`: for every size and thread count the segments of
`create_segments` cover the file (`SegmentsCover`) and do not overlap
(`SegmentsDisjoint`). The first needs `threads <= total`, which `EffectiveThreads` ensures.

`HttpDownloadProofs`: for all values of the constants that satisfy `HttpConstants`,
`KeyIdentifiesContent` and `NoFileDistinct`,

- `TypeCorrect`, from `TypeInv`, which adds to `TypeOK` what a step needs of
  the record it updates (`ShapeInv`: segments have `start <= end`, a task in a stage
  has a segment, outside a run everything is idle).
- `UnsavedIsBounded`, from `UnsavedInv`: after a save that worked the part file is what `shared` is, and a task in its loop
  has `written` below the interval and is that far beyond what `shared` counts. `CrossedOrBelow` is the arithmetic behind the modulo test: a chunk that does not
  carry `written` over a save interval leaves it below one.
- `ClaimsAreKept`: from `KeptInv`. While a run is on, the part file is either
  what `shared` extends (`Extends`: segment by segment, same bounds, no smaller
  count) or torn or absent; so a save can only add. `ClaimsKept` alone is not
  inductive: it says nothing of `shared`.
- `ClaimsAreTrue`, `SuccessIsIntact`: under the assumption `Benign` (faults among net,
  kill, save; every body is cut into segments), from `SafeInv`. It relates disk, part file, `shared` and the
  tasks: every byte below `pos - pend` of a task's segment is right (`TaskInv`), every byte a
  segment of `shared` or of the part file counts is right or in flight
  (`SharedOnDisk`, `PartInv`), `pos - written` is where the next save will count up
  to, and what is past the counts of a file being resumed is unconstrained
  (`TailInv` fixes only its length). `Benign` leaves out the faults that falsify the property:
  those of the findings, `short` and `openGap`.

`SwarmProofs`: for any number of peers, pieces and runs. Every step is of one of the
kinds of `StepKinds`: it moves tasks and leaves the pieces alone (`Moves`), reserves a
piece (`Took`), or is one of the few actions that store or give back.

- In every environment: `SwarmTypeCorrect`, `PiecesOwnedOnce`, `StoredPiecesNotFetched`, `DoneIsForGood`, from
  `OwnerInv`. What a task holds counts as downloading (`HeldDownloading`): hence a guard that is
  dropped late never resets a done piece, and when all is done nobody holds anything, so
  that `abort_all` releases nothing. `TaskShape` says at which places of `peer::run` a task may hold what,
  and `QueueInv` that an address that waits has no task, so that a new task finds nothing left of an old one.
- If no postponed write fails (`"lateWrite" \notin Faults`): `DonePiecesWritten`, `SuccessIsOnDisk`, from `Written`, which adds
  that a task about to call `piece_done` has handed over its data, and that success is
  reported only when every piece is done.
- If, besides, `write_piece` returns no error: `SwarmImplementsPool`. `Took` is the pool's `Take`, `Drop` its
  `GiveBack` or nothing, `WritePiece` its `Store`, `Settle` its `Finish` or `GiveBack`, the end of a process its `Restart`; all
  other steps leave the pool alone. The owner in the mapping is a `CHOOSE`, which `OwnedOnce`
  makes unique.
- If `write_piece` returns no error: `NothingStranded`, from `AllHeld`.
- `PoolPromises`: of `PiecePool` itself, that a piece has an owner just while it is downloading, a done one is written, and
  nobody owns two. With `SwarmImplementsPool` the tasks inherit it.
- `ConnectionsBounded`, `GivesUpLast`, in every environment, from `LoopInv`: an address that was heard of
  waits or has a task, and when the loop waits with no task left, nothing waits; ended tasks count until they are joined.
- `SwarmInvAlways`: the whole invariant that TLC checks, where no write fails.

`SafeAlways` and `SimpleRunsAreExact` of `HttpDownloadProofs` state the invariant itself, and that a
one-stream run which reports success leaves exactly what it received, the whole body where no body ends early: from `SimpleInv`: in every
environment, until a write fails, the output is the body up to the position of the run but for what is in the buffer, as such a run truncates first; and it waits for its flush.

`FtpProofs`, for every set of files, chunk size and number of runs:

- In every environment: `FtpTypeCorrect`; `FtpLossIsBounded`, from `LossInv`: what is not counted is no more than
  the position's remainder to the interval, also after a resume from an odd position;
  `FtpClaimsAreKept`, from `CountKept` (no step lowers the count) and `BytesKept` (a run that was told the size resumes
  behind the counted bytes, and writes only bytes of that file).
- `FtpClaimsAreTrue` in a `Truthful` environment, `FtpSuccessIsIntact` in a `Benign` one, from `DiskInv`, the counterpart of
  `SafeInv` for one stream. Data that ends early costs only the second: such a run removes its part file.

`SshProofs`: `SshTypeCorrect`; and, if one remote file is downloaded to the path (`OneFile`),
`SshPrefixOnly`, `SshOnlyGrows` and, unless the unawaited last write fails, `SshSuccessIsIntact`. `PrefixInv`
says that the output is always some prefix, and which one during a run.

`MagnetProofs`, for every DHT, set of peers and length of the metadata:

- `LookupLosesNothing`, from `LookupInv`: whatever was told by an answer is a candidate, was queried,
  or is a peer that was found.
- `MagnetTypeCorrect`, `ChunksFitSize`, from `FetchInv`: whatever a peer sends, the vector has a chunk for
  each piece of the size announced last, so that "all chunks are there" is never said of none.
- `SameIdLosesNoReply`, `SameIdSuffices`: if honest peers want our id (`SameIds`), from `HonestInv`: before the handshake
  of such a peer nothing is known, after it each missing chunk is asked for.
- `HistoryIsComplete`, for any number of other processes and any batch: unless the log was disturbed, this process's
  lines are its attempts, without those whose save failed (`DroppedLog`). From `LogInv`: between saves the file is texts and ends of line in turn, no two texts meet, and the
  texts of this process (`Logged`), in their order, are the attempts that were recorded (`Recorded`: all but one whose save has not begun). `LogComplete` says nothing of the states
  inside a save, nor of whether the file ends with an end of line, which is what keeps the next text from being glued to the last. `PickNext` says
  that appending a text appends to what `Pick` gives.

`LayoutProofs`, for every torrent: `WalkIsPiece`, reading or writing piece i goes over its bytes
and no others, each at its place; `PiecesCover` and `PiecesDisjoint`, the pieces partition the files. `Starts` and `Walks`
are recursive functions over the number of files. What holds of them is shown by induction,
as a lemma about sets of numbers (`Induction`, from the well-foundedness of `<`): a
theorem that takes a predicate could not be used.

`TransferProofs`, for every batch, torrent, block size, depth and set of peers:

- `DoneIsOnDisk`, `AllDoneIsIntact`, from `TransferInv`. A write of a piece changes only what `WalkIsPiece` says,
  so that what was done stays right; `PiecesCover` makes the whole of the parts.
- `RequestsAreCounted`, `NeverLeftIdle`, from `PipelineInv`: of an honest peer's piece, nothing is there that was
  not requested, `outstanding` counts what is missing of the requested (`Counted`), and while the peer has us unchoked
  the pipeline is full or the piece requested to its end (`Flushed`). Neither property is inductive alone: that a peer is not
  idle follows from a full pipeline only with the exact count.
- `SessionImplementsStore`, from `HoldInv` together with the two invariants above: the piece of a peer is `downloading` and no other
  peer's (`Holding`), and only a connected peer has one (`Connected`), so that a transfer which ends leaves none behind. `BlockHolds` and
  `BlocksImplement` go through what a block may do: count, complete a piece that is right and written, or fail its hash.
- `StorePromises`: of `PieceStore` itself, that done pieces are on disk and nobody's, that a piece has one peer, and that none is held
  without a transfer; by the refinement these hold of every session.

Only model-checked: liveness (`RunEnds`, `UnfailedSucceeds`, `Completes`, `MetadataSettles`), which
this prover does not reach. Every invariant, action property and refinement that a passing run checks is a theorem,
`ClaimsKept` and `OnlyGrows` among them.

## Not modelled

- HTTP: another program that changes the files between runs; a server that
  replaces a body by one of the same length at the same URL (nothing in the part
  file can tell, `KeyIdentifiesContent`); a 206 for another range than requested; a request
  that never ends, as none has a timeout. The faults `openGap` (a run that
  ends between `set_len` for a new body and the save that replaces an older part file) and `short` (the
  number of bytes received is never compared with the range, nor in the one-stream mode with anything, so that a response
  without a length that ends early is a success) falsify `CompletedIntact` too; they are
  hazards in `PROJECT.json`.
- FTP: a file that changes during a run. With each of the faults `short`, `killInFlight`, `write`,
  `openGap`, `nosize` or `debug` success may come without the whole file, and with all but `short` the part file may count
  a byte that is not there; hence `Benign` and `Truthful` in these properties. A run that misses
  only the 226 leaves a part file that counts the whole file, and the next run starts
  over (`ClaimsKept` excepts it). So does a run whose SIZE is not answered: it truncates the output, although README.md says
  that FTP resumes from the last byte written.
- SSH: host keys, agents and passwords; the parsing of targets. The last write of a run is neither flushed nor
  awaited, so that its failure (fault `last`) goes unreported.
- Torrents: seeding (the program does not); panics of tasks (the loop of `tracker.rs`:58 that
  collects announces ends early at one); the speed test of a peer is a drop at any time; message formats.
- Known limits of `PeerSwarm`, each a hazard in `PROJECT.json`: with the fault
  `write` a piece stays reserved for the rest of the run (`NoPieceStranded` fails);
  with `lateWrite` a done piece may not be on disk; with `net` the download may
  wait for ever, because an address is connected to once per run
  (`Completes` fails). With `choke` a task whose requests were discarded waits for its timeout, and its address is not
  tried again either. The runs that check these properties leave those faults out.
- Known limits of `BlockPipeline`: requests that a peer forgets when it chokes us are not sent
  again, and a peer that keeps sending other messages then holds its piece
  (`NeverIdle` and `RequestsCounted` except such a peer, `discarded`); a peer that did not follow the
  protocol reserves the piece again that failed its hash; blocks that nobody asked for
  lower `outstanding`, hence `Honest` in both properties.
- Batch and history: the early `?` of `main.rs` (no output path, no directory, not an SSH target)
  ends the program without an entry, although README.md:258 says that all downloads are logged; the
  model has this step (`PlainRefused`), and `LogComplete` speaks of the downloads that began. A save that fails has its error dropped (main.rs:114), and its
  download is missing from the history, against the same sentence: `LogComplete` leaves it out, and says that it costs no other entry. `unique_urls`, `display`
  and `collect_urls` only read.
- Torrents that `metainfo::parse` lets through with a piece length of 0, no files or lengths below 0 (`IsTorrent`); writes
  of `BlockPipeline` do not fail (`Store`), as those of `PeerSwarm` do.
- Formats: `bencode.rs`, `magnet.rs` and the dictionary of `metainfo.rs` are pure parsers. Metadata whose
  hash was right is decoded and encoded again (mod.rs:494-516) before `parse` takes the hash that the peers are then
  greeted with, another one unless the metadata was canonical; the model keeps the first. Terminal output, the log and
  shell completions have no behaviour to model.
