---------------------------- MODULE MagnetSession ----------------------------
(***************************************************************************)
(* A run of the program over a batch of links (main.rs), with what it does *)
(* for a magnet link (torrent/mod.rs, download_magnet): the search for     *)
(* peers (torrent/tracker.rs, get_peers_for_hash), the metadata from one   *)
(* peer after the other, the transfer, and the entry in the history.       *)
(*                                                                         *)
(* The stages are the modules it extends.  What a stage no longer needs is *)
(* reset when it ends.  Other processes touch the history at any time;     *)
(* what they do before our save is seen at the save, and happens there.    *)
(***************************************************************************)
EXTENDS DhtLookup, MetadataExchange, BlockPipeline, History

CONSTANTS
    Batch,      \* the links of the command line: "magnet" or "plain"
    Announced,  \* peers the trackers may tell of
    MaxTries,   \* 30: peers asked for the metadata
    Torrents,   \* what the metadata may hold
    MaxEntries  \* bound: entries of other processes

ASSUME SessionConstants ==
    /\ Batch \in Seq({"magnet", "plain"})
    /\ Announced \subseteq Peers
    /\ MaxTries \in Nat \ {0}
    /\ NoTorrent \notin Torrents /\ \A t \in Torrents : IsTorrent(t)
    /\ MaxEntries \in Nat

ASSUME NoPieceDistinct ==
    \A t \in Torrents : \A i \in PieceIds(t) : NoPiece \notin PieceDownloads(t, i)

VARIABLES
    stage,     \* next, peers, metadata, transfer, plain, save, saving, stopped
    link,      \* how many links were begun
    result,    \* of the last one: none, completed, failed
    attempts,  \* the entries of the downloads that ended, in order, without
               \* those whose save failed
    told,      \* the trackers have answered
    all_peers, \* what trackers and DHT told
    tried      \* peers asked for the metadata

sessionVars == <<stage, link, result, attempts, told, all_peers, tried>>
linkVars == <<link, result, attempts>>
vars == <<dhtVars, fetchVars, blockVars, histVars, sessionVars>>

Init ==
    /\ DhtIdle /\ FetchIdle /\ BlocksIdle /\ HistoryIdle
    /\ stage = "next" /\ link = 0 /\ result = "none" /\ attempts = <<>>
    /\ told = FALSE /\ all_peers = {} /\ tried = {}
-----------------------------------------------------------------------------
\* The head of the batch loop.
NextLink ==
    /\ stage = "next" /\ link < Len(Batch) /\ result # "failed"
    /\ link' = link + 1
    /\ result' = "none"
    /\ stage' = IF Batch[link'] = "magnet" THEN "peers" ELSE "plain"
    /\ UNCHANGED <<dhtVars, fetchVars, blockVars, histVars, attempts, told, all_peers, tried>>

\* The batch is done, or its last download failed (`result?`).
Return ==
    /\ stage = "next" /\ (link = Len(Batch) \/ result = "failed")
    /\ stage' = "stopped"
    /\ UNCHANGED <<dhtVars, fetchVars, blockVars, histVars, linkVars, told, all_peers, tried>>

FailsUnlogged(how) ==   \* mutant
    /\ stage' = IF how = "completed" THEN "save" ELSE "stopped"
    /\ result' = how
    /\ attempts' = Append(attempts, [by |-> Self, url |-> link, status |-> how])
    /\ told' = FALSE /\ all_peers' = {} /\ tried' = {}
    /\ UNCHANGED link

\* The download of the link has ended: its entry is to be saved.
Ends(how) ==
    /\ stage' = "save"
    /\ result' = how
    /\ attempts' = Append(attempts, [by |-> Self, url |-> link, status |-> how])
    /\ told' = FALSE /\ all_peers' = {} /\ tried' = {}
    /\ UNCHANGED link

\* HTTP, FTP, SFTP or a torrent file.
PlainDownload ==
    /\ stage = "plain"
    /\ \E how \in {"completed", "failed"} : Ends(how)
    /\ UNCHANGED <<dhtVars, fetchVars, blockVars, histVars>>

\* No output path, no directory for it, not an SSH target: `?` before the
\* download, and the program ends without an entry.
PlainRefused ==
    /\ stage = "plain"
    /\ stage' = "stopped" /\ result' = "failed"
    /\ UNCHANGED <<dhtVars, fetchVars, blockVars, histVars, link, attempts, told, all_peers, tried>>
-----------------------------------------------------------------------------
\* The search for peers: trackers and the DHT at once.
Search ==
    /\ stage = "peers"
    /\ DhtNext
    /\ UNCHANGED <<fetchVars, blockVars, histVars, sessionVars>>

TrackersTell ==
    /\ stage = "peers" /\ ~told
    /\ told' = TRUE
    /\ all_peers' \in SUBSET Announced
    /\ UNCHANGED <<dhtVars, fetchVars, blockVars, histVars, stage, linkVars, tried>>

\* All of them have answered.
SearchEnds ==
    /\ stage = "peers" /\ told /\ lookup = "done"
    /\ DhtReset
    /\ IF all_peers \union found = {}
       THEN Ends("failed")
       ELSE /\ stage' = "metadata"
            /\ all_peers' = all_peers \union found
            /\ UNCHANGED <<linkVars, told, tried>>
    /\ UNCHANGED <<fetchVars, blockVars, histVars>>

\* The metadata is asked for from one peer after the other.
TryPeer ==
    /\ stage = "metadata" /\ Cardinality(tried) < MaxTries
    /\ \E p \in all_peers \ tried : FetchConnect(p) /\ tried' = tried \union {p}
    /\ UNCHANGED <<dhtVars, blockVars, histVars, stage, linkVars, told, all_peers>>

Exchange ==
    /\ stage = "metadata"
    /\ FetchStep \/ AnyHandshake \/ AnyData \/ AnyFails \/ PeerReads
    /\ UNCHANGED <<dhtVars, blockVars, histVars, sessionVars>>

PeerFailed ==
    /\ stage = "metadata" /\ fetch = "err"
    /\ FetchReset
    /\ UNCHANGED <<dhtVars, blockVars, histVars, sessionVars>>

NoMetadata ==
    /\ stage = "metadata" /\ fetch = "idle"
    /\ tried = all_peers \/ Cardinality(tried) = MaxTries
    /\ Ends("failed")
    /\ UNCHANGED <<dhtVars, fetchVars, blockVars, histVars>>

\* prepare_files, and the check of what earlier runs left of the pieces.
StartTransfer ==
    /\ stage = "metadata" /\ fetch = "ok"
    /\ \E t \in Torrents : \E S \in SUBSET PieceIds(t) :
            Prepare(t, UNION {Righted(t, i) : i \in S})
    /\ FetchReset
    /\ stage' = "transfer"
    /\ UNCHANGED <<dhtVars, histVars, linkVars, told, all_peers, tried>>

\* The files cannot be made.
PrepareFails ==
    /\ stage = "metadata" /\ fetch = "ok"
    /\ FetchReset
    /\ Ends("failed")
    /\ UNCHANGED <<dhtVars, blockVars, histVars>>

Transfer ==
    /\ stage = "transfer" /\ ~AllDone
    /\ BlockNext
    /\ UNCHANGED <<dhtVars, fetchVars, histVars, sessionVars>>

TransferEnds ==
    /\ stage = "transfer" /\ AllDone
    /\ BlocksReset
    /\ Ends("completed")
    /\ UNCHANGED <<dhtVars, fetchVars, histVars>>

\* No task is left and none will come, as the DHT task has died.
TransferIncomplete ==
    /\ stage = "transfer" /\ ~AllDone
    /\ \A p \in Peers : conn[p] # "open"
    /\ BlocksReset
    /\ Ends("failed")
    /\ UNCHANGED <<dhtVars, fetchVars, histVars>>
-----------------------------------------------------------------------------
\* history::save.
SaveText ==
    /\ stage = "save"
    /\ WriteText(Self, attempts[Len(attempts)])
    /\ stage' = "saving"
    /\ UNCHANGED <<dhtVars, fetchVars, blockVars, linkVars, told, all_peers, tried>>

SaveEnd ==
    /\ stage = "saving"
    /\ WriteEnd(Self)
    /\ stage' = "next"
    /\ UNCHANGED <<dhtVars, fetchVars, blockVars, linkVars, told, all_peers, tried>>

\* save fails before it wrote: no home, no directory, the file does not open, the
\* disk is full.  The error is dropped and the batch goes on.
SaveFails ==
    /\ stage = "save"
    /\ attempts' = SubSeq(attempts, 1, Len(attempts) - 1)
    /\ stage' = "next"
    /\ UNCHANGED <<dhtVars, fetchVars, blockVars, histVars, link, result, told, all_peers, tried>>

\* A write fails in the middle of the entry; this error is dropped as well.
SaveBreaks ==
    /\ stage = "saving"
    /\ Dies(Self)
    /\ stage' = "next"
    /\ UNCHANGED <<dhtVars, fetchVars, blockVars, linkVars, told, all_peers, tried>>

OtherEntries == Cardinality({i \in DOMAIN file : file[i] = OthersEntry})

OtherProcess ==
    /\ stage \in {"save", "saving"}
    /\ OthersStep
    /\ OtherEntries' <= MaxEntries
    /\ UNCHANGED <<dhtVars, fetchVars, blockVars, sessionVars>>

Stopped == stage = "stopped" /\ UNCHANGED vars

BatchStep == NextLink \/ Return \/ PlainDownload \/ SaveText \/ SaveEnd

MagnetStep ==
    \/ TrackersTell \/ SearchEnds \/ TryPeer \/ PeerFailed \/ NoMetadata
    \/ StartTransfer \/ TransferEnds

Next ==
    \/ BatchStep \/ MagnetStep
    \/ Search \/ Exchange \/ Transfer
    \/ PlainRefused \/ PrepareFails \/ TransferIncomplete
    \/ SaveFails \/ SaveBreaks \/ OtherProcess
    \/ Stopped

Spec == Init /\ [][Next]_vars

\* What the program owes, with the timeouts of trackers and DHT; the replies of
\* an honest peer; and the deadline of the exchange, which has passed for good
\* when it has, so that the next return to the head of the loop sees it.  Nobody
\* owes it that the peer reads.
FairSpec ==
    /\ Spec
    /\ WF_vars(BatchStep) /\ WF_vars(MagnetStep)
    /\ WF_vars(stage = "peers" /\ DhtStep /\ UNCHANGED <<fetchVars, blockVars, histVars, sessionVars>>)
    /\ WF_vars(/\ stage = "metadata"
               /\ HonestHandshake \/ \E i \in Indices : HonestReply(i)
               /\ UNCHANGED <<dhtVars, blockVars, histVars, sessionVars>>)
    /\ SF_vars(/\ stage = "metadata" /\ DeadlinePasses
               /\ UNCHANGED <<dhtVars, blockVars, histVars, sessionVars>>)
-----------------------------------------------------------------------------
(***************************************************************************)
(* Properties.                                                             *)
(***************************************************************************)
\* The log has one entry for every download that ended, failed ones too, in
\* order, but for those whose save failed: their error is dropped (main.rs:114),
\* and the batch goes on.  A failed save costs its own entry and no other.  Said
\* unless a save was cut short, by its own write or another process's death,
\* overlapped another one, or the file was removed (main.rs, the batch loop;
\* README.md:258, all downloads are logged, is not so when a save fails).
LogComplete ==
    stage \in {"next", "stopped"} /\ ~disturbed => LoadOf(Self) = attempts

\* No honest peer is asked for the metadata in vain (README.md:115, metadata is
\* fetched from peers using BEP 10 and BEP 9).
HonestPeerSuffices == stage = "metadata" /\ fetch = "err" => remote \notin Honest

\* The pieces that count as complete, and what each peer fetches.
DonePieces == {i \in DOMAIN states : states[i] = "done"}

HeldPieces == [p \in Peers |-> IF cur[p] = NoPiece THEN {} ELSE {cur[p].index}]

Pieces == INSTANCE PieceStore WITH done <- DonePieces, held <- HeldPieces

\* The connections, their pipelines and the PieceManager implement the
\* PieceStore: a piece has one peer, the files gain whole verified pieces, done
\* is for good, and the transfer is left only when nobody has a piece
\* (next_piece, write_piece and piece_done, PieceGuard, run_download_stream).
ImplementsStore == Pieces!Spec

\* The way from a magnet link to its metadata ends, whatever nodes and peers
\* send or leave out (the batches of find_peers, the deadline of fetch_metadata),
\* unless the program waits for ever for a peer to read its requests: the deadline
\* is for what is read, and their writes have none (send_metadata_request).
MetadataSettles ==
    stage \in {"peers", "metadata"} ~>
        stage \notin {"peers", "metadata"} \/ [](fetch = "send")
=============================================================================
