# A formal model of zfs-send-explore

zfs-send-explore reads ZFS send streams, pool members and disk images inside
them, lists what they hold, extracts files and directory trees, and advances an
extracted file along incremental sends. These TLA+ modules model the parts of it
that decide whether an extracted file is right, TLC checks them on small
instances, and TLAPS proves nearly all of the safety results for all values of the
constants.

## The system

| part | source | state | operations | hard because |
|---|---|---|---|---|
| stream reader | `src/stream.rs` | framing flags, running Fletcher-4 sum | `next_record` | a payload is covered only by later records; one record type has two meanings; packages may be concatenated |
| snapshot chains | `src/filesystem.rs`, `src/operations.rs` | headers, plan (target and chain of GUIDs), GUIDs seen | `plan_snapshot`, `select_snapshot`, the substream filter of the index and of the replay | three readings of a file that others may change; other branches and datasets in between |
| object index | `src/filesystem.rs` | dnodes, directory and metadata bytes | `build_plan_with_key`, `resolve_path`, `list_directory` | records arrive in any order, objects are freed and recreated |
| replay | `src/operations.rs` | temporary file, flags, new size | `replay_object`, `apply_incremental_with_key` | zero chunks, open-ended FREE, embedded blocks, freed and recreated objects |
| sparse files | `src/sparse.rs` | a file | `write_extent`, `zero_range`, `copy` | operations past the end of the file |
| output and sidecar | `src/operations.rs`, `src/pool.rs`, `src/inception.rs` | the output file, its `.zfse.json` | extraction (send, pool, head, inner image), apply | two files, several accesses, failures and kills between them, local edits |
| recursive extraction | `src/tree.rs` | stack, counters, staging directory | `extract_directory_tree` | renames that fail, kills, cyclic sources, other programs |
| raw streams | `src/encrypted.rs`, `src/operations.rs`, `src/filesystem.rs` | raw dnodes of an OBJECT_RANGE, key | `build_raw_full`, `apply_raw_incremental` | a group of dnodes is authenticated as a whole before it may be used |
| opening a pool member | `src/pool.rs` | the source chosen, its labels and MOS | `open_with_container_key` | labels shared by a disk and its last partition, stale labels, several pools, LUKS |
| pool reader | `src/pool.rs` | the member, a dataset key, the locals of each loop | `inspect`, `encryption_requirement`, `list_directory`, `extract`, `extract_tree_file`, `read_small_file`, `PoolImageFile` | damaged and redundant copies, graphs from the disk that may be cyclic, failure or death in the middle |
| image in a stream | `src/inception.rs` | `SegmentMap`, block descriptors, a shared cache of one block | `StreamImage::build`, `decode`, `read_exact_at` | overlapping records cut one another; concurrent readers of a file that may be rewritten |
| disk images | `src/inception.rs`, `src/ntfs_compression.rs` | stack of bounded readers, volumes | inspect, select a volume, list, extract, open a file as an image | two redundant GPT copies, EBR chains, boot sectors that look like tables, nested address arithmetic |
| client catalog, desktop bridge, Windows and macOS clients | `src/client.rs`, `src/bin/`, `macos/` | session: source, view, key, layers; jobs | requests, jobs | rollback of failed requests, keys that must not outlive a view, late results |
| decoders, Datto names, presentation, command line | `src/compression.rs`, `src/datto.rs`, `src/presentation.rs`, `src/main.rs` | none | pure functions, printing | |

The command line and the clients call `operations` and `pool`; these plan and
index a stream with `filesystem` over `stream`, write through `sparse`, publish
by renaming a temporary file, and hand directories to `tree`. All of this is
sequential, except for the readers of an image in a stream, which may be several
threads. Concurrency comes from outside: the user or another program changes
the output file, the destination directory or the stream, and the process may be
killed between any two accesses to the file system.

What makes the parts correct: a file that is published is, byte for byte and in
length, the file of the snapshot that its sidecar names; a sidecar never vouches
for another file; an update is applied only to its base; damage on the medium is
never extracted in silence; a tree is published as a whole or not at all, and
what it replaces is never lost; a pool or a partition is read where it lies or not
at all; every intact copy of a block is used and no damaged one is. `PROJECT.json` lists the hazards line by line.

## Modules

| module | models |
|---|---|
| `SparseFile` | files as values: `set_len`, writes, `zero_range`, `write_extent` chunks, `copy` |
| `ObjectReplay` | one file replayed from a chain of substreams, by extraction and by apply |
| `VersionedFile` | abstract: what the program promises about an extracted file |
| `SidecarUpdate` | every access to the output and the sidecar by the five operations that write them; implements `VersionedFile` |
| `TreeExtract` | `extract_directory_tree` |
| `StreamReader` | `next_record` under a faulty medium |
| `SnapshotChain` | the choice of substreams for one snapshot, over three readings |
| `RawReplay` | one file of an encrypted dataset replayed from raw records, by extraction and by apply |
| `StreamImage` | a file of a stream served as a disk: the scan, the segment map, the decode cache, concurrent reads |
| `DiskTables` | both readers of partition tables, the one of `pool.rs` and the one of `inception.rs` |
| `PoolOpen` | which part of a disk is opened as the pool member |
| `InnerImage` | inspection of disk images, volumes, nested images, reads and extraction |
| `DiskSession` | a disk opened both ways: composes `PoolOpen` and `InnerImage` |
| `PoolBlocks` | block pointers and copies, checksums and MACs, indirect blocks, dnodes, ZAPs, and the decay of the member |
| `PoolCatalog` | the walk over datasets, snapshots, selection, the search for the key, opening a dataset |
| `PoolSession` | the commands on a pool member, over `PoolCatalog` |
| `PoolWritten` | what a pool is that was written soundly: the hypothesis of the theorems about pools |
| `ClientPlaces` | what both clients browse: views, keys, directories, volumes |
| `DesktopSession` | the requests of the desktop bridge, the screen of its client, device handles |
| `WindowsClient` | commands of the Windows client, the job on its worker thread, results, errors, retries, keys |
| `ObjectReplayProofs`, `SidecarUpdateProofs`, `TreeExtractProofs`, `RawReplayProofs` | proofs about the module each is named after |
| `StreamProofs` | proofs about `StreamReader` and `SnapshotChain` |
| `ImageProofs` | proofs about `StreamImage` and about `DiskSession` with its parts |
| `ClientProofs` | proofs about `DesktopSession` and `WindowsClient` |
| `PoolProofs` | proofs about `PoolSession` with its parts |
| `MC*` | constants for TLC |

Definitions named `...Unseen`, `...Skip` and the like, with a comment that begins
with `Mutant:`, are deliberately wrong variants. Nothing uses them; they document,
for each property, a plausible bug that the property catches.

Every specification states the types of its variables in a `TypeOK` (`ReaderTypeOK`,
`DiskTypeOK`, `WindowsTypeOK` where a proof module has two of them). Run `replay` checks
and `ReplayTypes` proves the one of `ObjectReplay`; the others say what the definitions
rely on and hold on the instances of the runs (add them to a cfg to check them after a
change). The runs themselves spend their time on the other properties.

### SparseFile and ObjectReplay

A file is a length and bytes; bytes past the end read as zero. `ObjectReplay`
composes the replay with a sender that is external: for each substream the sender
has a goal (the file in the next snapshot, or no file), sends records in any order
that OpenZFS allows, and may send END once every byte that differs and the dnode
have been sent. `done` is the set of bytes for which a receiver has been brought to
the goal. `replay_object` and `apply_incremental_with_key` share the record actions
where they agree and differ in `mode` where they do not (`FREEOBJECTS`, the
truncation by a first OBJECT, `saw_target_change`, `target_deleted`, `new_size`).
`write_extent` is one action per chunk, so that an error between two chunks happens
too. The size of a file is an SA attribute that lives in the bonus buffer or in a
spill block; `dnode` is what `ObjectIndex` keeps. The sidecar remembers where the
size was (`at`); `StoredSize` is what apply finds there: the size, or any other
value if the attribute has moved.

* Run `replay`: files of up to three bytes over two byte values, chunks of two
  bytes, any number of snapshots. Three bytes are a full chunk and a short one, a
  hole before data and data before a hole; every extent, every FREE (the
  open-ended one too) and every embedded length of that range is tried.
  `Reconstructed`, `FaithfulSoFar`, `RefusalMeansUnchanged` hold while the size
  stays at the place the sidecar remembers.
* `LayoutMoves = TRUE` lets the place move; see Known limits.

### SidecarUpdate and VersionedFile

Contents are values and SHA-256 is injective. One action is one access to the file
system: the check of the output, the rename, the hash of the path, the save of the
sidecar, and for apply the reading of the sidecar, the hash of the target, the
second opening and copy. `Stop` is a refusal, an error or a kill at any point.
`VersionedFile` has three variables (content, the snapshot the sidecar names, the
kind of run) and permits an advance only from the file of the named snapshot;
`Promise` is the refinement.

* Run `stream_update` (together with `StreamReader`): four snapshots, two of which hold
  the same file, a branch, edited contents, every operation and every failure; edits
  happen between runs.
  `EditDuringRun = TRUE` lets them happen during runs as well; see Known limits.

### TreeExtract

The walk of a directory graph with a stack, one entry at a time, then the two
renames, the rollback, the cleaning of the staging directory and its deletion on
return. The graph may be damaged: names twice, unusable names, a directory that
contains itself. `Level`, `Pairs` and `WholeTree` are the reference, without a stack:
`Level(t, n)` are the directories at the end of a route of n entries, and an entry is
counted by its place in a listing, because a damaged listing may hold one entry twice
and the code counts both if it skips them. `visited` records the entries that the walk
has done; no guard reads it.

* Run `tree`: ten graphs that touch each limit, one with a skipped entry twice; renames, listing and extraction
  may fail and the process may be killed anywhere. Two variables that are chosen at the
  start say whether another program may create the destination (`intruder`) and whether
  the rename that undoes a failed publish may fail (`rollback_fails`).
  `AllOrNothing`, `SuccessIsComplete` and `Terminates` hold in all four cases,
  `PreviousNeverLost` when neither happens. `Terminates` assumes weak fairness of the
  program's own steps: one thread that runs until it returns or is killed; a listing is
  finite.

### StreamReader

Sender and medium are external. The checksum is ideal: the value of a sum is the
sequence of what was absorbed, so two sums agree only if the bytes do. A stored sum
of zero means none, as in the code. One fault in a file of up to nine records (a
compound package with one substream takes six): damage to a header before the
checksum field (the type included), to the checksum (zeroed or not), to a payload,
a record lost or repeated, a file cut off between or within records. Damage that
changes the length of a BEGIN payload, and so where the next record is looked for,
is represented only by the read error it leads to. With two faults a whole empty
substream can be lost, which no reader can notice.

* Run `stream_update` is the plain sum of `StreamReader` and `SidecarUpdate`: they share
  no state, and each moves while the other is in its initial state. A file that was
  accepted or refused, or has as many records as the bound allows, stays as it is; in every
  other state there is a next record, and the sidecar always has a next step, so deadlock
  is checked.

### SnapshotChain

A substream is its header; `state` is the GUID of the state that a reading has
rebuilt, or a mixture when a substream was replayed over anything but its base.
The file may grow or be cut, twice, at any time during a run; a reading of the
headers is one step. `was_cut` records a cut: a file that was cut off is written on
again only with `Rewrites`. Files have up to four substreams over four snapshots of two
datasets, with any from-links, so that a snapshot may be made by several substreams: a
replica under another dataset, a full and an incremental stream. `replicated` remembers
that there were such. `Terminates` assumes weak fairness of the program's own steps, as
above.

* Run `chain`: `MissingIsMissing` says that when the walk gives up for want of a base, no
  substream that the selector names has an ancestry in the file: of several candidates for a
  base, some of them before their own base, taking the nearest one and never going back
  loses nothing, provided that the substreams of one snapshot are increments of the same
  base (`SameBase`). `RebuiltIsTarget` leaves out files that were `replicated`, and a file
  that was cut is not written on (`Rewrites = FALSE`); see Known limits for all three.

### RawReplay

A raw stream sends dnodes in blocks of 32 with one MAC per block. The model has one
dnode block with the target and a neighbour; a dnode is the header that OBJECT
carries, the size (in the bonus or in the spill block) and a pointer per data block.
The MAC is ideal. `goal` is the block in the snapshot being sent, `ideal` what an
OpenZFS receiver has made of the records so far, `raw_dnodes` what the program has;
records may be sent again and in any order after their OBJECT. A medium may lose
records, because the checksum of a stream is optional: any of them but BEGIN and END,
without which the reader's framing refuses the file. `ranged` is the range the sender is
in, `current_range` the one the program knows of; they differ when an OBJECT_RANGE was lost
(`unranged`, if it was one of the target's block). `grown` are the objects whose tree an
OBJECT made taller over blocks that are not sent again. The index and the replay of an
extraction read the same records one after the other and are one pass here.

* Run `raw`: files of up to two blocks with one or two levels, size in either place, a
  neighbour that comes and goes, trees that grow and shrink, one lost record. With nothing
  lost the file is right (`RawReconstructed`), and the MAC of a faithful stream fits every
  dnode that is not `grown` (`FaithfulAccepted`): a growing tree is what the program refuses,
  and all that it refuses. With a record lost that is not the OBJECT_RANGE of the block
  itself, what the MAC covers is still right (`AuthenticatedAnyway`). The MAC does not
  cover holes: a lost FREE over a region that is a hole on both sides of the MAC is
  exactly what that property leaves out.
* Run `raw_freed`: see Findings. Both exceptions: see Known limits.

### StreamImage

`build` is one action per record of the chain's substreams, with its locals as
variables; the sender's rules (an OBJECT before its blocks, nothing of a freed object)
are external guards. The i-th byte of a block is the pair of the block's number and i,
so a byte shows where it came from. `received` is what `zfs receive` would hold after
each record. Then readers, in any interleaving, take the segments of their range in
order, look into the cache that they share, decode on a miss and fill the cache, and
`Change` rewrites the payload of any block in the stream file at any moment. The CRC-32
that `build` keeps for each payload is ideal: a changed payload never passes it. A raw
block opens only with the key of the substream that sealed it.

* Run `images` (together with the disks below): three bytes, two blocks, so that one block can be cut at either end, in
  the middle and whole; three snapshots, one outside the chain; two readers, alike
  (symmetry), as are the snapshots of the chain. `SegmentsFit`: the segments are
  disjoint and each lies in its block; `ReadsAreReceived`: a read has the bytes a
  receiver would have, or fails because the file changed. `StreamImage` and `DiskSession`
  share no state; the run is their sum, in which each moves while the other is in its
  initial state, and the stream's image beside an empty disk.

### DiskTables, PoolOpen, InnerImage and DiskSession

A disk is measured in blocks of one vdev label. `DiskTables` holds the two partition
readers as functions from a source (an interval of the disk) and the table at its
start to the partitions found or a refusal: `pool.rs` drops what does not fit,
`inception.rs` refuses the disk. The EBR walk is a recursive function over the bound
`MAX_EBR_PARTITIONS`. `PoolOpen` is `open_with_container_key` in one action, because it
reads a disk that does not change and keeps nothing when it fails: candidates among the
partitions or the whole source, LUKS, the newest label, the MOS, the checks of the
label. `InnerImage` has a session as a stack of layers, each an interval of the one below,
and one action per operation; an extraction is one action per buffer and may end early,
and another program may create the output.

* Run `images`: disks of nine blocks (a pool needs four labels, and two pools a table),
  every pattern of absent, stale and newest labels on the whole disk or a partition,
  two pools side by side, every pair of GPT copies with an alternate LBA in the last
  block, past the end or at the primary itself, every chain of three EBRs with
  loops, empty records and links that leave the container, images in a file of a
  partition as raw, QCOW2, VMDK or an unsupported VMDK descriptor; five windows
  (`--image-offset`, `--image-length`), two nested sessions, one passphrase.
  `OpenedInPlace` and `OnePoolOpens` are about the choice of the pool,
  `VolumesAreTheTables` about both partition readers (its parts are named one by one; a
  backup GPT is looked for in the last block of any window), `ExtractedIsFile` about
  extraction through nested bounds. All 4969 disks of the run
  satisfy `DiskSound`, the hypothesis of the two theorems about the choice of the pool
  (add it to the cfg to check it after a change). Readings and sessions end when nobody
  calls again, so deadlock is not checked.
* Run `disk_labels`: see Findings.

### PoolBlocks, PoolCatalog and PoolSession

A block is identified with what was written to it; a place may be damaged (lost, or
holding another block that parses) and `Decay` happens between any two steps. A checksum
or a MAC fits exactly when the place holds the block; a block without a checksum is
decoded whatever it holds. `PoolCatalog` and `PoolSession` have one step per turn of each
loop: a directory of the dataset walk, a parent of the search for the key, a component of
a path, a record of a file. `step` holds the locals of the function that runs. The
references are in `pool.dirs` (a DSL directory with its children, head, snapshots and
key) and `pool.files` (a file or directory, with the DSL directory it belongs to): what
was written, apart from the blocks. That the blocks of a pool say the same as its
references, and that each block that leads to others can be read and not be read wrong,
is `PoolSound` of `PoolWritten`.

* Run `pool`: seven pools with directories (children with their own or an inherited key,
  a directory under two names, a cycle downwards, a cycle of parents, hidden names, a
  directory without a head) and three with files (no encryption with and without
  checksums, and encryption; holes, indirect blocks, short leaves, a sparse tail, and an
  entry that is neither file nor directory, which is listed and which every command that
  reads a file refuses).
  Copies lie on gang blocks and on other vdevs too. One decay that may hit any set of
  copies of a block, limits small enough to be reached (four datasets, two snapshots,
  three parents, three indirect levels, two ZAP blocks); one command on a pool of
  directories or without checksums, two on the others: the second meets the output,
  the sidecar or the open file of the first. A first `extract` may
  be killed at any step; the other commands publish in one step or write nothing, and a
  kill in the last command would leave nothing that is read again (what it leaves on
  the disk is checked in every state). What commands return is what was
  written (`DeliveredIsWritten`, `ListingIsDirectory`, `CatalogComplete`), with the key of
  the dataset (`KeyIsTheDatasets`), and while each block has a usable copy they succeed
  (`WrittenSuffices`, which also says that every pool of the run is `PoolSound`); the output and its sidecar survive failures and kills
  (`OutputCertified`).
  `Terminates` assumes weak fairness of the steps of the running command (`Onward`): it
  is one thread that waits for nobody. That such a step exists in every state of a
  command nobody kills, and changes its locals, is what the deadlock check of this run
  shows.

### DesktopSession

One action per request of `Session::handle`, with the outcome of each reading as a
parameter, and the client's screen, which changes only on success. `handles` is
`AUTHORIZED_SOURCES`; `attached` is what is really at each path and changes at any
time. A source is opened again by path, and its view found by selector, for every reading
(`Reopened`): whatever ZFS medium is there by then is read. `exchanged` remembers that
another medium came to the session's path, or into its pinned handle by a failed
authorised open, since the source was opened. Restoring names an entry by the screen;
`astray` remembers whether a file ever came from another view, image or directory than the
screen said, or, with nothing `exchanged`, from another medium.

* Run `desktop`: a file and a device node, several ZFS media with views of the same names
  and keys of their own, and a disk image; up to two nested images. `flaky`, chosen at the
  start, says whether a
  listing that has just succeeded may fail when it is repeated for the answer;
  `RestoredIsShown` needs that it may not, the other properties hold either way. It says
  that a session with a pinned handle restores from the medium that was opened whatever is
  at the path, as does one whose path no other medium has taken.

### WindowsClient

`app` is `AppState`: catalog, restore point, stack of images, volume, path, list, source
box, keys and the one job. Commands are ignored while a job runs; a job holds copies of
what it reads; `finish_job` and `handle_job_error` are one action per result and per kind
of error, with the user's answer to a prompt as a parameter, and may start the next job.
A listing is the place it was read from. `clear` is the setting that forgets keys when the
source changes; `steady` says whether the first listing of a new place succeeds. A key is
its scope; the newest matching key is represented by all matching ones. An update is
given the matching keys or, if there are none, all that are kept (`Updating`).

* Run `windows`: a ZFS source and a path that opens as ZFS or as a disk image, two restore
  points, two volumes, two open images. Two keys are kept only outside of images, where
  an update may be given one or the other; states with more are checked but not continued,
  since nothing else that is done with a key depends on another one. `KeyInScope` is about
  every job that is given keys, updates while the open restore point has a key of its own
  included. Both settings of `clear` and `steady` are explored;
  `OthersForgotten` is about the first, `RestoredIsListed` about the second; `misplaced`
  remembers whether, with `steady`, a file ever came from elsewhere than the list said.
* Run `windows_update`: see Findings.

## Findings

Three runs that TLC must refute, each with what the documentation says as its property:

* `raw_freed`: raw apply looks at FREEOBJECTS only inside an OBJECT_RANGE. If all 32
  dnodes of the target's block are freed there is no OBJECT_RANGE, and the old file is
  certified under the new snapshot, although `README.md` line 205 says that an update of a
  deleted file fails safely.
* `windows_update`: an update in the Windows client is given the newest of all keys if none
  was entered for the open restore point (`mod.rs` line 1698), although
  `docs/windows-client.md` line 174 says that keys are scoped to the backup and restore
  point.
* `disk_labels`: `docs/format-notes.md` line 80 and `docs/windows-client.md` line 209 say
  that partitions are looked at only if the whole disk has no labels; `src/pool.rs` lines
  622-628 give a partition table precedence, and a comment there says why: the last
  partition of a disk shares its trailing labels with the whole. `LabelsBeforePartitions`
  states what the documents say; `OpenedInPlace` and `OnePoolOpens` hold of the code's
  order.

### Known limits

Assumptions that the passing runs make, and that the code needs:

* `EditDuringRun = FALSE` (`SidecarUpdate`): apply hashes the target, then opens it again
  to copy it. A change in between is patched and certified.
* `intruder = FALSE` (`TreeExtract`): without `--force`, a destination that appears during
  the walk is moved aside and deleted, although `README.md` line 159 says that existing
  output is preserved. Single files are checked again before the rename.
* `rollback_fails = FALSE` (`TreeExtract`): if publishing and rolling back both fail, the
  previous tree goes with the staging directory.
* `flaky = FALSE` (`DesktopSession`): List, Volume and Unlock do not roll back when the
  listing for the answer fails; client and session then disagree about the current
  directory.
* A failed authorised open of the session's own device, after the device was swapped,
  leaves the session with the handle of the other device.
* `steady = TRUE` (`WindowsClient`, for `RestoredIsListed` alone): a volume, an image or a
  re-opened source becomes the current place before its listing has been read. If that
  fails, the old list stays, and Restore takes a file of the same name from the new place.
* A path that opens as ZFS and as a disk image keeps its keys when it is opened the other
  way, because `source_is_changing` compares paths. `OthersForgotten` allows the keys of
  such a path.
* `LayoutMoves = FALSE` (`ObjectReplay`): apply reads the new length at the byte offset
  that the extraction stored (`src/operations.rs` line 398). If an attribute is added and
  `ZPL_SIZE` moves, the offset points at something else and the file gets another length;
  `docs/format-notes.md` line 49 promises that the stored offset lets a later record
  update the length.
* Files with two substreams of one snapshot (`replicated`, `SameBase` in `SnapshotChain`):
  the index and the replay choose substreams by GUID (`src/operations.rs` line 864), so a
  replica of a chain member under another dataset of the same file is replayed too, over
  newer data; `docs/format-notes.md` line 45 says that records of other datasets are ignored.
  And if a snapshot is there both in full and as an increment, the walk takes the nearer
  one (`src/filesystem.rs` line 721) and never goes back, so that a chain through the
  farther one is reported as missing.
* `Rewrites = FALSE` (`SnapshotChain`): the plan keeps GUIDs, not headers, and the third
  reading trusts the second. If the file is cut after the index was built and another
  substream with the same GUID but another base takes the place of one that was cut, the
  replay meets every GUID of the chain and ends well with a mixture.
* A lost OBJECT_RANGE (`unranged` in `RawReplay`): without it apply skips every record of
  the block (`src/operations.rs` lines 609-741), checks no MAC, and certifies the old bytes
  under the new GUID (lines 758-769), although `README.md` line 231 says that raw apply
  validates the updated dnode-range tag before it replaces the file. It takes a stream
  without checksums, which is what the reader would otherwise refuse.
* A growing tree (`grown` in `RawReplay`): block pointers are carried forward only between
  equal numbers of levels (`src/operations.rs` line 823, `src/filesystem.rs` line 669). A
  file that grows past one indirect block is refused although the stream is faithful.
* A session of the desktop client that holds no pinned handle is read by path and selector
  (`src/client.rs` lines 421-451 and 750-759): if another ZFS medium that has a view of the
  same name takes the path, files are restored from that one without a question (`exchanged`
  in `DesktopSession`). A key of the other medium is asked for if the one at hand does not
  fit.
* `read_small_file_with_key` (`src/pool.rs` lines 1018-1028) fills the rest of a leaf that
  decodes short of its block with the beginning of the leaf, where `write_file_record` fills
  it with zeroes (the comment at lines 1681-1684). `DeliveredIsWritten` leaves out small
  files with a short leaf.
* `write_file` and `read_small_file_with_key` refuse a file whose size reaches beyond its last
  allocated block, while `PoolImageFile` reads zeroes there; `IntactSuffices` counts such a
  file (`sparse_tail`) as answerable only for the image.
* An unencrypted block whose checksum is off is delivered as it is found (`Unprotected`).
* Agent passwords of the Windows client are not modelled.

## Proofs

The theorems hold for every value of the constants that the `ASSUME`s of the modules
allow: any file size, chunk size, byte set, any set of snapshots and incrementals.

What a byte reads after each file operation (`SetLenRead`, `WriteAtRead`,
`ZeroRangeRead`, `WriteChunkRead`, `CopyRead`; that the fallback which writes zeroes does
what punching a hole does, `WriteZerosPunches`) comes first in both modules about replay,
each with the operations it needs; their proofs use only these, never the representation
of a file.

`ObjectReplayProofs` proves `Reconstructed`, `FaithfulSoFar`,
`RefusalMeansUnchanged` and `TypeOK` under `LayoutMoves = FALSE`. None is inductive.
`IInv` adds: between runs the locals are gone (`IdleClean`); an extent is only
pending while a substream of a live object is open (`WriteInProgress`); the sidecar
names the snapshot and place of the published file (`OutputNamed`); the
`object_exists` flag follows the object and without an object the file reads as zero,
which is why the truncation by a new OBJECT loses nothing (`ExistsTracked`); between
substreams the file is the last goal's (`BetweenSubstreams`); apply's `new_size` is
what the dnode holds (`SizeTracked`); and until apply has seen a change the receiver
is still at the base (`UnchangedSoFar`).

`SidecarUpdateProofs` proves `NeverMixed`, `SidecarSound` and the refinement
`Promise` under `EditDuringRun = FALSE`. `IInv` says what each step may rely on:
which program counter goes with which operation (`Shape`), that apply's sidecar is
the one on disk and the file it copies is the one it verified (`ApplyKnows`), what
extraction is about to publish (`BuildKnows`), and that after the rename file and
hash are the goal's (`PublishedKnows`). The refinement proof maps each action to a
step of `VersionedFile` or to a stutter.

`TreeExtractProofs` proves `AllOrNothing`, `SuccessIsComplete` and `PreviousNeverLost`
for every source graph and all limits, with no further assumption. The invariant
relates the walk to the reference: what is on the stack, under way and done is part of
the source (`Sound`); no directory is done twice, because a path is created once
(`Apart`); a directory that was met is on the stack, under way or done (`Covered`); and
what was created and counted is what was done (`Recorded`). When the stack is empty
everything was visited: take the least depth at which an entry was not; its directory
is an entry one level up, which was done, so the directory was met and is done
(`WalkedAll`). `Staged`, `Placed`, `Others` and `Kept` carry the tree and what it
replaces through the renames. This proof showed that an earlier `SuccessIsComplete`,
which counted entries and not places, was false for a listing that repeats a skipped
entry.

`StreamProofs` proves `RebuiltIsTarget` under `Rewrites = FALSE` and `MissingIsMissing`
under no assumption, for files of any length, any number of changes and any number of
substreams of one snapshot, with the exceptions that the properties themselves name. For the
first: the file is always the planned one, longer or shorter (`Agrees`); the chain is a set
of places of which each follows its base with no other in between (`Linked`); a reading
holds the state of the last place it has passed (`Read`). Its proof does not go through with
`Rewrites`: TLC then shows the behaviour under Known limits. For the second, the walk is
never further back than an ancestry could be (`NotBehind`): every ancestry of the chosen
substream holds one that makes what the substream at the cursor makes, at the cursor or
before it.

It also proves `NoFalseAlarm` and `AcceptedIntact` of `StreamReader`, the second for at
most one fault, for files of any length. Until a fault happens the reader is where the
sender is: the same framing flags, the same sum (`InStep`). After a fault that changed
what was handed out the reader is `Doomed`: it is in a substream whose sum is wrong, or
that the sender has closed or not opened, or in a package that the sender has closed, and
from there no accepted end can be reached (`IntactInv`).

`RawReplayProofs` has three layers. `Inv` needs nothing of the constants: the pointers
that the program knows are those of blocks in the file (`Known`), and outside a range
the MAC cannot tell its dnodes from the receiver's, unless an OBJECT_RANGE of the block was
lost (`Closed`), so that blocks past the
length are holes and cutting the file loses none; this gives `AuthenticatedAnyway`.
`Exact` (`BlockFreed = FALSE`, nothing lost) says that a block which is not due reads
as the receiver's or already as the snapshot's (`Reads`), and that what the receiver
still holds there is a hole or the snapshot's (`Settled`); the second is why an OBJECT
that drops pointers leaves the file right. It gives `RawReconstructed`, with trees that
grow too. `Tracked` says that the dnodes which did not grow are the
receiver's but for spill blocks that will be sent again, and gives `FaithfulAccepted`.

`ImageProofs` proves `SegmentsFit` and `ReadsAreReceived` for any number of
records, keys and readers. `MapFits` says that each byte of the file zfs receive would
hold is in exactly one segment, at its place in the block, or in none and zero;
`KeysFit` that a raw block remembers the key of its own substream; `CacheFits` that the
shared cache holds one block's decoded bytes, whichever reader filled it; `ReadersFit`
that what a reader has not copied yet lies in a segment that it still has to do.

For disks it proves, for every disk and any limits:

* `ExtractedIsFile`. `ImageInv`: each layer of the stack lies in the
  one below (`Stacked`), in every session (`SessionOK`), and an extraction has copied a
  prefix of the file (`CopiedSoFar`).
* `OpenedInPlace` and `OnePoolOpens`, for disks that are `DiskSound`: a vdev is alone at
  its place and ends with the slice it begins, partitions are disjoint, and a disk that is
  LUKS as a whole has no table. Without these the labels of two pools lie in one another,
  and nothing read from the disk could tell them apart.
* `VolumesAreTheTables`. The code's walk of the EBR chain is a recursive function with a set of
  visited sectors, the reference needs none: every record that a record links to. `Walked`
  says that a link leads to a sector that was visited or comes next, and that the partitions
  found are those of the visited records and lie in the container.

`ClientProofs` proves `KeyFitsView`, `RestoredIsShown` and `OnlyItsHandle` for
any paths, media, views and nesting. The three hold together with the types by one
invariant, in which the second becomes `Shown`: the screen is the session's location
whenever listings are not flaky, not only when something is restored. `Homed` adds that
the pinned handle or, without one, the path leads to the session's own medium as long as
nothing was `exchanged`.

It also proves `ResultFitsState`, `RestoredIsListed`, `KeyInScope` and `OthersForgotten` of
`WindowsClient`, for any sources and any nesting. `WindowsInv` says that the state fits
together (`Core`), that the copies a running job holds are still those of the state, since
commands are ignored meanwhile (`JobFits`), and that with `steady` the list is the one of
the current place, except under a job that reads it (`ListFits`).

`PoolProofs` proves `DeliveredIsWritten`, `ListingIsDirectory`, `CatalogComplete`,
`KeyIsTheDatasets` and `OutputCertified` for every pool that was written soundly
(`PoolSound`), any decay of any number of places, any number of commands and any limits.

* The lemmas about blocks: a pointer that is `Kept` reads as it was written or not at all,
  whatever has decayed (`ReadKept`); so do the way down the indirect blocks (`DataKept`),
  a dnode (`ObjectKept`) and a ZAP (`ZapKept`). Nothing that was written changes, so the
  references mean the same in every state.
* `PoolInv` says what a command knows at each of its steps (`StepOK`): each visible child
  of a directory the walk has seen was seen or waits (`WalkOK`), the dataset chosen is the
  one asked for (`SelectedOK`), the directory that the search for the key has reached has
  the dataset's key (`ClimbOK`, `CryptoOK`, `KeyedOK`), the object a path has led to is
  the one of its components (`ResolveOK`), what a file command has written is a prefix of
  the file in whole blocks (`FileOK`, `BufferOK`), an open image belongs to the dataset it
  was opened from (`HandleOK`); and that the last result and the output with its sidecar
  are right (`ResultOK`, `OutputOK`), a kill at any step included.

Several proofs need that a nonempty set of naturals has a least member (`LeastNat`,
from the library's theorem on minimal elements); a minimal counterexample then replaces
induction, whose rule takes an operator that these provers cannot instantiate:
`TreeExtractProofs` does so for the depth of the walk, `ImageProofs` for the EBR walk and
`PoolProofs` for the way down a file's indirect blocks.

Only model-checked:

* `WrittenSuffices`. Its part `IntactSuffices` promises that a command succeeds, so a proof
  has to account for every error in every step, and for the breadth-first walk coming to
  each dataset under the name that the reference gives it; the invariant above says only
  what is so when a step succeeds.
* Liveness everywhere (`Terminates` of three modules), because fairness and ENABLED are
  beyond this prover.
* The violation runs, which are counterexamples.

## Not modelled

* Cryptography, compression, and the byte layouts of labels, nvlists, dnodes, ZAP leaves and
  inner filesystems: pure functions on bytes, mostly of libraries; what they decide (a
  checksum fits, a key unlocks, a filesystem is there) is in the models.
* The cluster maps of QCOW2 and VMDK (libraries; a container is an offset here), NTFS
  compression, the vendored NTFS reader.
* Encrypted Datto images (`.detto`) and agent passwords; they add a layer that decrypts whole
  sectors and a small file with the key, which are modelled without it.
* Reads of devices that must be aligned to sectors (`src/source.rs`), and the size of a device.
* In-memory extents and ZAP objects of the stream index (`src/filesystem.rs`).
* Formatting, the command line and user interfaces around the modelled operations.
* Power loss (writes that are renamed but not yet durable): the code synchronises a file before
  it renames it, and a kill of the process is modelled.

## Plan

In this order:

1. Aligned device reads and `.detto` sectors, as one more layer of `InnerImage` at the
   granularity of bytes.
2. `MemoryExtents`: the in-memory extents of the index against `SparseFile`.
3. A proof of `IntactSuffices`, from `PoolInv` and a second invariant about what may still fail.
