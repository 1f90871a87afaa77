------------------------------ MODULE WalStore ------------------------------
(***************************************************************************)
(* The write-ahead log below the engine (onced-core wal.rs), at the level  *)
(* of the file system: frames with a checksum and a hash chain, partial    *)
(* writes, failed writes and fsyncs, compaction into a fresh file renamed  *)
(* over the old one, the death of the process, and loss of power.          *)
(*                                                                         *)
(* A record is the number of the put that wrote it and its key; the states *)
(* it would carry do not matter here.  The hash is taken to be injective,  *)
(* so a chain value is the sequence of the records it covers.              *)
(***************************************************************************)
EXTENDS Naturals, Sequences, FiniteSets, SequencesExt

CONSTANTS
    Keys,
    PanicAborts,     \* the build is one with panic = "abort", which the
                     \* workspace sets for release; the others unwind
    DirSyncWorks,    \* fsync of the directory succeeds
    FreshLog,        \* the log was created by this process
    CorruptTails,    \* loss of power may persist a frame's length without all
                     \* of its bytes
    MaxPuts,         \* bound: puts
    MaxFiles         \* bound: files the path ever names

ASSUME WalAssumption ==
    /\ IsFiniteSet(Keys)
    /\ {PanicAborts, DirSyncWorks, FreshLog, CorruptTails} \subseteq BOOLEAN
    /\ MaxPuts \in Nat
    /\ MaxFiles \in Nat \ {0}

VARIABLES
    index,      \* the put each key was last written by, 0 if none
    pending,    \* the frames put and not yet flushed
    syncEach,   \* sync_each: strict mode, else group commit
    chain,      \* chain_root
    files,      \* every log file, in the order of creation
    handle,     \* WalStore.file: the file appends go to
    name,       \* the file the path names
    diskName,   \* the file the path is known to name after loss of power
    status,     \* "open"; "halted": the process is down; "refused" by open_with
    puts,       \* how many puts there were, to number them
    acked       \* history: the last put of each key that returned durable

storeVars == <<index, pending, syncEach, chain, handle>>
fileVars == <<files, name, diskName>>
vars == <<storeVars, fileVars, status, puts, acked>>

Records == [key: Keys, put: 1..MaxPuts]

\* What a log file is made of: whole frames, the first bytes of a frame, and
\* frames of the right length with the wrong bytes.
Frames == [kind: {"frame"}, rec: Records, chain: Seq(Records)]
Torn == [kind |-> "torn"]
Corrupt == [kind |-> "corrupt"]

\* encode_record
Frame(rec, prev) == [kind |-> "frame", rec |-> rec, chain |-> Append(prev, rec)]

TypeOK ==
    /\ index \in [Keys -> 0..MaxPuts]
    /\ pending \in Seq(Frames)
    /\ syncEach \in BOOLEAN
    /\ chain \in Seq(Records)
    /\ files \in Seq([items: Seq(Frames \union {Torn, Corrupt}), synced: Nat])
    /\ Len(files) \in 1..MaxFiles
    /\ handle \in DOMAIN files
    /\ name \in DOMAIN files
    /\ diskName \in 0..Len(files)
    /\ status \in {"open", "halted", "refused"}
    /\ puts \in 0..MaxPuts
    /\ acked \in [Keys -> 0..MaxPuts]

NewFile == [items |-> <<>>, synced |-> 0]

Init ==
    /\ index = [k \in Keys |-> 0]
    /\ pending = <<>>
    /\ syncEach \in BOOLEAN
    /\ chain = <<>>
    /\ files = <<NewFile>>
    /\ handle = 1
    /\ name = 1
    /\ diskName = IF FreshLog THEN 0 ELSE 1
    /\ status = "open"
    /\ puts = 0
    /\ acked = [k \in Keys |-> 0]

-----------------------------------------------------------------------------
(***************************************************************************)
(* open_with on the contents of a file.                                    *)
(***************************************************************************)
RecordsOf(items) == [i \in DOMAIN items |-> items[i].rec]

\* Whether the first n items decode and continue the chain from genesis.
GoodPrefix(items, n) ==
    \A i \in 1..n : /\ items[i].kind = "frame"
                    /\ items[i].chain = RecordsOf(SubSeq(items, 1, i))

\* How many frames the replay loop consumes.
Consumed(items) == Max({n \in 0..Len(items) : GoodPrefix(items, n)})

ReplayIndex(items) ==
    [k \in Keys |->
        LET at == {i \in DOMAIN items : items[i].rec.key = k}
        IN  IF at = {} THEN 0 ELSE items[Max(at)].rec.put]

\* Why the loop stopped: at the end, at a torn frame, or at a complete frame
\* that does not verify.  A torn frame that later bytes follow may count as
\* either, by the length its first bytes announce.
Verdicts(items) ==
    LET n == Consumed(items)
    IN  IF n = Len(items) THEN {"end"}
        ELSE IF items[n + 1] # Torn THEN {"refused"}
        ELSE IF n + 1 = Len(items) THEN {"torn"} ELSE {"torn", "refused"}

\* The process starts on file f, whose contents are `items`, of which the first
\* `synced` are on disk, in either mode.
Open(f, items, synced) ==
    LET n == Consumed(items)
        good == SubSeq(items, 1, n)
    IN  \/ /\ "refused" \in Verdicts(items)
           /\ status' = "refused"
           /\ files' = [files EXCEPT ![f] = [items |-> items, synced |-> synced]]
           /\ UNCHANGED storeVars
        \/ /\ Verdicts(items) \intersect {"end", "torn"} # {}
           /\ status' = "open"
           /\ files' = [files EXCEPT ![f] =
                            [items |-> good, synced |-> Min({synced, n})]]
           /\ index' = ReplayIndex(good)
           /\ pending' = <<>>
           /\ syncEach' \in BOOLEAN
           /\ chain' = RecordsOf(good)
           /\ handle' = f

\* The process dies; what it wrote is in the page cache or on disk.
Kill ==
    /\ status # "refused"
    /\ Open(name, files[name].items, files[name].synced)
    /\ UNCHANGED <<name, diskName, puts, acked>>

\* The first n of these items, and a tail.
Cut(items, n, tail) == SubSeq(items, 1, n) \o tail

\* The contents a file may have after loss of power: what was synced, some of
\* what was written later, and a tail.
AfterPowerLoss(file) ==
    {Cut(file.items, n, tail) :
        n \in file.synced..Len(file.items),
        tail \in {<<>>, <<Torn>>}
                    \union (IF CorruptTails THEN {<<Corrupt>>} ELSE {})}

\* A tail needs bytes that were not yet synced.
PowerLossContents(file) ==
    {items \in AfterPowerLoss(file) : Len(items) <= Len(file.items)}

\* Power is lost and the process starts again.  The path names the file its
\* directory entry on disk names, or the last one it named; if there is no
\* entry, open_with creates an empty log.
PowerLoss ==
    /\ status # "refused"
    /\ \E f \in {name, diskName} :
        IF f = 0
        THEN /\ Open(name, <<>>, 0)
             /\ UNCHANGED <<name, diskName>>
        ELSE /\ \E items \in PowerLossContents(files[f]) :
                    Open(f, items, Min({files[f].synced, Len(items)}))
             /\ name' = f
             /\ diskName' = f
    /\ UNCHANGED <<puts, acked>>

-----------------------------------------------------------------------------
(***************************************************************************)
(* flush_pending on a buffer of frames.  It succeeds, or it panics after   *)
(* write_all wrote part of the buffer, or in fsync; the process may die at *)
(* the same points.  The buffer is cleared only on success.                *)
(***************************************************************************)
\* Mutant of FlushSucceeds: the file is written and not synced.
FlushWithoutSync(frames) ==
    /\ files' = [files EXCEPT ![handle].items = @ \o frames]
    /\ pending' = <<>>
    /\ UNCHANGED status

FlushSucceeds(frames) ==
    /\ files' = [files EXCEPT ![handle] =
                    [items |-> @.items \o frames,
                     synced |-> Len(@.items) + Len(frames)]]
    /\ pending' = <<>>
    /\ UNCHANGED status

\* A panic of a release build ends the process.  In a build that unwinds (dev,
\* test, an embedder's own profile) it ends the thread, and the next request may
\* take the poisoned lock over and go on with the store as the panic left it.
Panic == status' \in (IF PanicAborts THEN {"halted"} ELSE {"open", "halted"})

\* What write_all may have written: all of the buffer, or some whole frames and
\* perhaps the first bytes of the next.
Written(frames) ==
    {Cut(frames, n, tail) :
        n \in 0..(Len(frames) - 1), tail \in {<<>>, <<Torn>>}} \union {frames}

FlushFails(frames) ==
    /\ \E written \in Written(frames) :
            files' = [files EXCEPT ![handle] =
                        [items |-> @.items \o written, synced |-> @.synced]]
    /\ pending' = frames
    /\ Panic

\* WalStore::put
Put(k) ==
    LET frame == Frame([key |-> k, put |-> puts + 1], chain)
        buffered == Append(pending, frame)
    IN  /\ status = "open"
        /\ puts < MaxPuts
        /\ puts' = puts + 1
        /\ chain' = frame.chain
        /\ index' = [index EXCEPT ![k] = puts + 1]
        /\ \/ /\ syncEach
              /\ FlushSucceeds(buffered)
              /\ acked' = index'
           \/ /\ syncEach
              /\ FlushFails(buffered)
              /\ UNCHANGED acked
           \/ /\ ~syncEach
              /\ pending' = buffered
              /\ UNCHANGED <<files, status, acked>>
        /\ UNCHANGED <<syncEach, handle, name, diskName>>

\* WalStore::flush
Flush ==
    /\ status = "open"
    /\ pending # <<>>
    /\ \/ FlushSucceeds(pending) /\ acked' = index
       \/ FlushFails(pending) /\ UNCHANGED acked
    /\ UNCHANGED <<index, syncEach, chain, handle, name, diskName, puts>>

-----------------------------------------------------------------------------
(***************************************************************************)
(* WalStore::compact, dropping the keys of `drop`.                         *)
(***************************************************************************)
Retain(drop) ==
    /\ index' = [k \in Keys |-> IF k \in drop THEN 0 ELSE index[k]]
    /\ acked' = [k \in Keys |-> IF k \in drop THEN 0 ELSE acked[k]]

\* Mutant of CompactedLogs: the chain goes on from the old log.
LogsOnOldChain(ix) ==
    LET live == {k \in Keys : ix[k] # 0}
        Log(ks) == [i \in DOMAIN ks |->
                        Frame([key |-> ks[i], put |-> ix[ks[i]]],
                              chain \o [j \in 1..(i - 1) |->
                                            [key |-> ks[j], put |-> ix[ks[j]]]])]
    IN  {Log(ks) : ks \in SetToSeqs(live)}

\* Mutant of CompactedLogs: dropped entries are written as well.
LogsWithDropped(ix) ==
    LET Log(ks) == [i \in DOMAIN ks |->
                        Frame([key |-> ks[i], put |-> ix[ks[i]]],
                              [j \in 1..(i - 1) |-> [key |-> ks[j], put |-> ix[ks[j]]]])]
    IN  {Log(ks) : ks \in SetToSeqs(Keys)}

\* The logs of one frame for each entry of ix, with a chain from genesis.
CompactedLogs(ix) ==
    LET live == {k \in Keys : ix[k] # 0}
        Log(ks) == [i \in DOMAIN ks |->
                        Frame([key |-> ks[i], put |-> ix[ks[i]]],
                              [j \in 1..(i - 1) |-> [key |-> ks[j], put |-> ix[ks[j]]]])]
    IN  {Log(ks) : ks \in SetToSeqs(live)}

\* Mutant of Rename: the new file is renamed before it is synced.
RenameUnsynced(log) ==
    /\ files' = Append(files, [items |-> log, synced |-> 0])
    /\ name' = Len(files) + 1
    /\ diskName' = IF DirSyncWorks THEN name' ELSE diskName

\* The compacted log is written and synced beside the old one and renamed over
\* it; syncing the directory is best effort.
Rename(log) ==
    /\ files' = Append(files, [items |-> log, synced |-> Len(log)])
    /\ name' = Len(files) + 1
    /\ diskName' = IF DirSyncWorks THEN name' ELSE diskName

\* Mutant of Compact: the buffer is left behind.
CompactKeepsBuffer(drop) ==
    /\ status = "open"
    /\ Len(files) < MaxFiles
    /\ Retain(drop)
    /\ \E log \in CompactedLogs(index') : Rename(log) /\ chain' = RecordsOf(log)
    /\ handle' = name'
    /\ UNCHANGED <<pending, syncEach, status, puts>>

Compact(drop) ==
    /\ status = "open"
    /\ Len(files) < MaxFiles
    /\ Retain(drop)
    /\ \E log \in CompactedLogs(index') : Rename(log) /\ chain' = RecordsOf(log)
    /\ handle' = name'
    /\ pending' = <<>>
    /\ UNCHANGED <<syncEach, status, puts>>

\* A panic, or the death of the process, before the rename.
CompactFailsEarly(drop) ==
    /\ status = "open"
    /\ Retain(drop)
    /\ Panic
    /\ UNCHANGED <<pending, syncEach, chain, handle, fileVars, puts>>

\* A panic, or the death of the process, after the rename: the renamed file is
\* not reopened.
CompactFailsLate(drop) ==
    /\ status = "open"
    /\ Len(files) < MaxFiles
    /\ Retain(drop)
    /\ \E log \in CompactedLogs(index') : Rename(log)
    /\ Panic
    /\ UNCHANGED <<pending, syncEach, chain, handle, puts>>

Next ==
    \/ \E k \in Keys : Put(k)
    \/ Flush
    \/ \E drop \in SUBSET Keys :
            Compact(drop) \/ CompactFailsEarly(drop) \/ CompactFailsLate(drop)
    \/ Kill
    \/ PowerLoss

Spec == Init /\ [][Next]_vars

-----------------------------------------------------------------------------
\* A put that returned durable (in strict mode by itself, in group commit with
\* a flush) is found again by every later open, or a newer put of its key is,
\* until compaction drops the key.
AckedRecoverable ==
    status = "open" => \A k \in Keys : index[k] >= acked[k]

\* open_with never refuses a log this store wrote.
NeverRefused == status # "refused"

\* The file and the buffer together are one unbroken chain from genesis that
\* replays to the index, across reopening, truncation of a torn tail and
\* compaction: every later append continues it.
LogVerifies ==
    status = "open" =>
        LET log == files[handle].items \o pending
        IN  /\ handle = name
            /\ Consumed(log) = Len(log)
            /\ chain = RecordsOf(log)
            /\ index = ReplayIndex(log)

\* A log without the torn frame at its end, if there is one.
WithoutTear(items) ==
    IF items # <<>> /\ items[Len(items)] = Torn
    THEN SubSeq(items, 1, Len(items) - 1)
    ELSE items

\* The records on file, and the ones put since.
Logged ==
    RecordsOf(WithoutTear(files[name].items) \o
                (IF status = "open" THEN pending ELSE <<>>))

\* The log as its user sees it: what is synced can no longer be lost.
Log == INSTANCE RecordLog WITH
    disk <- SubSeq(Logged, 1, files[name].synced),
    buffer <- SubSeq(Logged, files[name].synced + 1, Len(Logged))

\* Every step of the store, on a process that stops when the store fails, is a
\* step RecordLog allows: a failed or torn write, a kill, loss of power, and a
\* compaction cut short on either side of its rename lose a suffix of what was
\* not acknowledged, and nothing else.
ImplementsRecordLog == Log!Spec

=============================================================================
