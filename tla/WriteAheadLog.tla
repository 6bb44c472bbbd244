---------------------------- MODULE WriteAheadLog ----------------------------
(***************************************************************************)
(* The write-ahead log (db/log.go, db/kv_entry.go) down to its records:    *)
(* one file that is overwritten in place, whose unsynced writes a crash    *)
(* may keep or lose in any combination.                                    *)
(*                                                                         *)
(* The file after its header is a sequence of cells.  A record takes one   *)
(* or more cells and decodes only when all of them are its own: the CRC32  *)
(* of Entry.Encode is taken to detect every other mixture.  Offsets count  *)
(* cells from the end of the header, whose 20 bytes are taken to reach the *)
(* disk together.                                                          *)
(***************************************************************************)
EXTENDS Naturals, Sequences, FiniteSets

CONSTANTS
  Shapes,       \* the sizes of the records a transaction may log, in order
  MaxTx,        \* bound on the transactions
  MaxTruncates, \* bound on the calls of Truncate
  MaxCrashes,   \* bound on the crashes
  MaxFaults,    \* bound on the file operations that fail
  Faults        \* which may: "entry", "write", "sync", "header", "truncate", "replay"

Hole == [seq |-> 0]        \* a cell that was never written

VARIABLES
  cur, dur,             \* the file as the process sees it, and as fsync left it
  header, durHeader,    \* the same of the epoch in the header
  pc,                   \* what the log is doing
  seq, offset, committed,   \* log.seq and log.writer
  tx, todo, wrote,      \* the transaction being logged: name, sizes left, records so far
  reader, entries, found,   \* OffsetReader, the entries replayed, the committed ones
  \* history variables
  acked,                \* records of the acknowledged transactions of this generation
  maybe,                \* transactions begun since the last one that was acknowledged
  trouble,              \* failed fsyncs, of the header or of endReplay, not made good since
  truncates, crashes, faults

fileVars == <<cur, dur, header, durHeader>>
logVars == <<seq, offset, committed>>
txVars == <<tx, todo, wrote>>
replayVars == <<reader, entries, found>>
countVars == <<truncates, crashes, faults>>
vars == <<fileVars, pc, logVars, txVars, replayVars, acked, maybe, trouble, countVars>>

Fails(op) == op \in Faults /\ faults < MaxFaults /\ faults' = faults + 1

Init ==
  /\ cur = <<>> /\ dur = <<>> /\ header = 0 /\ durHeader = 0
  /\ pc = "down"
  /\ seq = 0 /\ offset = 0 /\ committed = 0
  /\ tx = 0 /\ todo = <<>> /\ wrote = <<>>
  /\ reader = 0 /\ entries = <<>> /\ found = <<>>
  /\ acked = <<>> /\ maybe = {} /\ trouble = {}
  /\ truncates = 0 /\ crashes = 0 /\ faults = 0

\* The file after the cells are written from offset at on.
Overwrite(file, at, cells) ==
  [i \in 1..(IF Len(file) > at + Len(cells) THEN Len(file) ELSE at + Len(cells)) |->
     IF i > at /\ i <= at + Len(cells) THEN cells[i - at]
     ELSE IF i <= Len(file) THEN file[i] ELSE Hole]

\* Entry.Encode: the cells of a record.
Encode(rec, size) == [p \in 1..size |-> [seq |-> rec.seq, rec |-> rec, part |-> p, size |-> size]]

\* What the records of a transaction are to a reader of the store: its entries.
EntriesOf(recs) == SelectSeq(recs, LAMBDA r : r.op = "entry")

-----------------------------------------------------------------------------
(* updateLog: Write, Commit, ResetTX. *)

Begin(sizes) ==
  /\ pc = "idle" /\ tx < MaxTx
  /\ tx' = tx + 1 /\ todo' = sizes /\ wrote' = <<>>
  /\ maybe' = maybe \cup {<<tx + 1, Len(sizes)>>}
  /\ pc' = "write"
  /\ UNCHANGED <<fileVars, logVars, replayVars, acked, trouble, countVars>>

\* Variant: the sequence numbers of an aborted transaction are used again.
ResetTXWithSeq == offset' = committed /\ seq' = seq - Len(wrote) /\ pc' = "idle"

\* The deferred ResetTX of updateLog, on the way out with an error.
ResetTX == offset' = committed /\ UNCHANGED seq /\ pc' = "idle"

NextRecord ==
  [seq |-> seq + 1, tx |-> tx, i |-> Len(wrote) + 1,
   op |-> IF todo = <<>> THEN "commit" ELSE "entry"]
NextSize == IF todo = <<>> THEN 1 ELSE Head(todo)

\* Log.Write: one record at the cursor, for the last one of Commit too.
WriteRecord ==
  /\ pc = "write"
  /\ cur' = Overwrite(cur, offset, Encode(NextRecord, NextSize))
  /\ offset' = offset + NextSize
  /\ seq' = seq + 1
  /\ wrote' = Append(wrote, NextRecord)
  /\ IF todo = <<>> THEN pc' = "sync" /\ UNCHANGED todo
                    ELSE todo' = Tail(todo) /\ UNCHANGED pc
  /\ UNCHANGED <<dur, header, durHeader, committed, tx, replayVars, acked, maybe, trouble, countVars>>

\* Encode refuses an entry over MaxEntrySize, or WriteAt stops part of the way.
WriteFails ==
  /\ pc = "write"
  /\ \/ todo # <<>> /\ Fails("entry") /\ UNCHANGED cur
     \/ /\ Fails("write")
        /\ \E n \in 0..(NextSize - 1) :
             cur' = Overwrite(cur, offset, SubSeq(Encode(NextRecord, NextSize), 1, n))
  /\ ResetTX
  /\ UNCHANGED <<dur, header, durHeader, committed, txVars, replayVars, acked, maybe, trouble,
                 truncates, crashes>>

\* The fsync of Commit, which makes the whole file durable.
CommitSync ==
  /\ pc = "sync"
  /\ dur' = cur /\ durHeader' = header
  /\ committed' = offset
  /\ acked' = acked \o EntriesOf(wrote) /\ maybe' = {}
  /\ trouble' = trouble \ {"endsync"}
  /\ pc' = "idle"
  /\ UNCHANGED <<cur, header, seq, offset, txVars, replayVars, countVars>>

CommitSyncFails ==
  /\ pc = "sync" /\ Fails("sync") /\ ResetTX
  /\ UNCHANGED <<fileVars, committed, txVars, replayVars, acked, maybe, trouble, truncates, crashes>>

-----------------------------------------------------------------------------
(* Truncate. *)

\* writeHeader(log.seq): the floor goes to the header...
TruncateHeader ==
  /\ pc = "idle" /\ truncates < MaxTruncates
  /\ header' = seq
  /\ truncates' = truncates + 1 /\ pc' = "header"
  /\ UNCHANGED <<cur, dur, durHeader, logVars, txVars, replayVars, acked, maybe, trouble, crashes, faults>>

\* ... and to the disk, before the file shrinks.  When the fsync fails Truncate
\* returns without moving its cursors.
TruncateHeaderSync ==
  /\ pc = "header"
  /\ \/ /\ dur' = cur /\ durHeader' = header
        /\ offset' = 0 /\ committed' = 0
        /\ acked' = <<>> /\ maybe' = {}
        /\ pc' = "shrink" /\ trouble' = {}
        /\ UNCHANGED faults
     \/ /\ Fails("header")
        /\ pc' = "idle" /\ trouble' = trouble \cup {"header"}
        /\ UNCHANGED <<dur, durHeader, offset, committed, acked, maybe>>
  /\ UNCHANGED <<cur, header, seq, txVars, replayVars, truncates, crashes>>

Shrink ==
  /\ pc = "shrink"
  /\ \/ cur' = <<>> /\ pc' = "shrinksync" /\ UNCHANGED faults
     \/ Fails("truncate") /\ pc' = "idle" /\ UNCHANGED cur
  /\ UNCHANGED <<dur, header, durHeader, logVars, txVars, replayVars, acked, maybe, trouble,
                 truncates, crashes>>

ShrinkSync ==
  /\ pc = "shrinksync"
  /\ \/ dur' = cur /\ UNCHANGED faults
     \/ Fails("truncate") /\ UNCHANGED dur
  /\ pc' = "idle"
  /\ UNCHANGED <<cur, header, durHeader, logVars, txVars, replayVars, acked, maybe, trouble,
                 truncates, crashes>>

-----------------------------------------------------------------------------
(* Crash, Open and replay. *)

\* The operating system writes back what it has when it likes.
Writeback ==
  /\ pc # "down" /\ (dur # cur \/ durHeader # header)
  /\ dur' = cur /\ durHeader' = header
  /\ UNCHANGED <<cur, header, pc, logVars, txVars, replayVars, acked, maybe, trouble, countVars>>

\* Every cell written since the last fsync reaches the disk or does not, and so do
\* the length of the file and the header.
Crash ==
  /\ pc # "down" /\ crashes < MaxCrashes
  /\ \E len \in {Len(cur), Len(dur)} :
       \E keep \in SUBSET {i \in 1..len :
                             i > Len(cur) \/ i > Len(dur) \/ (cur[i] # dur[i])} :
         cur' = [i \in 1..len |->
                   IF i <= Len(cur) /\ (i \notin keep) THEN cur[i]
                   ELSE IF i <= Len(dur) THEN dur[i] ELSE Hole]
  /\ dur' = cur'
  /\ \E h \in {header, durHeader} : header' = h /\ durHeader' = h
  /\ pc' = "down"
  /\ acked' = IF pc = "header" /\ header' = header THEN <<>> ELSE acked
  /\ crashes' = crashes + 1
  /\ seq' = 0 /\ offset' = 0 /\ committed' = 0 /\ todo' = <<>> /\ wrote' = <<>>
  /\ reader' = 0 /\ entries' = <<>> /\ found' = <<>>
  /\ UNCHANGED <<tx, maybe, trouble, truncates, faults>>

\* Log.Open and openHeader: the floor is where the sequence numbers start.
OpenLog ==
  /\ pc = "down"
  /\ seq' = header /\ offset' = 0 /\ committed' = 0
  /\ reader' = 0 /\ entries' = <<>> /\ found' = <<>>
  /\ pc' = "replay"
  /\ UNCHANGED <<fileVars, txVars, acked, maybe, trouble, countVars>>

\* Entry.Decode: a record starts at the reader and all of it is there.
Decodes ==
  /\ reader < Len(cur) /\ cur[reader + 1] # Hole /\ cur[reader + 1].part = 1
  /\ LET c == cur[reader + 1]
     IN  /\ reader + c.size <= Len(cur)
         /\ \A p \in 1..c.size : cur[reader + p] = [c EXCEPT !.part = p]

\* Log.Read: the record is newer than everything accepted so far.
Accepts == Decodes /\ cur[reader + 1].seq > seq

\* Variant: entries count before their commit record is read.
ReadRecordEager ==
  /\ pc = "replay" /\ Accepts
  /\ LET c == cur[reader + 1]
     IN  /\ reader' = reader + c.size
         /\ seq' = c.seq
         /\ offset' = reader' /\ committed' = reader'
         /\ entries' = IF c.rec.op = "commit" THEN entries ELSE Append(entries, c.rec)
         /\ found' = entries'
  /\ UNCHANGED <<fileVars, pc, txVars, acked, maybe, trouble, countVars>>

\* One turn of the loop of openLog.
ReadRecord ==
  /\ pc = "replay" /\ Accepts
  /\ LET c == cur[reader + 1]
     IN  /\ reader' = reader + c.size
         /\ seq' = c.seq
         /\ IF c.rec.op = "commit"
            THEN /\ offset' = reader' /\ committed' = reader'
                 /\ found' = entries /\ UNCHANGED entries
            ELSE /\ entries' = Append(entries, c.rec)
                 /\ UNCHANGED <<offset, committed, found>>
  /\ UNCHANGED <<fileVars, pc, txVars, acked, maybe, trouble, countVars>>

\* endReplay drops everything past the last commit.  openLog has its entries.
EndReplay ==
  /\ pc = "replay" /\ ~Accepts
  /\ cur' = SubSeq(cur, 1, committed)
  /\ pc' = IF Len(cur) = committed THEN "opened" ELSE "endsync"
  /\ UNCHANGED <<dur, header, durHeader, logVars, txVars, replayVars, acked, maybe, trouble, countVars>>

EndReplaySync ==
  /\ pc = "endsync"
  /\ \/ dur' = cur /\ pc' = "opened" /\ UNCHANGED <<trouble, faults>>
     \/ /\ Fails("replay")
        /\ pc' = "down" /\ trouble' = trouble \cup {"endsync"} /\ UNCHANGED dur
  /\ UNCHANGED <<cur, header, durHeader, logVars, txVars, replayVars, acked, maybe,
                 truncates, crashes>>

\* The store is open on what was found: that is now the content of the log.
Opened ==
  /\ pc = "opened"
  /\ acked' = found /\ maybe' = {}
  /\ reader' = 0 /\ entries' = <<>> /\ found' = <<>>
  /\ pc' = "idle"
  /\ UNCHANGED <<fileVars, logVars, txVars, trouble, countVars>>

Next ==
  \/ \E sizes \in Shapes : Begin(sizes)
  \/ WriteRecord \/ WriteFails \/ CommitSync \/ CommitSyncFails
  \/ TruncateHeader \/ TruncateHeaderSync \/ Shrink \/ ShrinkSync
  \/ Writeback \/ Crash \/ OpenLog \/ ReadRecord \/ EndReplay \/ EndReplaySync \/ Opened

Spec == Init /\ [][Next]_vars

-----------------------------------------------------------------------------

Names(recs) == [j \in DOMAIN recs |-> <<recs[j].tx, recs[j].i>>]
Whole(t) == [j \in 1..t[2] |-> <<t[1], j>>]

\* What Open finds begins with every transaction acknowledged since the last
\* Truncate, whole and in order, and continues with records of transactions begun
\* after them: nothing of an earlier generation comes back, whichever of the
\* unsynced writes a crash kept (the two mechanisms of the comment on Log).  Only a
\* failed fsync of the header can strand acknowledged records behind the floor.
AckedFound ==
  pc = "opened" /\ "header" \notin trouble =>
    /\ Len(found) >= Len(acked) /\ SubSeq(found, 1, Len(acked)) = acked
    /\ trouble = {} =>
         \A j \in (Len(acked) + 1)..Len(found) : \E t \in maybe : t[1] = found[j].tx

OneWholeMore ==
  \/ Names(found) = Names(acked)
  \/ \E t \in maybe : Names(found) = Names(acked) \o Whole(t)

\* A transaction that was never acknowledged is found whole or not at all, as long as
\* it did not overwrite what another unacknowledged one had left behind.
AllOrNothing ==
  pc = "opened" /\ trouble = {} /\ Cardinality(maybe) <= 1 => OneWholeMore
=============================================================================
