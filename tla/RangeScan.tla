------------------------------ MODULE RangeScan ------------------------------
(***************************************************************************)
(* A whole keyspace read over the network while it is being written, and   *)
(* restored elsewhere: rangeScan.stream (grpc/range.go), Client.Range and  *)
(* Client.call (client/), dumpRemote, the dump file and restoreLocal       *)
(* (cmd/pallasdb/dump.go).                                                 *)
(*                                                                         *)
(* The server cuts a scan at a row limit, silently, or at a deadline, with *)
(* an error, and every page reads a snapshot of its own.  The client       *)
(* resumes from the last key it received until a page adds nothing.        *)
(***************************************************************************)
EXTENDS MergeIterator

CONSTANTS
  Reserved,      \* keys under ReservedKeyPrefix, skipped by the server
  Limit,         \* rangeLimits.limit, 0 for none
  CheckEvery,    \* rangeCheckInterval: rows between two looks at the clock
  MaxRedirects,  \* Client.settings.maxRedirects
  Batch,         \* restoreBatchSize
  Stores,        \* the runs the server's store may have when the scan begins
  Requests,      \* the ranges asked for; 0 for an open bound
  MaxWrites      \* bound: writes to the store while it is read

ASSUME ReservedAssumption == Reserved \subseteq Keys /\ 0 \notin Keys
ASSUME PagingAssumption == Limit \in Nat /\ CheckEvery \in Nat \ {0} /\ Batch \in Nat \ {0}

VARIABLES
  levels,     \* the runs of the server's store, newest first
  writes,     \* writes so far
  req,        \* the range being scanned
  phase,      \* where the client is
  snap, it,   \* the runs and the cursor of the open stream
  sent,       \* rows the stream has sent
  redirects,  \* redirects left to this call
  resume,     \* dumpRemote's resumeFrom
  added,      \* rows of this page the client had not seen
  out,        \* every entry written to the dump, in order
  seen,       \* history variable: the values each key had since the scan began
  file,       \* what is left to read of the dump file
  read,       \* entries restoreLocal has read from it
  target      \* the store restored into

clientVars == <<req, resume, out>>
streamVars == <<snap, it, sent, redirects, added>>
restoreVars == <<file, read, target>>
vars == <<levels, writes, phase, seen, clientVars, streamVars, restoreVars>>

Live(lv, k) == LiveValue(GetExact(lv, k))
Trailer(n, sum) == [tag |-> "end", count |-> n, sum |-> sum]
NoCursor == [pos |-> <<>>, which |-> 0]

Init ==
  /\ levels \in Stores
  /\ writes = 0 /\ phase = "idle"
  /\ req \in Requests
  /\ snap = <<>> /\ it = NoCursor /\ sent = 0 /\ redirects = 0 /\ added = 0
  /\ resume = 0 /\ out = <<>>
  /\ seen = [k \in Keys |-> {}]
  /\ file = <<>> /\ read = <<>> /\ target = EmptyLevel

\* Another client commits a write or a delete; it lands in the newest run.
Write(k, e) ==
  /\ phase \in {"call", "stream", "page"} /\ writes < MaxWrites
  /\ e = Tomb => Live(levels, k) # Absent
  /\ Live(levels, k) # LiveValue(e)
  /\ levels' = [levels EXCEPT ![1][k] = e]
  /\ writes' = writes + 1
  /\ seen' = [seen EXCEPT ![k] = @ \cup {LiveValue(e)}]
  /\ UNCHANGED <<phase, clientVars, streamVars, restoreVars>>

Begin ==
  /\ phase = "idle"
  /\ seen' = [k \in Keys |-> {Live(levels, k)}]
  /\ phase' = "call"
  /\ redirects' = MaxRedirects
  /\ UNCHANGED <<levels, writes, snap, it, sent, added, clientVars, restoreVars>>

\* Range on the server: a read transaction, and a cursor on its first key.
OpenStream ==
  /\ phase = "call"
  /\ snap' = levels
  /\ it' = OpenRange(levels, IF resume = 0 THEN req.start ELSE resume, req.desc)
  /\ sent' = 0 /\ added' = 0
  /\ phase' = "stream"
  /\ UNCHANGED <<levels, writes, seen, redirects, clientVars, restoreVars>>

Key == CursorKey(snap, it)

InBounds ==
  /\ CursorValid(it)
  /\ req.stop # 0 => IF req.desc THEN Key >= req.stop ELSE Key <= req.stop

Advance == IF req.desc THEN CursorPrev(snap, it) ELSE CursorNext(snap, it)

SkipReserved ==
  /\ phase = "stream" /\ InBounds /\ Key \in Reserved
  /\ it' = Advance
  /\ UNCHANGED <<levels, writes, phase, seen, snap, sent, redirects, added,
                 clientVars, restoreVars>>

\* The callback of dumpRemote: the key the page resumed from was written already.
Receive ==
  IF resume = Key THEN UNCHANGED <<out, added>>
  ELSE /\ out' = Append(out, [key |-> Key, val |-> LiveValue(CursorEntry(snap, it))])
       /\ added' = added + 1

\* One turn of the loop of rangeScan.stream: send, then stop at the limit, at the
\* deadline (looked at every CheckEvery rows), or advance.
SendRow ==
  /\ phase = "stream" /\ InBounds /\ Key \notin Reserved
  /\ Receive
  /\ sent' = sent + 1
  /\ \/ /\ Limit > 0 /\ sent + 1 >= Limit
        /\ phase' = "page" /\ UNCHANGED it
     \/ /\ ~(Limit > 0 /\ sent + 1 >= Limit)
        /\ (sent + 1) % CheckEvery = 0
        /\ phase' = "deadline" /\ UNCHANGED it
     \/ /\ ~(Limit > 0 /\ sent + 1 >= Limit)
        /\ phase' = "stream" /\ it' = Advance
  /\ UNCHANGED <<levels, writes, seen, snap, redirects, req, resume, restoreVars>>

StreamEnd ==
  /\ phase = "stream" /\ ~InBounds
  /\ phase' = "page"
  /\ UNCHANGED <<levels, writes, seen, clientVars, streamVars, restoreVars>>

\* The connection fails with Unavailable.  guard stops a retry once a row was
\* delivered; before that, call resolves the leader and runs Range again.
StreamBreaks ==
  /\ phase \in {"call", "stream"}
  /\ IF (phase = "call" \/ sent = 0) /\ redirects > 0
     THEN phase' = "call" /\ redirects' = redirects - 1
     ELSE phase' = "failed" /\ UNCHANGED redirects
  /\ snap' = <<>> /\ it' = NoCursor
  /\ UNCHANGED <<levels, writes, seen, sent, added, clientVars, restoreVars>>

\* Variant: one call is taken for the whole range.
PageDoneOnce ==
  /\ phase \in {"page", "deadline"}
  /\ phase' = IF phase = "page" THEN "done" ELSE "failed"
  /\ snap' = <<>> /\ it' = NoCursor
  /\ UNCHANGED <<resume, redirects, levels, writes, seen, sent, added, req, out, restoreVars>>

\* dumpRemote after a page: stop when it added nothing, or resume from its last key.
PageDone ==
  /\ phase \in {"page", "deadline"}
  /\ \/ phase = "page" /\ added = 0 /\ phase' = "done" /\ UNCHANGED <<resume, redirects>>
     \/ phase = "deadline" /\ added = 0 /\ phase' = "failed" /\ UNCHANGED <<resume, redirects>>
     \/ /\ added > 0
        /\ resume' = out[Len(out)].key
        /\ redirects' = MaxRedirects
        /\ phase' = "call"
  /\ snap' = <<>> /\ it' = NoCursor
  /\ UNCHANGED <<levels, writes, seen, sent, added, req, out, restoreVars>>

\* dumpWriter.finish, and what a medium may do to the file: nothing, cut it short,
\* or lose one record from the middle.
KeepFile(i) ==
  /\ phase = "done"
  /\ LET whole == Append([j \in DOMAIN out |-> [tag |-> "record", entry |-> out[j]]],
                         Trailer(Len(out), out))
     IN  file' \in {whole, SubSeq(whole, 1, i), RemoveAt(whole, i)}
  /\ phase' = "restore"
  /\ UNCHANGED <<levels, writes, seen, clientVars, streamVars, read, target>>

Apply(store, entries) ==
  FoldLeft(LAMBDA s, e : [s EXCEPT ![e.key] = e.val], store, entries)

\* dumpReader.next: another record; its end or a cut end of the file is no record.
HasRecord == file # <<>> /\ Head(file).tag = "record"

\* restoreLocal: one record into the open transaction, which is committed when full.
RestoreRecord ==
  /\ phase = "restore" /\ HasRecord
  /\ file' = Tail(file)
  /\ read' = Append(read, Head(file).entry)
  /\ target' = IF Len(read') % Batch = 0
               THEN Apply(target, SubSeq(read', Len(read) - Batch + 2, Len(read')))
               ELSE target
  /\ UNCHANGED <<levels, writes, phase, seen, clientVars, streamVars>>

\* Variant: the trailer is not compared with what was read.
TrailerPresent == file # <<>> /\ Head(file).tag = "end"

\* verifyTrailer: the count and the checksum of everything read so far; two sequences of
\* records are taken to differ in their checksums.
TrailerGood ==
  /\ file # <<>> /\ Head(file).tag = "end"
  /\ Head(file).count = Len(read) /\ Head(file).sum = read

\* The end of the file: commit the last batch, or abort it and report a corrupt dump.
RestoreEnd ==
  /\ phase = "restore" /\ ~HasRecord
  /\ IF TrailerGood
     THEN /\ target' = Apply(target, SubSeq(read, Len(read) - (Len(read) % Batch) + 1, Len(read)))
          /\ phase' = "restored"
     ELSE phase' = "rejected" /\ UNCHANGED target
  /\ UNCHANGED <<levels, writes, seen, file, read, clientVars, streamVars>>

\* Reading a record, setting its key or committing a batch fails: what is open of the
\* batch is aborted, and the error is reported.
RestoreFails ==
  /\ phase = "restore"
  /\ phase' = "rejected"
  /\ UNCHANGED <<levels, writes, seen, clientVars, streamVars, restoreVars>>

ScanStep ==
  OpenStream \/ SkipReserved \/ SendRow \/ StreamEnd \/ PageDone \/ RestoreRecord \/ RestoreEnd

Next ==
  \/ Begin \/ ScanStep \/ StreamBreaks \/ RestoreFails
  \/ \E k \in Keys, e \in Vals \cup {Tomb} : Write(k, e)
  \/ \E i \in 1..(Len(out) + 1) : KeepFile(i)

Spec == Init /\ [][Next]_vars

-----------------------------------------------------------------------------

InRequest(k) ==
  LET low == IF req.desc THEN req.stop ELSE req.start
      high == IF req.desc THEN req.start ELSE req.stop
  IN  k >= low /\ (high # 0 => k <= high)

\* dumpRemote "streams the whole keyspace out of a server": when it reports
\* success, every key of the requested range that kept its value throughout is in
\* the dump, however a limit of two rows or more and deadlines cut the scan into pages.
ScanComplete ==
  phase = "done" =>
    \A k \in Keys \ Reserved :
      InRequest(k) /\ Cardinality(seen[k]) = 1 /\ Absent \notin seen[k] =>
        \E i \in DOMAIN out : out[i].key = k /\ out[i].val \in seen[k]

\* No row is invented, repeated, out of order or excluded by the request, across pages
\* too (the key a page resumes from arrives again and is skipped): its value was the
\* committed value of its key at some time since the scan began.
RowsFaithful ==
  /\ \A i \in DOMAIN out :
       out[i].val \in seen[out[i].key] /\ InRequest(out[i].key) /\ out[i].key \notin Reserved
  /\ \A i, j \in DOMAIN out : i < j =>
       IF req.desc THEN out[i].key > out[j].key ELSE out[i].key < out[j].key

\* "A truncated or corrupted stream is rejected" (dump.go): a restore that reports
\* success has made the target exactly what was dumped, unless the checksum collides.
RestoreFaithful ==
  phase = "restored" =>
    target = Apply([k \in Keys |-> Absent], out)
=============================================================================
