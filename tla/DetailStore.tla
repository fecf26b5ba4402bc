---------------------------- MODULE DetailStore ----------------------------
(***************************************************************************)
(* The network inspector's store of full events.  An event is appended to  *)
(* one temporary file by a single drain loop, one write at a time; until   *)
(* its write is done it is served from memory, afterwards by a read at the *)
(* place the index gives.  Clearing the capture empties the file while     *)
(* writes and reads may be in flight.                                      *)
(*                                                                         *)
(* An event is stored again, under its id, whenever the capture learns     *)
(* more of it; versions are numbered in the order of the calls of put.     *)
(* Every record takes one place of the file.                               *)
(***************************************************************************)
EXTENDS Naturals, Sequences

CONSTANTS
  EventIds,
  NoEvent,
  MaxPuts,     \* bound: calls of put that store a version
  FileCap,     \* MAX_FILE_BYTES, in records
  Readers      \* bound: reads of the file in flight

ASSUME StoreAssumption ==
  MaxPuts \in Nat /\ FileCap \in Nat /\ NoEvent \notin EventIds

VARIABLES
  idOf,        \* per version stored so far, its event's id
  buffered,    \* per id, the version held in memory (0: none)
  writeQueue,  \* versions waiting for the drain loop
  writing,     \* the loop's write: version (0: the loop is not running), place, landed
  writeOffset,
  capped,
  index,       \* per id, its place in the file (0: none)
  file,        \* per place, the version there (0: nothing)
  life,        \* unopened, open or disposed
  reads,       \* per reader, the event it reads and its place; sure: no clear since
  newest,      \* per id, the newest version stored and not removed (0: none)
  failed       \* ids whose newest version could not be written

storeVars == <<idOf, buffered, writeQueue, writing, writeOffset, capped, index, file, life,
               reads, newest, failed>>

Versions == 1..MaxPuts
Places == 1..MaxPuts

NotWriting == [version |-> 0, place |-> 0, landed |-> FALSE]
NotReading == [id |-> NoEvent, place |-> 0, sure |-> FALSE]
NoneStored == [id \in EventIds |-> 0]

StoreTypeOK ==
  /\ Len(idOf) <= MaxPuts /\ \A v \in 1..Len(idOf) : idOf[v] \in EventIds
  /\ buffered \in [EventIds -> {0} \cup Versions] /\ newest \in [EventIds -> {0} \cup Versions]
  /\ index \in [EventIds -> {0} \cup Places]
  /\ file \in [Places -> {0} \cup Versions]
  /\ \A i \in 1..Len(writeQueue) : writeQueue[i] \in Versions
  /\ writing.version \in 0..Len(idOf) /\ writing.place \in {0} \cup Places
  /\ writeOffset \in 0..MaxPuts
  /\ capped \in BOOLEAN /\ life \in {"unopened", "open", "disposed"}
  /\ \A r \in Readers : reads[r].id \in EventIds \cup {NoEvent}
  /\ failed \subseteq EventIds

StoreInit ==
  /\ idOf = <<>> /\ buffered = NoneStored /\ newest = NoneStored /\ index = NoneStored
  /\ writeQueue = <<>> /\ writing = NotWriting /\ writeOffset = 0
  /\ file = [p \in Places |-> 0] /\ capped = FALSE /\ life = "unopened"
  /\ reads = [r \in Readers |-> NotReading] /\ failed = {}

-----------------------------------------------------------------------------
Drained(id, queue) == \A i \in 1..Len(queue) : idOf[queue[i]] # id

\* The drain loop goes on: it starts the next write, or stops.
Drain(queue, offset) ==
  IF queue = <<>>
  THEN /\ writing' = NotWriting /\ writeQueue' = queue /\ writeOffset' = offset
  ELSE /\ writing' = [version |-> Head(queue), place |-> offset + 1, landed |-> FALSE]
       /\ writeQueue' = Tail(queue) /\ writeOffset' = offset + 1

\* put: a loop that is idle opens the file and starts the write at once.
Put(id) ==
  LET v == Len(idOf) + 1 IN
  /\ v <= MaxPuts
  /\ life # "disposed" /\ ~capped /\ writeOffset <= FileCap
  /\ idOf' = Append(idOf, id)
  /\ newest' = [newest EXCEPT ![id] = v]
  /\ \/ /\ buffered' = [buffered EXCEPT ![id] = v]
        /\ IF writing.version = 0
           THEN Drain(<<v>>, writeOffset)
           ELSE writeQueue' = Append(writeQueue, v) /\ UNCHANGED <<writing, writeOffset>>
        /\ life' = "open" /\ failed' = failed \ {id}
     \/ \* the file cannot be opened
        /\ life = "unopened"
        /\ failed' = failed \cup {id}
        /\ UNCHANGED <<buffered, writeQueue, writing, writeOffset, life>>
  /\ UNCHANGED <<capped, index, file, reads>>

\* put when the file has reached its cap.
PutCapped ==
  /\ life # "disposed" /\ writeOffset > FileCap
  /\ capped' = TRUE
  /\ UNCHANGED <<idOf, buffered, writeQueue, writing, writeOffset, index, file, life, reads,
                 newest, failed>>

\* The write takes effect in the file, some time before its callback.
WriteLands ==
  /\ writing.version # 0 /\ ~writing.landed
  /\ writing' = [writing EXCEPT !.landed = TRUE]
  /\ file' = [file EXCEPT ![writing.place] = writing.version]
  /\ UNCHANGED <<idOf, buffered, writeQueue, writeOffset, capped, index, life, reads, newest,
                 failed>>

\* Fault: a write that is done is indexed, its event wanted still or not.
IndexedAnyway(id) == index' = [index EXCEPT ![id] = writing.place]

\* Only an id that is still wanted is indexed.
Indexed(id) ==
  index' = IF buffered[id] # 0 THEN [index EXCEPT ![id] = writing.place] ELSE index

\* Fault: a version that was written leaves memory though a newer one is queued.
DropWritten(id) == buffered' = [buffered EXCEPT ![id] = 0]

\* The version in memory is dropped, unless a newer one is queued.
DropUnlessNewer(id) ==
  buffered' = IF Drained(id, writeQueue) THEN [buffered EXCEPT ![id] = 0] ELSE buffered

\* The write's callback, and the loop's next turn.
WriteDone ==
  LET id == idOf[writing.version] IN
  /\ writing.landed
  /\ Indexed(id) /\ DropUnlessNewer(id)
  /\ Drain(writeQueue, writeOffset)
  /\ UNCHANGED <<idOf, capped, file, life, reads, newest, failed>>

WriteFailed ==
  LET id == idOf[writing.version] IN
  /\ writing.version # 0 /\ ~writing.landed
  /\ DropUnlessNewer(id)
  /\ failed' = IF newest[id] = writing.version THEN failed \cup {id} ELSE failed
  /\ Drain(writeQueue, writeOffset)
  /\ UNCHANGED <<idOf, capped, index, file, life, reads, newest>>

-----------------------------------------------------------------------------
\* get of an event that is not in memory: its place is read.
Get(r, id) ==
  /\ reads[r] = NotReading
  /\ buffered[id] = 0 /\ index[id] # 0
  /\ reads' = [reads EXCEPT ![r] = [id |-> id, place |-> index[id], sure |-> id \notin failed]]
  /\ UNCHANGED <<idOf, buffered, writeQueue, writing, writeOffset, capped, index, file, life,
                 newest, failed>>

GetDone(r) ==
  /\ reads[r] # NotReading
  /\ reads' = [reads EXCEPT ![r] = NotReading]
  /\ UNCHANGED <<idOf, buffered, writeQueue, writing, writeOffset, capped, index, file, life,
                 newest, failed>>

\* remove
Forget(id) ==
  /\ index' = [index EXCEPT ![id] = 0] /\ buffered' = [buffered EXCEPT ![id] = 0]
  /\ newest' = [newest EXCEPT ![id] = 0]
  /\ UNCHANGED <<idOf, writeQueue, writing, writeOffset, capped, file, life, reads, failed>>

Emptied ==
  /\ index' = NoneStored /\ buffered' = NoneStored /\ newest' = NoneStored
  /\ writeQueue' = <<>>
  /\ reads' = [r \in Readers |-> [reads[r] EXCEPT !.sure = FALSE]]

\* clear: the write in flight goes on, before or after the truncation.
Clear ==
  /\ life # "disposed"
  /\ Emptied
  /\ file' = [p \in Places |-> 0] /\ writeOffset' = 0 /\ capped' = FALSE
  /\ UNCHANGED <<idOf, writing, life, failed>>

Dispose ==
  /\ Emptied
  /\ life' = "disposed"
  /\ UNCHANGED <<idOf, writing, writeOffset, capped, file, failed>>

StoreNext ==
  \/ \E id \in EventIds : Put(id) \/ Forget(id)
  \/ PutCapped \/ WriteLands \/ WriteDone \/ WriteFailed \/ Clear \/ Dispose
  \/ \E r \in Readers : GetDone(r) \/ \E id \in EventIds : Get(r, id)

StoreSpec == StoreInit /\ [][StoreNext]_storeVars

-----------------------------------------------------------------------------
\* The newest version of an event that was stored, and neither removed nor cleared
\* since, is always found by get: in memory, or in the file at the event's place,
\* however puts, writes and clears overlap.  Not claimed after a failed write.
StoredIsFound ==
  \A id \in EventIds :
    newest[id] # 0 /\ id \notin failed =>
      \/ buffered[id] = newest[id]
      \/ buffered[id] = 0 /\ index[id] # 0 /\ file[index[id]] = newest[id]

\* While a read is in flight, what is at its place is a version of the event it was
\* asked for: get never answers with another event, unless a clear came meanwhile.
ReadsOwnEvent ==
  \A r \in Readers :
    reads[r].sure => file[reads[r].place] # 0 /\ idOf[file[reads[r].place]] = reads[r].id
=============================================================================
