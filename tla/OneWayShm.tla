------------------------------ MODULE OneWayShm ------------------------------
(***************************************************************************)
(* The one-way shared memory of the sidecar (sidecar/src/                  *)
(* one_way_shared_memory.rs): one writer publishes a byte string, readers  *)
(* in other processes copy it out without a lock.  A generation counter is *)
(* odd while a write is under way, and a copy counts only when the counter *)
(* has not moved since before it.                                          *)
(*                                                                         *)
(* The n-th write stores n in each of the words its length covers; words   *)
(* are stored and copied one at a time and in any order.  Memory is        *)
(* sequentially consistent.  Counter and length lie in the first page of   *)
(* the file.  Writer and readers resize the file to what they are about to *)
(* access, each by the size of its own mapping (ensure_space on Linux):    *)
(* that may make it shorter.  What is cut off reads as zero when the file  *)
(* grows again, and an access beyond its end kills the process.  The       *)
(* region outlives its writer: the name is opened again by the next        *)
(* sidecar, which cuts the file to a page, as create() does.               *)
(***************************************************************************)
EXTENDS Integers

CONSTANTS Words,          \* the length of the longest write, in words
          PageWords,      \* words of the contents in a page of the file
          MaxWrites,      \* bound: writes that are started
          MaxRestarts     \* bound: times the sidecar is replaced

ASSUME ShmAssumption ==
  /\ Words \in Nat /\ PageWords \in Nat \ {0}
  /\ MaxWrites \in Nat /\ MaxRestarts \in Nat

VARIABLES
  gen,      \* the generation counter in the region
  size,     \* the length in the region
  word,     \* word[i]: the payload words in the region
  file,     \* the length of the file, in words
  cut,      \* the writes that a resize of the file has cut
  writes,   \* number of writes started
  lenOf,    \* lenOf[n]: the length of the n-th write
  finished, \* the writes that ran to their end, and 0: the empty region
  writer,   \* "idle", "room" (room made), "gen" (counter raised), "store" (length stored)
  want,     \* the length that room was made for
  mapped,   \* the size of the writer's mapping
  stored,   \* words the current write has stored
  restarts, \* number of times the sidecar was replaced
  died,     \* whether a writer died between the two increments of the counter
  reader,   \* "idle", "size" (counter read), "room" (length read), "copy" (room made)
  view,     \* the size of the reader's mapping
  seenGen,  \* the counter the reader read first
  toCopy,   \* the length the reader read
  copied,   \* words the reader has copied
  copy,     \* copy[i]: the words copied so far
  current   \* current_data: the last copy that counted

fileVars == <<word, file, cut>>
memVars == <<gen, size, fileVars>>
writerVars == <<writes, lenOf, finished, writer, want, mapped, stored, restarts, died>>
readerVars == <<reader, view, seenGen, toCopy, copied, copy, current>>
shmVars == <<memVars, writerVars, readerVars>>

Lengths == 0..Words
Contents == [1..Words -> 0..MaxWrites]
NoData == [gen |-> -1, size |-> 0, word |-> [i \in 1..Words |-> 0]]

ShmTypeOK ==
  /\ gen \in Nat /\ size \in Lengths /\ word \in Contents
  /\ file \in Nat /\ cut \subseteq 0..MaxWrites
  /\ writes \in 0..MaxWrites /\ lenOf \in [0..MaxWrites -> Lengths]
  /\ finished \subseteq 0..MaxWrites
  /\ writer \in {"idle", "room", "gen", "store"} /\ stored \subseteq 1..Words
  /\ want \in Lengths /\ mapped \in Nat /\ restarts \in 0..MaxRestarts /\ died \in BOOLEAN
  /\ reader \in {"idle", "size", "room", "copy"} /\ view \in Nat
  /\ seenGen \in Nat /\ toCopy \in Lengths
  /\ copied \subseteq 1..Words /\ copy \in Contents
  /\ current \in [gen : Int, size : Lengths, word : Contents]

ShmInit ==
  /\ gen = 0 /\ size = 0 /\ word = [i \in 1..Words |-> 0]
  /\ file = PageWords /\ cut = {}
  /\ writes = 0 /\ lenOf = [n \in 0..MaxWrites |-> 0] /\ finished = {0}
  /\ writer = "idle" /\ want = 0 /\ mapped = PageWords /\ stored = {}
  /\ restarts = 0 /\ died = FALSE
  /\ reader = "idle" /\ view = PageWords /\ seenGen = 0 /\ toCopy = 0 /\ copied = {}
  /\ copy = [i \in 1..Words |-> 0] /\ current = NoData

-----------------------------------------------------------------------------
(* page_aligned_size: up to a whole number of pages. *)
PageAligned(n) == ((n - 1) - ((n - 1) % PageWords)) + PageWords

(* ftruncate: what lies beyond the new end is gone. *)
Truncate(len) ==
  /\ file' = len
  /\ word' = [i \in 1..Words |-> IF i <= len THEN word[i] ELSE 0]
  /\ cut' = IF len < lenOf[writes] THEN cut \cup {writes} ELSE cut

(* ensure_space: a mapping that is large enough is left alone, and so is the *)
(* file; otherwise the file gets the length the caller needs, whatever it    *)
(* was, and is mapped again.                                                 *)
SpaceOf(map, len) == IF len <= map THEN map ELSE PageAligned(len)
EnsureSpace(map, len) == IF len <= map THEN UNCHANGED fileVars ELSE Truncate(PageAligned(len))

-----------------------------------------------------------------------------
(* OneWayShmWriter::write: make room, ... *)
MakeRoom(len) ==
  /\ writer = "idle" /\ writes < MaxWrites
  /\ EnsureSpace(mapped, len)
  /\ mapped' = SpaceOf(mapped, len)
  /\ want' = len
  /\ writer' = "room"
  /\ UNCHANGED <<gen, size, writes, lenOf, finished, stored, restarts, died, readerVars>>

(* ... raise the counter, ... *)
BeginWrite ==
  /\ writer = "room"
  /\ gen' = gen + 1
  /\ writes' = writes + 1
  /\ lenOf' = [lenOf EXCEPT ![writes + 1] = want]
  /\ writer' = "gen" /\ stored' = {}
  /\ UNCHANGED <<size, fileVars, finished, want, mapped, restarts, died, readerVars>>

(* ... store the length, ... *)
StoreSize ==
  /\ writer = "gen"
  /\ size' = lenOf[writes]
  /\ writer' = "store"
  /\ UNCHANGED <<gen, fileVars, writes, lenOf, finished, want, mapped, stored, restarts, died,
                 readerVars>>

(* ... store the contents, where the file has them (a store beyond its end   *)
(* kills the sidecar, which only Restart follows) ...                        *)
StoreWord(i) ==
  /\ writer = "store" /\ i <= size /\ i \notin stored /\ i <= file
  /\ word' = [word EXCEPT ![i] = writes]
  /\ stored' = stored \cup {i}
  /\ UNCHANGED <<gen, size, file, cut, writes, lenOf, finished, writer, want, mapped, restarts,
                 died, readerVars>>

AllStored == writer = "store" /\ stored = 1..size

(* ... and raise the counter again. *)
EndWrite ==
  /\ AllStored
  /\ gen' = gen + 1
  /\ writer' = "idle"
  /\ finished' = finished \cup {writes}
  /\ UNCHANGED <<size, fileVars, writes, lenOf, want, mapped, stored, restarts, died, readerVars>>

(* The sidecar dies anywhere; its successor opens the region as it was left  *)
(* and makes it one page long.                                               *)
Restart ==
  /\ restarts < MaxRestarts
  /\ restarts' = restarts + 1
  /\ died' = (died \/ writer \in {"gen", "store"})
  /\ Truncate(PageWords)
  /\ mapped' = PageWords
  /\ writer' = "idle"
  /\ UNCHANGED <<gen, size, writes, lenOf, finished, want, stored, readerVars>>

-----------------------------------------------------------------------------
FirstOnly(g) == g % 2 = 0 /\ current.gen = -1
WorthCopying(g) == g % 2 = 0 /\ (current.gen = -1 \/ g > current.gen)

(* OneWayShmReader::read: read the counter; mid-write, or when nothing is     *)
(* new, the data read last are returned as they are; ...                      *)
BeginRead ==
  /\ reader = "idle" /\ WorthCopying(gen)
  /\ seenGen' = gen
  /\ reader' = "size"
  /\ UNCHANGED <<view, toCopy, copied, copy, current, memVars, writerVars>>

(* ... fetch_data reads the length and ... *)
ReadSize ==
  /\ reader = "size"
  /\ toCopy' = size
  /\ reader' = "room"
  /\ UNCHANGED <<view, seenGen, copied, copy, current, memVars, writerVars>>

(* ... makes room for that much, ... *)
ReaderRoom ==
  /\ reader = "room"
  /\ EnsureSpace(view, toCopy)
  /\ view' = SpaceOf(view, toCopy)
  /\ copied' = {}
  /\ reader' = "copy"
  /\ UNCHANGED <<gen, size, seenGen, toCopy, copy, current, writerVars>>

(* ... copies it, ... *)
CopyWord(i) ==
  /\ reader = "copy" /\ i <= toCopy /\ i \notin copied /\ i <= file
  /\ copy' = [copy EXCEPT ![i] = word[i]]
  /\ copied' = copied \cup {i}
  /\ UNCHANGED <<reader, view, seenGen, toCopy, current, memVars, writerVars>>

Unchecked == TRUE
Unmoved == gen = seenGen

(* ... and keeps the copy if the counter has not moved. *)
EndRead ==
  /\ reader = "copy" /\ copied = 1..toCopy
  /\ current' = IF Unmoved THEN [gen |-> seenGen, size |-> toCopy, word |-> copy] ELSE current
  /\ reader' = "idle"
  /\ UNCHANGED <<view, seenGen, toCopy, copied, copy, memVars, writerVars>>

(* A read beyond the end of the file kills the process; the next one opens   *)
(* the file at the length it has.                                            *)
ReaderKilled ==
  /\ reader = "copy" /\ \E i \in 1..toCopy : i \notin copied /\ i > file
  /\ reader' = "idle" /\ view' = file /\ current' = NoData
  /\ UNCHANGED <<seenGen, toCopy, copied, copy, memVars, writerVars>>

(* Any other process that read the length of a write some time ago and is    *)
(* only now making room for it.                                              *)
OtherReaderRoom(len) ==
  /\ len > PageWords
  /\ Truncate(PageAligned(len))
  /\ UNCHANGED <<gen, size, writerVars, readerVars>>

SeenLengths == {lenOf[n] : n \in finished} \cup {size}

ShmWriterNext ==
  \/ \E len \in Lengths : MakeRoom(len)
  \/ BeginWrite \/ StoreSize
  \/ \E i \in 1..Words : StoreWord(i)
  \/ EndWrite
  \/ Restart

ShmReaderNext ==
  \/ BeginRead \/ ReadSize \/ ReaderRoom
  \/ \E i \in 1..Words : CopyWord(i)
  \/ EndRead \/ ReaderKilled

ShmNext ==
  \/ ShmWriterNext \/ ShmReaderNext
  \/ \E len \in SeenLengths : OtherReaderRoom(len)

ShmSpec == ShmInit /\ [][ShmNext]_shmVars

(* The writer finishes the write it began, and the reader keeps reading. *)
ShmFinishWrite == BeginWrite \/ StoreSize \/ (\E i \in 1..Words : StoreWord(i)) \/ EndWrite

-----------------------------------------------------------------------------
(* What a word of the n-th write may hold. *)
OfWrite(w, n) == w = n \/ (n \in cut /\ w = 0)

(***************************************************************************)
(* What a reader returns is one write that ran to its end, with its own    *)
(* length and all of its words: the check "Ensure a new write hasn't       *)
(* started yet" (one_way_shared_memory.rs:143) keeps a copy only if the    *)
(* whole of it is of the same write.  The words of a write that some       *)
(* resize has cut may be zero, and nothing else; a write that fits into a  *)
(* page is never cut.  It holds until a writer dies in the middle of a     *)
(* write, which turns the parity of the counter round.                     *)
(***************************************************************************)
ReadsWholeWrites ==
  ~died /\ current.gen # -1 =>
    \E n \in finished : /\ current.size = lenOf[n]
                        /\ \A i \in 1..current.size : OfWrite(current.word[i], n)
                        /\ Words <= PageWords => n \notin cut

(***************************************************************************)
(* Once the writer has finished and stays quiet, a reader that goes on     *)
(* reading comes to hold the last write, and keeps it, although the file   *)
(* may be cut and the reader be killed on the way; unless a writer died in *)
(* the middle of a write, after which the counter may rest at an odd value *)
(* and read() takes the region for one that is being written.              *)
(***************************************************************************)
ReadsLastWrite ==
  <>[](writes = MaxWrites /\ writer = "idle" /\ ~died => current.gen = gen)
=============================================================================
