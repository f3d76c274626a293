--------------------------- MODULE OneWayShmProofs ---------------------------
(***************************************************************************)
(* Proof that readers of the one-way shared memory only ever return whole  *)
(* writes, up to what a resize of the file cut off, and that nothing is    *)
(* cut off as long as writes fit into a page: for any size of the region   *)
(* and of a page, any number of writes, restarts and readers, until a      *)
(* writer dies in the middle of a write.                                   *)
(***************************************************************************)
EXTENDS OneWayShm, TLAPS

(***************************************************************************)
(* The inductive invariant.  The counter tells where the writer is; while  *)
(* nobody writes, the region holds the last write; a reader whose counter  *)
(* still stands reads under a quiet writer, so what it has copied is of    *)
(* the last write; and the data kept are of a finished one.  When writes   *)
(* fit into a page, nobody ever changes the length of the file.            *)
(***************************************************************************)
Quiet == writer \in {"idle", "room"}

RegionInv ==
  /\ gen = IF Quiet THEN 2 * writes ELSE 2 * writes - 1
  /\ ~Quiet => writes > 0 /\ writes \notin finished
  /\ Quiet => writes \in finished
  /\ finished \subseteq 0..writes
  /\ writer # "gen" => size = lenOf[writes]
  /\ writer = "gen" => stored = {}
  /\ writer = "store" => \A i \in stored : i <= size /\ OfWrite(word[i], writes)
  /\ Quiet => \A i \in 1..size : OfWrite(word[i], writes)

CopyInv ==
  /\ reader # "idle" => seenGen <= gen /\ seenGen % 2 = 0
  /\ (reader \in {"room", "copy"} /\ seenGen = gen) => toCopy = lenOf[writes]
  /\ (reader = "copy" /\ seenGen = gen) => \A i \in copied : OfWrite(copy[i], writes)

RoomInv == writer = "room" => writes < MaxWrites

PageInv ==
  Words <= PageWords =>
    cut = {} /\ file = PageWords /\ mapped = PageWords /\ view = PageWords

ShmInv ==
  /\ ShmTypeOK /\ RoomInv /\ PageInv
  /\ ~died => RegionInv /\ CopyInv
  /\ ReadsWholeWrites

(* The counter is odd exactly while a write is under way.                    *)
LEMMA Parity == ASSUME NEW n \in Nat PROVE (2 * n) % 2 = 0 /\ (2 * n - 1) % 2 = 1
  BY SMT

(* A region nobody has written to satisfies the invariant.                   *)
LEMMA ShmInitInv == ShmInit => ShmInv
<1> SUFFICES ASSUME ShmInit PROVE ShmInv
  OBVIOUS
<1> USE ShmAssumption DEF ShmInit
<1>0. /\ [i \in 1..Words |-> 0] \in Contents
      /\ NoData \in [gen : Int, size : Lengths, word : Contents]
      /\ [n \in 0..MaxWrites |-> 0] \in [0..MaxWrites -> Lengths]
      /\ 0 \in Lengths /\ 0 \in Nat /\ 0 \in 0..MaxWrites /\ 0 \in 0..MaxRestarts
  BY DEF NoData, Lengths, Contents
<1>1. ShmTypeOK
  <2>1. {0} \subseteq 0..MaxWrites /\ {} \subseteq 0..MaxWrites /\ {} \subseteq 1..Words
    BY <1>0
  <2>2. QED
    BY <1>0, <2>1, Zenon DEF ShmTypeOK
<1>2. RoomInv /\ PageInv /\ CopyInv
  BY DEF RoomInv, PageInv, CopyInv
<1>3. ReadsWholeWrites
  BY DEF ReadsWholeWrites, NoData
<1>4. RegionInv
  BY DEF RegionInv, Quiet, OfWrite
<1>5. QED
  BY <1>1, <1>2, <1>3, <1>4 DEF ShmInv

(* A reader whose counter still stands has a quiet writer.                   *)
LEMMA StillMeansQuiet ==
  ASSUME ShmInv, ~died, reader # "idle", seenGen = gen
  PROVE  Quiet
  BY Parity, ShmAssumption DEF ShmInv, RegionInv, CopyInv, ShmTypeOK

-----------------------------------------------------------------------------
(* What a change of the file's length leaves of the last write: a word of it *)
(* stays as it is, or the write counts as cut and the word is zero.          *)
FileKept ==
  /\ word' \in Contents /\ file' \in Nat /\ cut' \subseteq 0..MaxWrites /\ cut \subseteq cut'
  /\ \A i \in 1..Words :
       i <= lenOf[writes] /\ OfWrite(word[i], writes)
         => word'[i] = writes \/ (writes \in cut' /\ word'[i] = 0)

(* Rounding up to pages yields a length.                                     *)
LEMMA PageAlignedType == ASSUME NEW n \in Nat PROVE PageAligned(n) \in Nat
<1> USE ShmAssumption
<1>1. (n - 1) % PageWords \in 0..(PageWords - 1)
  BY SMT
<1>2. CASE n = 0
  <2>1. (n - 1) - ((n - 1) % PageWords) + PageWords >= 0
    <3>1. (0 - 1) % PageWords = PageWords - 1
      BY SMT
    <3>2. QED
      BY <1>2, <3>1
  <2>2. QED
    BY <1>1, <2>1 DEF PageAligned
<1>3. CASE n # 0
  BY <1>1, <1>3 DEF PageAligned
<1>4. QED
  BY <1>2, <1>3

(* ftruncate keeps what lies before the new end.                             *)
LEMMA TruncateKeeps == ASSUME ShmTypeOK, NEW len \in Nat, Truncate(len) PROVE FileKept
<1> USE ShmAssumption
<1>1. word' \in Contents
  BY DEF ShmTypeOK, Truncate, Contents
<1>2. writes \in 0..MaxWrites /\ lenOf[writes] \in Nat
  BY DEF ShmTypeOK, Lengths
<1>3. file' \in Nat /\ cut' \subseteq 0..MaxWrites /\ cut \subseteq cut'
  BY <1>2 DEF ShmTypeOK, Truncate
<1>4. ASSUME NEW i \in 1..Words, i <= lenOf[writes], OfWrite(word[i], writes)
      PROVE  word'[i] = writes \/ (writes \in cut' /\ word'[i] = 0)
  <2>1. CASE i <= len
    BY <1>4, <2>1, <1>3 DEF Truncate, OfWrite
  <2>2. CASE ~(i <= len)
    <3>1. len < lenOf[writes]
      BY <1>2, <1>4, <2>2
    <3>2. QED
      BY <1>4, <2>2, <3>1 DEF Truncate
  <2>3. QED
    BY <2>1, <2>2
<1>5. QED
  BY <1>1, <1>3, <1>4 DEF FileKept

(* ensure_space keeps it too.                                                *)
LEMMA EnsureSpaceKeeps ==
  ASSUME ShmTypeOK, NEW map \in Nat, NEW len \in Lengths, EnsureSpace(map, len)
  PROVE  FileKept /\ SpaceOf(map, len) \in Nat
<1>0. len \in Nat /\ PageAligned(len) \in Nat
  BY PageAlignedType DEF Lengths
<1>1. CASE len <= map
  BY <1>1, Zenon DEF EnsureSpace, SpaceOf, FileKept, fileVars, ShmTypeOK, OfWrite
<1>2. CASE ~(len <= map)
  BY <1>0, <1>2, TruncateKeeps DEF EnsureSpace, SpaceOf
<1>3. QED
  BY <1>1, <1>2

(* When writes fit into a page, ensure_space does nothing.                   *)
LEMMA EnsureSpaceIdle ==
  ASSUME PageInv, Words <= PageWords, NEW len \in Lengths, EnsureSpace(PageWords, len)
  PROVE  UNCHANGED <<file, cut>> /\ SpaceOf(PageWords, len) = PageWords
  BY ShmAssumption DEF EnsureSpace, SpaceOf, Lengths, fileVars

(* A change of the file's length, with or without a step of the writer from  *)
(* one quiet state to another, keeps the region's invariant, ...             *)
LEMMA ResizeKeepsRegion ==
  ASSUME ShmTypeOK, RegionInv, FileKept,
         UNCHANGED <<gen, size, writes, lenOf, finished, stored>>,
         writer' = writer \/ (Quiet /\ Quiet')
  PROVE  RegionInv'
<1> USE ShmAssumption
<1>0. Quiet' = Quiet /\ (writer' = "gen") = (writer = "gen") /\ (writer' = "store") = (writer = "store")
  BY DEF Quiet
<1>1. ASSUME NEW i \in 1..Words, i <= lenOf[writes], OfWrite(word[i], writes)
      PROVE  OfWrite(word[i], writes)'
  BY <1>1 DEF FileKept, OfWrite
<1>2. writer = "store" => \A i \in stored : i <= size /\ OfWrite(word[i], writes)'
  BY <1>1 DEF RegionInv, ShmTypeOK
<1>3. Quiet => \A i \in 1..size : OfWrite(word[i], writes)'
  <2> SUFFICES ASSUME Quiet, NEW i \in 1..size PROVE OfWrite(word[i], writes)'
    OBVIOUS
  <2>1. size = lenOf[writes] /\ i \in 1..Words /\ i <= lenOf[writes]
    BY DEF RegionInv, ShmTypeOK, Quiet, Lengths
  <2>2. QED
    BY <1>1, <2>1 DEF RegionInv
<1>4. QED
  BY <1>0, <1>2, <1>3 DEF RegionInv

(* ... the reader's ...                                                      *)
LEMMA ResizeKeepsCopy ==
  ASSUME CopyInv, cut \subseteq cut',
         UNCHANGED <<gen, writes, lenOf, reader, seenGen, toCopy, copied, copy>>
  PROVE  CopyInv'
  BY DEF CopyInv, OfWrite

(* ... and what was read.                                                    *)
LEMMA ResizeKeepsRead ==
  ASSUME ReadsWholeWrites, PageInv', cut \subseteq cut', died' = died,
         UNCHANGED <<lenOf, finished, current>>
  PROVE  ReadsWholeWrites'
  BY DEF ReadsWholeWrites, OfWrite, PageInv

-----------------------------------------------------------------------------
(* Each step of the writer preserves the invariant: it never stores under a  *)
(* quiet writer, and a write in progress makes every counter read before it  *)
(* stale.                                                                    *)
LEMMA MakeRoomKeepsInv == ASSUME ShmInv, NEW len \in Lengths, MakeRoom(len) PROVE ShmInv'
<1> USE ShmAssumption
<1>0. mapped \in Nat /\ EnsureSpace(mapped, len) /\ ShmTypeOK
  BY DEF ShmInv, ShmTypeOK, MakeRoom
<1>1. FileKept /\ SpaceOf(mapped, len) \in Nat
  BY <1>0, EnsureSpaceKeeps, Zenon
<1>2. ShmTypeOK'
  BY <1>1 DEF ShmInv, ShmTypeOK, MakeRoom, FileKept, readerVars
<1>3. RoomInv'
  BY DEF MakeRoom, RoomInv
<1>4. PageInv'
  <2> SUFFICES ASSUME Words <= PageWords
               PROVE  (cut = {} /\ file = PageWords /\ mapped = PageWords /\ view = PageWords)'
    BY DEF PageInv
  <2>1. mapped = PageWords /\ PageInv
    BY DEF ShmInv, PageInv
  <2>2. UNCHANGED <<file, cut>> /\ SpaceOf(PageWords, len) = PageWords
    BY <1>0, <2>1, EnsureSpaceIdle
  <2>3. QED
    BY <2>1, <2>2 DEF PageInv, MakeRoom, readerVars
<1>5. ~died' => RegionInv'
  BY <1>1, ResizeKeepsRegion DEF ShmInv, MakeRoom, Quiet
<1>6. ~died' => CopyInv'
  BY <1>1, ResizeKeepsCopy DEF ShmInv, MakeRoom, FileKept, readerVars
<1>7. ReadsWholeWrites'
  BY <1>1, <1>4, ResizeKeepsRead DEF ShmInv, MakeRoom, FileKept, readerVars
<1>8. QED
  BY <1>2, <1>3, <1>4, <1>5, <1>6, <1>7 DEF ShmInv

(* Steps that leave the file alone need only the invariants they touch.      *)
LEMMA BeginWriteKeepsInv == ASSUME ShmInv, BeginWrite PROVE ShmInv'
<1> USE ShmAssumption
<1>0. /\ writes \in Nat /\ writes + 1 \in 0..MaxWrites
      /\ \A n \in 0..writes : lenOf'[n] = lenOf[n]
      /\ lenOf' \in [0..MaxWrites -> Lengths] /\ lenOf'[writes + 1] = want
  BY DEF ShmInv, ShmTypeOK, RoomInv, BeginWrite
<1>1. ShmTypeOK'
  BY <1>0 DEF ShmInv, ShmTypeOK, BeginWrite, fileVars, readerVars
<1>2. RoomInv' /\ PageInv'
  BY DEF ShmInv, RoomInv, PageInv, BeginWrite, fileVars, readerVars
<1>3. ~died' => RegionInv'
  BY <1>0 DEF ShmInv, ShmTypeOK, RegionInv, Quiet, BeginWrite
<1>4. ~died' => CopyInv'
  <2>1. gen \in Nat /\ gen' = gen + 1 /\ seenGen' = seenGen /\ reader' = reader /\ seenGen \in Nat
    BY DEF ShmInv, ShmTypeOK, BeginWrite, readerVars
  <2>2. QED
    BY <2>1 DEF ShmInv, CopyInv, BeginWrite
<1>5. ReadsWholeWrites'
  <2> SUFFICES ASSUME ~died, current.gen # -1
               PROVE  \E n \in finished : /\ current.size = lenOf'[n]
                                          /\ \A i \in 1..current.size : OfWrite(current.word[i], n)
                                          /\ Words <= PageWords => n \notin cut
    BY DEF ReadsWholeWrites, BeginWrite, OfWrite, fileVars, readerVars
  <2>1. finished \subseteq 0..writes
    BY DEF ShmInv, RegionInv
  <2>2. QED
    BY <1>0, <2>1 DEF ShmInv, ReadsWholeWrites
<1>6. QED
  BY <1>1, <1>2, <1>3, <1>4, <1>5 DEF ShmInv

(* Storing the length.                                                       *)
LEMMA StoreSizeKeepsInv == ASSUME ShmInv, StoreSize PROVE ShmInv'
<1>1. ShmTypeOK'
  BY DEF ShmInv, ShmTypeOK, StoreSize, fileVars, readerVars
<1>2. RoomInv' /\ PageInv'
  BY DEF ShmInv, RoomInv, PageInv, StoreSize, fileVars, readerVars
<1>3. ~died' => RegionInv'
  BY DEF ShmInv, RegionInv, Quiet, StoreSize
<1>4. ~died' => CopyInv'
  BY DEF ShmInv, CopyInv, OfWrite, StoreSize, fileVars, readerVars
<1>5. ReadsWholeWrites'
  BY DEF ShmInv, StoreSize, fileVars, readerVars, ReadsWholeWrites, OfWrite
<1>6. QED
  BY <1>1, <1>2, <1>3, <1>4, <1>5 DEF ShmInv

(* Storing a word.                                                           *)
LEMMA StoreWordKeepsInv == ASSUME ShmInv, NEW i \in 1..Words, StoreWord(i) PROVE ShmInv'
<1> USE ShmAssumption
<1>0. writes \in 0..MaxWrites /\ word' \in Contents /\ stored' \subseteq 1..Words
  BY DEF ShmInv, ShmTypeOK, StoreWord, Contents
<1>1. ShmTypeOK'
  BY <1>0 DEF ShmInv, ShmTypeOK, StoreWord, readerVars
<1>2. RoomInv' /\ PageInv'
  BY DEF ShmInv, RoomInv, PageInv, StoreWord, readerVars
<1>3. ~died' => RegionInv'
  <2> SUFFICES ASSUME ~died, RegionInv PROVE RegionInv'
    BY DEF ShmInv, StoreWord
  <2>1. \A j \in stored' : j <= size /\ OfWrite(word'[j], writes)
    BY DEF RegionInv, StoreWord, ShmInv, ShmTypeOK, Contents, OfWrite
  <2>2. QED
    BY <2>1 DEF RegionInv, Quiet, StoreWord, OfWrite
<1>4. ~died' => CopyInv'
  BY DEF ShmInv, CopyInv, OfWrite, StoreWord, readerVars
<1>5. ReadsWholeWrites'
  BY DEF ShmInv, StoreWord, readerVars, ReadsWholeWrites, OfWrite
<1>6. QED
  BY <1>1, <1>2, <1>3, <1>4, <1>5 DEF ShmInv

(* The second increment of the counter.                                      *)
LEMMA EndWriteKeepsInv == ASSUME ShmInv, EndWrite PROVE ShmInv'
<1> USE ShmAssumption
<1>0. gen' \in Nat /\ finished' \subseteq 0..MaxWrites
  BY DEF ShmInv, ShmTypeOK, EndWrite
<1>1. ShmTypeOK'
  BY <1>0 DEF ShmInv, ShmTypeOK, EndWrite, fileVars, readerVars
<1>2. RoomInv' /\ PageInv'
  BY DEF ShmInv, RoomInv, PageInv, EndWrite, fileVars, readerVars
<1>3. ~died' => RegionInv'
  <2> SUFFICES ASSUME ~died, RegionInv PROVE RegionInv'
    BY DEF ShmInv, EndWrite
  <2>1. \A i \in 1..size : OfWrite(word[i], writes)
    BY DEF RegionInv, EndWrite, AllStored
  <2>2. QED
    BY <2>1 DEF RegionInv, Quiet, EndWrite, AllStored, OfWrite, fileVars, ShmInv, ShmTypeOK
<1>4. ~died' => CopyInv'
  <2>1. gen \in Nat /\ gen' = gen + 1 /\ seenGen' = seenGen /\ reader' = reader /\ seenGen \in Nat
    BY DEF ShmInv, ShmTypeOK, EndWrite, readerVars
  <2>2. QED
    BY <2>1 DEF ShmInv, CopyInv, EndWrite
<1>5. ReadsWholeWrites'
  BY DEF ShmInv, EndWrite, fileVars, readerVars, ReadsWholeWrites, OfWrite
<1>6. QED
  BY <1>1, <1>2, <1>3, <1>4, <1>5 DEF ShmInv

(* The next sidecar cuts the file to a page.                                 *)
LEMMA RestartKeepsInv == ASSUME ShmInv, Restart PROVE ShmInv'
<1> USE ShmAssumption
<1>1. FileKept
  BY TruncateKeeps DEF ShmInv, Restart
<1>2. ShmTypeOK'
  BY <1>1 DEF ShmInv, ShmTypeOK, Restart, FileKept, readerVars
<1>3. RoomInv'
  BY DEF Restart, RoomInv
<1>4. PageInv'
  <2> SUFFICES ASSUME Words <= PageWords
               PROVE  (cut = {} /\ file = PageWords /\ mapped = PageWords /\ view = PageWords)'
    BY DEF PageInv
  <2>1. lenOf[writes] \in Nat /\ lenOf[writes] <= Words
    BY DEF ShmInv, ShmTypeOK, Lengths
  <2>2. cut' = cut
    BY <2>1 DEF Restart, Truncate
  <2>3. QED
    BY <2>2 DEF ShmInv, PageInv, Restart, Truncate, readerVars
<1>5. ~died' => RegionInv'
  <2> SUFFICES ASSUME ~died' PROVE RegionInv'
    OBVIOUS
  <2>1. ~died /\ Quiet /\ Quiet'
    BY Zenon DEF Restart, Quiet, ShmInv, ShmTypeOK
  <2>2. QED
    BY <1>1, <2>1, ResizeKeepsRegion DEF ShmInv, Restart
<1>6. ~died' => CopyInv'
  BY <1>1, ResizeKeepsCopy, Zenon DEF ShmInv, Restart, FileKept, readerVars
<1>7. ReadsWholeWrites'
  <2>1. CASE died' = died
    BY <1>1, <1>4, <2>1, ResizeKeepsRead DEF ShmInv, Restart, FileKept, readerVars
  <2>2. CASE died'
    BY <2>2 DEF ReadsWholeWrites
  <2>3. QED
    BY <2>1, <2>2, Zenon DEF Restart, ShmInv, ShmTypeOK
<1>8. QED
  BY <1>2, <1>3, <1>4, <1>5, <1>6, <1>7 DEF ShmInv

-----------------------------------------------------------------------------
(* Each step of a reader preserves the invariant: while its counter stands   *)
(* the region holds the last write, and so does what it copies.              *)
LEMMA BeginReadKeepsInv == ASSUME ShmInv, BeginRead PROVE ShmInv'
<1> USE DEF memVars, fileVars, writerVars
<1>1. ShmTypeOK'
  BY DEF ShmInv, ShmTypeOK, BeginRead
<1>2. RoomInv' /\ PageInv' /\ ReadsWholeWrites'
  BY DEF ShmInv, RoomInv, PageInv, ReadsWholeWrites, OfWrite, BeginRead
<1>3. ~died' => RegionInv'
  BY DEF ShmInv, RegionInv, Quiet, OfWrite, BeginRead
<1>4. ~died' => CopyInv'
  BY DEF ShmInv, ShmTypeOK, CopyInv, BeginRead, WorthCopying
<1>5. QED
  BY <1>1, <1>2, <1>3, <1>4 DEF ShmInv

(* Reading the length.                                                       *)
LEMMA ReadSizeKeepsInv == ASSUME ShmInv, ReadSize PROVE ShmInv'
<1> USE DEF memVars, fileVars, writerVars
<1>1. ShmTypeOK'
  BY DEF ShmInv, ShmTypeOK, ReadSize
<1>2. RoomInv' /\ PageInv' /\ ReadsWholeWrites'
  BY DEF ShmInv, RoomInv, PageInv, ReadsWholeWrites, OfWrite, ReadSize
<1>3. ~died' => RegionInv'
  BY DEF ShmInv, RegionInv, Quiet, OfWrite, ReadSize
<1>4. ~died /\ seenGen = gen => toCopy' = lenOf[writes]
  BY StillMeansQuiet DEF ShmInv, RegionInv, Quiet, ReadSize
<1>5. ~died' => CopyInv'
  BY <1>4 DEF ShmInv, CopyInv, ReadSize
<1>6. QED
  BY <1>1, <1>2, <1>3, <1>5 DEF ShmInv

(* Making room for it.                                                       *)
LEMMA ReaderRoomKeepsInv == ASSUME ShmInv, ReaderRoom PROVE ShmInv'
<1> USE ShmAssumption
<1>0. view \in Nat /\ toCopy \in Lengths /\ EnsureSpace(view, toCopy) /\ ShmTypeOK
  BY DEF ShmInv, ShmTypeOK, ReaderRoom
<1>1. FileKept /\ SpaceOf(view, toCopy) \in Nat
  BY <1>0, EnsureSpaceKeeps, Zenon
<1>2. ShmTypeOK'
  BY <1>1 DEF ShmInv, ShmTypeOK, ReaderRoom, FileKept, writerVars
<1>3. RoomInv'
  BY DEF ShmInv, ReaderRoom, RoomInv, writerVars
<1>4. PageInv'
  <2> SUFFICES ASSUME Words <= PageWords
               PROVE  (cut = {} /\ file = PageWords /\ mapped = PageWords /\ view = PageWords)'
    BY DEF PageInv
  <2>1. view = PageWords /\ PageInv
    BY DEF ShmInv, PageInv
  <2>2. UNCHANGED <<file, cut>> /\ SpaceOf(PageWords, toCopy) = PageWords
    BY <1>0, <2>1, EnsureSpaceIdle
  <2>3. QED
    BY <2>1, <2>2 DEF PageInv, ReaderRoom, writerVars
<1>5. ~died' => RegionInv'
  BY <1>1, ResizeKeepsRegion DEF ShmInv, ReaderRoom, writerVars
<1>6. ~died' => CopyInv'
  BY DEF ShmInv, CopyInv, ReaderRoom, writerVars
<1>7. ReadsWholeWrites'
  BY <1>1, <1>4, ResizeKeepsRead DEF ShmInv, ReaderRoom, FileKept, writerVars
<1>8. QED
  BY <1>2, <1>3, <1>4, <1>5, <1>6, <1>7 DEF ShmInv

(* Copying a word.                                                           *)
LEMMA CopyWordKeepsInv == ASSUME ShmInv, NEW i \in 1..Words, CopyWord(i) PROVE ShmInv'
<1> USE DEF memVars, fileVars, writerVars
<1>1. ShmTypeOK'
  BY DEF ShmInv, ShmTypeOK, CopyWord, Contents
<1>2. RoomInv' /\ PageInv' /\ ReadsWholeWrites'
  BY DEF ShmInv, RoomInv, PageInv, ReadsWholeWrites, OfWrite, CopyWord
<1>3. ~died' => RegionInv'
  BY DEF ShmInv, RegionInv, Quiet, OfWrite, CopyWord
<1>4. ~died /\ seenGen = gen => OfWrite(word[i], writes)
  <2> SUFFICES ASSUME ~died, seenGen = gen PROVE OfWrite(word[i], writes)
    OBVIOUS
  <2>1. Quiet /\ toCopy = size
    BY StillMeansQuiet DEF ShmInv, RegionInv, CopyInv, Quiet, CopyWord
  <2>2. i \in 1..size
    BY <2>1 DEF ShmInv, ShmTypeOK, CopyWord, Lengths
  <2>3. QED
    BY <2>1, <2>2 DEF ShmInv, RegionInv
<1>5. ~died' => CopyInv'
  BY <1>4 DEF ShmInv, ShmTypeOK, Contents, CopyInv, OfWrite, CopyWord
<1>6. QED
  BY <1>1, <1>2, <1>3, <1>5 DEF ShmInv

(* Keeping the copy, or not.                                                 *)
LEMMA EndReadKeepsInv == ASSUME ShmInv, EndRead PROVE ShmInv'
<1> USE DEF memVars, fileVars, writerVars
<1>1. ShmTypeOK'
  <2>1. [gen |-> seenGen, size |-> toCopy, word |-> copy]
          \in [gen : Int, size : Lengths, word : Contents]
    BY DEF ShmInv, ShmTypeOK
  <2>2. current' \in [gen : Int, size : Lengths, word : Contents]
    BY <2>1 DEF EndRead, ShmInv, ShmTypeOK
  <2>3. QED
    BY <2>2 DEF ShmInv, ShmTypeOK, EndRead
<1>2. RoomInv' /\ PageInv'
  BY DEF ShmInv, RoomInv, PageInv, EndRead
<1>3. ~died' => RegionInv'
  BY DEF ShmInv, RegionInv, Quiet, OfWrite, EndRead
<1>4. ~died' => CopyInv'
  BY DEF CopyInv, EndRead
<1>5. ReadsWholeWrites'
  <2>1. CASE ~died /\ Unmoved
    <3>1. Quiet /\ writes \in finished
      BY <2>1, StillMeansQuiet DEF ShmInv, RegionInv, EndRead, Unmoved
    <3>2. current' = [gen |-> seenGen, size |-> toCopy, word |-> copy]
      BY <2>1 DEF EndRead
    <3>3. current'.size = lenOf[writes] /\ \A i \in 1..toCopy : OfWrite(current'.word[i], writes)
      BY <2>1, <3>2 DEF ShmInv, CopyInv, EndRead, Unmoved
    <3>4. QED
      BY <3>1, <3>2, <3>3 DEF ReadsWholeWrites, OfWrite, EndRead, ShmInv, PageInv
  <2>2. CASE died \/ ~Unmoved
    BY <2>2 DEF ShmInv, EndRead, ReadsWholeWrites, OfWrite
  <2>3. QED
    BY <2>1, <2>2
<1>6. QED
  BY <1>1, <1>2, <1>3, <1>4, <1>5 DEF ShmInv

(* A reader that is killed and another one that starts.                      *)
LEMMA ReaderKilledKeepsInv == ASSUME ShmInv, ReaderKilled PROVE ShmInv'
<1> USE DEF memVars, fileVars, writerVars
<1>1. NoData \in [gen : Int, size : Lengths, word : Contents] /\ NoData.gen = -1
  BY ShmAssumption DEF NoData, Lengths, Contents
<1>2. ShmTypeOK'
  BY <1>1 DEF ShmInv, ShmTypeOK, ReaderKilled
<1>3. RoomInv' /\ PageInv' /\ CopyInv'
  BY DEF ShmInv, RoomInv, PageInv, CopyInv, ReaderKilled
<1>4. ~died' => RegionInv'
  BY DEF ShmInv, RegionInv, Quiet, OfWrite, ReaderKilled
<1>5. ReadsWholeWrites'
  BY <1>1 DEF ReadsWholeWrites, ReaderKilled
<1>6. QED
  BY <1>2, <1>3, <1>4, <1>5 DEF ShmInv

(* Another reader makes room.                                                *)
LEMMA OtherReaderKeepsInv ==
  ASSUME ShmInv, NEW len \in SeenLengths, OtherReaderRoom(len)
  PROVE  ShmInv'
<1> USE ShmAssumption
<1>0. len \in Lengths /\ len \in Nat
  BY DEF ShmInv, ShmTypeOK, SeenLengths, Lengths
<1>1. FileKept
  BY <1>0, PageAlignedType, TruncateKeeps DEF ShmInv, OtherReaderRoom
<1>2. ShmTypeOK'
  BY <1>1 DEF ShmInv, ShmTypeOK, OtherReaderRoom, FileKept, writerVars, readerVars
<1>3. RoomInv' /\ PageInv'
  BY <1>0 DEF ShmInv, RoomInv, PageInv, OtherReaderRoom, Lengths, writerVars, readerVars
<1>4. ~died' => RegionInv'
  BY <1>1, ResizeKeepsRegion DEF ShmInv, OtherReaderRoom, writerVars
<1>5. ~died' => CopyInv'
  BY <1>1, ResizeKeepsCopy DEF ShmInv, OtherReaderRoom, FileKept, writerVars, readerVars
<1>6. ReadsWholeWrites'
  BY <1>1, <1>3, ResizeKeepsRead DEF ShmInv, OtherReaderRoom, FileKept, writerVars, readerVars
<1>7. QED
  BY <1>2, <1>3, <1>4, <1>5, <1>6 DEF ShmInv

-----------------------------------------------------------------------------
(* Every step preserves the invariant.                                       *)
LEMMA ShmStep == ShmInv /\ [ShmNext]_shmVars => ShmInv'
<1> SUFFICES ASSUME ShmInv, [ShmNext]_shmVars PROVE ShmInv'
  OBVIOUS
<1>1. CASE ShmWriterNext
  BY <1>1, MakeRoomKeepsInv, BeginWriteKeepsInv, StoreSizeKeepsInv, StoreWordKeepsInv,
     EndWriteKeepsInv, RestartKeepsInv, Zenon
  DEF ShmWriterNext
<1>2. CASE ShmReaderNext
  BY <1>2, BeginReadKeepsInv, ReadSizeKeepsInv, ReaderRoomKeepsInv, CopyWordKeepsInv,
     EndReadKeepsInv, ReaderKilledKeepsInv, Zenon
  DEF ShmReaderNext
<1>3. CASE \E len \in SeenLengths : OtherReaderRoom(len)
  BY <1>3, OtherReaderKeepsInv, Zenon
<1>4. CASE UNCHANGED shmVars
  BY <1>4
  DEF ShmInv, ShmTypeOK, RoomInv, PageInv, RegionInv, Quiet, CopyInv, ReadsWholeWrites, OfWrite,
      shmVars, memVars, fileVars, writerVars, readerVars
<1>5. QED
  BY <1>1, <1>2, <1>3, <1>4 DEF ShmNext

(***************************************************************************)
(* A reader returns whole writes only (ReadsWholeWrites): for every size   *)
(* of the region and of a page, every word of what it returns is of one    *)
(* finished write, or zero if a resize has cut that write; and no copy of  *)
(* a cut write is returned if writes fit into a page.                      *)
(***************************************************************************)
THEOREM ReadersSeeWholeWrites == ShmSpec => []ReadsWholeWrites
<1>1. ShmInv => ReadsWholeWrites
  BY DEF ShmInv
<1>2. QED
  BY <1>1, ShmInitInv, ShmStep, PTL DEF ShmSpec
=============================================================================
