---------------------------- MODULE FileLogProofs ----------------------------
(***************************************************************************)
(* Proofs about module FileLog, for every set of writers, every length of  *)
(* the files and every number of power failures: the mutex, the numbering, *)
(* the stable upload, and that the last Half records are always on flash.  *)
(***************************************************************************)
EXTENDS FileLog, FiniteSetTheorems, TLAPS

(* spsi_read_mutex: its owner is the thread that is in its section, and    *)
(* the shell neither uploads while it erases nor erases while it uploads.  *)
MutexInv ==
    /\ \A w \in Writers : wpc[w] # "idle" <=> owner = w
    /\ owner = Reader <=> reading # "none"
    /\ reading # "none" => main = "up" /\ erasing = "none"
    /\ erasing # "none" => main = "up"
    /\ owner \in Writers => main = "up"

(* The number in RAM follows the saved one, also through ID_Init. *)
NumberInv ==
    /\ SavedNumberCurrent
    /\ main # "up" => Global_Nums = 0
    /\ main \in {"unlink_top", "title_top", "unlink_down", "title_down"} => id = 0

(* A file is deleted only by the record that starts it, and a number is    *)
(* saved only when its record is on flash.                                 *)
StageInv ==
    \A w \in Writers :
        /\ wpc[w] \in {"unlink", "title"} => StartsFile(Global_Nums)
        /\ wpc[w] = "save" => \/ Global_Nums <= erased
                              \/ Global_Nums \in Lines(FileOf(Global_Nums))

(* Each of the last Half records is in the file that its number says. *)
KeptInv ==
    \A n \in erased + 1 .. id : n + Half > id => n \in Lines(FileOf(n))

LogInv == TypeOK /\ MutexInv /\ NumberInv /\ StageInv /\ KeptInv

-----------------------------------------------------------------------------
(* Quotient and remainder are unique. *)
LEMMA RemainderUnique ==
    ASSUME NEW m \in Nat \ {0}, NEW q1 \in Int, NEW r1 \in 0 .. m - 1,
           NEW q2 \in Int, NEW r2 \in 0 .. m - 1, m * q1 + r1 = m * q2 + r2
    PROVE  r1 = r2
  OBVIOUS

(* So the remainder can be read off. *)
LEMMA RemainderOf ==
    ASSUME NEW m \in Nat \ {0}, NEW q \in Int, NEW r \in 0 .. m - 1, NEW n \in Nat,
           n = m * q + r
    PROVE  n % m = r
<1>1. n = m * (n \div m) + (n % m) /\ n \div m \in Int /\ n % m \in 0 .. m - 1
  OBVIOUS
<1>2. m * q + r = m * (n \div m) + (n % m)
  BY <1>1
<1> DEFINE d == n \div m
           e == n % m
<1>3. d \in Int /\ e \in 0 .. m - 1 /\ m * q + r = m * d + e
  BY <1>1, <1>2
<1> HIDE DEF d, e
<1>4. r = e
  BY <1>3, RemainderUnique
<1> QED
  BY <1>4 DEF e

(* The two files take turns: when a record starts a file, the Half records *)
(* before it are in the other one.                                         *)
LEMMA FilesTakeTurns ==
    ASSUME NEW g \in Nat, NEW n \in Nat, StartsFile(g), n < g, n + Half >= g
    PROVE  FileOf(n) # FileOf(g)
<1> DEFINE h == Half
<1>1. h \in Nat \ {0} /\ g % h = 0
  BY LogAssumption DEF StartsFile
<1> HIDE DEF h
<1>2. 2 * h \in Nat \ {0}
  BY <1>1
<1>3. PICK q \in Int : g = (2 * h) * q + (g % (2 * h))
  <2>1. g = (2 * h) * (g \div (2 * h)) + (g % (2 * h)) /\ g \div (2 * h) \in Int
    BY <1>2
  <2> QED
    BY <2>1
<1>4. g % (2 * h) \in 0 .. 2 * h - 1
  BY <1>2
<1>5. g % (2 * h) = 0 \/ g % (2 * h) = h
  <2>1. PICK k \in Int : g = h * k + 0
    <3>1. g = h * (g \div h) + (g % h) /\ g \div h \in Int
      BY <1>1
    <3> QED
      BY <1>1, <3>1
  <2> DEFINE r == g % (2 * h)
  <2>2. r \in 0 .. 2 * h - 1 /\ h * k = (2 * h) * q + r
    BY <1>1, <1>3, <1>4, <2>1
  <2> HIDE DEF r
  <2>3. CASE r < h
    <3>1. h * (2 * q) + r = h * k + 0 /\ r \in 0 .. h - 1 /\ 2 * q \in Int /\ 0 \in 0 .. h - 1
      BY <1>1, <2>2, <2>3
    <3>2. r = 0
      BY <1>1, <3>1, RemainderUnique
    <3> QED
      BY <3>2 DEF r
  <2>4. CASE r >= h
    <3>1. h * (2 * q + 1) + (r - h) = h * k + 0 /\ r - h \in 0 .. h - 1
          /\ 2 * q + 1 \in Int /\ 0 \in 0 .. h - 1
      BY <1>1, <2>2, <2>4
    <3>2. r - h = 0
      BY <1>1, <3>1, RemainderUnique
    <3> QED
      BY <1>1, <2>2, <3>2 DEF r
  <2> QED
    BY <1>1, <2>2, <2>3, <2>4
<1>6. CASE g % (2 * h) = 0
  <2>1. n = (2 * h) * (q - 1) + (2 * h - (g - n)) /\ 2 * h - (g - n) \in h .. 2 * h - 1
    BY <1>1, <1>3, <1>6 DEF h
  <2>2. n % (2 * h) = 2 * h - (g - n)
    <3>1. q - 1 \in Int /\ 2 * h - (g - n) \in 0 .. 2 * h - 1
      BY <1>1, <2>1
    <3> QED
      BY <1>2, <2>1, <3>1, RemainderOf
  <2> QED
    BY <1>1, <1>6, <2>1, <2>2 DEF FileOf, h
<1>7. CASE g % (2 * h) = h
  <2>1. n = (2 * h) * q + (h - (g - n)) /\ h - (g - n) \in 0 .. h - 1
    BY <1>1, <1>3, <1>7 DEF h
  <2>2. n % (2 * h) = h - (g - n)
    <3>1. h - (g - n) \in 0 .. 2 * h - 1
      BY <1>1, <2>1
    <3> QED
      BY <1>2, <2>1, <3>1, RemainderOf
  <2> QED
    BY <1>1, <1>7, <2>1, <2>2 DEF FileOf, h
<1> QED
  BY <1>5, <1>6, <1>7

(* The file of a record is a file. *)
LEMMA FileFacts == \A n : FileOf(n) \in Files
  BY DEF FileOf, Files

(* Appending to a file adds a line and loses none. *)
LEMMA AppendFacts ==
    ASSUME TypeOK, NEW f \in Files, NEW line \in 0..MaxNum, AppendLine(f, line)
    PROVE  /\ csv' \in [Files -> Seq(0..MaxNum)]
           /\ \A g \in Files : Lines(g) \subseteq Lines(g)'
           /\ line \in Lines(f)'
<1>1. csv \in [Files -> Seq(0..MaxNum)] /\ csv' = [csv EXCEPT ![f] = Append(csv[f], line)]
  BY DEF TypeOK, AppendLine
<1>2. csv[f] \in Seq(0..MaxNum) /\ csv'[f] = Append(csv[f], line)
  BY <1>1
<1>3. csv' \in [Files -> Seq(0..MaxNum)]
  BY <1>1, <1>2
<1>4. Lines(f) \subseteq Lines(f)' /\ line \in Lines(f)'
  <2> DEFINE old == csv[f]
             new == csv'[f]
  <2>1. /\ Len(old) \in Nat /\ DOMAIN old = 1 .. Len(old)
        /\ DOMAIN new = 1 .. Len(old) + 1
        /\ new[Len(old) + 1] = line /\ \A i \in 1 .. Len(old) : new[i] = old[i]
    BY <1>2
  <2>2. Lines(f) = {old[i] : i \in DOMAIN old} /\ Lines(f)' = {new[i] : i \in DOMAIN new}
    BY DEF Lines, ToSet
  <2> HIDE DEF old, new
  <2>3. /\ Len(old) + 1 \in DOMAIN new
        /\ \A i \in DOMAIN old : i \in DOMAIN new /\ new[i] = old[i]
    BY <2>1
  <2> QED
    BY <2>1, <2>2, <2>3
<1>5. \A g \in Files \ {f} : Lines(g)' = Lines(g)
  BY <1>1 DEF Lines, ToSet
<1> QED
  BY <1>3, <1>4, <1>5

(* Deleting a file leaves the other one alone. *)
LEMMA UnlinkFacts ==
    ASSUME TypeOK, NEW f \in Files, Unlink(f)
    PROVE  /\ csv' \in [Files -> Seq(0..MaxNum)]
           /\ \A g \in Files \ {f} : Lines(g)' = Lines(g)
<1>1. csv \in [Files -> Seq(0..MaxNum)] /\ csv' = [csv EXCEPT ![f] = << >>]
  BY DEF TypeOK, Unlink
<1>2. << >> \in Seq(0..MaxNum)
  OBVIOUS
<1> QED
  BY <1>1, <1>2 DEF Lines, ToSet

(* Where no file loses a line and the numbers stay, the last records stay. *)
LEMMA KeptStays ==
    ASSUME TypeOK, KeptInv, id' = id, erased' = erased,
           \A f \in Files : Lines(f) \subseteq Lines(f)'
    PROVE  KeptInv'
  BY FileFacts DEF KeptInv, FileOf

(* The same for the record that waits for its number to be saved. *)
LEMMA StageStays ==
    ASSUME StageInv, wpc' = wpc, Global_Nums' = Global_Nums, erased' = erased,
           \A f \in Files : Lines(f) \subseteq Lines(f)'
    PROVE  StageInv'
  BY FileFacts DEF StageInv, FileOf, StartsFile

LEMMA LinesStay ==
    ASSUME UNCHANGED csv
    PROVE  \A f \in Files : Lines(f) \subseteq Lines(f)'
  BY DEF Lines

(* Outside a section no writer is anywhere but idle. *)
LEMMA IdleUnlessOwned ==
    ASSUME LogInv, owner \notin Writers
    PROVE  \A w \in Writers : wpc[w] = "idle"
  BY DEF LogInv, MutexInv

(* In its section a writer is alone. *)
LEMMA AloneInSection ==
    ASSUME LogInv, NEW w \in Writers, wpc[w] # "idle"
    PROVE  /\ owner = w /\ main = "up" /\ Global_Nums = id + 1 /\ reading = "none"
           /\ \A v \in Writers \ {w} : wpc[v] = "idle"
  BY LogAssumption DEF LogInv, MutexInv, NumberInv, SavedNumberCurrent

-----------------------------------------------------------------------------
(* LogInv is inductive. *)

LEMMA InitInv == Init => LogInv
<1> SUFFICES ASSUME Init PROVE LogInv
  OBVIOUS
<1>1. TypeOK
  <2>1. << >> \in Seq(0..MaxNum)
    OBVIOUS
  <2>2. csv \in [Files -> Seq(0..MaxNum)]
    BY <2>1 DEF Init
  <2>3. wpc \in [Writers -> WriterPcs] /\ main \in MainPcs /\ cut \in BOOLEAN
    BY DEF Init, WriterPcs, MainPcs
  <2> QED
    BY <2>2, <2>3, LogAssumption DEF Init, TypeOK
<1>2. MutexInv /\ NumberInv
  BY LogAssumption DEF Init, MutexInv, NumberInv, SavedNumberCurrent
<1>3. StageInv /\ KeptInv
  BY DEF Init, StageInv, KeptInv
<1> QED
  BY <1>1, <1>2, <1>3 DEF LogInv

(* A log that was set up gives back its number. *)
LEMMA ReadBootInv == ASSUME LogInv, ReadBoot PROVE LogInv'
<1>1. TypeOK'
  BY DEF LogInv, ReadBoot, threadVars, histVars, TypeOK, MainPcs
<1>2. \A w \in Writers : wpc[w] = "idle"
  BY IdleUnlessOwned DEF LogInv, MutexInv, ReadBoot
<1>3. MutexInv' /\ NumberInv'
  <2>1. MutexInv'
    BY DEF LogInv, MutexInv, ReadBoot, threadVars
  <2>2. owner \notin Writers /\ id + 0 = id
    BY DEF LogInv, MutexInv, TypeOK, ReadBoot
  <2>3. NumberInv'
    BY <2>2 DEF LogInv, NumberInv, SavedNumberCurrent, ReadBoot, threadVars
  <2> QED
    BY <2>1, <2>3
<1>4. StageInv'
  BY <1>2 DEF StageInv, ReadBoot, threadVars
<1>5. KeptInv'
  BY LinesStay, KeptStays DEF LogInv, ReadBoot, histVars
<1> QED
  BY <1>1, <1>3, <1>4, <1>5 DEF LogInv

(* With the number cleared no record is promised any more. *)
LEMMA ClearIdInv == ASSUME LogInv, ClearId PROVE LogInv'
<1>1. TypeOK'
  BY LogAssumption DEF LogInv, ClearId, threadVars, TypeOK, MainPcs
<1>2. \A w \in Writers : wpc[w] = "idle"
  BY IdleUnlessOwned DEF LogInv, MutexInv, ClearId
<1>3. MutexInv' /\ NumberInv'
  BY DEF LogInv, MutexInv, NumberInv, SavedNumberCurrent, ClearId, threadVars
<1>4. StageInv' /\ KeptInv'
  BY <1>2 DEF StageInv, KeptInv, ClearId, threadVars
<1> QED
  BY <1>1, <1>3, <1>4 DEF LogInv

(* The files are set up anew only when the number is 0. *)
LEMMA SetUpFilesInv == ASSUME LogInv, SetUpFiles PROVE LogInv'
<1>1. TypeOK
  BY DEF LogInv
<1>2. id = 0 /\ main # "up" /\ Global_Nums = 0
  BY DEF LogInv, NumberInv, SetUpFiles
<1>3. csv' \in [Files -> Seq(0..MaxNum)]
  <2>1. "top" \in Files /\ "down" \in Files /\ Header \in 0..MaxNum
    BY LogAssumption DEF Files, Header
  <2>2. CASE Unlink("top") \/ Unlink("down")
    BY <1>1, <2>1, <2>2, UnlinkFacts
  <2>3. CASE AppendLine("top", Header) \/ AppendLine("down", Header)
    BY <1>1, <2>1, <2>3, AppendFacts
  <2> QED
    BY <2>2, <2>3 DEF SetUpFiles
<1>4. TypeOK'
  BY <1>1, <1>3 DEF SetUpFiles, threadVars, histVars, TypeOK, MainPcs
<1>5. \A w \in Writers : wpc[w] = "idle"
  BY <1>2, IdleUnlessOwned DEF LogInv, MutexInv
<1>6. MutexInv'
  BY <1>2 DEF LogInv, MutexInv, SetUpFiles, threadVars
<1>7. NumberInv'
  <2>1. owner \notin Writers
    BY <1>2 DEF LogInv, MutexInv
  <2> QED
    BY <1>2, <2>1 DEF NumberInv, SavedNumberCurrent, SetUpFiles, threadVars
<1>8. StageInv'
  BY <1>5 DEF StageInv, SetUpFiles, threadVars
<1>9. KeptInv'
  BY <1>1, <1>2 DEF KeptInv, SetUpFiles, histVars, TypeOK
<1> QED
  BY <1>4, <1>6, <1>7, <1>8, <1>9 DEF LogInv

(* A writer enters with the number after the saved one. *)
LEMMA TakeNumberInv ==
    ASSUME LogInv, NEW w \in Writers, TakeNumber(w) PROVE LogInv'
<1>1. owner = "none" /\ owner' = w /\ main = "up" /\ main' = "up"
  BY DEF TakeNumber
<1>2. /\ owner \notin Writers /\ reading = "none"
      /\ \A v \in Writers : wpc[v] = "idle"
  BY <1>1, LogAssumption, IdleUnlessOwned DEF LogInv, MutexInv
<1>3. PICK l \in {"unlink", "append"} :
        /\ wpc' = [wpc EXCEPT ![w] = l]
        /\ l = "unlink" => StartsFile(Global_Nums')
  BY DEF TakeNumber, Goto
<1>4. wpc \in [Writers -> WriterPcs] /\ Global_Nums \in 0..MaxNum /\ id \in 0..MaxNum
  BY DEF LogInv, TypeOK
<1>5. TypeOK'
  <2>1. wpc' \in [Writers -> WriterPcs]
    BY <1>3, <1>4 DEF WriterPcs
  <2>2. Global_Nums' \in 0..MaxNum
    BY <1>4, LogAssumption DEF TakeNumber
  <2> QED
    BY <1>1, <2>1, <2>2 DEF LogInv, TypeOK, TakeNumber, flashVars, histVars
<1>6. MutexInv'
  BY <1>1, <1>2, <1>3, <1>4, LogAssumption DEF MutexInv, TakeNumber
<1>7. NumberInv'
  <2>1. Global_Nums = id + 0
    BY <1>1, <1>2 DEF LogInv, NumberInv, SavedNumberCurrent
  <2>2. Global_Nums' = id + 1 /\ id' = id
    BY <1>4, <2>1 DEF TakeNumber, flashVars
  <2> QED
    BY <1>1, <2>2 DEF NumberInv, SavedNumberCurrent
<1>8. StageInv'
  BY <1>2, <1>3, <1>4 DEF StageInv
<1>9. KeptInv'
  BY LinesStay, KeptStays DEF LogInv, TakeNumber, flashVars, histVars
<1> QED
  BY <1>5, <1>6, <1>7, <1>8, <1>9 DEF LogInv

(* What a writer's step within its section leaves as it was. *)
LEMMA SectionStep ==
    ASSUME LogInv, NEW w \in Writers, wpc[w] # "idle",
           NEW l \in WriterPcs \ {"idle"}, wpc' = [wpc EXCEPT ![w] = l],
           UNCHANGED <<boot, id, Global_Nums, main, reading, erasing, owner, crashes, holds, histVars>>,
           csv' \in [Files -> Seq(0..MaxNum)]
    PROVE  TypeOK' /\ MutexInv' /\ NumberInv'
<1>1. wpc \in [Writers -> WriterPcs]
  BY DEF LogInv, TypeOK
<1>2. wpc' \in [Writers -> WriterPcs]
  BY <1>1
<1>3. TypeOK'
  BY <1>2 DEF LogInv, TypeOK, histVars
<1>4. MutexInv'
  BY <1>1, AloneInSection DEF LogInv, MutexInv
<1>5. NumberInv'
  BY DEF LogInv, NumberInv, SavedNumberCurrent
<1> QED
  BY <1>3, <1>4, <1>5

(* The file that is deleted holds none of the last Half records. *)
LEMMA TurnOverInv ==
    ASSUME LogInv, NEW w \in Writers, TurnOver(w) PROVE LogInv'
<1> DEFINE g == Global_Nums
<1>1. /\ TypeOK /\ StartsFile(g) /\ FileOf(g) \in Files /\ wpc[w] # "idle"
      /\ g' = g /\ id' = id /\ erased' = erased
      /\ wpc \in [Writers -> WriterPcs]
  BY FileFacts DEF LogInv, TypeOK, StageInv, TurnOver, histVars
<1>2. /\ g = id + 1
      /\ \A v \in Writers \ {w} : wpc[v] = "idle"
  BY <1>1, AloneInSection
<1>3. CASE wpc[w] = "unlink" /\ Unlink(FileOf(g)) /\ Goto(w, "title")
  <2>1. /\ csv' \in [Files -> Seq(0..MaxNum)]
        /\ \A f \in Files \ {FileOf(g)} : Lines(f)' = Lines(f)
    BY <1>1, <1>3, UnlinkFacts
  <2>2. wpc' = [wpc EXCEPT ![w] = "title"] /\ "title" \in WriterPcs \ {"idle"}
    BY <1>3 DEF Goto, WriterPcs
  <2>3. TypeOK' /\ MutexInv' /\ NumberInv'
    BY <1>1, <2>1, <2>2, SectionStep DEF TurnOver
  <2>4. StageInv'
    BY <1>1, <1>2, <2>2 DEF StageInv, StartsFile
  <2>5. KeptInv'
    <3> SUFFICES ASSUME NEW n \in erased + 1 .. id, n + Half > id
                 PROVE  n \in Lines(FileOf(n))'
      BY <1>1 DEF KeptInv, FileOf
    <3>1. n \in Nat /\ g \in Nat /\ n < g /\ n + Half >= g
      <4>1. erased \in Nat /\ id \in Nat /\ Half \in Nat
        BY <1>1, LogAssumption DEF TypeOK
      <4> QED
        BY <1>2, <4>1
    <3>2. FileOf(n) # FileOf(g)
      BY <1>1, <3>1, FilesTakeTurns
    <3> QED
      BY <2>1, <3>2, FileFacts DEF LogInv, KeptInv
  <2> QED
    BY <2>3, <2>4, <2>5 DEF LogInv
<1>4. CASE wpc[w] = "title" /\ AppendLine(FileOf(g), Header) /\ Goto(w, "append")
  <2>1. /\ csv' \in [Files -> Seq(0..MaxNum)]
        /\ \A f \in Files : Lines(f) \subseteq Lines(f)'
    <3>1. Header \in 0..MaxNum
      BY LogAssumption DEF Header
    <3> QED
      BY <1>1, <1>4, <3>1, AppendFacts
  <2>2. wpc' = [wpc EXCEPT ![w] = "append"] /\ "append" \in WriterPcs \ {"idle"}
    BY <1>4 DEF Goto, WriterPcs
  <2>3. TypeOK' /\ MutexInv' /\ NumberInv'
    BY <1>1, <2>1, <2>2, SectionStep DEF TurnOver
  <2>4. StageInv'
    BY <1>1, <1>2, <2>2 DEF StageInv
  <2>5. KeptInv'
    BY <1>1, <2>1, KeptStays DEF LogInv
  <2> QED
    BY <2>3, <2>4, <2>5 DEF LogInv
<1> QED
  BY <1>3, <1>4 DEF TurnOver

(* The record is on flash before its number can be saved. *)
LEMMA WriteRecordInv ==
    ASSUME LogInv, NEW w \in Writers, WriteRecord(w) PROVE LogInv'
<1>1. /\ TypeOK /\ FileOf(Global_Nums) \in Files /\ wpc[w] # "idle"
      /\ Global_Nums' = Global_Nums /\ Global_Nums \in 0..MaxNum
      /\ id' = id /\ erased' = erased
      /\ wpc \in [Writers -> WriterPcs]
  BY FileFacts DEF LogInv, TypeOK, WriteRecord, histVars
<1>2. \A v \in Writers \ {w} : wpc[v] = "idle"
  BY <1>1, AloneInSection
<1>3. /\ csv' \in [Files -> Seq(0..MaxNum)]
      /\ \A f \in Files : Lines(f) \subseteq Lines(f)'
      /\ Global_Nums \in Lines(FileOf(Global_Nums))'
  <2>1. AppendLine(FileOf(Global_Nums), Global_Nums)
    BY DEF WriteRecord
  <2>2. /\ csv' \in [Files -> Seq(0..MaxNum)]
        /\ \A f \in Files : Lines(f) \subseteq Lines(f)'
    BY <1>1, <2>1, AppendFacts
  <2> DEFINE f == FileOf(Global_Nums)
  <2>3. f' = f
    BY <1>1 DEF FileOf
  <2>4. Global_Nums \in ToSet(csv'[f])
    BY <1>1, <2>1, AppendFacts DEF Lines
  <2> QED
    BY <2>2, <2>3, <2>4 DEF Lines
<1>4. wpc' = [wpc EXCEPT ![w] = "save"] /\ "save" \in WriterPcs \ {"idle"}
  BY DEF WriteRecord, Goto, WriterPcs
<1>5. TypeOK' /\ MutexInv' /\ NumberInv'
  BY <1>1, <1>3, <1>4, SectionStep DEF WriteRecord
<1>6. StageInv'
  BY <1>1, <1>2, <1>3, <1>4 DEF StageInv
<1>7. KeptInv'
  BY <1>1, <1>3, KeptStays DEF LogInv
<1> QED
  BY <1>5, <1>6, <1>7 DEF LogInv

(* Saving a number promises its record and one record less at the end. *)
LEMMA SaveNumberInv ==
    ASSUME LogInv, NEW w \in Writers, SaveNumber(w) PROVE LogInv'
<1>1. /\ TypeOK /\ wpc[w] = "save" /\ wpc \in [Writers -> WriterPcs]
      /\ Global_Nums \in 0..MaxNum /\ id \in 0..MaxNum /\ erased \in 0..MaxNum
      /\ id' = Global_Nums /\ Global_Nums' = Global_Nums /\ main' = main
      /\ erased' = erased /\ csv' = csv /\ owner' = "none" /\ reading' = reading
  BY DEF LogInv, TypeOK, SaveNumber, histVars
<1>2. /\ owner = w /\ main = "up" /\ Global_Nums = id + 1 /\ reading = "none"
      /\ \A v \in Writers \ {w} : wpc[v] = "idle"
  BY <1>1, AloneInSection
<1>3. wpc' = [wpc EXCEPT ![w] = "idle"]
  BY DEF SaveNumber, Goto
<1>4. TypeOK'
  <2>1. wpc' \in [Writers -> WriterPcs]
    BY <1>1, <1>3 DEF WriterPcs
  <2> QED
    BY <1>1, <2>1 DEF TypeOK, SaveNumber, histVars
<1>5. \A v \in Writers : wpc'[v] = "idle"
  BY <1>1, <1>2, <1>3
<1>6. MutexInv'
  BY <1>1, <1>2, <1>5, LogAssumption DEF MutexInv
<1>7. NumberInv'
  BY <1>1, <1>2, LogAssumption DEF NumberInv, SavedNumberCurrent
<1>8. StageInv'
  BY <1>5 DEF StageInv
<1>9. KeptInv'
  <2> SUFFICES ASSUME NEW n \in erased + 1 .. Global_Nums, n + Half > Global_Nums
               PROVE  n \in Lines(FileOf(n))
    BY <1>1 DEF KeptInv, FileOf, Lines
  <2>1. CASE n = Global_Nums
    BY <1>1, <2>1 DEF LogInv, StageInv
  <2>2. CASE n # Global_Nums
    <3>1. n \in erased + 1 .. id /\ n + Half > id
      BY <1>1, <1>2, <2>2, LogAssumption
    <3> QED
      BY <3>1 DEF LogInv, KeptInv
  <2> QED
    BY <2>1, <2>2
<1> QED
  BY <1>4, <1>6, <1>7, <1>8, <1>9 DEF LogInv

LEMMA ReadStartInv ==
    ASSUME LogInv, NEW f \in Files, ReadStart(f) PROVE LogInv'
<1>1. TypeOK'
  BY DEF LogInv, TypeOK, ReadStart, flashVars, histVars
<1>2. f # "none"
  BY DEF Files
<1>3. owner \notin Writers /\ owner' \notin Writers
  BY LogAssumption DEF ReadStart
<1>4. MutexInv' /\ NumberInv'
  BY <1>2, <1>3 DEF LogInv, MutexInv, NumberInv, SavedNumberCurrent, ReadStart, flashVars
<1>5. StageInv' /\ KeptInv'
  BY LinesStay, StageStays, KeptStays DEF LogInv, ReadStart, flashVars, histVars
<1> QED
  BY <1>1, <1>4, <1>5 DEF LogInv

LEMMA ReadEndInv == ASSUME LogInv, ReadEnd PROVE LogInv'
<1>1. owner = Reader /\ owner' = "none"
  BY DEF LogInv, MutexInv, ReadEnd
<1>2. TypeOK'
  BY <1>1 DEF LogInv, TypeOK, ReadEnd, flashVars, histVars
<1>3. owner \notin Writers /\ owner' \notin Writers /\ owner' # Reader
  BY <1>1, LogAssumption
<1>4. MutexInv' /\ NumberInv'
  BY <1>3 DEF LogInv, MutexInv, NumberInv, SavedNumberCurrent, ReadEnd, flashVars
<1>5. StageInv' /\ KeptInv'
  BY LinesStay, StageStays, KeptStays DEF LogInv, ReadEnd, flashVars, histVars
<1> QED
  BY <1>2, <1>4, <1>5 DEF LogInv

(* What the shell erases is no longer promised, even the record that a     *)
(* writer has appended and whose number it has not saved yet.              *)
LEMMA ShellEraseInv ==
    ASSUME LogInv, NEW f \in Files, ShellErase(f) PROVE LogInv'
<1>1. csv' \in [Files -> Seq(0..MaxNum)]
  BY UnlinkFacts DEF LogInv, ShellErase
<1>2. TypeOK'
  BY <1>1, LogAssumption DEF LogInv, TypeOK, ShellErase
<1>3. MutexInv' /\ NumberInv'
  BY DEF LogInv, MutexInv, NumberInv, SavedNumberCurrent, ShellErase
<1>4. /\ erased' = Global_Nums /\ Global_Nums' = Global_Nums /\ id' = id /\ wpc' = wpc
      /\ Global_Nums \in Nat /\ id \in Nat /\ id <= Global_Nums
  BY DEF LogInv, TypeOK, NumberInv, SavedNumberCurrent, ShellErase
<1>5. StageInv'
  BY <1>4 DEF LogInv, StageInv, StartsFile
<1>6. KeptInv'
  BY <1>4 DEF KeptInv
<1> QED
  BY <1>2, <1>3, <1>5, <1>6 DEF LogInv

LEMMA ShellTitleInv == ASSUME LogInv, ShellTitle PROVE LogInv'
<1>1. erasing \in Files /\ Header \in 0..MaxNum /\ AppendLine(erasing, Header)
  BY LogAssumption DEF LogInv, TypeOK, ShellTitle, Header
<1>2. /\ csv' \in [Files -> Seq(0..MaxNum)]
      /\ \A f \in Files : Lines(f) \subseteq Lines(f)'
  BY <1>1, AppendFacts DEF LogInv
<1>3. TypeOK'
  BY <1>2 DEF LogInv, TypeOK, ShellTitle, histVars
<1>4. MutexInv' /\ NumberInv'
  BY DEF LogInv, MutexInv, NumberInv, SavedNumberCurrent, ShellTitle
<1>5. StageInv' /\ KeptInv'
  BY <1>2, StageStays, KeptStays DEF LogInv, ShellTitle, histVars
<1> QED
  BY <1>3, <1>4, <1>5 DEF LogInv

LEMMA HoldInv == ASSUME LogInv, Hold PROVE LogInv'
<1>1. TypeOK'
  BY LogAssumption DEF LogInv, TypeOK, Hold, threadVars, histVars
<1>2. MutexInv' /\ NumberInv'
  BY DEF LogInv, MutexInv, NumberInv, SavedNumberCurrent, Hold, threadVars
<1>3. StageInv' /\ KeptInv'
  BY LinesStay, StageStays, KeptStays DEF LogInv, Hold, threadVars, histVars
<1> QED
  BY <1>1, <1>2, <1>3 DEF LogInv

(* Whatever the threads were doing, flash keeps what the saved number      *)
(* promises.                                                               *)
LEMMA CrashInv == ASSUME LogInv, Crash PROVE LogInv'
<1>1. \A w \in Writers : wpc'[w] = "idle"
  BY DEF Crash, PowerUp
<1>2. TypeOK'
  <2>1. wpc' \in [Writers -> WriterPcs] /\ main' \in MainPcs /\ cut' \in BOOLEAN
    BY DEF Crash, PowerUp, WriterPcs, MainPcs
  <2> QED
    BY <2>1, LogAssumption DEF LogInv, TypeOK, Crash, PowerUp, flashVars
<1>3. MutexInv' /\ NumberInv'
  BY <1>1, LogAssumption DEF MutexInv, NumberInv, SavedNumberCurrent, Crash, PowerUp
<1>4. StageInv'
  BY <1>1 DEF StageInv
<1>5. KeptInv'
  BY LinesStay, KeptStays DEF LogInv, Crash, flashVars
<1> QED
  BY <1>2, <1>3, <1>4, <1>5 DEF LogInv

LEMMA StepInv == LogInv /\ [Next]_vars => LogInv'
<1> SUFFICES ASSUME LogInv, [Next]_vars PROVE LogInv'
  OBVIOUS
<1>1. CASE ReadBoot \/ ClearId \/ SetUpFiles
  BY <1>1, ReadBootInv, ClearIdInv, SetUpFilesInv
<1>2. ASSUME NEW w \in Writers,
             TakeNumber(w) \/ TurnOver(w) \/ WriteRecord(w) \/ SaveNumber(w)
      PROVE  LogInv'
  BY <1>2, TakeNumberInv, TurnOverInv, WriteRecordInv, SaveNumberInv
<1>3. ASSUME NEW f \in Files, ReadStart(f) \/ ShellErase(f)
      PROVE  LogInv'
  BY <1>3, ReadStartInv, ShellEraseInv
<1>4. CASE ReadEnd \/ ShellTitle \/ Hold \/ Crash
  BY <1>4, ReadEndInv, ShellTitleInv, HoldInv, CrashInv
<1>5. CASE UNCHANGED vars \/ \E w \in Writers : Busy(w)
  <2>1. UNCHANGED vars
    BY <1>5 DEF Busy, vars
  <2>2. TypeOK' /\ MutexInv' /\ NumberInv'
    BY <2>1 DEF LogInv, TypeOK, MutexInv, NumberInv, SavedNumberCurrent,
                vars, flashVars, threadVars, histVars
  <2>3. StageInv' /\ KeptInv'
    BY <2>1, LinesStay, StageStays, KeptStays DEF LogInv, vars, flashVars, threadVars, histVars
  <2> QED
    BY <2>2, <2>3 DEF LogInv
<1> QED
  BY <1>1, <1>2, <1>3, <1>4, <1>5 DEF Next

-----------------------------------------------------------------------------
(* The inductive invariant of the record log (file.c, flashwork.c and      *)
(* little.c) holds in every reachable state, wherever power fails.         *)
THEOREM LogInvariant == Spec => []LogInv
<1>1. Init => LogInv
  BY InitInv
<1>2. LogInv /\ [Next]_vars => LogInv'
  BY StepInv
<1> QED
  BY <1>1, <1>2, PTL DEF Spec

(* The variables of the record log keep their types. *)
THEOREM LogTypeOK == Spec => []TypeOK
<1>1. LogInv => TypeOK
  BY DEF LogInv
<1> QED
  BY <1>1, LogInvariant, PTL

(* File_Output never numbers two records alike in one life of the program: *)
(* the saved number is behind by exactly the record being written.         *)
THEOREM NumbersAreCurrent == Spec => []SavedNumberCurrent
<1>1. LogInv => SavedNumberCurrent
  BY DEF LogInv, NumberInv
<1> QED
  BY <1>1, LogInvariant, PTL

(* The deletion of the older file by File_Output, a factory reset or a     *)
(* power failure between any two writes never costs one of the last Half   *)
(* records whose number was saved.                                         *)
THEOREM LastRecordsAreKept == Spec => []LastRecordsKept
<1>1. LogInv => LastRecordsKept
  BY FileFacts DEF LogInv, KeptInv, LastRecordsKept, Files
<1> QED
  BY <1>1, LogInvariant, PTL

(* While spsiread1 or spsiread2 uploads a file no thread changes a file. *)
THEOREM UploadsAreStable == Spec => UploadIsStable
<1>1. LogInv /\ [Next]_vars =>
        [reading # "none" /\ reading' = reading => UNCHANGED csv]_vars
  <2> SUFFICES ASSUME LogInv, Next, reading # "none", reading' = reading
               PROVE  UNCHANGED csv
    BY DEF vars
  <2>1. owner \notin Writers /\ main = "up" /\ erasing = "none"
    BY LogAssumption DEF LogInv, MutexInv
  <2>2. \A w \in Writers : wpc[w] = "idle"
    BY <2>1, IdleUnlessOwned
  <2>3. /\ ~ClearId /\ ~SetUpFiles /\ ~ShellTitle
        /\ \A w \in Writers : ~TurnOver(w) /\ ~WriteRecord(w)
        /\ \A f \in Files : ~ShellErase(f)
    BY <2>1, <2>2 DEF ClearId, SetUpFiles, ShellTitle, TurnOver, WriteRecord, ShellErase
  <2> QED
    BY <2>3 DEF Next, ReadBoot, TakeNumber, Busy, SaveNumber, ReadStart, ReadEnd, Hold, Crash,
                flashVars
<1> QED
  BY <1>1, LogInvariant, PTL DEF Spec, UploadIsStable

-----------------------------------------------------------------------------
(* The order of the records in the files, where LogInv alone says nothing. *)

SetUpPcs == {"unlink_top", "title_top", "unlink_down", "title_down"}

(* Line i is the last record of a file. *)
IsLast(lines, i) ==
    lines[i] # Header /\ \A k \in DOMAIN lines : k > i => lines[k] = Header

Blank(f) == \A i \in DOMAIN csv[f] : csv[f][i] = Header

(* ID_Init leaves two files without records. *)
SetUpInv ==
    ~cut => /\ main \in {"title_top", "unlink_down", "title_down"} => Blank("top")
            /\ main = "title_down" => Blank("down")

(* No record is ahead of the one after the saved number. *)
BelowInv ==
    ~cut /\ main \notin SetUpPcs =>
        \A f \in Files : \A i \in DOMAIN csv[f] : csv[f][i] <= id + 1

(* The file that the next record goes to ends with the record before it,   *)
(* or with a first copy of it, or is blank where it begins there.          *)
EndInv ==
    ~cut /\ main \notin SetUpPcs =>
        LET g == id + 1
            lines == csv[FileOf(g)]
        IN  /\ StartsFile(g) =>
                 \A w \in Writers : wpc[w] \in {"title", "append"} => Blank(FileOf(g))
            /\ ~StartsFile(g) =>
                 \A i \in DOMAIN lines : IsLast(lines, i) => lines[i] \in {id, g}
            /\ \A w \in Writers : wpc[w] = "save" =>
                 \A i \in DOMAIN lines : IsLast(lines, i) => lines[i] = g

(* A record that is on flash with its number not saved and nobody about to *)
(* save it was left by a power failure that no repetition accounts for.    *)
RepeatInv ==
    ~cut /\ main \notin SetUpPcs /\ (\A w \in Writers : wpc[w] # "save") =>
        \A f \in Files : (\E i \in DOMAIN csv[f] : csv[f][i] = id + 1)
                            => Cardinality(Repeats(csv[f])) < crashes

OrderInv == NumbersGoUp /\ SetUpInv /\ BelowInv /\ EndInv /\ RepeatInv

-----------------------------------------------------------------------------
(* A record that starts no file goes where the one before it went. *)
LEMMA SameFile ==
    ASSUME NEW n \in Nat, ~StartsFile(n + 1)
    PROVE  FileOf(n + 1) = FileOf(n)
<1> DEFINE h == Half
           r == n % (2 * h)
<1>1. h \in Nat \ {0} /\ (n + 1) % h # 0
  BY LogAssumption DEF StartsFile
<1> HIDE DEF h
<1>2. 2 * h \in Nat \ {0}
  BY <1>1
<1>3. PICK q \in Int : n = (2 * h) * q + r
  <2>1. n = (2 * h) * (n \div (2 * h)) + (n % (2 * h)) /\ n \div (2 * h) \in Int
    BY <1>2
  <2> QED
    BY <2>1
<1>4. r \in 0 .. 2 * h - 1
  BY <1>2
<1>5. FileOf(n) = IF r < h THEN "top" ELSE "down"
  BY DEF FileOf, h
<1> HIDE DEF r
<1>6. r + 1 # h
  <2> SUFFICES ASSUME r + 1 = h PROVE FALSE
    OBVIOUS
  <2> DEFINE k == 2 * q + 1
             m == n + 1
             z == 0
  <2>1. m = h * k + z /\ k \in Int /\ z \in 0 .. h - 1 /\ m \in Nat
    BY <1>1, <1>3, <1>4
  <2> HIDE DEF k, m, z
  <2>2. m % h = z
    BY <1>1, <2>1, RemainderOf
  <2> QED
    BY <1>1, <2>2 DEF m, z
<1>7. r + 1 # 2 * h
  <2> SUFFICES ASSUME r + 1 = 2 * h PROVE FALSE
    OBVIOUS
  <2> DEFINE k == 2 * q + 2
             m == n + 1
             z == 0
  <2>1. m = h * k + z /\ k \in Int /\ z \in 0 .. h - 1 /\ m \in Nat
    BY <1>1, <1>3, <1>4
  <2> HIDE DEF k, m, z
  <2>2. m % h = z
    BY <1>1, <2>1, RemainderOf
  <2> QED
    BY <1>1, <2>2 DEF m, z
<1>8. (n + 1) % (2 * h) = r + 1
  <2>1. n + 1 = (2 * h) * q + (r + 1) /\ r + 1 \in 0 .. 2 * h - 1 /\ n + 1 \in Nat
    BY <1>1, <1>3, <1>4, <1>7
  <2> QED
    BY <1>2, <2>1, RemainderOf
<1>9. FileOf(n + 1) = IF r + 1 < h THEN "top" ELSE "down"
  BY <1>8 DEF FileOf, h
<1> QED
  BY <1>1, <1>4, <1>5, <1>6, <1>9

(* A line of a file is one of the values the file is made of. *)
LEMMA LineOf == ASSUME NEW S, NEW s \in Seq(S), NEW i \in DOMAIN s PROVE s[i] \in S
  OBVIOUS

(* The repetitions in a file are finite in number. *)
LEMMA RepeatsFinite ==
    ASSUME NEW s \in Seq(0..MaxNum)
    PROVE  IsFiniteSet(Repeats(s)) /\ Cardinality(Repeats(s)) \in Nat
<1>1. Repeats(s) \in SUBSET (1 .. Len(s)) /\ Len(s) \in Int
  BY DEF Repeats
<1>2. IsFiniteSet(1 .. Len(s))
  BY <1>1, FS_Interval
<1> QED
  BY <1>1, <1>2, FS_Subset, FS_CardinalityType

(* A file that is left alone, deleted or given a title line. *)
NoNewRecord(s, t) == t = s \/ t = << >> \/ t = Append(s, Header)

(* Whatever records it has then, it had before, in the same places. *)
LEMMA NoNewRecordFacts ==
    ASSUME NEW s \in Seq(0..MaxNum), NEW t, NoNewRecord(s, t)
    PROVE  /\ \A i \in DOMAIN t : t[i] # Header => i \in DOMAIN s /\ t[i] = s[i]
           /\ \A i, j \in DOMAIN t : Follows(t, i, j) => Follows(s, i, j)
           /\ \A i \in DOMAIN t : IsLast(t, i) => IsLast(s, i)
           /\ Cardinality(Repeats(t)) <= Cardinality(Repeats(s))
           /\ Cardinality(Repeats(t)) \in Nat
<1>1. /\ DOMAIN s = 1 .. Len(s) /\ Len(s) \in Nat
      /\ \/ DOMAIN t = {}
         \/ /\ \A i \in DOMAIN s : i \in DOMAIN t /\ t[i] = s[i]
            /\ DOMAIN t \subseteq 1 .. Len(s) + 1
            /\ \A i \in DOMAIN t : i \notin DOMAIN s => t[i] = Header
  BY DEF NoNewRecord
<1>2. ASSUME NEW i \in DOMAIN t, t[i] # Header PROVE i \in DOMAIN s /\ t[i] = s[i]
  BY <1>1, <1>2
<1>3. ASSUME NEW i \in DOMAIN t, NEW j \in DOMAIN t, Follows(t, i, j) PROVE Follows(s, i, j)
  <2>1. i \in DOMAIN s /\ j \in DOMAIN s /\ t[i] = s[i] /\ t[j] = s[j]
    BY <1>2, <1>3 DEF Follows
  <2>2. \A k \in i + 1 .. j - 1 : k \in DOMAIN s /\ t[k] = s[k]
    BY <1>1, <2>1
  <2> QED
    BY <1>3, <2>1, <2>2 DEF Follows
<1>4. ASSUME NEW i \in DOMAIN t, IsLast(t, i) PROVE IsLast(s, i)
  BY <1>1, <1>2, <1>4 DEF IsLast
<1>5. Repeats(t) \subseteq Repeats(s)
  <2> SUFFICES ASSUME NEW j \in Repeats(t) PROVE j \in Repeats(s)
    OBVIOUS
  <2>1. PICK i \in DOMAIN t : j \in DOMAIN t /\ Follows(t, i, j) /\ t[j] = t[i]
    BY DEF Repeats
  <2>2. /\ i \in DOMAIN s /\ j \in DOMAIN s /\ t[i] = s[i] /\ t[j] = s[j]
    BY <1>2, <2>1 DEF Follows
  <2> QED
    BY <1>3, <2>1, <2>2 DEF Repeats
<1>6. /\ Cardinality(Repeats(t)) <= Cardinality(Repeats(s))
      /\ Cardinality(Repeats(t)) \in Nat
  BY <1>5, RepeatsFinite, FS_Subset, FS_CardinalityType
<1> QED
  BY <1>2, <1>3, <1>4, <1>6

(* A file that gets the record x. *)
NewRecord(s, x, t) == t = Append(s, x)

(* A record that is appended follows the last one, and repeats it or not. *)
LEMMA NewRecordFacts ==
    ASSUME NEW s \in Seq(0..MaxNum), NEW x \in Nat \ {0}, NEW t, NewRecord(s, x, t)
    PROVE  /\ DOMAIN t = 1 .. Len(s) + 1 /\ t[Len(s) + 1] = x
           /\ \A i \in DOMAIN s : i \in DOMAIN t /\ t[i] = s[i]
           /\ \A i, j \in DOMAIN t : Follows(t, i, j) =>
                \/ i \in DOMAIN s /\ j \in DOMAIN s /\ Follows(s, i, j)
                \/ i \in DOMAIN s /\ j = Len(s) + 1 /\ IsLast(s, i)
           /\ \A i \in DOMAIN t : IsLast(t, i) => t[i] = x
           /\ Cardinality(Repeats(t)) <= Cardinality(Repeats(s)) + 1
           /\ (\A i \in DOMAIN s : s[i] # x) => Cardinality(Repeats(t)) <= Cardinality(Repeats(s))
<1> DEFINE n == Len(s) + 1
<1>1. /\ DOMAIN s = 1 .. Len(s) /\ Len(s) \in Nat
      /\ DOMAIN t = 1 .. n /\ t[n] = x
      /\ \A i \in DOMAIN s : i \in DOMAIN t /\ t[i] = s[i]
  BY DEF NewRecord
<1>2. x # Header
  BY DEF Header
<1>3. ASSUME NEW i \in DOMAIN t, NEW j \in DOMAIN t, Follows(t, i, j)
      PROVE  \/ i \in DOMAIN s /\ j \in DOMAIN s /\ Follows(s, i, j)
             \/ i \in DOMAIN s /\ j = n /\ IsLast(s, i)
  <2>1. i \in DOMAIN s /\ t[i] = s[i] /\ s[i] # Header
    BY <1>1, <1>3 DEF Follows
  <2>2. CASE j = n
    <3>1. \A k \in DOMAIN s : k > i => k \in i + 1 .. j - 1 /\ t[k] = s[k]
      BY <1>1, <2>1, <2>2
    <3> QED
      BY <1>3, <2>1, <2>2, <3>1 DEF Follows, IsLast
  <2>3. CASE j # n
    <3>1. j \in DOMAIN s /\ t[j] = s[j]
      BY <1>1, <2>3
    <3>2. \A k \in i + 1 .. j - 1 : k \in DOMAIN s /\ t[k] = s[k]
      BY <1>1, <2>1, <3>1
    <3> QED
      BY <1>3, <2>1, <3>1, <3>2 DEF Follows
  <2> QED
    BY <2>2, <2>3
<1>4. ASSUME NEW i \in DOMAIN t, IsLast(t, i) PROVE t[i] = x
  BY <1>1, <1>2, <1>4 DEF IsLast
<1>5. ASSUME NEW j \in Repeats(t)
      PROVE  j \in Repeats(s) \/ (j = n /\ \E i \in DOMAIN s : s[i] = x)
  <2>1. PICK i \in DOMAIN t : j \in DOMAIN t /\ Follows(t, i, j) /\ t[j] = t[i]
    BY <1>5 DEF Repeats
  <2>2. CASE i \in DOMAIN s /\ j \in DOMAIN s /\ Follows(s, i, j)
    BY <1>1, <2>1, <2>2 DEF Repeats
  <2>3. CASE i \in DOMAIN s /\ j = n
    BY <1>1, <2>1, <2>3
  <2> QED
    BY <1>3, <2>1, <2>2, <2>3
<1>6. Cardinality(Repeats(t)) <= Cardinality(Repeats(s)) + 1
  <2>1. Repeats(t) \in SUBSET (Repeats(s) \cup {n})
    BY <1>5
  <2>2. /\ IsFiniteSet(Repeats(s) \cup {n}) /\ Cardinality(Repeats(s)) \in Nat
        /\ Cardinality(Repeats(s) \cup {n}) <= Cardinality(Repeats(s)) + 1
    <3>1. IsFiniteSet(Repeats(s)) /\ Cardinality(Repeats(s)) \in Nat
      BY RepeatsFinite
    <3>2. /\ IsFiniteSet(Repeats(s) \cup {n})
          /\ Cardinality(Repeats(s) \cup {n})
               = IF n \in Repeats(s) THEN Cardinality(Repeats(s)) ELSE Cardinality(Repeats(s)) + 1
      BY <3>1, FS_AddElement
    <3> QED
      BY <3>1, <3>2
  <2>3. /\ IsFiniteSet(Repeats(t))
        /\ Cardinality(Repeats(t)) <= Cardinality(Repeats(s) \cup {n})
    BY <2>1, <2>2, FS_Subset
  <2>4. Cardinality(Repeats(t)) \in Nat /\ Cardinality(Repeats(s) \cup {n}) \in Nat
    BY <2>2, <2>3, FS_CardinalityType
  <2> QED
    BY <2>2, <2>3, <2>4
<1>7. ASSUME \A i \in DOMAIN s : s[i] # x
      PROVE  Cardinality(Repeats(t)) <= Cardinality(Repeats(s))
  <2>1. Repeats(t) \in SUBSET Repeats(s)
    BY <1>5, <1>7
  <2> QED
    BY <2>1, RepeatsFinite, FS_Subset
<1> QED
  BY <1>1, <1>3, <1>4, <1>6, <1>7

-----------------------------------------------------------------------------
(* Files that get no record keep their order. *)
LEMMA GoesUpStays ==
    ASSUME TypeOK, NumbersGoUp, cut' = cut, crashes' = crashes,
           \A f \in Files : NoNewRecord(csv[f], csv'[f])
    PROVE  NumbersGoUp'
<1> SUFFICES ASSUME ~cut, NEW f \in Files
             PROVE  /\ \A i, j \in DOMAIN csv'[f] : Follows(csv'[f], i, j)
                         => csv'[f][j] \in {csv'[f][i], csv'[f][i] + 1}
                    /\ Cardinality(Repeats(csv'[f])) <= crashes
  BY DEF NumbersGoUp, Follows, Repeats, Header
<1> DEFINE s == csv[f]
           t == csv'[f]
<1>1. s \in Seq(0..MaxNum) /\ crashes \in Nat
  BY DEF TypeOK
<1>2. /\ \A i, j \in DOMAIN s : Follows(s, i, j) => s[j] \in {s[i], s[i] + 1}
      /\ Cardinality(Repeats(s)) <= crashes
  BY DEF NumbersGoUp
<1>3. NoNewRecord(s, t)
  OBVIOUS
<1> HIDE DEF s, t
<1>4. /\ \A i \in DOMAIN t : t[i] # Header => i \in DOMAIN s /\ t[i] = s[i]
      /\ \A i, j \in DOMAIN t : Follows(t, i, j) => Follows(s, i, j)
      /\ Cardinality(Repeats(t)) <= Cardinality(Repeats(s))
      /\ Cardinality(Repeats(t)) \in Nat
  BY <1>1, <1>3, NoNewRecordFacts
<1>5. ASSUME NEW i \in DOMAIN t, NEW j \in DOMAIN t, Follows(t, i, j)
      PROVE  t[j] \in {t[i], t[i] + 1}
  <2>1. i \in DOMAIN s /\ j \in DOMAIN s /\ t[i] = s[i] /\ t[j] = s[j]
    BY <1>4, <1>5 DEF Follows
  <2> QED
    BY <1>2, <1>4, <1>5, <2>1
<1>6. Cardinality(Repeats(t)) <= crashes
  <2>1. Cardinality(Repeats(s)) \in Nat
    BY <1>1, RepeatsFinite
  <2> QED
    BY <1>1, <1>2, <1>4, <2>1
<1> QED
  BY <1>5, <1>6 DEF t

(* The steps that write no record and do not move the saved number. *)
LEMMA OrderStays ==
    ASSUME TypeOK, OrderInv, main \notin SetUpPcs, main' \notin SetUpPcs,
           UNCHANGED <<id, cut, crashes>>,
           \A f \in Files : NoNewRecord(csv[f], csv'[f]),
           \A w \in Writers : wpc'[w] \in {"title", "append"} =>
               wpc[w] \in {"title", "append"} \/ ~StartsFile(id + 1) \/ Blank(FileOf(id + 1))',
           \A w \in Writers : wpc'[w] = "save" <=> wpc[w] = "save"
    PROVE  OrderInv'
<1>1. NumbersGoUp'
  BY GoesUpStays DEF OrderInv
<1>2. SetUpInv'
  BY DEF SetUpInv, SetUpPcs
<1> SUFFICES ASSUME ~cut PROVE BelowInv' /\ EndInv' /\ RepeatInv'
  BY <1>1, <1>2 DEF OrderInv, BelowInv, EndInv, RepeatInv
<1>3. \A f \in Files :
        /\ csv[f] \in Seq(0..MaxNum)
        /\ \A i \in DOMAIN csv'[f] : csv'[f][i] # Header
              => i \in DOMAIN csv[f] /\ csv'[f][i] = csv[f][i]
        /\ \A i \in DOMAIN csv'[f] : IsLast(csv'[f], i) => IsLast(csv[f], i)
        /\ Cardinality(Repeats(csv'[f])) <= Cardinality(Repeats(csv[f]))
        /\ Cardinality(Repeats(csv'[f])) \in Nat
  BY NoNewRecordFacts DEF TypeOK
<1>4. id \in Nat /\ crashes \in Nat
  BY DEF TypeOK
<1>5. BelowInv'
  <2> SUFFICES ASSUME NEW f \in Files, NEW i \in DOMAIN csv'[f]
               PROVE  csv'[f][i] <= id + 1
    BY DEF BelowInv
  <2>1. CASE csv'[f][i] = Header
    BY <1>4, <2>1 DEF Header
  <2>2. CASE csv'[f][i] # Header
    BY <1>3, <2>2 DEF OrderInv, BelowInv
  <2> QED
    BY <2>1, <2>2
<1>6. EndInv'
  <2> DEFINE g == id + 1
             F == FileOf(g)
  <2>1. F \in Files /\ FileOf(id' + 1) = F /\ (StartsFile(id' + 1) <=> StartsFile(g))
    BY FileFacts
  <2> HIDE DEF F
  <2>2. ASSUME StartsFile(g), NEW w \in Writers, wpc'[w] \in {"title", "append"}
        PROVE  \A i \in DOMAIN csv'[F] : csv'[F][i] = Header
    <3>1. CASE wpc[w] \in {"title", "append"}
      <4>1. \A i \in DOMAIN csv[F] : csv[F][i] = Header
        BY <2>2, <3>1 DEF OrderInv, EndInv, Blank, F
      <4> QED
        BY <1>3, <2>1, <4>1
    <3>2. CASE Blank(FileOf(id + 1))'
      BY <2>1, <3>2 DEF Blank, Header
    <3> QED
      BY <2>2, <3>1, <3>2
  <2>3. ASSUME ~StartsFile(g), NEW i \in DOMAIN csv'[F], IsLast(csv'[F], i)
        PROVE  csv'[F][i] \in {id, g}
    <3>1. i \in DOMAIN csv[F] /\ csv'[F][i] = csv[F][i] /\ IsLast(csv[F], i)
      BY <1>3, <2>1, <2>3 DEF IsLast
    <3> QED
      BY <2>3, <3>1 DEF OrderInv, EndInv, F
  <2>4. ASSUME NEW w \in Writers, wpc'[w] = "save",
               NEW i \in DOMAIN csv'[F], IsLast(csv'[F], i)
        PROVE  csv'[F][i] = g
    <3>1. i \in DOMAIN csv[F] /\ csv'[F][i] = csv[F][i] /\ IsLast(csv[F], i)
      BY <1>3, <2>1, <2>4 DEF IsLast
    <3>2. wpc[w] = "save"
      BY <2>4
    <3> QED
      BY <3>1, <3>2 DEF OrderInv, EndInv, F
  <2> QED
    BY <2>1, <2>2, <2>3, <2>4 DEF EndInv, Blank, IsLast, Header
<1>7. RepeatInv'
  <2> SUFFICES ASSUME \A w \in Writers : wpc'[w] # "save",
                      NEW f \in Files, NEW i \in DOMAIN csv'[f], csv'[f][i] = id + 1
               PROVE  Cardinality(Repeats(csv'[f])) < crashes
    BY DEF RepeatInv, Repeats, Follows, Header
  <2>1. i \in DOMAIN csv[f] /\ csv[f][i] = id + 1
    BY <1>3, <1>4 DEF Header
  <2>2. Cardinality(Repeats(csv[f])) < crashes
    BY <2>1 DEF OrderInv, RepeatInv
  <2>3. Cardinality(Repeats(csv[f])) \in Nat
    BY <1>3, RepeatsFinite
  <2> QED
    BY <1>3, <1>4, <2>2, <2>3
<1> QED
  BY <1>5, <1>6, <1>7

LEMMA InitOrder == Init => OrderInv
<1> SUFFICES ASSUME Init PROVE OrderInv
  OBVIOUS
<1>1. \A f \in Files : csv[f] = << >>
  BY DEF Init
<1>2. \A f \in Files : DOMAIN csv[f] = {}
  BY <1>1
<1>3. NumbersGoUp
  <2>1. \A f \in Files : Repeats(csv[f]) = {}
    BY <1>2 DEF Repeats
  <2>2. \A f \in Files : Cardinality(Repeats(csv[f])) = 0
    BY <2>1, FS_EmptySet
  <2> QED
    BY <1>2, <2>2 DEF NumbersGoUp, Init
<1>4. SetUpInv
  BY DEF SetUpInv, Init
<1>5. BelowInv /\ RepeatInv
  BY <1>2 DEF BelowInv, RepeatInv
<1>6. EndInv
  BY <1>2, FileFacts DEF EndInv, Init
<1> QED
  BY <1>3, <1>4, <1>5, <1>6 DEF OrderInv

(* An unchanged file, a deletion and a title line bring no record. *)
LEMMA NoRecordSteps ==
    ASSUME TypeOK
    PROVE  /\ UNCHANGED csv => \A f \in Files : NoNewRecord(csv[f], csv'[f])
           /\ \A e \in Files : Unlink(e) =>
                /\ \A f \in Files : NoNewRecord(csv[f], csv'[f])
                /\ Blank(e)'
           /\ \A e \in Files : AppendLine(e, Header) =>
                /\ \A f \in Files : NoNewRecord(csv[f], csv'[f])
                /\ \A f \in Files : Blank(f) => Blank(f)'
<1>1. csv \in [Files -> Seq(0..MaxNum)]
  BY DEF TypeOK
<1>2. ASSUME UNCHANGED csv PROVE \A f \in Files : NoNewRecord(csv[f], csv'[f])
  BY <1>2 DEF NoNewRecord
<1>3. ASSUME NEW e \in Files, Unlink(e)
      PROVE  (\A f \in Files : NoNewRecord(csv[f], csv'[f])) /\ Blank(e)'
  <2>1. csv'[e] = << >> /\ \A f \in Files \ {e} : csv'[f] = csv[f]
    BY <1>1, <1>3 DEF Unlink
  <2>2. DOMAIN csv'[e] = {}
    BY <2>1
  <2> QED
    BY <2>1, <2>2 DEF NoNewRecord, Blank
<1>4. ASSUME NEW e \in Files, AppendLine(e, Header)
      PROVE  /\ \A f \in Files : NoNewRecord(csv[f], csv'[f])
             /\ \A f \in Files : Blank(f) => Blank(f)'
  <2>1. csv'[e] = Append(csv[e], Header) /\ \A f \in Files \ {e} : csv'[f] = csv[f]
    BY <1>1, <1>4 DEF AppendLine
  <2>2. \A f \in Files : NoNewRecord(csv[f], csv'[f])
    BY <2>1 DEF NoNewRecord
  <2>3. ASSUME NEW f \in Files, Blank(f) PROVE Blank(f)'
    <3>1. \A i \in DOMAIN csv'[f] : csv'[f][i] # Header
             => i \in DOMAIN csv[f] /\ csv'[f][i] = csv[f][i]
      BY <1>1, <2>2, NoNewRecordFacts
    <3> QED
      BY <2>3, <3>1 DEF Blank, Header
  <2> QED
    BY <2>2, <2>3
<1> QED
  BY <1>2, <1>3, <1>4

(* ID_Init, from the clearing of the number to the second title line. *)
LEMMA SetUpOrder ==
    ASSUME LogInv, LogInv', OrderInv, ClearId \/ SetUpFiles PROVE OrderInv'
<1>1. TypeOK /\ "top" \in Files /\ "down" \in Files
  BY DEF LogInv, Files
<1>2. /\ \A f \in Files : NoNewRecord(csv[f], csv'[f])
      /\ cut' = cut /\ crashes' = crashes
  BY <1>1, NoRecordSteps DEF ClearId, SetUpFiles, histVars
<1>3. NumbersGoUp'
  BY <1>1, <1>2, GoesUpStays DEF OrderInv
<1>4. SetUpInv'
  <2> SUFFICES ASSUME ~cut
               PROVE  /\ main' \in {"title_top", "unlink_down", "title_down"} => Blank("top")'
                      /\ main' = "title_down" => Blank("down")'
    BY <1>2 DEF SetUpInv
  <2>1. CASE ClearId
    BY <2>1 DEF ClearId
  <2>2. CASE main = "unlink_top" /\ Unlink("top") /\ main' = "title_top"
    BY <1>1, <2>2, NoRecordSteps
  <2>3. CASE main = "title_top" /\ AppendLine("top", Header) /\ main' = "unlink_down"
    BY <1>1, <2>3, NoRecordSteps DEF OrderInv, SetUpInv
  <2>4. CASE main = "unlink_down" /\ Unlink("down") /\ main' = "title_down"
    <3>1. csv'["top"] = csv["top"]
      BY <1>1, <2>4 DEF Unlink, TypeOK
    <3> QED
      BY <1>1, <2>4, <3>1, NoRecordSteps DEF OrderInv, SetUpInv, Blank
  <2>5. CASE main' = "up"
    BY <2>5
  <2> QED
    BY <2>1, <2>2, <2>3, <2>4, <2>5 DEF SetUpFiles
<1>5. ASSUME main' \notin SetUpPcs, ~cut
      PROVE  \A f \in Files : \A i \in DOMAIN csv'[f] : csv'[f][i] = Header
  <2>1. main = "title_down" /\ AppendLine("down", Header)
    BY <1>5 DEF ClearId, SetUpFiles, SetUpPcs
  <2>2. Blank("top") /\ Blank("down")
    BY <1>5, <2>1 DEF OrderInv, SetUpInv
  <2>3. Blank("top")' /\ Blank("down")'
    BY <1>1, <2>1, <2>2, NoRecordSteps
  <2> QED
    BY <2>3 DEF Blank, Files, Header
<1>6. BelowInv' /\ RepeatInv'
  <2>1. id' \in Nat /\ Header # id' + 1 /\ Header <= id' + 1
    <3>1. id' \in 0..MaxNum
      BY DEF LogInv, TypeOK
    <3>2. id' \in Nat
      BY <3>1, LogAssumption
    <3>3. \A n \in Nat : 0 # n + 1 /\ 0 <= n + 1
      OBVIOUS
    <3> QED
      BY <3>2, <3>3 DEF Header
  <2> QED
    BY <1>2, <1>5, <2>1 DEF BelowInv, RepeatInv, Header
<1>7. EndInv'
  <2>1. FileOf(id' + 1) \in Files
    BY FileFacts
  <2> QED
    BY <1>2, <1>5, <2>1 DEF EndInv, Blank, IsLast, Header
<1> QED
  BY <1>3, <1>4, <1>6, <1>7 DEF OrderInv

(* The steps that neither write a record nor save a number. *)
LEMMA QuietOrder ==
    ASSUME LogInv, OrderInv,
           \/ ReadBoot \/ ReadEnd \/ ShellTitle \/ Hold
           \/ \E w \in Writers : TakeNumber(w) \/ Busy(w) \/ TurnOver(w)
           \/ \E f \in Files : ReadStart(f) \/ ShellErase(f)
    PROVE  OrderInv'
<1>1. TypeOK /\ wpc \in [Writers -> WriterPcs]
  BY DEF LogInv, TypeOK
<1>2. main \notin SetUpPcs /\ main' \notin SetUpPcs /\ UNCHANGED <<id, cut, crashes>>
  <2>1. CASE \E w \in Writers : TurnOver(w)
    <3>1. PICK w \in Writers : TurnOver(w)
      BY <2>1
    <3>2. main = "up"
      BY <3>1, AloneInSection DEF TurnOver
    <3> QED
      BY <3>1, <3>2 DEF TurnOver, histVars, SetUpPcs
  <2>2. CASE ReadEnd
    BY <2>2 DEF ReadEnd, LogInv, MutexInv, flashVars, histVars, SetUpPcs
  <2>3. CASE ShellTitle
    BY <2>3 DEF ShellTitle, LogInv, MutexInv, histVars, SetUpPcs
  <2> QED
    BY <2>1, <2>2, <2>3 DEF ReadBoot, Hold, TakeNumber, Busy, ReadStart, ShellErase,
                            flashVars, histVars, SetUpPcs
<1>3. \A f \in Files : NoNewRecord(csv[f], csv'[f])
  <2>1. ASSUME NEW w \in Writers, TurnOver(w) PROVE \A f \in Files : NoNewRecord(csv[f], csv'[f])
    BY <1>1, <2>1, FileFacts, NoRecordSteps DEF TurnOver
  <2>2. ASSUME ShellTitle PROVE \A f \in Files : NoNewRecord(csv[f], csv'[f])
    BY <1>1, <2>2, NoRecordSteps DEF ShellTitle, TypeOK
  <2>3. ASSUME NEW e \in Files, ShellErase(e) PROVE \A f \in Files : NoNewRecord(csv[f], csv'[f])
    BY <1>1, <2>3, NoRecordSteps DEF ShellErase
  <2> QED
    BY <1>1, <2>1, <2>2, <2>3, NoRecordSteps
    DEF ReadBoot, ReadEnd, Hold, TakeNumber, Busy, ReadStart, flashVars
<1>4. CASE wpc' = wpc
  BY <1>1, <1>2, <1>3, <1>4, OrderStays
<1>5. ASSUME NEW w \in Writers, TakeNumber(w) PROVE OrderInv'
  <2>1. Global_Nums = id
    BY <1>5, LogAssumption DEF TakeNumber, LogInv, TypeOK, NumberInv, SavedNumberCurrent
  <2>2. wpc' = [wpc EXCEPT ![w] = IF StartsFile(id + 1) THEN "unlink" ELSE "append"]
    BY <1>5, <2>1 DEF TakeNumber, Goto
  <2>3. \A v \in Writers : /\ wpc'[v] = "save" <=> wpc[v] = "save"
                           /\ wpc'[v] \in {"title", "append"} =>
                                wpc[v] \in {"title", "append"} \/ ~StartsFile(id + 1)
    BY <1>1, <1>5, <2>2 DEF TakeNumber
  <2> QED
    BY <1>1, <1>2, <1>3, <2>3, OrderStays
<1>6. ASSUME NEW w \in Writers, TurnOver(w) PROVE OrderInv'
  <2>1. Global_Nums = id + 1
    BY <1>6, AloneInSection DEF TurnOver
  <2>2. CASE wpc[w] = "unlink" /\ Unlink(FileOf(Global_Nums)) /\ Goto(w, "title")
    <3>1. Blank(FileOf(id + 1))'
      <4> DEFINE F == FileOf(id + 1)
      <4>1. F \in Files /\ F' = F /\ Unlink(F)
        BY <1>2, <2>1, <2>2, FileFacts DEF FileOf
      <4> HIDE DEF F
      <4>2. \A i \in DOMAIN csv'[F] : csv'[F][i] = Header
        BY <1>1, <4>1, NoRecordSteps DEF Blank, Header
      <4> QED
        BY <4>1, <4>2 DEF Blank, F, Header
    <3>2. \A v \in Writers : wpc'[v] = "save" <=> wpc[v] = "save"
      BY <1>1, <2>2 DEF Goto
    <3> QED
      BY <1>1, <1>2, <1>3, <3>1, <3>2, OrderStays
  <2>3. CASE wpc[w] = "title" /\ Goto(w, "append")
    <3>1. \A v \in Writers : /\ wpc'[v] = "save" <=> wpc[v] = "save"
                             /\ wpc'[v] \in {"title", "append"} => wpc[v] \in {"title", "append"}
      BY <1>1, <2>3 DEF Goto
    <3> QED
      BY <1>1, <1>2, <1>3, <3>1, OrderStays
  <2> QED
    BY <1>6, <2>2, <2>3 DEF TurnOver
<1> QED
  BY <1>4, <1>5, <1>6 DEF ReadBoot, ReadEnd, ShellTitle, Hold, Busy, ReadStart, ShellErase,
                          threadVars

(* The record is written behind its predecessor, or behind a first copy of *)
(* itself that a power failure accounts for.                               *)
LEMMA WriteRecordOrder ==
    ASSUME LogInv, OrderInv, NEW w \in Writers, WriteRecord(w) PROVE OrderInv'
<1> DEFINE g == id + 1
           F == FileOf(g)
           s == csv[F]
           t == csv'[F]
<1>1. /\ TypeOK /\ csv \in [Files -> Seq(0..MaxNum)] /\ wpc \in [Writers -> WriterPcs]
      /\ id \in Nat /\ crashes \in Nat /\ wpc[w] = "append"
      /\ UNCHANGED <<id, cut, crashes, main>>
  BY DEF LogInv, TypeOK, WriteRecord, histVars
<1>2. /\ main = "up" /\ Global_Nums = g
      /\ \A v \in Writers \ {w} : wpc[v] = "idle"
  BY <1>1, AloneInSection
<1>3. /\ F \in Files /\ s \in Seq(0..MaxNum) /\ g \in Nat \ {0}
      /\ NewRecord(s, g, t) /\ \A f \in Files \ {F} : csv'[f] = csv[f]
  BY <1>1, <1>2, FileFacts DEF WriteRecord, AppendLine, NewRecord
<1>4. FileOf(id' + 1) = F /\ (StartsFile(id' + 1) <=> StartsFile(g)) /\ id' + 1 = g
  BY <1>1
<1>5. wpc' = [wpc EXCEPT ![w] = "save"]
  BY DEF WriteRecord, Goto
<1> HIDE DEF g, F, s, t
<1>6. /\ DOMAIN t = 1 .. Len(s) + 1 /\ t[Len(s) + 1] = g
      /\ \A i \in DOMAIN s : i \in DOMAIN t /\ t[i] = s[i]
      /\ \A i, j \in DOMAIN t : Follows(t, i, j) =>
           \/ i \in DOMAIN s /\ j \in DOMAIN s /\ Follows(s, i, j)
           \/ i \in DOMAIN s /\ j = Len(s) + 1 /\ IsLast(s, i)
      /\ \A i \in DOMAIN t : IsLast(t, i) => t[i] = g
      /\ Cardinality(Repeats(t)) <= Cardinality(Repeats(s)) + 1
      /\ (\A i \in DOMAIN s : s[i] # g) => Cardinality(Repeats(t)) <= Cardinality(Repeats(s))
  BY <1>3, NewRecordFacts
<1> USE DEF g, F
<1>7. SetUpInv'
  BY <1>1, <1>2 DEF SetUpInv
<1>8. RepeatInv'
  BY <1>1, <1>5 DEF RepeatInv
<1> SUFFICES ASSUME ~cut PROVE NumbersGoUp' /\ BelowInv' /\ EndInv'
  BY <1>1, <1>7, <1>8 DEF OrderInv, NumbersGoUp, BelowInv, EndInv
<1>9. main \notin SetUpPcs
  BY <1>2 DEF SetUpPcs
<1>10. \A i \in DOMAIN s : IsLast(s, i) => s[i] \in {id, g}
  <2>1. CASE StartsFile(g)
    <3>1. Blank(F)
      BY <1>1, <1>9, <2>1 DEF OrderInv, EndInv
    <3> QED
      BY <3>1 DEF Blank, IsLast, s
  <2>2. CASE ~StartsFile(g)
    BY <1>9, <2>2 DEF OrderInv, EndInv, s
  <2> QED
    BY <2>1, <2>2
<1>11. /\ \A i, j \in DOMAIN s : Follows(s, i, j) => s[j] \in {s[i], s[i] + 1}
       /\ Cardinality(Repeats(s)) <= crashes
       /\ (\E i \in DOMAIN s : s[i] = g) => Cardinality(Repeats(s)) < crashes
       /\ \A i \in DOMAIN s : s[i] <= g
  <2>1. \A v \in Writers : wpc[v] # "save"
    BY <1>1, <1>2
  <2> QED
    BY <1>3, <1>9, <2>1 DEF OrderInv, NumbersGoUp, RepeatInv, BelowInv, s
<1>12. \A i, j \in DOMAIN t : Follows(t, i, j) => t[j] \in {t[i], t[i] + 1}
  <2> SUFFICES ASSUME NEW i \in DOMAIN t, NEW j \in DOMAIN t, Follows(t, i, j)
               PROVE  t[j] \in {t[i], t[i] + 1}
    OBVIOUS
  <2>1. CASE i \in DOMAIN s /\ j \in DOMAIN s /\ Follows(s, i, j)
    BY <1>6, <1>11, <2>1
  <2>2. CASE i \in DOMAIN s /\ j = Len(s) + 1 /\ IsLast(s, i)
    <3>1. t[i] \in {id, g} /\ t[j] = g
      BY <1>6, <1>10, <2>2
    <3> QED
      BY <3>1
  <2> QED
    BY <1>6, <2>1, <2>2
<1>13. Cardinality(Repeats(t)) <= crashes
  <2>1. Cardinality(Repeats(s)) \in Nat /\ Cardinality(Repeats(t)) \in Nat
    <3>1. t \in Seq(0..MaxNum)
      <4>1. csv' \in [Files -> Seq(0..MaxNum)]
        BY WriteRecordInv DEF LogInv, TypeOK
      <4> QED
        BY <1>3, <4>1 DEF t
    <3> QED
      BY <1>3, <3>1, RepeatsFinite
  <2> QED
    BY <1>1, <1>6, <1>11, <2>1
<1>14. NumbersGoUp'
  <2> SUFFICES ASSUME NEW f \in Files
               PROVE  /\ \A i, j \in DOMAIN csv'[f] : Follows(csv'[f], i, j)
                           => csv'[f][j] \in {csv'[f][i], csv'[f][i] + 1}
                      /\ Cardinality(Repeats(csv'[f])) <= crashes
    BY <1>1 DEF NumbersGoUp, Follows, Repeats, Header
  <2>1. CASE f = F
    BY <1>12, <1>13, <2>1 DEF t
  <2>2. CASE f # F
    BY <1>3, <2>2 DEF OrderInv, NumbersGoUp
  <2> QED
    BY <2>1, <2>2
<1>15. BelowInv'
  <2> SUFFICES ASSUME NEW f \in Files, NEW i \in DOMAIN csv'[f] PROVE csv'[f][i] <= g
    BY <1>4 DEF BelowInv
  <2>1. CASE f = F
    <3>1. i \in DOMAIN t /\ csv'[f][i] = t[i]
      BY <2>1 DEF t
    <3>2. DOMAIN s = 1 .. Len(s) /\ Len(s) \in Nat
      BY <1>3
    <3>3. CASE i = Len(s) + 1
      BY <1>3, <1>6, <3>1, <3>3
    <3>4. CASE i # Len(s) + 1
      BY <1>6, <1>11, <3>1, <3>2, <3>4
    <3> QED
      BY <3>3, <3>4
  <2>2. CASE f # F
    BY <1>3, <1>9, <2>2 DEF OrderInv, BelowInv
  <2> QED
    BY <2>1, <2>2
<1>16. EndInv'
  <2>1. \A v \in Writers : wpc'[v] \notin {"title", "append"}
    BY <1>1, <1>2, <1>5
  <2>2. \A i \in DOMAIN csv'[F] : IsLast(csv'[F], i) => csv'[F][i] = g
    BY <1>6 DEF t
  <2> QED
    BY <1>1, <1>4, <2>1, <2>2 DEF EndInv, IsLast, Header
<1> QED
  BY <1>14, <1>15, <1>16

(* The next record goes to the same file, or it starts one. *)
LEMMA SaveNumberOrder ==
    ASSUME LogInv, OrderInv, NEW w \in Writers, SaveNumber(w) PROVE OrderInv'
<1> DEFINE g == id + 1
<1>1. /\ csv' = csv /\ UNCHANGED <<cut, crashes, main>> /\ id' = Global_Nums
      /\ wpc[w] = "save" /\ wpc \in [Writers -> WriterPcs] /\ id \in Nat
      /\ wpc' = [wpc EXCEPT ![w] = "idle"]
  BY DEF LogInv, TypeOK, SaveNumber, Goto, histVars
<1>2. /\ main = "up" /\ Global_Nums = g
      /\ \A v \in Writers \ {w} : wpc[v] = "idle"
  BY <1>1, AloneInSection
<1>3. id' = g /\ g \in Nat /\ main \notin SetUpPcs /\ \A v \in Writers : wpc'[v] = "idle"
  BY <1>1, <1>2 DEF SetUpPcs
<1>4. NumbersGoUp'
  BY <1>1 DEF OrderInv, NumbersGoUp, Repeats, Follows, Header
<1>5. SetUpInv'
  BY <1>1, <1>2 DEF SetUpInv
<1> SUFFICES ASSUME ~cut PROVE BelowInv' /\ EndInv' /\ RepeatInv'
  BY <1>1, <1>4, <1>5 DEF OrderInv, BelowInv, EndInv, RepeatInv
<1>6. \A f \in Files : \A i \in DOMAIN csv[f] : csv[f][i] \in Nat /\ csv[f][i] <= g
  <2>1. \A f \in Files : csv[f] \in Seq(0..MaxNum)
    BY DEF LogInv, TypeOK
  <2>2. ASSUME NEW f \in Files, NEW i \in DOMAIN csv[f] PROVE csv[f][i] \in Nat
    <3>1. csv[f][i] \in 0..MaxNum
      BY <2>1, LineOf
    <3> QED
      BY <3>1, LogAssumption
  <2> QED
    BY <1>3, <2>2 DEF OrderInv, BelowInv
<1>7. BelowInv'
  BY <1>1, <1>3, <1>6 DEF BelowInv
<1>8. RepeatInv'
  <2>1. \A f \in Files : \A i \in DOMAIN csv'[f] : csv'[f][i] # id' + 1
    BY <1>1, <1>3, <1>6
  <2> QED
    BY <2>1 DEF RepeatInv
<1>9. EndInv'
  <2> DEFINE F == FileOf(g + 1)
  <2> SUFFICES ASSUME ~StartsFile(g + 1), NEW i \in DOMAIN csv[F], IsLast(csv[F], i)
               PROVE  csv[F][i] = g
    BY <1>1, <1>3 DEF EndInv, IsLast, Header
  <2>1. F = FileOf(g)
    BY <1>3, SameFile
  <2> HIDE DEF F
  <2> QED
    BY <1>1, <1>3, <2>1 DEF OrderInv, EndInv
<1> QED
  BY <1>7, <1>8, <1>9

(* A power failure is what a copy needs. *)
LEMMA CrashOrder == ASSUME LogInv, OrderInv, Crash PROVE OrderInv'
<1>1. /\ UNCHANGED <<csv, id>> /\ crashes' = crashes + 1 /\ crashes \in Nat
      /\ main' = "start" /\ \A w \in Writers : wpc'[w] = "idle"
      /\ ~cut' => ~cut /\ main \notin SetUpPcs
  <2>1. /\ UNCHANGED <<csv, id>> /\ crashes' = crashes + 1 /\ crashes \in Nat
        /\ main' = "start" /\ \A w \in Writers : wpc'[w] = "idle"
    BY DEF LogInv, TypeOK, Crash, PowerUp, flashVars
  <2>2. cut' = (cut \/ main \in SetUpPcs)
    BY DEF Crash, SetUpPcs
  <2> QED
    BY <2>1, <2>2, Zenon
<1>2. SetUpInv'
  BY <1>1 DEF SetUpInv
<1> SUFFICES ASSUME ~cut' PROVE NumbersGoUp' /\ BelowInv' /\ EndInv' /\ RepeatInv'
  BY <1>1, <1>2 DEF OrderInv, NumbersGoUp, BelowInv, EndInv, RepeatInv
<1>3. \A f \in Files : /\ Cardinality(Repeats(csv[f])) \in Nat
                       /\ Cardinality(Repeats(csv[f])) <= crashes
  BY <1>1, RepeatsFinite DEF LogInv, TypeOK, OrderInv, NumbersGoUp
<1>4. \A f \in Files : Cardinality(Repeats(csv[f])) < crashes'
  BY <1>1, <1>3
<1>5. NumbersGoUp'
  <2>1. \A f \in Files : Cardinality(Repeats(csv[f])) <= crashes'
    BY <1>1, <1>3
  <2> QED
    BY <1>1, <2>1 DEF OrderInv, NumbersGoUp, Repeats, Follows, Header
<1>6. RepeatInv'
  BY <1>1, <1>4 DEF RepeatInv, Repeats, Follows, Header
<1>7. BelowInv'
  BY <1>1 DEF OrderInv, BelowInv
<1>8. EndInv'
  BY <1>1 DEF OrderInv, EndInv, IsLast, Header
<1> QED
  BY <1>5, <1>6, <1>7, <1>8

LEMMA StepOrder == LogInv /\ LogInv' /\ OrderInv /\ [Next]_vars => OrderInv'
<1> SUFFICES ASSUME LogInv, LogInv', OrderInv, [Next]_vars PROVE OrderInv'
  OBVIOUS
<1>1. CASE UNCHANGED vars
  BY <1>1 DEF vars, flashVars, threadVars, histVars, OrderInv, NumbersGoUp, SetUpInv, BelowInv,
              EndInv, RepeatInv, Blank, IsLast, Repeats, Follows
<1>2. CASE ClearId \/ SetUpFiles
  BY <1>2, SetUpOrder
<1>3. ASSUME NEW w \in Writers, WriteRecord(w) \/ SaveNumber(w) PROVE OrderInv'
  BY <1>3, WriteRecordOrder, SaveNumberOrder
<1>4. CASE Crash
  BY <1>4, CrashOrder
<1>5. CASE \/ ReadBoot \/ ReadEnd \/ ShellTitle \/ Hold
           \/ \E w \in Writers : TakeNumber(w) \/ Busy(w) \/ TurnOver(w)
           \/ \E f \in Files : ReadStart(f) \/ ShellErase(f)
  BY <1>5, QuietOrder
<1> QED
  BY <1>1, <1>2, <1>3, <1>4, <1>5 DEF Next

(* The numbers in a file of the log go up by one from record to record,    *)
(* and File_Output repeats a number no oftener than power failed between   *)
(* the append and Flash_IDNums_Change, unless ID_Init was cut short.       *)
THEOREM NumbersAlwaysGoUp == Spec => []NumbersGoUp
<1>1. Init => OrderInv
  BY InitOrder
<1>2. LogInv /\ LogInv' /\ OrderInv /\ [Next]_vars => OrderInv'
  BY StepOrder
<1>3. OrderInv => NumbersGoUp
  BY DEF OrderInv
<1> QED
  BY <1>1, <1>2, <1>3, LogInvariant, PTL DEF Spec

=============================================================================
