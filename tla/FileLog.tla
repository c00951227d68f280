------------------------------ MODULE FileLog -------------------------------
(***************************************************************************)
(* The record log (src/applications/file.c and flashwork.c, with the csv   *)
(* functions of src/filesystem/little.c).  Records are numbered by         *)
(* Global_Nums and appended to one of two csv files, which take turns:     *)
(* Half records to the top file, Half to the down file, the older one      *)
(* being deleted at each turn.  After each record the number is saved      *)
(* under the easyflash key "id"; the key "boot_times" says whether the     *)
(* log has been set up.  Power may fail between any two writes to flash.   *)
(*                                                                         *)
(* littlefs and easyflash are external: an append that is closed, an       *)
(* unlink and a change of a key each happen entirely or not at all.  The   *)
(* fields of a record other than its number are left out.                  *)
(***************************************************************************)
EXTENDS Naturals, Sequences, FiniteSets, SequencesExt

CONSTANTS
    Writers,      \* the threads that call File_Output
    Reader,       \* the shell thread: spsiread1/2, csv_top_init, csv_down_init
    Half,         \* records per file (200000 in the code)
    MaxNum,       \* bound on Global_Nums
    MaxCrashes,   \* bound on the power failures
    MaxHolds      \* bound on the long presses and the shell's erasures

ASSUME LogAssumption ==
    /\ Reader \notin Writers \cup {"none"} /\ "none" \notin Writers
    /\ Half \in Nat \ {0}
    /\ MaxNum \in Nat /\ MaxCrashes \in Nat /\ MaxHolds \in Nat

Header == 0                    \* the title line of a csv file
Files == {"top", "down"}

VARIABLES
    boot, id,        \* easyflash: boot_times and id (a missing key reads 0)
    csv,             \* littlefs: the lines of each file, << >> if it is absent
    Global_Nums,     \* RAM
    main,            \* where ID_Init is, "up" once the threads run
    wpc,             \* where each writer is in File_Output
    reading,         \* the file the shell is uploading
    erasing,         \* the file the shell has deleted and not yet titled
    owner,           \* the owner of spsi_read_mutex
    crashes, holds,  \* how many so far (bounds)
    erased,          \* history: the last number the shell may have erased
    cut              \* history: power failed while ID_Init cleared the log

flashVars == <<boot, id, csv>>
threadVars == <<wpc, reading, erasing, owner>>
histVars == <<erased, cut>>
vars == <<flashVars, Global_Nums, main, threadVars, crashes, holds, histVars>>

WriterPcs == {"idle", "unlink", "title", "append", "save"}
MainPcs == {"start", "id", "unlink_top", "title_top", "unlink_down", "title_down", "up"}

TypeOK ==
    /\ boot \in {0, 1} /\ id \in 0..MaxNum
    /\ csv \in [Files -> Seq(0..MaxNum)]
    /\ Global_Nums \in 0..MaxNum
    /\ main \in MainPcs
    /\ wpc \in [Writers -> WriterPcs]
    /\ reading \in Files \cup {"none"} /\ erasing \in Files \cup {"none"}
    /\ owner \in Writers \cup {Reader, "none"}
    /\ crashes \in 0..MaxCrashes /\ holds \in 0..MaxHolds
    /\ erased \in 0..MaxNum /\ cut \in BOOLEAN

(* RAM and threads after power-up. *)
PowerUp ==
    /\ Global_Nums' = 0
    /\ main' = "start"
    /\ wpc' = [w \in Writers |-> "idle"]
    /\ reading' = "none" /\ erasing' = "none" /\ owner' = "none"

Init ==
    /\ boot = 0 /\ id = 0
    /\ csv = [f \in Files |-> << >>]
    /\ Global_Nums = 0
    /\ main = "start"
    /\ wpc = [w \in Writers |-> "idle"]
    /\ reading = "none" /\ erasing = "none" /\ owner = "none"
    /\ crashes = 0 /\ holds = 0
    /\ erased = 0 /\ cut = FALSE

-----------------------------------------------------------------------------
(* little.c: csv_top_init / csv_down_init are an unlink and the write of   *)
(* the title line; write_csv_top / write_csv_down append, creating the     *)
(* file if it is absent.                                                   *)
Unlink(f) == csv' = [csv EXCEPT ![f] = << >>]
AppendLine(f, line) == csv' = [csv EXCEPT ![f] = Append(@, line)]

(* file.c: the file record n belongs to, and whether n starts it. *)
FileOf(n) == IF n % (2 * Half) < Half THEN "top" ELSE "down"
StartsFile(n) == n % Half = 0

-----------------------------------------------------------------------------
(* ID_Init, called by main before any thread is started.                   *)

(* Mutant of ReadBoot: the number is not read back. *)
ReadBootForgets ==
    /\ main = "start"
    /\ IF boot = 0
       THEN boot' = 1 /\ main' = "id"
       ELSE main' = "up" /\ UNCHANGED boot
    /\ UNCHANGED <<id, csv, Global_Nums, threadVars, crashes, holds, histVars>>

ReadBoot ==
    /\ main = "start"
    /\ IF boot = 0
       THEN boot' = 1 /\ main' = "id" /\ UNCHANGED Global_Nums
       ELSE Global_Nums' = id /\ main' = "up" /\ UNCHANGED boot
    /\ UNCHANGED <<id, csv, threadVars, crashes, holds, histVars>>

ClearId ==
    /\ main = "id"
    /\ id' = 0
    /\ main' = "unlink_top"
    /\ erased' = 0
    /\ UNCHANGED <<boot, csv, Global_Nums, threadVars, crashes, holds, cut>>

(* csv_top_init(); csv_down_init(); *)
SetUpFiles ==
    /\ \/ main = "unlink_top"  /\ Unlink("top")  /\ main' = "title_top"
       \/ main = "title_top"   /\ AppendLine("top", Header)  /\ main' = "unlink_down"
       \/ main = "unlink_down" /\ Unlink("down") /\ main' = "title_down"
       \/ main = "title_down"  /\ AppendLine("down", Header) /\ main' = "up"
    /\ UNCHANGED <<boot, id, Global_Nums, threadVars, crashes, holds, histVars>>

-----------------------------------------------------------------------------
(* File_Output.                                                            *)

Goto(w, label) == wpc' = [wpc EXCEPT ![w] = label]

(* rt_mutex_trytake succeeds and the number is taken. *)
TakeNumber(w) ==
    /\ main = "up" /\ wpc[w] = "idle" /\ owner = "none"
    /\ Global_Nums < MaxNum
    /\ owner' = w
    /\ Global_Nums' = Global_Nums + 1
    /\ Goto(w, IF StartsFile(Global_Nums + 1) THEN "unlink" ELSE "append")
    /\ UNCHANGED <<flashVars, main, reading, erasing, crashes, holds, histVars>>

(* Mutant of Busy: the mutex is released by a thread that does not own it. *)
BusyReleases(w) ==
    /\ main = "up" /\ wpc[w] = "idle" /\ owner # "none"
    /\ owner' = "none"
    /\ UNCHANGED <<flashVars, Global_Nums, main, wpc, reading, erasing, crashes, holds, erased, cut>>

(* rt_mutex_trytake fails: the call logs an error and returns, and the     *)
(* record is lost.  Its rt_mutex_release is refused, because the caller is *)
(* not the owner.                                                          *)
Busy(w) ==
    /\ main = "up" /\ wpc[w] = "idle" /\ owner # "none"
    /\ UNCHANGED <<flashVars, Global_Nums, main, threadVars, crashes, holds, histVars>>

(* Mutant of TurnOver: the file that is deleted is the one just filled. *)
TurnOverWrongFile(w) ==
    /\ \/ /\ wpc[w] = "unlink"
          /\ csv' = [csv EXCEPT ![CHOOSE f \in Files : f # FileOf(Global_Nums)] = << >>]
          /\ Goto(w, "title")
       \/ wpc[w] = "title"  /\ AppendLine(FileOf(Global_Nums), Header) /\ Goto(w, "append")
    /\ UNCHANGED <<boot, id, Global_Nums, main, reading, erasing, owner, crashes, holds, histVars>>

(* The file the record starts is deleted and gets its title line. *)
TurnOver(w) ==
    /\ \/ wpc[w] = "unlink" /\ Unlink(FileOf(Global_Nums)) /\ Goto(w, "title")
       \/ wpc[w] = "title"  /\ AppendLine(FileOf(Global_Nums), Header) /\ Goto(w, "append")
    /\ UNCHANGED <<boot, id, Global_Nums, main, reading, erasing, owner, crashes, holds, histVars>>

WriteRecord(w) ==
    /\ wpc[w] = "append"
    /\ AppendLine(FileOf(Global_Nums), Global_Nums)
    /\ Goto(w, "save")
    /\ UNCHANGED <<boot, id, Global_Nums, main, reading, erasing, owner, crashes, holds, histVars>>

(* Mutant of SaveNumber: the number of the next record is saved. *)
SaveNumberNext(w) ==
    /\ wpc[w] = "save"
    /\ id' = Global_Nums + 1
    /\ Goto(w, "idle")
    /\ owner' = "none"
    /\ UNCHANGED <<boot, csv, Global_Nums, main, reading, erasing, crashes, holds, histVars>>

(* Flash_IDNums_Change, then the release of the mutex. *)
SaveNumber(w) ==
    /\ wpc[w] = "save"
    /\ id' = Global_Nums
    /\ Goto(w, "idle")
    /\ owner' = "none"
    /\ UNCHANGED <<boot, csv, Global_Nums, main, reading, erasing, crashes, holds, histVars>>

-----------------------------------------------------------------------------
(* spsiread1 / spsiread2, after long_upload and the 500 ms.                *)

ReadStart(f) ==
    /\ main = "up" /\ reading = "none" /\ erasing = "none" /\ owner = "none"
    /\ owner' = Reader
    /\ reading' = f
    /\ UNCHANGED <<flashVars, Global_Nums, main, wpc, erasing, crashes, holds, histVars>>

ReadEnd ==
    /\ reading # "none"
    /\ reading' = "none"
    /\ owner' = IF owner = Reader THEN "none" ELSE owner
    /\ UNCHANGED <<flashVars, Global_Nums, main, wpc, erasing, crashes, holds, histVars>>

(* The shell command csv_top_init or csv_down_init.  It takes no mutex, so *)
(* it may come in the middle of a File_Output, and the other way round.    *)
ShellErase(f) ==
    /\ main = "up" /\ reading = "none" /\ erasing = "none" /\ holds < MaxHolds
    /\ holds' = holds + 1
    /\ Unlink(f)
    /\ erasing' = f
    /\ erased' = Global_Nums
    /\ UNCHANGED <<boot, id, Global_Nums, main, wpc, reading, owner, crashes, cut>>

ShellTitle ==
    /\ erasing # "none"
    /\ AppendLine(erasing, Header)
    /\ erasing' = "none"
    /\ UNCHANGED <<boot, id, Global_Nums, main, wpc, reading, owner, crashes, holds, histVars>>

-----------------------------------------------------------------------------
(* test_hold_callback: the reboot that follows is a Crash. *)
Hold ==
    /\ main = "up" /\ holds < MaxHolds
    /\ holds' = holds + 1
    /\ boot' = 0
    /\ UNCHANGED <<id, csv, Global_Nums, main, threadVars, crashes, histVars>>

(* Power failure or reboot. *)
Crash ==
    /\ crashes < MaxCrashes
    /\ crashes' = crashes + 1
    /\ cut' = (cut \/ main \in {"unlink_top", "title_top", "unlink_down", "title_down"})
    /\ PowerUp
    /\ UNCHANGED <<flashVars, holds, erased>>

Next ==
    \/ ReadBoot \/ ClearId \/ SetUpFiles
    \/ \E w \in Writers : TakeNumber(w) \/ Busy(w) \/ TurnOver(w) \/ WriteRecord(w) \/ SaveNumber(w)
    \/ \E f \in Files : ReadStart(f) \/ ShellErase(f)
    \/ ReadEnd \/ ShellTitle \/ Hold \/ Crash

Spec == Init /\ [][Next]_vars

-----------------------------------------------------------------------------
(* Properties.                                                             *)

Lines(f) == ToSet(csv[f])

(* Line j of a file is the record after the one in line i. *)
Follows(lines, i, j) ==
    /\ i < j /\ lines[i] # Header /\ lines[j] # Header
    /\ \A k \in i + 1 .. j - 1 : lines[k] = Header

(* The lines that repeat the number of the record before them. *)
Repeats(lines) ==
    {j \in DOMAIN lines : \E i \in DOMAIN lines : Follows(lines, i, j) /\ lines[j] = lines[i]}

(* Wherever power fails, also within a turn of the files or a factory      *)
(* reset, the last Half records whose number was saved are on flash, but   *)
(* for those the operator has erased.                                      *)
LastRecordsKept ==
    \A n \in erased + 1 .. id : n + Half > id => n \in Lines("top") \cup Lines("down")

(* The numbers of a file go up by one from record to record; a number      *)
(* occurs twice only where power failed between the append and the save,   *)
(* so no oftener than power failed.  This does not hold once ID_Init was   *)
(* cut short after it had cleared the number: the old files remain.        *)
NumbersGoUp ==
    ~cut => \A f \in Files :
        /\ \A i, j \in DOMAIN csv[f] :
             Follows(csv[f], i, j) => csv[f][j] \in {csv[f][i], csv[f][i] + 1}
        /\ Cardinality(Repeats(csv[f])) <= crashes

(* A record is never numbered twice in one life of the program, and the    *)
(* saved number is behind by at most the record being written.             *)
SavedNumberCurrent ==
    main = "up" => Global_Nums = id + IF owner \in Writers THEN 1 ELSE 0

(* The file the shell uploads does not change during the upload. *)
UploadIsStable == [][reading # "none" /\ reading' = reading => UNCHANGED csv]_vars

=============================================================================
