------------------------------ MODULE MxFlasher -----------------------------
(***************************************************************************)
(* mx/linux/mx_flasher.c: one run of the flasher for the MX game devices,  *)
(* which erases the flash, writes a file, writes the save RAM, reads both  *)
(* back and compares.  Every command to the device may fail, before or     *)
(* after the device has carried it out, and a block may be transferred in  *)
(* part, which the program only warns about.                               *)
(*                                                                         *)
(* Sizes and addresses are in units of 64 bytes, the granularity of USB    *)
(* packets to the device; the contents of a unit, and the names stored in  *)
(* the device, are told apart by where they come from.  A command and its  *)
(* answer are one step, and so are the commands that read an id or a name. *)
(*                                                                         *)
(* An operator named ..._Bug is the definition after it with a mistake.    *)
(***************************************************************************)
EXTENDS Integers, Sequences

CONSTANTS
  Requests,   \* command lines: [info, write, erase, all, sram, mode, read, unnamed,
              \* readRam, verify : BOOLEAN, size : the file's units]
  Table,      \* the page table of the flash: [start, end, page]
  FlashUnits, \* 0x400000 bytes, two chips
  RamUnits,   \* 0x8000 * 2 bytes
  Block,      \* IO_BLK_SIZE
  RamBlock,   \* IO_RAM_BLK_SIZE
  CountMax,   \* the erase counter's last value, (u32)-1
  MaxFails,   \* bound: commands that fail
  MaxShorts   \* bound: blocks that are transferred in part

ASSUME FlasherAssumption ==
  /\ {FlashUnits, RamUnits, Block, RamBlock, CountMax} \subseteq Nat \ {0}
  /\ {MaxFails, MaxShorts} \subseteq Nat
  /\ FlashUnits % (2 * Block) = 0 /\ RamUnits % (2 * RamBlock) = 0
  /\ Requests \subseteq
       [info : BOOLEAN, write : BOOLEAN, erase : BOOLEAN, all : BOOLEAN, sram : BOOLEAN,
        mode : BOOLEAN, read : BOOLEAN, unnamed : BOOLEAN, readRam : BOOLEAN,
        verify : BOOLEAN, size : Nat]

\* The page tables cover the flash, each address once, with whole pages.
ASSUME TableAssumption ==
  /\ Table \in Seq([start : Nat, end : Nat, page : Nat \ {0}])
  /\ \A i \in DOMAIN Table :
       /\ Table[i].start <= Table[i].end /\ Table[i].end < FlashUnits
       /\ Table[i].start % Table[i].page = 0 /\ (Table[i].end + 1) % Table[i].page = 0
  /\ \A i, j \in DOMAIN Table :
       i = j \/ Table[i].end < Table[j].start \/ Table[j].end < Table[i].start
  /\ \A u \in 0..FlashUnits - 1 : \E i \in DOMAIN Table : Table[i].start <= u /\ u <= Table[i].end

VARIABLES
  at, req,
  addr, count,  \* erase_seq's loop, whose count is kept modulo 2
  io,           \* read_write_rom's or read_write_ram's: kind, addr, left
  rom, sram,    \* what has been read back, r_fdata and sr_fdata
  said,         \* what verification has printed, of the flash and of the RAM,
                \* and what has been "saved to" a file
  ok,           \* main has not gone to "end" with an error
  flash, ram,   \* the device's memories
  mode,         \* its RAM mode, "on" and "off" being the temporary ones
  note,         \* what it remembers: the names of its files, and its erases
  odd,          \* whether it has had an odd number of erases, of reads; lost
                \* when the erase that makes it even has not reached it
  used          \* fails and shorts so far

device == <<flash, ram, mode, note, odd>>
vars == <<at, req, addr, count, io, rom, sram, said, ok, device, used>>

Units == 0..FlashUnits - 1
RamUnit == 0..RamUnits - 1
Half == FlashUnits \div 2
EraseSize(r) == LET size == IF r.write THEN r.size ELSE 0
                    all == IF r.erase THEN FlashUnits ELSE 0
                IN IF all < size THEN size ELSE all

\* get_page_size: the page of the first entry that a lies in; no entry is
\* the end of the table, or an error.
EntriesOf(a) == {i \in DOMAIN Table : Table[i].start <= a /\ a <= Table[i].end}
PageSize(a) == Table[CHOOSE i \in EntriesOf(a) : \A j \in EntriesOf(a) : i <= j].page
\* The device erases the page an address lies in.
PageOf(a) == IF EntriesOf(a) = {} THEN {}
             ELSE {u \in Units : u \div PageSize(a) = a \div PageSize(a) /\ EntriesOf(u) = EntriesOf(a)}

\* How a command ends: done, or with an error, before it has reached the device
\* or after its effect.
Results == {"ok"} \cup IF used.fails < MaxFails THEN {"lost", "late"} ELSE {}
Fail(r) == used' = IF r = "ok" THEN used ELSE [used EXCEPT !.fails = @ + 1]
Erased(units) == [u \in Units |-> IF u \in units THEN "erased" ELSE flash[u]]

-----------------------------------------------------------------------------
(* main up to the flash.                                                   *)

Begin(r) == IF EraseSize(r) = 0 THEN "write" ELSE IF r.all THEN "count" ELSE "ids"
Start ==
  /\ at = "start" /\ at' = "files" /\ req' \in Requests
  /\ UNCHANGED <<addr, count, io, rom, sram, said, ok, device, used>>

\* Goes on, or ends the run with an error, which is no command's.
Unless(error, next) ==
  /\ \/ at' = next /\ UNCHANGED ok
     \/ error /\ at' = "end" /\ ok' = FALSE
  /\ UNCHANGED <<req, addr, count, io, rom, sram, said, device, used>>

\* read_file of the ROM and of the save RAM; one that is too large is read.
ReadFiles == at = "files" /\ Unless(req.write \/ req.sram, "find")
\* The device may be missing, or in use.
GetDevice == at = "find" /\ Unless(TRUE, IF req.info THEN "dataBus" ELSE Begin(req))

\* What only asks the device for something ends the run when it fails.
Query(next) ==
  /\ \E r \in Results : Fail(r) /\ ok' = (r = "ok") /\ at' = IF r = "ok" THEN next ELSE "end"
  /\ UNCHANGED <<req, addr, count, io, rom, sram, said, device>>

\* print_device_info, and print_game_info.
ReadInfo == \/ at = "dataBus" /\ Query("addrBus")
            \/ at = "addrBus" /\ Query("counter")
ReadCounter == at = "counter" /\ Query("chipIds")
ReadChipIds == at = "chipIds" /\ Query("names")
GameInfo == at = "names" /\ Query(Begin(req))

\* The flash ids and the page table; without them nothing is erased.
ReadIds == at = "ids" /\ Query("table")
PickTable == at = "table" /\ Unless(TRUE, "count")

\* increment_erase_cnt; its failure, and a counter at its end, are warnings.
CountErase ==
  /\ at = "count" /\ at' = IF req.all THEN "chip0" ELSE "erase"
  /\ \E r \in Results :
       /\ Fail(r)
       /\ note' = IF r = "lost" \/ note.erases = CountMax THEN note
                  ELSE [note EXCEPT !.erases = @ + 1]
  /\ UNCHANGED <<req, addr, count, io, rom, sram, said, ok, flash, ram, mode, odd>>

IoKeep == UNCHANGED <<req, io, rom, sram, said, ram, mode, note>>
\* One erase command, which erase_page gives up at any of its writes and reads.
Erase(units, r) ==
  /\ Fail(r)
  /\ flash' = IF r = "lost" THEN flash ELSE Erased(units)
  /\ odd' = [odd EXCEPT !.erases = @ # (r # "lost"),
                        !.lost = @ \/ (at = "erasePad" /\ r = "lost")]

\* ProgrammedErased: each entry of the table is taken for one page.
ErasePage_Bug ==
  /\ at = "erase" /\ addr < EraseSize(req)
  /\ \E r \in Results :
       /\ Erase(PageOf(addr), r)
       /\ ok' = (r = "ok")
       /\ at' = IF r # "ok" THEN "end" ELSE IF EntriesOf(addr) = {} THEN "erasePad" ELSE "erase"
       /\ IF r = "ok" /\ EntriesOf(addr) # {}
          THEN addr' = Table[CHOOSE i \in EntriesOf(addr) : TRUE].end + 1 /\ count' = 1 - count
          ELSE UNCHANGED <<addr, count>>
  /\ IoKeep
\* A page past the end is erased but not counted.
ErasePage ==
  /\ at = "erase" /\ addr < EraseSize(req)
  /\ \E r \in Results :
       /\ Erase(PageOf(addr), r)
       /\ ok' = (r = "ok")
       /\ at' = IF r # "ok" THEN "end" ELSE IF EntriesOf(addr) = {} THEN "erasePad" ELSE "erase"
       /\ IF r = "ok" /\ EntriesOf(addr) # {}
          THEN addr' = addr + PageSize(addr) /\ count' = 1 - count
          ELSE UNCHANGED <<addr, count>>
  /\ IoKeep
EraseEnd ==
  /\ at = "erase" /\ addr >= EraseSize(req) /\ at' = "erasePad"
  /\ UNCHANGED <<req, addr, count, io, rom, sram, said, ok, device, used>>

\* EvenAfterSuccess: the extra erase comes when the count is even.
ErasePad_Bug ==
  /\ at = "erasePad" /\ at' = "write"
  /\ IF count = 0 THEN \E r \in Results : Erase(PageOf(0), r)
     ELSE UNCHANGED <<flash, odd, used>>
  /\ UNCHANGED <<addr, count, ok>> /\ IoKeep
\* "must submit even number of erase commands": once more, unchecked.
ErasePad ==
  /\ at = "erasePad" /\ at' = "write"
  /\ IF count = 1 THEN \E r \in Results : Erase(PageOf(0), r)
     ELSE UNCHANGED <<flash, odd, used>>
  /\ UNCHANGED <<addr, count, ok>> /\ IoKeep

\* erase_all: the first chip, and the second if the size asks for it.
EraseChip ==
  /\ at \in {"chip0", "chip1"}
  /\ \E r \in Results :
       /\ Erase(IF at = "chip0" THEN 0..Half - 1 ELSE Half..FlashUnits - 1, r)
       /\ ok' = (r = "ok")
       /\ at' = IF r # "ok" THEN "end"
                ELSE IF at = "chip0" /\ EraseSize(req) > Half THEN "chip1" ELSE "write"
  /\ UNCHANGED <<addr, count>> /\ IoKeep

-----------------------------------------------------------------------------
(* read_write_rom and read_write_ram.                                      *)

\* The transfers of a run, in their order, and what follows each.
Wanted(kind) ==
  CASE kind = "write"    -> req.write
    [] kind = "writeRam" -> req.sram
    [] kind = "read"     -> req.read \/ req.verify
    [] kind = "readRam"  -> req.readRam \/ req.verify
After == [write |-> "romName", writeRam |-> "ramName", read |-> "saveRom", readRam |-> "saveRam"]
Skip == [write |-> "writeRam", writeRam |-> "mode", read |-> "findRam", readRam |-> "verify"]
Kinds == DOMAIN After
IsRam(kind) == kind \in {"writeRam", "readRam"}
IsRead(kind) == kind \in {"read", "readRam"}
Total(kind) == CASE kind = "write" -> req.size [] kind = "read" -> FlashUnits [] OTHER -> RamUnits
BlockOf(kind) == IF IsRam(kind) THEN RamBlock ELSE Block

\* write_filename, after the file it names; its failure is a warning.
WriteName ==
  /\ at \in {"romName", "ramName"}
  /\ at' = IF at = "romName" THEN "writeRam" ELSE "mode"
  /\ \E r \in Results :
       /\ Fail(r)
       /\ note' = IF r = "lost" THEN note
                  ELSE [note EXCEPT ![IF at = "romName" THEN "rom" ELSE "ram"] = "new"]
  /\ UNCHANGED <<req, addr, count, io, rom, sram, said, ok, flash, ram, mode, odd>>

\* write_file, which main does not ask whether it has saved all.
SaveFile ==
  /\ at \in {"saveRom", "saveRam"}
  /\ LET kind == IF at = "saveRom" THEN "rom" ELSE "ram"
         named == IF at = "saveRom" THEN req.read ELSE req.readRam IN
     \/ UNCHANGED said
     \/ named /\ said' = [said EXCEPT !.saved = @ \cup {kind}]
  /\ at' = IF at = "saveRom" THEN "findRam" ELSE "verify"
  /\ UNCHANGED <<req, addr, count, io, rom, sram, ok, device, used>>

\* set_ram_mode, whose failure is not looked at.
SetRamMode(m) == \E r \in Results : Fail(r) /\ mode' = IF r = "lost" THEN mode ELSE m
\* The MX mode that was asked for, or that a large ROM needs.
SetMode ==
  /\ at = "mode" /\ at' = "findRom"
  /\ IF req.mode \/ (req.write /\ req.size > Half)
     THEN SetRamMode("mx")
     ELSE UNCHANGED <<mode, used>>
  /\ UNCHANGED <<req, addr, count, io, rom, sram, said, ok, flash, ram, note, odd>>

\* Reading to a file without a name takes the one in the device.
FindName ==
  /\ at \in {"findRom", "findRam"}
  /\ LET next == IF at = "findRom" THEN "read" ELSE "readRam"
         wanted == IF at = "findRom" THEN req.read ELSE req.readRam IN
     IF req.unnamed /\ wanted THEN Query(next)
     ELSE at' = next /\ UNCHANGED <<req, addr, count, io, rom, sram, said, ok, device, used>>

IoStart ==
  /\ at \in Kinds
  /\ IF Wanted(at)
     THEN /\ io' = [kind |-> at, addr |-> 0, left |-> Total(at)]
          /\ SetRamMode(IF IsRam(at) THEN "on" ELSE "off")
          /\ at' = "io"
     ELSE at' = Skip[at] /\ UNCHANGED <<io, mode, used>>
  /\ UNCHANGED <<req, addr, count, rom, sram, said, ok, flash, ram, note, odd>>

\* Programming a unit that is not erased leaves a mixture.
Programmed(u) == IF flash[u] = "erased" THEN "new" ELSE "mixed"
\* One rw_dev_block, of which the first n units get through.
Transfer(n, r) ==
  LET span == io.addr..io.addr + n - 1 IN
  /\ flash' = [u \in Units |-> IF io.kind = "write" /\ u \in span THEN Programmed(u) ELSE flash[u]]
  /\ ram' = [u \in RamUnit |-> IF io.kind = "writeRam" /\ mode = "on" /\ u \in span THEN "new" ELSE ram[u]]
  /\ rom' = [u \in Units |-> IF io.kind = "read" /\ u \in span THEN flash[u] ELSE rom[u]]
  /\ sram' = [u \in RamUnit |-> IF io.kind = "readRam" /\ mode = "on" /\ u \in span THEN ram[u] ELSE sram[u]]
  /\ odd' = [odd EXCEPT !.reads = @ # (IsRead(io.kind) /\ r # "lost")]
Lengths(bytes, r) ==
  CASE r = "lost" -> {0}
    [] r = "late" -> {bytes}
    [] OTHER -> IF used.shorts < MaxShorts THEN 0..bytes ELSE {bytes}

RwBlock(bytes, onError) ==
  \E r \in Results : \E n \in Lengths(bytes, r) :
    /\ Transfer(n, r)
    /\ used' = [used EXCEPT !.fails = IF r = "ok" THEN @ ELSE @ + 1,
                            !.shorts = IF r = "ok" /\ n < bytes THEN @ + 1 ELSE @]
    /\ IF r = "ok"
       THEN /\ io' = [io EXCEPT !.addr = @ + bytes, !.left = @ - bytes]
            /\ UNCHANGED <<at, ok>>
       ELSE at' = onError /\ ok' = FALSE /\ UNCHANGED io

\* An error returns at once, without making the number of reads even.
IoBlock ==
  /\ at = "io" /\ io.left >= BlockOf(io.kind)
  /\ RwBlock(BlockOf(io.kind), "end")
  /\ UNCHANGED <<req, addr, count, said, mode, note>>

\* RunEnds: "while" for the "if" of the rest, of which less than a unit is
\* left, and rw_dev_block takes none of it.
IoRest_Bug ==
  /\ at = "io" /\ io.left < BlockOf(io.kind) /\ io.left > 0 /\ ~IsRam(io.kind)
  /\ \E r \in Results : Fail(r) /\ Transfer(0, r)
  /\ UNCHANGED <<at, ok, io, req, addr, count, said, mode, note>>
\* The rest of a ROM is a shorter block (the RAM has none).
IoRest ==
  /\ at = "io" /\ io.left < BlockOf(io.kind) /\ io.left > 0 /\ ~IsRam(io.kind)
  /\ RwBlock(io.left, "end")
  /\ UNCHANGED <<req, addr, count, said, mode, note>>

\* SaysTruth: the rest is forgotten.
IoDone_Bug ==
  /\ at = "io" /\ io.left < BlockOf(io.kind)
  /\ at' = After[io.kind]
  /\ UNCHANGED <<req, addr, count, io, rom, sram, said, ok, device, used>>
\* print_progress steps by total / 20: with nothing to transfer, for ever.
\* The flash and the RAM are an even number of blocks, so that the extra
\* read after an odd one never comes.
IoDone ==
  /\ at = "io" /\ io.left = 0
  /\ at' = IF Total(io.kind) = 0 THEN "hang" ELSE After[io.kind]
  /\ UNCHANGED <<req, addr, count, io, rom, sram, said, ok, device, used>>

\* Only what has been written is compared.
Verify ==
  /\ at = "verify" /\ at' = "end"
  /\ said' = [saved |-> said.saved,
              rom |-> IF ~req.verify \/ ~req.write THEN "nothing"
                      ELSE IF \A u \in Units : u < req.size => rom[u] = "new" THEN "passed" ELSE "failed",
              ram |-> IF ~req.verify \/ ~req.sram THEN "nothing"
                      ELSE IF \A u \in RamUnit : sram[u] = "new" THEN "passed" ELSE "failed"]
  /\ UNCHANGED <<req, addr, count, io, rom, sram, ok, device, used>>

\* The process has exited, or goes round print_progress's loop.
Over == at \in {"end", "hang"} /\ UNCHANGED vars

-----------------------------------------------------------------------------
FlasherInit ==
  /\ at = "start" /\ req \in Requests /\ addr = 0 /\ count = 0
  /\ io = [kind |-> "write", addr |-> 0, left |-> 0]
  /\ rom = [u \in Units |-> "junk"] /\ sram = [u \in RamUnit |-> "junk"]
  /\ said = [rom |-> "nothing", ram |-> "nothing", saved |-> {}] /\ ok = TRUE
  /\ flash = [u \in Units |-> "old"] /\ ram = [u \in RamUnit |-> "old"] /\ mode = "game"
  /\ note \in [rom : {"old"}, ram : {"old"}, erases : {0, CountMax}]
  /\ odd = [erases |-> FALSE, reads |-> FALSE, lost |-> FALSE]
  /\ used = [fails |-> 0, shorts |-> 0]

Flasher == \/ Start \/ ReadFiles \/ GetDevice
           \/ ReadInfo \/ ReadCounter \/ ReadChipIds \/ GameInfo
           \/ ReadIds \/ PickTable \/ CountErase \/ ErasePage \/ EraseEnd \/ ErasePad \/ EraseChip
           \/ IoStart \/ IoBlock \/ IoRest \/ IoDone
           \/ WriteName \/ SetMode \/ FindName \/ SaveFile \/ Verify
FlasherNext == Flasher \/ Over
FlasherSpec == FlasherInit /\ [][FlasherNext]_vars
\* Every USB transfer has a timeout, so the program keeps going.
FairFlasherSpec == FlasherSpec /\ WF_vars(Flasher)

-----------------------------------------------------------------------------
Contents == {"old", "erased", "new", "mixed"}

(***************************************************************************)
(* The loops stay inside the file and the device's memories, and those     *)
(* hold what a sequence of erases and writes can leave.                    *)
(***************************************************************************)
FlasherTypeOK ==
  /\ at \in Kinds \cup {"start", "files", "find", "dataBus", "addrBus", "counter", "chipIds", "names",
                      "ids", "table", "count", "erase", "erasePad", "chip0", "chip1", "io",
                      "romName", "ramName", "mode", "findRom", "findRam", "saveRom", "saveRam",
                      "verify", "hang", "end"}
  /\ req \in Requests /\ addr \in Nat /\ count \in {0, 1} /\ ok \in BOOLEAN
  /\ io.kind \in Kinds /\ io.left \in Nat /\ io.addr + io.left \in {0, Total(io.kind)}
  /\ rom \in [Units -> Contents \cup {"junk"}] /\ sram \in [RamUnit -> {"old", "new", "junk"}]
  /\ flash \in [Units -> Contents] /\ ram \in [RamUnit -> {"old", "new"}]
  /\ mode \in {"game", "on", "off", "mx"} /\ note.erases \in 0..CountMax
  /\ odd \in [erases : BOOLEAN, reads : BOOLEAN, lost : BOOLEAN]

(***************************************************************************)
(* A unit of the flash is programmed only after its page has been erased   *)
(* ("-w: also does erase"), with either way to erase and wherever the file *)
(* ends inside a page.                                                     *)
(***************************************************************************)
ProgrammedErased == \A u \in Units : flash[u] # "mixed"

(***************************************************************************)
(* What the flasher says of its work is true.  Unless a block was cut      *)
(* short, the device has a ROM's name, and the run ends without an error,  *)
(* only with the whole file in the flash, and a ROM that was saved is the  *)
(* flash's, a save RAM the RAM's if nothing failed; "verification passed"  *)
(* and "FAILED" tell the truth, also about blocks that were cut short and  *)
(* a RAM mode that could not be set.                                       *)
(***************************************************************************)
SaysTruth ==
  /\ (at = "end" /\ ok /\ req.write) \/ note.rom = "new" =>
       used.shorts > 0 \/ \A u \in Units : u < req.size => flash[u] = "new"
  /\ "rom" \in said.saved => used.shorts > 0 \/ rom = flash
  /\ "ram" \in said.saved => used.shorts + used.fails > 0 \/ sram = ram
  /\ said.rom = "passed" => \A u \in Units : u < req.size => flash[u] = "new"
  /\ said.ram = "passed" => \A u \in RamUnit : ram[u] = "new"
  /\ "failed" \in {said.rom, said.ram} => used.fails + used.shorts > 0

(***************************************************************************)
(* After a run without an error the device has had an even number of erase *)
(* commands and of reads, or it would hang (comments in the code).  Two    *)
(* things may leave it with an odd number of erases: those of the whole    *)
(* chips are not made even, and the page that is erased once more to make  *)
(* the others even may never hear of it, since nobody looks at the result. *)
(***************************************************************************)
EvenAfterSuccess ==
  at = "end" /\ ok => (odd.erases => req.all \/ odd.lost) /\ ~odd.reads

(***************************************************************************)
(* "must perform even number of reads, or dev hangs on exit".              *)
(***************************************************************************)
ReadsEvenOnExit == at = "end" => ~odd.reads

(***************************************************************************)
(* "must submit even number of erase commands (fw bug?)", page by page.    *)
(* Each fails when a command is lost.                                      *)
(***************************************************************************)
ErasesEven == at \in Kinds /\ ~req.all => ~odd.erases

(***************************************************************************)
(* Every run comes to its end.                                             *)
(***************************************************************************)
RunEnds == <>(at = "end")
=============================================================================
