-------------------------- MODULE MxFlasherProofs ---------------------------
(***************************************************************************)
(* For every page table, file size, and whatever fails or is cut short:    *)
(* mx_flasher programs only what it has erased, what it says of its work   *)
(* is true, and after a success its erases and reads have been even.       *)
(***************************************************************************)
EXTENDS MxFlasher, TLAPS

-----------------------------------------------------------------------------
(* Pages: multiples of a size that is not a number of the text.            *)

LEMMA Quotient ==
  ASSUME NEW p \in Nat \ {0}, NEW a \in Nat
  PROVE  a = p * (a \div p) + (a % p) /\ a \div p \in Nat /\ a % p \in 0..p - 1
OBVIOUS

LEMMA InPage ==
  ASSUME NEW p \in Nat \ {0}, NEW k \in Nat, NEW u \in Nat, p * k <= u, u < p * k + p
  PROVE  u \div p = k
<1>1. u = p * (u \div p) + (u % p) /\ u % p \in 0..p - 1 /\ u \div p \in Nat
  BY Quotient
<1>2. ~(u \div p < k)
  OBVIOUS
<1>3. ~(u \div p > k)
  OBVIOUS
<1>. QED
  BY <1>1, <1>2, <1>3

LEMMA WholePage ==
  ASSUME NEW p \in Nat \ {0}, NEW k \in Nat, NEW m \in Nat, p * k < p * m
  PROVE  p * k + p <= p * m
<1>1. k < m
  OBVIOUS
<1>2. m = k + 1 + (m - k - 1) /\ m - k - 1 \in Nat
  BY <1>1
<1>. QED
  BY <1>2

LEMMA Multiple ==
  ASSUME NEW p \in Nat \ {0}, NEW a \in Nat, a % p = 0
  PROVE  /\ a = p * (a \div p) /\ a \div p \in Nat
         /\ (a + p) % p = 0
         /\ \A u \in a..a + p - 1 : u \div p = a \div p
         /\ \A e \in Nat : a <= e /\ (e + 1) % p = 0 => a + p <= e + 1
<1> DEFINE k == a \div p
<1>1. a = p * k /\ k \in Nat
  BY Quotient
<1>2. (p * k + p) % p = 0
  BY <1>1
<1>3. ASSUME NEW u \in a..a + p - 1 PROVE u \div p = k
  BY <1>1, <1>3, InPage
<1>4. ASSUME NEW e \in Nat, a <= e, (e + 1) % p = 0 PROVE a + p <= e + 1
  <2> DEFINE m == (e + 1) \div p
  <2>1. e + 1 = p * m /\ m \in Nat
    BY <1>4, Quotient
  <2>2. p * k < p * m
    BY <1>1, <1>4, <2>1
  <2>. QED
    BY <1>1, <2>1, <2>2, WholePage
<1>. QED
  BY <1>1, <1>2, <1>3, <1>4

\* At the start of a page.
AtPage(a) == a \in Nat /\ \A i \in EntriesOf(a) : a % Table[i].page = 0

\* What the assumption says of one entry.
LEMMA EntryShape ==
  ASSUME NEW i \in DOMAIN Table
  PROVE  /\ i \in Nat
         /\ Table[i].start \in Nat /\ Table[i].end \in Nat /\ Table[i].page \in Nat \ {0}
         /\ Table[i].start <= Table[i].end /\ Table[i].end < FlashUnits
         /\ Table[i].start % Table[i].page = 0 /\ (Table[i].end + 1) % Table[i].page = 0
<1> DEFINE Entry == [start : Nat, end : Nat, page : Nat \ {0}]
<1>1. Table \in Seq(Entry)
  BY TableAssumption
<1>2. i \in Nat /\ Table[i] \in Entry
  <2> HIDE DEF Entry
  <2>. QED
    BY <1>1
<1>3. Table[i].start \in Nat /\ Table[i].end \in Nat /\ Table[i].page \in Nat \ {0}
  BY <1>2
<1>. QED
  BY <1>2, <1>3, TableAssumption

\* The entry of an address is the only one, and gives its page size.
LEMMA OneEntry ==
  ASSUME NEW a \in Nat, NEW i \in EntriesOf(a)
  PROVE  EntriesOf(a) = {i} /\ PageSize(a) = Table[i].page
<1>1. ASSUME NEW j \in EntriesOf(a) PROVE j = i
  <2>1. i \in DOMAIN Table /\ j \in DOMAIN Table
    BY <1>1 DEF EntriesOf
  <2>2. /\ Table[i].start \in Nat /\ Table[i].end \in Nat
        /\ Table[j].start \in Nat /\ Table[j].end \in Nat
    BY <2>1, EntryShape
  <2>3. /\ Table[i].start <= a /\ a <= Table[i].end
        /\ Table[j].start <= a /\ a <= Table[j].end
    BY <1>1 DEF EntriesOf
  <2>4. i = j \/ Table[i].end < Table[j].start \/ Table[j].end < Table[i].start
    BY <2>1, TableAssumption
  <2>. QED
    BY <2>2, <2>3, <2>4
<1>2. EntriesOf(a) = {i}
  BY <1>1
<1>3. i <= i
  BY EntryShape DEF EntriesOf
<1>4. (CHOOSE j \in EntriesOf(a) : \A l \in EntriesOf(a) : j <= l) = i
  BY <1>2, <1>3
<1>. QED
  BY <1>2, <1>4 DEF PageSize

LEMMA OutOfTable ==
  ASSUME NEW a \in Nat, EntriesOf(a) = {} PROVE a >= FlashUnits
BY TableAssumption, FlasherAssumption DEF EntriesOf

\* erase_page erases everything from a page's start to the next one's.
LEMMA ErasesPage ==
  ASSUME NEW a, AtPage(a), EntriesOf(a) # {}
  PROVE  /\ PageSize(a) \in Nat \ {0}
         /\ AtPage(a + PageSize(a))
         /\ \A u \in Units : a <= u /\ u < a + PageSize(a) => u \in PageOf(a)
<1>1. PICK i \in EntriesOf(a) : TRUE
  OBVIOUS
<1> DEFINE p == Table[i].page
           e == Table[i].end
<1>2. EntriesOf(a) = {i} /\ PageSize(a) = p
  BY <1>1, OneEntry DEF AtPage, p
<1>3. /\ i \in DOMAIN Table /\ p \in Nat \ {0} /\ e \in Nat /\ e < FlashUnits
      /\ a \in Nat /\ a <= e /\ Table[i].start \in Nat /\ Table[i].start <= a
      /\ (e + 1) % p = 0 /\ a % p = 0
  BY <1>1, EntryShape DEF EntriesOf, AtPage
<1> HIDE DEF p, e
<1>4. /\ (a + p) % p = 0 /\ a + p <= e + 1
      /\ \A u \in a..a + p - 1 : u \div p = a \div p
  BY <1>3, Multiple
<1>5. ASSUME NEW u \in Units, a <= u, u < a + p PROVE u \in PageOf(a)
  <2>1. u \in Nat /\ i \in EntriesOf(u)
    BY <1>3, <1>4, <1>5, FlasherAssumption DEF EntriesOf, Units, e
  <2>2. EntriesOf(u) = EntriesOf(a)
    BY <1>2, <2>1, OneEntry
  <2>3. u \div p = a \div p
    BY <1>3, <1>4, <1>5, <2>1
  <2>. QED
    BY <1>2, <2>2, <2>3 DEF PageOf, p
<1>6. AtPage(a + p)
  <2>1. a + p \in Nat
    BY <1>3
  <2>2. ASSUME NEW j \in EntriesOf(a + p) PROVE (a + p) % Table[j].page = 0
    <3>1. CASE j = i
      BY <1>4, <3>1 DEF p
    <3>2. CASE j # i
      <4>1. /\ j \in DOMAIN Table /\ Table[j].start \in Nat /\ Table[j].end \in Nat
            /\ Table[j].start <= a + p /\ a + p <= Table[j].end
            /\ Table[j].start % Table[j].page = 0
        BY <2>2, EntryShape DEF EntriesOf
      <4>2. e < Table[j].start \/ Table[j].end < Table[i].start
        BY <1>3, <3>2, <4>1, TableAssumption DEF e
      <4>3. Table[j].start = a + p
        BY <1>3, <1>4, <4>1, <4>2
      <4>. QED
        BY <4>1, <4>3
    <3>. QED
      BY <3>1, <3>2
  <2>. QED
    BY <2>1, <2>2 DEF AtPage
<1>. QED
  BY <1>2, <1>3, <1>5, <1>6 DEF p

-----------------------------------------------------------------------------
\* Where main is before it erases.
Before == {"start", "files", "find", "dataBus", "addrBus", "counter", "chipIds", "names",
           "ids", "table", "count"}

\* The flash is erased below n.
ErasedBelow(n) == \A u \in Units : u < n => flash[u] = "erased"

\* Page by page, the erase loop is at the start of a page and everything below
\* it is erased; the loop, and each way of erasing the chips, ends with the
\* whole file erased; and what is left to write is.
FlashInv ==
  /\ req \in Requests /\ flash \in [Units -> Contents] /\ ProgrammedErased
  /\ at \in Before => addr = 0
  /\ at = "erase" => AtPage(addr) /\ ErasedBelow(addr)
  /\ at = "erasePad" => ErasedBelow(EraseSize(req))
  /\ at = "chip1" => ErasedBelow(Half)
  /\ at = "write" => ErasedBelow(EraseSize(req))
  /\ at = "io" => /\ io \in [kind : Kinds, addr : Nat, left : Nat]
                  /\ io.kind = "write" =>
                       /\ req.write
                       /\ io.addr + io.left = req.size
                       /\ \A u \in Units : io.addr <= u /\ u < req.size => flash[u] = "erased"

LEMMA Sizes ==
  /\ FlashUnits \in Nat \ {0} /\ Half \in Nat /\ FlashUnits = 2 * Half
  /\ Block \in Nat \ {0} /\ RamBlock \in Nat \ {0}
  /\ \A r \in Requests : /\ r.size \in Nat /\ r.write \in BOOLEAN /\ r.erase \in BOOLEAN
                         /\ EraseSize(r) \in Nat /\ (r.write => r.size <= EraseSize(r))
<1>1. /\ FlashUnits \in Nat \ {0} /\ Block \in Nat \ {0} /\ RamBlock \in Nat \ {0}
      /\ FlashUnits % (2 * Block) = 0
  BY FlasherAssumption
<1>2. Half \in Nat /\ FlashUnits = 2 * Half
  <2> DEFINE k == FlashUnits \div (2 * Block)
  <2> DEFINE p == 2 * Block
  <2>0. p \in Nat \ {0}
    BY <1>1
  <2>1. FlashUnits = p * k /\ k \in Nat
    <3> HIDE DEF p
    <3>1. FlashUnits = p * (FlashUnits \div p) /\ FlashUnits \div p \in Nat
      BY <1>1, <2>0, Multiple DEF p
    <3>. QED
      BY <3>1 DEF p
  <2>2. FlashUnits = 2 * (Block * k) /\ Block * k \in Nat
    BY <1>1, <2>1
  <2>. QED
    BY <1>1, <2>2 DEF Half
<1>3. ASSUME NEW r \in Requests
      PROVE  /\ r.size \in Nat /\ r.write \in BOOLEAN /\ r.erase \in BOOLEAN
             /\ EraseSize(r) \in Nat /\ (r.write => r.size <= EraseSize(r))
  <2>1. r.size \in Nat /\ r.write \in BOOLEAN /\ r.erase \in BOOLEAN
    BY FlasherAssumption
  <2>. QED
    BY <1>1, <2>1 DEF EraseSize
<1>. QED
  BY <1>1, <1>2, <1>3

\* An erase command makes no mixture, and unerases nothing.
LEMMA EraseKeeps ==
  ASSUME NEW units, NEW r, flash \in [Units -> Contents], ProgrammedErased, Erase(units, r)
  PROVE  /\ flash' \in [Units -> Contents] /\ ProgrammedErased'
         /\ \A u \in Units : flash[u] = "erased" \/ (r # "lost" /\ u \in units) => flash'[u] = "erased"
<1>1. CASE r = "lost"
  BY <1>1 DEF Erase, ProgrammedErased, Units
<1>2. CASE r # "lost"
  BY <1>2 DEF Erase, Erased, ProgrammedErased, Contents, Units
<1>. QED
  BY <1>1, <1>2

LEMMA FlashInit == FlasherInit => FlashInv
BY DEF FlasherInit, FlashInv, Before, Units, ProgrammedErased, Contents

\* The steps before the erases.
LEMMA Begins ==
  ASSUME NEW r \in Requests, at' = Begin(r), req' = r, addr' = addr, flash' = flash,
         flash \in [Units -> Contents], ProgrammedErased, addr = 0
  PROVE  FlashInv'
<1>1. CASE EraseSize(r) = 0
  BY <1>1, Sizes DEF Begin, FlashInv, Before, ProgrammedErased, ErasedBelow, EraseSize, Units
<1>2. CASE EraseSize(r) # 0
  BY <1>2 DEF Begin, FlashInv, Before, ProgrammedErased
<1>. QED
  BY <1>1, <1>2

LEMMA FlashStart == FlashInv /\ Start => FlashInv'
BY DEF Start, FlashInv, Before, ProgrammedErased, device

LEMMA FlashQueries ==
  FlashInv /\ (\/ ReadFiles \/ GetDevice \/ ReadInfo \/ ReadCounter \/ ReadChipIds
               \/ GameInfo \/ ReadIds \/ PickTable \/ CountErase) => FlashInv'
<1> DEFINE Steps == \/ ReadFiles \/ GetDevice \/ ReadInfo \/ ReadCounter \/ ReadChipIds
                    \/ GameInfo \/ ReadIds \/ PickTable \/ CountErase
<1>1. SUFFICES ASSUME FlashInv, Steps PROVE FlashInv'
  OBVIOUS
<1>2. at \in Before \ {"start"} /\ addr' = addr
  BY <1>1 DEF ReadFiles, GetDevice, ReadInfo, ReadCounter, ReadChipIds, GameInfo, ReadIds,
              PickTable, CountErase, Query, Unless, Before
<1>3. req' = req /\ flash' = flash
  BY <1>1 DEF ReadFiles, GetDevice, ReadInfo, ReadCounter, ReadChipIds, GameInfo, ReadIds,
              PickTable, CountErase, Query, Unless, device
<1>4. addr = 0 /\ req \in Requests /\ flash \in [Units -> Contents] /\ ProgrammedErased
  BY <1>1, <1>2 DEF FlashInv
<1>5. \/ at' \in (Before \ {"start"}) \cup {"end", "chip0", "erase"}
      \/ at' = Begin(req)
  BY <1>1 DEF ReadFiles, GetDevice, ReadInfo, ReadCounter, ReadChipIds, GameInfo, ReadIds,
              PickTable, CountErase, Query, Unless, Before
<1>6. CASE at' \in (Before \ {"start"}) \cup {"end", "chip0"}
  BY <1>2, <1>3, <1>4, <1>6 DEF FlashInv, Before, ProgrammedErased
<1>7. CASE at' = "erase"
  <2>1. AtPage(0)
    <3>1. ASSUME NEW i \in EntriesOf(0) PROVE 0 % Table[i].page = 0
      BY EntryShape DEF EntriesOf
    <3>. QED
      BY <3>1 DEF AtPage
  <2>. QED
    BY <1>2, <1>3, <1>4, <1>7, <2>1
       DEF FlashInv, Before, ProgrammedErased, ErasedBelow, AtPage, EntriesOf, Units
<1>8. CASE at' = Begin(req)
  BY <1>2, <1>3, <1>4, <1>8, Begins
<1>. QED
  BY <1>5, <1>6, <1>7, <1>8

-----------------------------------------------------------------------------
\* The steps that erase.
LEMMA FlashErasePage == FlashInv /\ ErasePage => FlashInv'
<1>1. SUFFICES ASSUME FlashInv, ErasePage PROVE FlashInv'
  OBVIOUS
<1>2. PICK r \in Results :
        /\ Erase(PageOf(addr), r)
        /\ at' = IF r # "ok" THEN "end" ELSE IF EntriesOf(addr) = {} THEN "erasePad" ELSE "erase"
        /\ IF r = "ok" /\ EntriesOf(addr) # {}
           THEN addr' = addr + PageSize(addr)
           ELSE UNCHANGED addr
  BY <1>1 DEF ErasePage
<1>3. /\ req' = req /\ req \in Requests /\ AtPage(addr) /\ addr \in Nat /\ ErasedBelow(addr)
  BY <1>1 DEF ErasePage, IoKeep, FlashInv, Before, AtPage
<1>4. /\ flash' \in [Units -> Contents] /\ ProgrammedErased'
      /\ \A u \in Units : flash[u] = "erased" \/ (r # "lost" /\ u \in PageOf(addr)) => flash'[u] = "erased"
  BY <1>1, <1>2, EraseKeeps DEF FlashInv, Before
<1>5. CASE r # "ok"
  BY <1>2, <1>3, <1>4, <1>5 DEF FlashInv, Before
<1>6. CASE r = "ok" /\ EntriesOf(addr) = {}
  <2>1. \A u \in Units : u < addr
    BY <1>3, <1>6, OutOfTable, Sizes DEF Units
  <2>2. \A u \in Units : flash'[u] = "erased"
    BY <1>3, <1>4, <2>1 DEF ErasedBelow
  <2>. QED
    BY <1>2, <1>3, <1>4, <1>6, <2>2 DEF FlashInv, Before, ErasedBelow
<1>7. CASE r = "ok" /\ EntriesOf(addr) # {}
  <2>1. /\ PageSize(addr) \in Nat \ {0} /\ AtPage(addr + PageSize(addr))
        /\ \A u \in Units : addr <= u /\ u < addr + PageSize(addr) => u \in PageOf(addr)
    BY <1>3, <1>7, ErasesPage
  <2>2. addr' = addr + PageSize(addr) /\ at' = "erase"
    BY <1>2, <1>7
  <2>3. AtPage(addr)'
    BY <2>1, <2>2 DEF AtPage, EntriesOf
  <2>4. ASSUME NEW u \in Units, u < addr + PageSize(addr) PROVE flash'[u] = "erased"
    <3>1. CASE u < addr
      BY <1>3, <1>4, <3>1 DEF ErasedBelow
    <3>2. CASE ~(u < addr)
      <4>1. addr <= u
        BY <1>3, <3>2, Sizes DEF Units
      <4>. QED
        BY <1>4, <1>7, <2>1, <2>4, <4>1
    <3>. QED
      BY <3>1, <3>2
  <2>5. ErasedBelow(addr)'
    BY <2>2, <2>4 DEF ErasedBelow
  <2>. QED
    BY <1>3, <1>4, <2>2, <2>3, <2>5 DEF FlashInv, Before
<1>. QED
  BY <1>5, <1>6, <1>7

LEMMA FlashEraseEnd == FlashInv /\ EraseEnd => FlashInv'
<1>1. SUFFICES ASSUME FlashInv, EraseEnd PROVE FlashInv'
  OBVIOUS
<1>2. /\ at' = "erasePad" /\ req' = req /\ flash' = flash /\ addr >= EraseSize(req)
      /\ req \in Requests /\ addr \in Nat /\ ErasedBelow(addr)
  BY <1>1 DEF EraseEnd, FlashInv, Before, AtPage, device
<1>3. ErasedBelow(EraseSize(req))
  BY <1>2, Sizes DEF ErasedBelow, Units
<1>4. EraseSize(req)' = EraseSize(req) /\ ErasedBelow(EraseSize(req))'
  BY <1>2, <1>3 DEF EraseSize, ErasedBelow
<1>. QED
  BY <1>1, <1>2, <1>4 DEF FlashInv, Before, ProgrammedErased

LEMMA FlashErasePad == FlashInv /\ ErasePad => FlashInv'
<1>1. SUFFICES ASSUME FlashInv, ErasePad PROVE FlashInv'
  OBVIOUS
<1>2. /\ at' = "write" /\ req' = req /\ req \in Requests /\ ErasedBelow(EraseSize(req))
      /\ flash \in [Units -> Contents] /\ ProgrammedErased
  BY <1>1 DEF ErasePad, IoKeep, FlashInv, Before
<1>3. /\ flash' \in [Units -> Contents] /\ ProgrammedErased'
      /\ \A u \in Units : flash[u] = "erased" => flash'[u] = "erased"
  <2>1. CASE flash' = flash
    BY <1>2, <2>1 DEF ProgrammedErased
  <2>2. CASE \E r \in Results : Erase(PageOf(0), r)
    BY <1>2, <2>2, EraseKeeps
  <2>. QED
    BY <1>1, <2>1, <2>2 DEF ErasePad
<1>4. EraseSize(req)' = EraseSize(req) /\ ErasedBelow(EraseSize(req))'
  BY <1>2, <1>3 DEF EraseSize, ErasedBelow
<1>. QED
  BY <1>2, <1>3, <1>4 DEF FlashInv, Before

LEMMA FlashEraseChip == FlashInv /\ EraseChip => FlashInv'
<1>1. SUFFICES ASSUME FlashInv, EraseChip PROVE FlashInv'
  OBVIOUS
<1> DEFINE chip == IF at = "chip0" THEN 0..Half - 1 ELSE Half..FlashUnits - 1
<1>2. PICK r \in Results :
        /\ Erase(chip, r)
        /\ at' = IF r # "ok" THEN "end"
                 ELSE IF at = "chip0" /\ EraseSize(req) > Half THEN "chip1" ELSE "write"
  BY <1>1 DEF EraseChip
<1>3. /\ req' = req /\ req \in Requests /\ EraseSize(req)' = EraseSize(req)
      /\ at \in {"chip0", "chip1"} /\ (at = "chip1" => ErasedBelow(Half))
  BY <1>1 DEF EraseChip, IoKeep, FlashInv, Before, EraseSize
<1>4. /\ flash' \in [Units -> Contents] /\ ProgrammedErased'
      /\ \A u \in Units : flash[u] = "erased" \/ (r # "lost" /\ u \in chip) => flash'[u] = "erased"
  <2> HIDE DEF chip
  <2>. QED
    BY <1>1, <1>2, EraseKeeps DEF FlashInv, Before
<1>5. CASE r # "ok"
  BY <1>2, <1>3, <1>4, <1>5 DEF FlashInv, Before
<1>6. CASE r = "ok" /\ at = "chip0"
  <2>1. ErasedBelow(Half)'
    BY <1>4, <1>6, Sizes DEF ErasedBelow, Units, Half
  <2>2. EraseSize(req) <= Half => ErasedBelow(EraseSize(req))'
    BY <1>3, <2>1, Sizes DEF ErasedBelow, Units, Half
  <2>. QED
    BY <1>2, <1>3, <1>4, <1>6, <2>1, <2>2, Sizes DEF FlashInv, Before
<1>7. CASE r = "ok" /\ at = "chip1"
  <2>1. ASSUME NEW u \in Units PROVE flash'[u] = "erased"
    <3>1. u < Half \/ u \in chip
      BY <1>7, Sizes DEF Units
    <3>2. u < Half => flash[u] = "erased"
      BY <1>3, <1>7 DEF ErasedBelow
    <3>. QED
      BY <1>4, <1>7, <3>1, <3>2
  <2>. QED
    BY <1>2, <1>3, <1>4, <1>7, <2>1 DEF FlashInv, Before, ErasedBelow
<1>. QED
  BY <1>3, <1>5, <1>6, <1>7

-----------------------------------------------------------------------------
\* The transfers.
LEMMA KindNames == Kinds = {"write", "writeRam", "read", "readRam"}
BY DEF Kinds, After

LEMMA FlashIoStart == FlashInv /\ IoStart => FlashInv'
<1>1. SUFFICES ASSUME FlashInv, IoStart PROVE FlashInv'
  OBVIOUS
<1>2. /\ at \in Kinds /\ req' = req /\ flash' = flash
      /\ req \in Requests /\ flash \in [Units -> Contents] /\ ProgrammedErased
      /\ at = "write" => ErasedBelow(EraseSize(req))
  BY <1>1 DEF IoStart, FlashInv, Before
<1>3. CASE Wanted(at)
  <2>1. at' = "io" /\ io' = [kind |-> at, addr |-> 0, left |-> Total(at)]
    BY <1>1, <1>3 DEF IoStart
  <2>2. io' \in [kind : Kinds, addr : Nat, left : Nat]
    <3>1. Total(at) \in Nat
      BY <1>2, Sizes, FlasherAssumption DEF Total
    <3>. QED
      BY <1>2, <2>1, <3>1
  <2>3. CASE at = "write"
    <3>1. req.write /\ Total(at) = req.size
      BY <1>3, <2>3 DEF Wanted, Total
    <3>2. req.size \in Nat /\ EraseSize(req) \in Nat /\ req.size <= EraseSize(req)
      BY <1>2, <3>1, Sizes
    <3>3. \A u \in Units : u < req.size => flash[u] = "erased"
      BY <1>2, <2>3, <3>2, Sizes DEF ErasedBelow, Units
    <3>. QED
      BY <1>2, <2>1, <2>2, <2>3, <3>1, <3>2, <3>3 DEF FlashInv, Before, ProgrammedErased
  <2>4. CASE at # "write"
    BY <1>2, <2>1, <2>2, <2>4 DEF FlashInv, Before, ProgrammedErased
  <2>. QED
    BY <2>3, <2>4
<1>4. CASE ~Wanted(at)
  <2>1. at' \in {"writeRam", "mode", "findRam", "verify"}
    <3>1. at' = Skip[at] /\ at \in {"write", "writeRam", "read", "readRam"}
      BY <1>1, <1>2, <1>4, KindNames DEF IoStart
    <3>2. at = "write" => at' = "writeRam"
      BY <3>1 DEF Skip, After
    <3>3. at = "writeRam" => at' = "mode"
      BY <3>1 DEF Skip, After
    <3>4. at = "read" => at' = "findRam"
      BY <3>1 DEF Skip, After
    <3>5. at = "readRam" => at' = "verify"
      BY <3>1 DEF Skip, After
    <3>. QED
      BY <3>1, <3>2, <3>3, <3>4, <3>5
  <2>. QED
    BY <1>2, <2>1 DEF FlashInv, Before, ProgrammedErased
<1>. QED
  BY <1>3, <1>4

LEMMA FlashBlock ==
  ASSUME FlashInv, at = "io", NEW bytes \in Nat, bytes <= io.left, RwBlock(bytes, "end"), req' = req
  PROVE  FlashInv'
<1> DEFINE Ends(r) == IF r = "ok"
                      THEN /\ io' = [io EXCEPT !.addr = @ + bytes, !.left = @ - bytes]
                           /\ UNCHANGED at
                      ELSE at' = "end"
<1>1. PICK r \in Results : \E n \in Lengths(bytes, r) : Transfer(n, r) /\ Ends(r)
  BY DEF RwBlock
<1>2. PICK n \in Lengths(bytes, r) : Transfer(n, r) /\ Ends(r)
  BY <1>1
<1>3. n \in 0..bytes
  BY DEF Lengths
<1>4. /\ io \in [kind : Kinds, addr : Nat, left : Nat] /\ req \in Requests
      /\ flash \in [Units -> Contents] /\ ProgrammedErased
      /\ io.kind = "write" =>
           /\ req.write /\ io.addr + io.left = req.size
           /\ \A u \in Units : io.addr <= u /\ u < req.size => flash[u] = "erased"
  BY DEF FlashInv, Before
<1>5. \A u \in Units : flash'[u] = IF io.kind = "write" /\ u \in io.addr..io.addr + n - 1
                                   THEN Programmed(u) ELSE flash[u]
  BY <1>2 DEF Transfer
<1>6. ASSUME NEW u \in Units, io.kind = "write", u \in io.addr..io.addr + n - 1
      PROVE  flash[u] = "erased"
  BY <1>3, <1>4, <1>6, Sizes DEF Units
<1>7. \A u \in Units : flash'[u] = flash[u] \/ flash'[u] = "new"
  BY <1>5, <1>6 DEF Programmed
<1>8. flash' \in [Units -> Contents] /\ ProgrammedErased'
  <2>1. flash' = [u \in Units |-> flash'[u]]
    BY <1>2 DEF Transfer
  <2>. QED
    BY <1>4, <1>7, <2>1 DEF ProgrammedErased, Contents
<1>9. CASE r = "ok"
  <2>1. io' = [io EXCEPT !.addr = @ + bytes, !.left = @ - bytes] /\ at' = "io"
    BY <1>2, <1>9
  <2>2. /\ io' \in [kind : Kinds, addr : Nat, left : Nat] /\ io'.kind = io.kind
        /\ io'.addr = io.addr + bytes /\ io'.left = io.left - bytes
    <3>1. /\ io.kind \in Kinds /\ io.addr \in Nat /\ io.left \in Nat
          /\ io.addr + bytes \in Nat /\ io.left - bytes \in Nat
      BY <1>4
    <3>2. io' = [kind |-> io.kind, addr |-> io.addr + bytes, left |-> io.left - bytes]
      BY <1>4, <2>1
    <3>. QED
      BY <3>1, <3>2
  <2>3. ASSUME io.kind = "write"
        PROVE  /\ req'.write /\ io'.addr + io'.left = req'.size
               /\ \A u \in Units : io'.addr <= u /\ u < req'.size => flash'[u] = "erased"
    <3>1. \A u \in Units : io.addr + bytes <= u /\ u < req.size => flash'[u] = "erased"
      BY <1>3, <1>4, <1>5, <2>3, Sizes DEF Units
    <3>. QED
      BY <1>4, <2>2, <2>3, <3>1
  <2>. QED
    BY <1>4, <1>8, <2>1, <2>2, <2>3 DEF FlashInv, Before
<1>10. CASE r # "ok"
  <2>1. at' = "end"
    BY <1>2, <1>10
  <2>. QED
    BY <1>4, <1>8, <2>1 DEF FlashInv, Before
<1>. QED
  BY <1>9, <1>10

LEMMA FlashIo == FlashInv /\ (IoBlock \/ IoRest) => FlashInv'
<1>1. SUFFICES ASSUME FlashInv, IoBlock \/ IoRest PROVE FlashInv'
  OBVIOUS
<1>2. at = "io" /\ io.left \in Nat /\ req' = req
  BY <1>1 DEF IoBlock, IoRest, FlashInv, Before
<1>3. CASE IoBlock
  <2>1. BlockOf(io.kind) \in Nat /\ BlockOf(io.kind) <= io.left
    BY <1>3, Sizes DEF IoBlock, BlockOf
  <2>. QED
    BY <1>1, <1>2, <1>3, <2>1, FlashBlock DEF IoBlock
<1>4. CASE IoRest
  BY <1>1, <1>2, <1>4, FlashBlock DEF IoRest
<1>. QED
  BY <1>1, <1>3, <1>4

\* What leaves the flash alone and does not start to write.
LEMMA FlashRest ==
  FlashInv /\ (IoDone \/ WriteName \/ SetMode \/ FindName \/ SaveFile \/ Verify \/ UNCHANGED vars) => FlashInv'
<1>1. SUFFICES ASSUME FlashInv, IoDone \/ WriteName \/ SetMode \/ FindName \/ SaveFile \/ Verify \/ UNCHANGED vars
               PROVE  FlashInv'
  OBVIOUS
<1>2. CASE UNCHANGED vars
  BY <1>1, <1>2 DEF vars, device, FlashInv, Before, ProgrammedErased, ErasedBelow, EraseSize, AtPage, EntriesOf
<1>3. CASE ~UNCHANGED vars
  <2>1. flash' = flash /\ req' = req
    BY <1>1, <1>3 DEF IoDone, WriteName, SetMode, FindName, SaveFile, Query, Verify, device
  <2>2. at' \in {"romName", "ramName", "saveRom", "saveRam", "findRam", "verify", "hang", "writeRam", "mode", "findRom",
                 "read", "readRam", "end"}
    <3>1. CASE IoDone
      <4>1. io.kind \in Kinds
        BY <1>1, <3>1 DEF IoDone, FlashInv, Before
      <4>. QED
        BY <3>1, <4>1 DEF IoDone, After, Kinds
    <3>. QED
      BY <1>1, <1>3, <3>1 DEF WriteName, SetMode, FindName, SaveFile, Query, Verify
  <2>. QED
    BY <1>1, <2>1, <2>2 DEF FlashInv, Before, ProgrammedErased
<1>. QED
  BY <1>2, <1>3

LEMMA FlashNext == FlashInv /\ [FlasherNext]_vars => FlashInv'
BY FlashStart, FlashQueries, FlashErasePage, FlashEraseEnd, FlashErasePad, FlashEraseChip,
   FlashIoStart, FlashIo, FlashRest DEF FlasherNext, Flasher, Over

-----------------------------------------------------------------------------
(***************************************************************************)
(* Every unit mx_flasher programs has been erased before, with either way  *)
(* to erase, wherever the file ends, and whatever fails.                   *)
(***************************************************************************)
THEOREM FlasherProgramsErased == FlasherSpec => []ProgrammedErased
<1>1. FlasherInit => FlashInv
  BY FlashInit
<1>2. FlashInv /\ [FlasherNext]_vars => FlashInv'
  BY FlashNext
<1>3. FlashInv => ProgrammedErased
  BY DEF FlashInv, Before
<1>. QED
  BY <1>1, <1>2, <1>3, PTL DEF FlasherSpec

-----------------------------------------------------------------------------
(* What the flasher says of its work.                                      *)

\* How far the run is: it may still change the flash, the save RAM, or what it
\* has read of either.
PreWrite == Before \cup {"erase", "erasePad", "chip0", "chip1", "write"}
InIo(kind) == at = "io" /\ io.kind = kind
Writing == at \in PreWrite \/ InIo("write")
WritingRam == Writing \/ at \in {"romName", "writeRam"} \/ InIo("writeRam")
Reading == WritingRam \/ at \in {"ramName", "mode", "findRom", "read"} \/ InIo("read")
ReadingRam == Reading \/ at \in {"saveRom", "findRam", "readRam"} \/ InIo("readRam")
Stopped == at \in {"end", "hang"}

\* What is as it should be below n, if nothing happened that is only a warning.
Short == used.shorts > 0
Trouble == used.shorts + used.fails > 0
Written(n) == Short \/ \A u \in Units : u < n => flash[u] = "new"
RamWritten(n) == Trouble \/ \A u \in RamUnit : u < n => ram[u] = "new"
Read(n) == Short \/ \A u \in Units : u < n => rom[u] = flash[u]
RamRead(n) == Trouble \/ \A u \in RamUnit : u < n => sram[u] = ram[u]

Notes == [rom : {"old", "new"}, ram : {"old", "new"}, erases : Nat]
Verdicts == {"nothing", "passed", "failed"}
TruthShapes ==
  /\ req \in Requests /\ used \in [fails : Nat, shorts : Nat]
  /\ note \in Notes
  /\ said \in [rom : Verdicts, ram : Verdicts, saved : SUBSET {"rom", "ram"}]
  /\ rom \in [Units -> Contents \cup {"junk"}] /\ flash \in [Units -> Contents]
  /\ sram \in [RamUnit -> {"old", "new", "junk"}] /\ ram \in [RamUnit -> {"old", "new"}]
  /\ at = "io" => /\ io \in [kind : Kinds, addr : Nat, left : Nat]
                  /\ io.addr + io.left = Total(io.kind)

\* Nothing is said too early, and what has been read is what is there.
Untold ==
  /\ Writing => note.rom = "old" /\ \A u \in Units : rom[u] = "junk"
  /\ WritingRam => \A u \in RamUnit : sram[u] = "junk"
  /\ Reading => said.saved = {}
  /\ ReadingRam => "ram" \notin said.saved
  /\ at # "end" => said.rom = "nothing" /\ said.ram = "nothing"
  /\ \A u \in Units : rom[u] \in {"junk", flash[u]}
  /\ \A u \in RamUnit : sram[u] \in {"junk", ram[u]}

\* What a transfer has done so far, and what it leaves to the rest of the run.
Transfers ==
  /\ at = "romName" => req.write
  /\ InIo("write") => Written(io.addr)
  /\ InIo("writeRam") => RamWritten(io.addr)
  /\ InIo("read") => Read(io.addr)
  /\ InIo("readRam") => RamRead(io.addr)
  /\ at = "io" /\ IsRam(io.kind) => Trouble \/ mode = "on"
  /\ ~Stopped /\ ~Writing /\ req.write => Written(req.size)
  /\ ~Stopped /\ ~WritingRam /\ req.sram => RamWritten(RamUnits)
  /\ ~Stopped /\ ~Reading /\ (req.read \/ req.verify) => Read(FlashUnits)
  /\ ~Stopped /\ ~ReadingRam /\ (req.readRam \/ req.verify) => RamRead(RamUnits)

TruthInv == TruthShapes /\ Untold /\ Transfers /\ SaysTruth

LEMMA TruthInit == FlasherInit => TruthInv
BY FlasherAssumption DEF FlasherInit, TruthInv, TruthShapes, Untold, Transfers, SaysTruth, Writing, WritingRam, Reading,
       ReadingRam, InIo, Stopped, PreWrite, Before, Units, RamUnit, Contents, Notes, Verdicts

\* The steps up to the end of the erases.
LEMMA TruthEarly ==
  ASSUME TruthInv, at \in PreWrite, at' \in PreWrite \cup {"end"}, at' = "end" => ~ok',
         req' \in Requests, used' \in [fails : Nat, shorts : Nat], note' \in Notes, note'.rom = note.rom,
         flash' \in [Units -> Contents], UNCHANGED <<rom, sram, said, ram>>
  PROVE  TruthInv'
<1>1. /\ note.rom = "old" /\ \A u \in Units : rom[u] = "junk"
      /\ \A u \in RamUnit : sram[u] = "junk"
      /\ said.saved = {} /\ said.rom = "nothing" /\ said.ram = "nothing"
  BY DEF TruthInv, Untold, Writing, WritingRam, Reading, PreWrite, Before
<1>2. at' \notin {"io", "romName", "hang"}
  BY DEF PreWrite, Before
<1>3. TruthShapes'
  BY <1>2 DEF TruthInv, TruthShapes
<1>4. Untold'
  BY <1>1 DEF Untold
<1>5. Transfers'
  BY <1>2 DEF Transfers, Stopped, InIo, Writing, WritingRam, Reading, ReadingRam
<1>6. SaysTruth'
  BY <1>1 DEF SaysTruth
<1>. QED
  BY <1>3, <1>4, <1>5, <1>6 DEF TruthInv

LEMMA Fails ==
  ASSUME used \in [fails : Nat, shorts : Nat], NEW r, Fail(r)
  PROVE  /\ used' \in [fails : Nat, shorts : Nat] /\ used'.shorts = used.shorts
         /\ used'.fails = IF r = "ok" THEN used.fails ELSE used.fails + 1
BY DEF Fail

LEMMA TruthErases ==
  ASSUME FlashInv', TruthInv,
         \/ Start \/ ReadFiles \/ GetDevice \/ ReadInfo \/ ReadCounter \/ ReadChipIds
         \/ GameInfo \/ ReadIds \/ PickTable \/ CountErase
         \/ ErasePage \/ EraseEnd \/ ErasePad \/ EraseChip
  PROVE  TruthInv'
<1>1. /\ req' \in Requests /\ flash' \in [Units -> Contents] /\ used \in [fails : Nat, shorts : Nat]
      /\ note \in Notes
  BY DEF FlashInv, TruthInv, TruthShapes
<1>2. CASE Start
  BY <1>1, <1>2, TruthEarly DEF Start, PreWrite, Before, device
<1>3. CASE \E next \in PreWrite : Query(next) /\ at \in PreWrite
  <2>1. PICK r \in Results : /\ Fail(r) /\ ok' = (r = "ok")
                             /\ at' \in PreWrite \cup {"end"} /\ (at' = "end" => r # "ok")
    BY <1>3 DEF Query, PreWrite, Before
  <2>. QED
    BY <1>1, <1>3, <2>1, Fails, TruthEarly DEF Query, device
<1>4. CASE \E next \in PreWrite, e \in BOOLEAN : Unless(e, next) /\ at \in PreWrite
  <2>1. /\ at' \in PreWrite \cup {"end"} /\ (at' = "end" => ok' = FALSE)
        /\ UNCHANGED <<rom, sram, said, ram, note, used>>
    BY <1>4 DEF Unless, PreWrite, Before, device
  <2>. QED
    BY <1>1, <1>4, <2>1, TruthEarly
<1>5. Begin(req) \in PreWrite
  BY DEF Begin, PreWrite, Before
<1>6. CASE ReadInfo \/ ReadCounter \/ ReadChipIds \/ GameInfo \/ ReadIds
  BY <1>3, <1>5, <1>6 DEF ReadInfo, ReadCounter, ReadChipIds, GameInfo, ReadIds, PreWrite, Before
<1>7. CASE ReadFiles \/ GetDevice \/ PickTable
  <2>1. at \in PreWrite
    BY <1>7 DEF ReadFiles, GetDevice, PickTable, PreWrite, Before
  <2>2. CASE ReadFiles
    <3>1. (req.write \/ req.sram) \in BOOLEAN /\ "find" \in PreWrite
      BY DEF PreWrite, Before
    <3>. QED
      BY <1>4, <2>1, <2>2, <3>1 DEF ReadFiles
  <2>3. CASE GetDevice \/ PickTable
    <3>1. "count" \in PreWrite /\ (IF req.info THEN "dataBus" ELSE Begin(req)) \in PreWrite
      BY <1>5 DEF PreWrite, Before
    <3>. QED
      BY <1>4, <2>1, <2>3, <3>1 DEF GetDevice, PickTable
  <2>. QED
    BY <1>7, <2>2, <2>3
<1>8. CASE CountErase
  <2>1. note' \in Notes /\ note'.rom = note.rom
    BY <1>1, <1>8, FlasherAssumption DEF CountErase, Notes
  <2>. QED
    BY <1>1, <1>8, <2>1, Fails, TruthEarly DEF CountErase, PreWrite, Before
<1>9. CASE EraseEnd
  BY <1>1, <1>9, TruthEarly DEF EraseEnd, PreWrite, Before, device
<1>10. ASSUME ErasePage \/ EraseChip \/ ErasePad PROVE used' \in [fails : Nat, shorts : Nat]
  BY <1>1, <1>10, Fails DEF ErasePage, EraseChip, ErasePad, Erase
<1>11. CASE ErasePage \/ EraseChip \/ ErasePad
  <2>1. at \in PreWrite /\ UNCHANGED <<rom, sram, said, ram, note>>
    BY <1>11 DEF ErasePage, EraseChip, ErasePad, IoKeep, PreWrite, Before
  <2>2. at' \in PreWrite \cup {"end"} /\ (at' = "end" => ok' = FALSE)
    BY <1>11 DEF ErasePage, EraseChip, ErasePad, PreWrite, Before
  <2>. QED
    BY <1>1, <1>10, <1>11, <2>1, <2>2, TruthEarly
<1>. QED
  BY <1>2, <1>6, <1>7, <1>8, <1>9, <1>11

\* A step that moves no data: what was there, and read, still is.
Moves == /\ UNCHANGED <<req, flash, ram, rom, sram>>
         /\ used' \in [fails : Nat, shorts : Nat]
         /\ used'.fails >= used.fails /\ used'.shorts = used.shorts

LEMMA Kept ==
  ASSUME TruthShapes, Moves, NEW n
  PROVE  /\ Written(n) => Written(n)'
         /\ RamWritten(n) => RamWritten(n)'
         /\ Read(n) => Read(n)'
         /\ RamRead(n) => RamRead(n)'
BY DEF TruthShapes, Moves, Written, RamWritten, Read, RamRead, Short, Trouble

\* Between the transfers.
LEMMA TruthMoves ==
  ASSUME TruthInv, WriteName \/ SetMode \/ FindName \/ SaveFile
  PROVE  TruthInv'
<1>1. /\ at \in {"romName", "ramName", "mode", "findRom", "findRam", "saveRom", "saveRam"}
      /\ Moves
  <2>1. used \in [fails : Nat, shorts : Nat]
    BY DEF TruthInv, TruthShapes
  <2>2. CASE WriteName
    BY <2>1, <2>2, Fails DEF WriteName, Moves
  <2>3. CASE SetMode
    BY <2>1, <2>3, Fails DEF SetMode, SetRamMode, Moves
  <2>4. CASE FindName
    BY <2>1, <2>4, Fails DEF FindName, Query, device, Moves
  <2>5. CASE SaveFile
    BY <2>1, <2>5 DEF SaveFile, device, Moves
  <2>. QED
    BY <2>2, <2>3, <2>4, <2>5
<1>2. \/ at = "romName" /\ at' = "writeRam"
      \/ at = "ramName" /\ at' = "mode"
      \/ at = "mode" /\ at' = "findRom"
      \/ at = "findRom" /\ at' = "read"
      \/ at = "saveRom" /\ at' = "findRam"
      \/ at = "findRam" /\ at' = "readRam"
      \/ at = "saveRam" /\ at' = "verify"
      \/ at' = "end" /\ ok' = FALSE
  BY DEF WriteName, SetMode, FindName, SaveFile, Query
<1>3. \/ said' = said
      \/ said' = [said EXCEPT !.saved = @ \cup {"rom"}] /\ at = "saveRom" /\ req.read
      \/ said' = [said EXCEPT !.saved = @ \cup {"ram"}] /\ at = "saveRam" /\ req.readRam
  BY DEF WriteName, SetMode, FindName, SaveFile, Query
<1>4. note' \in Notes /\ (note'.rom = note.rom \/ (note'.rom = "new" /\ at = "romName"))
  <2>1. note \in Notes
    BY DEF TruthInv, TruthShapes
  <2>2. note' = note \/ (WriteName /\ \E f \in {"rom", "ram"} :
                            note' = [note EXCEPT ![f] = "new"] /\ (f = "rom" => at = "romName"))
    BY DEF WriteName, SetMode, FindName, SaveFile, Query, device
  <2>. QED
    BY <2>1, <2>2 DEF Notes
<1>5. /\ ~Writing /\ ~Writing' /\ ~Stopped
      /\ WritingRam => at = "romName"
      /\ WritingRam' => WritingRam
      /\ Reading' => Reading
      /\ ReadingRam' => ReadingRam
      /\ ~Stopped' => (~WritingRam' => ~WritingRam) /\ (~Reading' => ~Reading) /\ (~ReadingRam' => ~ReadingRam)
  BY <1>1, <1>2 DEF Writing, WritingRam, Reading, ReadingRam, Stopped, InIo, PreWrite, Before
<1>6. TruthShapes'
  <2>1. said' \in [rom : Verdicts, ram : Verdicts, saved : SUBSET {"rom", "ram"}]
    BY <1>3 DEF TruthInv, TruthShapes
  <2>. QED
    BY <1>1, <1>2, <1>4, <2>1 DEF TruthInv, TruthShapes, Moves
<1>7. Untold'
  <2>1. /\ Reading' => said'.saved = {}
        /\ ReadingRam' => "ram" \notin said'.saved
        /\ said'.rom = "nothing" /\ said'.ram = "nothing"
    <3>1. /\ at = "saveRom" => ~Reading'
          /\ at = "saveRam" => ~Reading' /\ ~ReadingRam'
      BY <1>1, <1>2 DEF Reading, WritingRam, Writing, ReadingRam, InIo, PreWrite, Before
    <3>2. /\ Reading => said.saved = {}
          /\ ReadingRam => "ram" \notin said.saved
          /\ said.rom = "nothing" /\ said.ram = "nothing"
      BY <1>1 DEF TruthInv, Untold
    <3>3. said \in [rom : Verdicts, ram : Verdicts, saved : SUBSET {"rom", "ram"}]
      BY DEF TruthInv, TruthShapes
    <3>. QED
      BY <1>3, <1>5, <3>1, <3>2, <3>3
  <2>. QED
    BY <1>1, <1>5, <2>1 DEF TruthInv, Untold, Moves
<1>8. Transfers'
  <2>1. at' # "romName" /\ at' # "io"
    BY <1>2
  <2>2. /\ Written(req.size) => Written(req.size)'
        /\ RamWritten(RamUnits) => RamWritten(RamUnits)'
        /\ Read(FlashUnits) => Read(FlashUnits)'
        /\ RamRead(RamUnits) => RamRead(RamUnits)'
    BY <1>1, Kept DEF TruthInv, Moves, Written
  <2>. QED
    BY <1>1, <1>5, <2>1, <2>2 DEF TruthInv, Transfers, InIo, Moves
<1>9. SaysTruth'
  <2>1. note'.rom = "new" => Written(req.size)'
    <3>1. note'.rom = "new" => Written(req.size)
      <4>1. CASE note.rom = "new"
        BY <4>1 DEF TruthInv, SaysTruth, Written, Short
      <4>2. CASE at = "romName"
        BY <1>5, <4>2 DEF TruthInv, Transfers
      <4>. QED
        BY <1>4, <4>1, <4>2
    <3>2. Written(req.size) => Written(req.size)'
      BY <1>1, Kept DEF TruthInv, Moves, Written
    <3>. QED
      BY <3>1, <3>2
  <2>2. "rom" \in said'.saved => Short \/ rom = flash
    <3>1. CASE "rom" \in said.saved
      BY <3>1 DEF TruthInv, SaysTruth, Short
    <3>2. CASE at = "saveRom" /\ req.read
      <4>1. Read(FlashUnits)
        BY <3>2 DEF TruthInv, Transfers, Reading, WritingRam, Writing, InIo, Stopped, PreWrite, Before
      <4>2. (\A u \in Units : u < FlashUnits => rom[u] = flash[u]) => rom = flash
        BY Sizes DEF TruthInv, TruthShapes, Units
      <4>. QED
        BY <4>1, <4>2 DEF Read
    <3>. QED
      BY <1>3, <3>1, <3>2 DEF TruthInv, TruthShapes
  <2>3. "ram" \in said'.saved => Trouble \/ sram = ram
    <3>1. CASE "ram" \in said.saved
      BY <3>1 DEF TruthInv, SaysTruth, Trouble
    <3>2. CASE at = "saveRam" /\ req.readRam
      <4>1. RamRead(RamUnits)
        BY <3>2 DEF TruthInv, Transfers, ReadingRam, Reading, WritingRam, Writing, InIo, Stopped,
                    PreWrite, Before
      <4>2. (\A u \in RamUnit : u < RamUnits => sram[u] = ram[u]) => sram = ram
        BY FlasherAssumption DEF TruthInv, TruthShapes, RamUnit
      <4>. QED
        BY <4>1, <4>2 DEF RamRead
    <3>. QED
      BY <1>3, <3>1, <3>2 DEF TruthInv, TruthShapes
  <2>4. said'.rom = "nothing" /\ said'.ram = "nothing" /\ ~(at' = "end" /\ ok')
    BY <1>1, <1>2, <1>3 DEF TruthInv, TruthShapes, Untold
  <2>5. (Short => used'.shorts > 0) /\ (Trouble => used'.shorts + used'.fails > 0)
    BY <1>1 DEF TruthInv, TruthShapes, Moves, Short, Trouble
  <2>. QED
    BY <1>1, <2>1, <2>2, <2>3, <2>4, <2>5 DEF SaysTruth, Moves, Written, Short
<1>. QED
  BY <1>6, <1>7, <1>8, <1>9 DEF TruthInv

\* A transfer that starts, or is skipped, and one that has come to its end.
LEMMA Stages ==
  /\ \A kind \in Kinds : at = kind \/ InIo(kind) =>
       /\ ~Stopped
       /\ Writing = (kind = "write")
       /\ WritingRam = (kind \in {"write", "writeRam"})
       /\ Reading = (kind \in {"write", "writeRam", "read"})
       /\ ReadingRam
  /\ at \in {"writeRam", "romName"} => ~Writing /\ WritingRam /\ Reading /\ ReadingRam
  /\ at \in {"mode", "ramName"} => ~Writing /\ ~WritingRam /\ Reading /\ ReadingRam
  /\ at \in {"findRam", "saveRom"} => ~Writing /\ ~WritingRam /\ ~Reading /\ ReadingRam
  /\ at \in {"verify", "saveRam", "hang"} => ~Writing /\ ~WritingRam /\ ~Reading /\ ~ReadingRam
BY KindNames DEF Stopped, Writing, WritingRam, Reading, ReadingRam, InIo, PreWrite, Before

LEMMA TruthSaid ==
  ASSUME TruthShapes, Moves, SaysTruth, UNCHANGED <<said, note>>, at' # "end"
  PROVE  SaysTruth'
BY DEF TruthShapes, Moves, SaysTruth

LEMMA TruthIoStart == TruthInv /\ IoStart => TruthInv'
<1>1. SUFFICES ASSUME TruthInv, IoStart PROVE TruthInv'
  OBVIOUS
<1>2. at \in Kinds /\ Moves /\ UNCHANGED <<said, note>>
      /\ used' \in [fails : Nat, shorts : Nat]
  <2>1. used \in [fails : Nat, shorts : Nat]
    BY <1>1 DEF TruthInv, TruthShapes
  <2>. QED
    BY <1>1, <2>1, Fails DEF IoStart, SetRamMode, Moves
<1>3. PICK kind \in Kinds : at = kind
  BY <1>2
<1>4. /\ Written(req.size) => Written(req.size)'
      /\ RamWritten(RamUnits) => RamWritten(RamUnits)'
      /\ Read(FlashUnits) => Read(FlashUnits)'
      /\ RamRead(RamUnits) => RamRead(RamUnits)'
  BY <1>1, <1>2, Kept DEF TruthInv, Moves, Written
<1>5. CASE Wanted(at)
  <2>1. at' = "io" /\ io' = [kind |-> kind, addr |-> 0, left |-> Total(kind)]
    BY <1>1, <1>3, <1>5 DEF IoStart
  <2>2. UNCHANGED <<Writing, WritingRam, Reading, ReadingRam>>
    BY <1>3, <2>1, Stages, KindNames
       DEF Writing, WritingRam, Reading, ReadingRam, InIo, PreWrite, Before
  <2>3. TruthShapes'
    <3>1. Total(kind) \in Nat /\ Total(kind)' = Total(kind)
      BY <1>1, <1>2, Sizes, FlasherAssumption DEF Total, TruthInv, TruthShapes, Moves
    <3>. QED
      BY <1>1, <1>2, <2>1, <3>1 DEF TruthInv, TruthShapes, Moves
  <2>4. Untold'
    BY <1>1, <1>2, <1>3, <2>1, <2>2, KindNames DEF TruthInv, Untold, Moves
  <2>5. Transfers'
    <3>1. Trouble' \/ (IsRam(kind) => mode' = "on")
      <4>1. used \in [fails : Nat, shorts : Nat]
        BY <1>1 DEF TruthInv, TruthShapes
      <4>2. PICK r \in Results : Fail(r) /\ mode' = IF r = "lost" THEN mode ELSE IF IsRam(at) THEN "on" ELSE "off"
        BY <1>1, <1>5 DEF IoStart, SetRamMode
      <4>. QED
        BY <1>3, <4>1, <4>2, Fails DEF Trouble
    <3>2. ~Stopped
      BY <1>3, Stages
    <3>3. Written(0)' /\ RamWritten(0)' /\ Read(0)' /\ RamRead(0)'
      BY FlasherAssumption DEF Written, RamWritten, Read, RamRead, Units, RamUnit
    <3>4. req' = req
      BY <1>2 DEF Moves
    <3>. QED
      BY <1>1, <1>4, <2>1, <2>2, <3>1, <3>2, <3>3, <3>4 DEF TruthInv, Transfers, InIo
  <2>. QED
    BY <1>1, <1>2, <2>1, <2>3, <2>4, <2>5, TruthSaid DEF TruthInv
<1>6. CASE ~Wanted(at)
  <2>1. at' = Skip[kind]
    BY <1>1, <1>3, <1>6 DEF IoStart
  <2>2. /\ kind = "write" => at' = "writeRam"
        /\ kind = "writeRam" => at' = "mode"
        /\ kind = "read" => at' = "findRam"
        /\ kind = "readRam" => at' = "verify"
    BY <2>1 DEF Skip
  <2>3. at' \in {"writeRam", "mode", "findRam", "verify"}
    BY <2>2, KindNames
  <2>4. TruthShapes'
    BY <1>1, <1>2, <2>3 DEF TruthInv, TruthShapes, Moves
  <2>5. /\ Writing' => Writing
        /\ WritingRam' => WritingRam
        /\ Reading' => Reading
        /\ ReadingRam' => ReadingRam
    <3>1. /\ ~Writing'
          /\ kind # "write" => ~WritingRam'
          /\ kind \in {"read", "readRam"} => ~Reading'
          /\ kind = "readRam" => ~ReadingRam'
      BY <2>2, KindNames DEF Writing, WritingRam, Reading, ReadingRam, InIo, PreWrite, Before
    <3>. QED
      BY <1>3, <3>1, Stages, KindNames
  <2>6. Untold'
    BY <1>1, <1>2, <1>3, <2>3, <2>5, KindNames DEF TruthInv, Untold, Moves
  <2>7. Transfers'
    <3>1. req' = req /\ at' \notin {"io", "romName"}
      BY <1>2, <2>3 DEF Moves
    <3>2. ~Stopped /\ ~Stopped'
      BY <1>3, <2>3, Stages DEF Stopped
    <3>3. /\ Writing /\ ~Writing' => kind = "write"
          /\ WritingRam /\ ~WritingRam' => kind = "writeRam"
          /\ Reading /\ ~Reading' => kind = "read"
          /\ ReadingRam /\ ~ReadingRam' => kind = "readRam"
      <4>1. /\ kind = "write" => WritingRam' /\ Reading' /\ ReadingRam'
            /\ kind = "writeRam" => Reading' /\ ReadingRam'
            /\ kind = "read" => ReadingRam'
        BY <2>2 DEF WritingRam, Reading, ReadingRam
      <4>. QED
        BY <1>3, <4>1, Stages, KindNames
    <3>4. /\ kind = "write" => ~req.write
          /\ kind = "writeRam" => ~req.sram
          /\ kind = "read" => ~(req.read \/ req.verify)
          /\ kind = "readRam" => ~(req.readRam \/ req.verify)
      BY <1>3, <1>6 DEF Wanted
    <3>. QED
      BY <1>1, <1>4, <3>1, <3>2, <3>3, <3>4 DEF TruthInv, Transfers, InIo
  <2>. QED
    BY <1>1, <1>2, <2>3, <2>4, <2>6, <2>7, TruthSaid DEF TruthInv
<1>. QED
  BY <1>5, <1>6

LEMMA TruthIoDone == FlashInv /\ TruthInv /\ IoDone => TruthInv'
<1>1. SUFFICES ASSUME FlashInv, TruthInv, IoDone PROVE TruthInv'
  OBVIOUS
<1>2. Moves /\ UNCHANGED <<said, note>>
  BY <1>1 DEF IoDone, device, TruthInv, TruthShapes, Moves
<1>3. PICK kind \in Kinds : at = "io" /\ io.kind = kind /\ io.addr = Total(kind)
  <2>1. at = "io" /\ io.left = 0
    BY <1>1 DEF IoDone
  <2>2. io \in [kind : Kinds, addr : Nat, left : Nat] /\ io.addr + io.left = Total(io.kind)
    BY <1>1, <2>1 DEF TruthInv, TruthShapes
  <2>. QED
    BY <2>1, <2>2
<1>4. at' = "hang" \/ at' = After[kind]
  BY <1>1, <1>3 DEF IoDone
<1>5. \/ at' = "hang"
      \/ kind = "write" /\ at' = "romName"
      \/ kind = "writeRam" /\ at' = "ramName"
      \/ kind = "read" /\ at' = "saveRom"
      \/ kind = "readRam" /\ at' = "saveRam"
  <2>1. /\ kind = "write" => After[kind] = "romName"
        /\ kind = "writeRam" => After[kind] = "ramName"
        /\ kind = "read" => After[kind] = "saveRom"
        /\ kind = "readRam" => After[kind] = "saveRam"
    BY DEF After
  <2>. QED
    BY <1>4, <2>1, KindNames
<1>6. TruthShapes'
  BY <1>1, <1>2, <1>5 DEF TruthInv, TruthShapes, Moves
<1>7. /\ ~Writing' /\ (WritingRam' => WritingRam) /\ (Reading' => Reading)
      /\ (ReadingRam' => ReadingRam)
  <2>1. /\ ~Writing'
        /\ WritingRam' => kind = "write"
        /\ Reading' => kind \in {"write", "writeRam"}
    BY <1>5 DEF Writing, WritingRam, Reading, ReadingRam, InIo, PreWrite, Before
  <2>. QED
    BY <1>3, <2>1, Stages DEF InIo
<1>8. Untold'
  BY <1>1, <1>2, <1>3, <1>5, <1>7 DEF TruthInv, Untold, Moves
<1>9. Transfers'
  <2>1. /\ Written(req.size) => Written(req.size)'
        /\ RamWritten(RamUnits) => RamWritten(RamUnits)'
        /\ Read(FlashUnits) => Read(FlashUnits)'
        /\ RamRead(RamUnits) => RamRead(RamUnits)'
    BY <1>1, <1>2, Kept DEF TruthInv, Moves, Written
  <2>2. /\ kind = "write" => req.write /\ Written(req.size)
        /\ kind = "writeRam" => RamWritten(RamUnits)
        /\ kind = "read" => Read(FlashUnits)
        /\ kind = "readRam" => RamRead(RamUnits)
    BY <1>1, <1>3 DEF FlashInv, TruthInv, Transfers, InIo, Total
  <2>3. /\ Writing => kind = "write"
        /\ WritingRam => kind \in {"write", "writeRam"}
        /\ Reading => kind # "readRam"
        /\ ~Stopped
    BY <1>3, Stages, KindNames DEF InIo
  <2>4. /\ at' = "romName" => kind = "write"
        /\ kind = "write" => WritingRam' \/ Stopped'
        /\ kind \in {"write", "writeRam"} => Reading' \/ Stopped'
        /\ kind # "readRam" => ReadingRam' \/ Stopped'
        /\ at' # "io"
    BY <1>5 DEF WritingRam, Reading, ReadingRam, Stopped
  <2>5. req' = req
    BY <1>2 DEF Moves
  <2>. QED
    BY <1>1, <2>1, <2>2, <2>3, <2>4, <2>5, KindNames DEF TruthInv, Transfers, InIo
<1>. QED
  BY <1>1, <1>2, <1>5, <1>6, <1>8, <1>9, TruthSaid DEF TruthInv

\* A block that gets through as far as n moves the data of its transfer only.
LEMMA Transferred ==
  ASSUME TruthShapes, NEW n, NEW r, Transfer(n, r)
  PROVE  /\ ram' \in [RamUnit -> {"old", "new"}]
         /\ rom' \in [Units -> Contents \cup {"junk"}] /\ sram' \in [RamUnit -> {"old", "new", "junk"}]
         /\ io.kind # "write" => flash' = flash
         /\ io.kind # "writeRam" => ram' = ram
         /\ io.kind # "read" => rom' = rom
         /\ io.kind # "readRam" => sram' = sram
<1>. /\ rom \in [Units -> Contents \cup {"junk"}] /\ flash \in [Units -> Contents]
     /\ sram \in [RamUnit -> {"old", "new", "junk"}] /\ ram \in [RamUnit -> {"old", "new"}]
  BY DEF TruthShapes
<1>1. io.kind # "write" => flash' = flash
  BY DEF Transfer
<1>2. ram' \in [RamUnit -> {"old", "new"}] /\ (io.kind # "writeRam" => ram' = ram)
  BY DEF Transfer
<1>3. rom' \in [Units -> Contents \cup {"junk"}] /\ (io.kind # "read" => rom' = rom)
  BY DEF Transfer
<1>4. sram' \in [RamUnit -> {"old", "new", "junk"}] /\ (io.kind # "readRam" => sram' = sram)
  BY DEF Transfer
<1>. QED
  BY <1>1, <1>2, <1>3, <1>4

\* One block, which is cut short, or fails, or moves all of its data.
LEMMA TruthBlock ==
  ASSUME FlashInv, FlashInv', TruthInv, at = "io", NEW bytes \in Nat \ {0}, bytes <= io.left,
         RwBlock(bytes, "end"), UNCHANGED <<req, said, mode, note>>
  PROVE  TruthInv'
<1> DEFINE Ends(r) == IF r = "ok"
                      THEN /\ io' = [io EXCEPT !.addr = @ + bytes, !.left = @ - bytes]
                           /\ UNCHANGED <<at, ok>>
                      ELSE at' = "end" /\ ok' = FALSE
           Uses(r, n) == used' = [used EXCEPT !.fails = IF r = "ok" THEN @ ELSE @ + 1,
                                              !.shorts = IF r = "ok" /\ n < bytes THEN @ + 1 ELSE @]
<1>0. PICK r \in Results : \E n \in Lengths(bytes, r) : Transfer(n, r) /\ Ends(r) /\ Uses(r, n)
  BY DEF RwBlock
<1>1. PICK n \in Lengths(bytes, r) : Transfer(n, r) /\ Ends(r) /\ Uses(r, n)
  BY <1>0
<1>2. n \in 0..bytes
  BY DEF Lengths
<1>3. /\ io \in [kind : Kinds, addr : Nat, left : Nat] /\ io.addr + io.left = Total(io.kind)
      /\ used \in [fails : Nat, shorts : Nat] /\ req \in Requests
      /\ rom \in [Units -> Contents \cup {"junk"}] /\ flash \in [Units -> Contents]
      /\ sram \in [RamUnit -> {"old", "new", "junk"}] /\ ram \in [RamUnit -> {"old", "new"}]
  BY DEF TruthInv, TruthShapes
<1>4. /\ used' \in [fails : Nat, shorts : Nat]
      /\ used'.shorts >= used.shorts /\ used'.fails >= used.fails
      /\ r = "ok" => n = bytes \/ Short'
  <2>1. Uses(r, n)
    BY <1>1
  <2>2. PICK f \in Nat, m \in Nat : used = [fails |-> f, shorts |-> m]
    BY <1>3
  <2>3. used' = [fails |-> IF r = "ok" THEN f ELSE f + 1,
                 shorts |-> IF r = "ok" /\ n < bytes THEN m + 1 ELSE m]
    BY <2>1, <2>2
  <2>4. used'.fails = (IF r = "ok" THEN f ELSE f + 1)
        /\ used'.shorts = (IF r = "ok" /\ n < bytes THEN m + 1 ELSE m)
    BY <2>3
  <2>. QED
    BY <1>2, <2>2, <2>3, <2>4 DEF Short
<1>5. (Short => Short') /\ (Trouble => Trouble') /\ (Short' => Trouble')
  BY <1>3, <1>4 DEF Short, Trouble
<1>6. /\ ram' \in [RamUnit -> {"old", "new"}]
      /\ rom' \in [Units -> Contents \cup {"junk"}] /\ sram' \in [RamUnit -> {"old", "new", "junk"}]
      /\ io.kind # "write" => flash' = flash
      /\ io.kind # "writeRam" => ram' = ram
      /\ io.kind # "read" => rom' = rom
      /\ io.kind # "readRam" => sram' = sram
  BY <1>1, Transferred DEF TruthInv
<1>7. PICK kind \in Kinds : io.kind = kind /\ InIo(kind)
  BY <1>3 DEF InIo
<1>11. PICK a \in Nat : a = io.addr
  BY <1>3
<1>8. /\ ~Stopped /\ Writing = (kind = "write") /\ WritingRam = (kind \in {"write", "writeRam"})
      /\ Reading = (kind \in {"write", "writeRam", "read"}) /\ ReadingRam
  BY <1>7, Stages
\* The data moved so far.
<1>9. r = "ok" => /\ kind = "write" => Written(a + bytes)'
                  /\ kind = "writeRam" => RamWritten(a + bytes)'
                  /\ kind = "read" => Read(a + bytes)'
                  /\ kind = "readRam" => RamRead(a + bytes)'
  <2> SUFFICES ASSUME r = "ok", ~Short' PROVE
                  /\ kind = "write" => Written(a + bytes)'
                  /\ kind = "writeRam" => RamWritten(a + bytes)'
                  /\ kind = "read" => Read(a + bytes)'
                  /\ kind = "readRam" => RamRead(a + bytes)'
    BY <1>5 DEF Written, RamWritten, Read, RamRead
  <2>1. n = bytes /\ ~Short 
    BY <1>3, <1>4, <1>5
  <2>2. Transfer(bytes, r)
    BY <1>1, <2>1
  <2>3. /\ \A u \in Units : u \in Nat
        /\ \A u \in RamUnit : u \in Nat
    BY FlasherAssumption DEF Units, RamUnit
  <2>4. CASE kind = "write"
    <3>1. \A u \in Units : u < a => flash[u] = "new"
      BY <1>7, <1>11, <2>1, <2>4 DEF TruthInv, Transfers, Written
    <3>2. \A u \in Units : a <= u /\ u < a + bytes => flash[u] = "erased"
      BY <1>3, <1>7, <1>11, <2>3, <2>4, Sizes DEF FlashInv, Total
    <3>3. \A u \in Units : flash'[u] = IF u \in a..a + bytes - 1 THEN Programmed(u) ELSE flash[u]
      BY <1>7, <1>11, <2>2, <2>4 DEF Transfer
    <3>. QED
      BY <2>1, <2>3, <2>4, <3>1, <3>2, <3>3 DEF Written, Programmed
  <2>5. CASE kind = "writeRam"
    <3>1. Trouble \/ (mode = "on" /\ \A u \in RamUnit : u < a => ram[u] = "new")
      BY <1>7, <1>11, <2>5 DEF TruthInv, Transfers, RamWritten, IsRam, InIo
    <3>2. mode = "on" => \A u \in RamUnit : ram'[u] = IF u \in a..a + bytes - 1 THEN "new" ELSE ram[u]
      BY <1>7, <1>11, <2>2, <2>5 DEF Transfer
    <3>. QED
      BY <1>5, <2>1, <2>3, <2>5, <3>1, <3>2 DEF RamWritten
  <2>6. CASE kind = "read"
    <3>1. \A u \in Units : u < a => rom[u] = flash[u]
      BY <1>7, <1>11, <2>1, <2>6 DEF TruthInv, Transfers, Read
    <3>2. \A u \in Units : rom'[u] = IF u \in a..a + bytes - 1 THEN flash[u] ELSE rom[u]
      BY <1>7, <1>11, <2>2, <2>6 DEF Transfer
    <3>. QED
      BY <1>6, <1>7, <2>1, <2>3, <2>6, <3>1, <3>2 DEF Read
  <2>7. CASE kind = "readRam"
    <3>1. Trouble \/ (mode = "on" /\ \A u \in RamUnit : u < a => sram[u] = ram[u])
      BY <1>7, <1>11, <2>7 DEF TruthInv, Transfers, RamRead, IsRam, InIo
    <3>2. mode = "on" => \A u \in RamUnit : sram'[u] = IF u \in a..a + bytes - 1 THEN ram[u] ELSE sram[u]
      BY <1>7, <1>11, <2>2, <2>7 DEF Transfer
    <3>. QED
      BY <1>5, <1>6, <1>7, <2>1, <2>3, <2>7, <3>1, <3>2 DEF RamRead
  <2>. QED
    BY <2>4, <2>5, <2>6, <2>7, KindNames
<1>10. /\ \A u \in Units : rom'[u] \in {"junk", flash'[u]}
       /\ \A u \in RamUnit : sram'[u] \in {"junk", ram'[u]}
       /\ kind = "write" => rom' = rom
       /\ kind \in {"write", "writeRam"} => sram' = sram
  <2>1. Untold /\ Transfer(n, r)
    BY <1>1 DEF TruthInv
  <2>2. \A u \in Units : rom'[u] \in {"junk", flash'[u]}
    <3>1. CASE kind = "write"
      BY <1>6, <1>7, <1>8, <2>1, <3>1 DEF Untold
    <3>2. CASE kind # "write"
      BY <1>6, <1>7, <2>1, <3>2 DEF Untold, Transfer
    <3>. QED
      BY <3>1, <3>2
  <2>3. \A u \in RamUnit : sram'[u] \in {"junk", ram'[u]}
    <3>1. CASE kind \in {"write", "writeRam"}
      BY <1>6, <1>7, <1>8, <2>1, <3>1 DEF Untold
    <3>2. CASE kind \notin {"write", "writeRam"}
      BY <1>6, <1>7, <2>1, <3>2 DEF Untold, Transfer
    <3>. QED
      BY <3>1, <3>2
  <2>. QED
    BY <1>6, <1>7, <2>2, <2>3
<1>12. SaysTruth'
  <2>1. said.rom = "nothing" /\ said.ram = "nothing" /\ said.rom' = said.rom /\ said.ram' = said.ram
    BY DEF TruthInv, Untold
  <2>2. ~(at' = "end" /\ ok')
    BY <1>1
  <2>3. note'.rom = "new" => Short' \/ \A u \in Units : u < req'.size => flash'[u] = "new"
    <3>1. note.rom = "new" => kind # "write"
      BY <1>8 DEF TruthInv, Untold
    <3>. QED
      BY <1>5, <1>6, <1>7, <3>1 DEF TruthInv, SaysTruth, Short
  <2>4. "rom" \in said.saved => Short' \/ rom' = flash'
    <3>1. "rom" \in said.saved => kind \notin {"write", "read"}
      BY <1>8 DEF TruthInv, Untold
    <3>. QED
      BY <1>5, <1>6, <1>7, <3>1 DEF TruthInv, SaysTruth, Short
  <2>5. "ram" \notin said.saved
    BY <1>8 DEF TruthInv, Untold
  <2>. QED
    BY <2>1, <2>2, <2>3, <2>4, <2>5 DEF SaysTruth, Short
<1>13. CASE r # "ok"
  <2>1. at' = "end"
    BY <1>1, <1>13
  <2>2. /\ ~Writing' /\ ~WritingRam' /\ ~Reading' /\ ~ReadingRam' /\ Stopped'
        /\ \A k \in Kinds : ~InIo(k)'
    BY <2>1 DEF Writing, WritingRam, Reading, ReadingRam, InIo, Stopped, PreWrite, Before
  <2>3. TruthShapes'
    BY <1>4, <1>6, <2>1 DEF FlashInv, TruthInv, TruthShapes
  <2>4. Untold'
    BY <1>10, <2>1, <2>2 DEF Untold
  <2>5. Transfers'
    BY <2>1, <2>2 DEF Transfers, InIo
  <2>. QED
    BY <1>12, <2>3, <2>4, <2>5 DEF TruthInv
<1>14. CASE r = "ok"
  <2>1. at' = "io" /\ io' = [io EXCEPT !.addr = @ + bytes, !.left = @ - bytes]
    BY <1>1, <1>14
  <2>2. /\ io' \in [kind : Kinds, addr : Nat, left : Nat] /\ io'.kind = kind
        /\ io'.addr = a + bytes /\ io'.addr + io'.left = Total(kind)
    <3>1. io' = [kind |-> kind, addr |-> a + bytes, left |-> io.left - bytes]
      BY <1>3, <1>7, <1>11, <2>1
    <3>2. io.left \in Nat /\ io.left - bytes \in Nat /\ a + io.left = Total(kind)
      BY <1>3, <1>7, <1>11
    <3>. QED
      BY <1>7, <3>1, <3>2
  <2>3. /\ ~Stopped' /\ Writing' = (kind = "write") /\ WritingRam' = (kind \in {"write", "writeRam"})
        /\ Reading' = (kind \in {"write", "writeRam", "read"}) /\ ReadingRam'
        /\ \A k : InIo(k)' => k = kind
    BY <2>1, <2>2, KindNames
       DEF Stopped, Writing, WritingRam, Reading, ReadingRam, InIo, PreWrite, Before
  <2>4. TruthShapes'
    <3>1. Total(io.kind)' = Total(kind)
      BY <2>2 DEF Total
    <3>2. (io.addr + io.left = Total(io.kind))'
      BY <2>2, <3>1
    <3>. QED
      BY <1>4, <1>6, <2>2, <3>2 DEF FlashInv, TruthInv, TruthShapes
  <2>5. Untold'
    <3>1. /\ kind = "write" => note.rom = "old" /\ \A u \in Units : rom[u] = "junk"
          /\ kind \in {"write", "writeRam"} => \A u \in RamUnit : sram[u] = "junk"
          /\ kind \in {"write", "writeRam", "read"} => said.saved = {}
          /\ "ram" \notin said.saved /\ said.rom = "nothing" /\ said.ram = "nothing"
      BY <1>8 DEF TruthInv, Untold
    <3>. QED
      BY <1>10, <2>1, <2>3, <3>1 DEF Untold
  <2>6. Transfers'
    <3>1. /\ InIo("write")' => Written(io.addr)'
          /\ InIo("writeRam")' => RamWritten(io.addr)'
          /\ InIo("read")' => Read(io.addr)'
          /\ InIo("readRam")' => RamRead(io.addr)'
      BY <1>9, <1>14, <2>2, <2>3 DEF Written, RamWritten, Read, RamRead
    <3>2. IsRam(io'.kind) => Trouble' \/ mode' = "on"
      BY <1>5, <1>7, <2>2 DEF TruthInv, Transfers, InIo
    <3>3. ~Writing' /\ req'.write => Written(req.size)'
      <4>1. SUFFICES ASSUME kind # "write", req.write PROVE Written(req.size)'
        BY <2>3
      <4>2. Written(req.size)
        BY <1>8, <4>1 DEF TruthInv, Transfers
      <4>. QED
        BY <1>5, <1>6, <1>7, <4>1, <4>2 DEF Written
    <3>4. ~WritingRam' /\ req'.sram => RamWritten(RamUnits)'
      <4>1. SUFFICES ASSUME kind \notin {"write", "writeRam"}, req.sram PROVE RamWritten(RamUnits)'
        BY <2>3
      <4>2. RamWritten(RamUnits)
        BY <1>8, <4>1 DEF TruthInv, Transfers
      <4>. QED
        BY <1>5, <1>6, <1>7, <4>1, <4>2 DEF RamWritten
    <3>5. ~Reading' /\ (req'.read \/ req'.verify) => Read(FlashUnits)'
      <4>1. SUFFICES ASSUME kind \notin {"write", "writeRam", "read"}, req.read \/ req.verify
                     PROVE  Read(FlashUnits)'
        BY <2>3
      <4>2. Read(FlashUnits)
        BY <1>8, <4>1 DEF TruthInv, Transfers
      <4>. QED
        BY <1>5, <1>6, <1>7, <4>1, <4>2 DEF Read
    <3>. QED
      BY <2>1, <2>3, <3>1, <3>2, <3>3, <3>4, <3>5 DEF Transfers
  <2>. QED
    BY <1>12, <2>4, <2>5, <2>6 DEF TruthInv
<1>. QED
  BY <1>13, <1>14

LEMMA TruthIo ==
  ASSUME FlashInv, FlashInv', TruthInv, IoBlock \/ IoRest
  PROVE  TruthInv'
<1>1. /\ at = "io" /\ io.left \in Nat /\ BlockOf(io.kind) \in Nat \ {0}
      /\ UNCHANGED <<req, said, mode, note>>
  BY Sizes DEF IoBlock, IoRest, FlashInv, BlockOf
<1>2. CASE IoBlock
  <2>1. BlockOf(io.kind) <= io.left /\ RwBlock(BlockOf(io.kind), "end")
    BY <1>1, <1>2 DEF IoBlock
  <2>. QED
    BY <1>1, <2>1, TruthBlock
<1>3. CASE IoRest
  BY <1>1, <1>3, TruthBlock DEF IoRest
<1>. QED
  BY <1>2, <1>3

\* The comparison: what has been read is the memory's, and whole if nothing
\* happened that is only a warning.
LEMMA TruthVerify ==
  ASSUME TruthInv, Verify
  PROVE  TruthInv'
<1>1. /\ at = "verify" /\ at' = "end"
      /\ UNCHANGED <<req, rom, sram, flash, ram, note, used, ok>>
  BY DEF Verify, device
<1>2. ~Stopped /\ ~Writing /\ ~WritingRam /\ ~Reading /\ ~ReadingRam
  BY <1>1, Stages DEF Stopped
<1>3. /\ said'.saved = said.saved
      /\ said'.rom \in Verdicts /\ said'.ram \in Verdicts
      /\ said'.rom # "nothing" => req.verify /\ req.write
      /\ said'.ram # "nothing" => req.verify /\ req.sram
      /\ said'.rom = "passed" => \A u \in Units : u < req.size => rom[u] = "new"
      /\ said'.rom = "failed" => \E u \in Units : u < req.size /\ rom[u] # "new"
      /\ said'.ram = "passed" => \A u \in RamUnit : sram[u] = "new"
      /\ said'.ram = "failed" => \E u \in RamUnit : sram[u] # "new"
      /\ said' \in [rom : Verdicts, ram : Verdicts, saved : SUBSET {"rom", "ram"}]
  BY DEF Verify, Verdicts, TruthInv, TruthShapes
<1>4. /\ req.write => Written(req.size)
      /\ req.sram => RamWritten(RamUnits)
      /\ req.verify => Read(FlashUnits) /\ RamRead(RamUnits)
  BY <1>2 DEF TruthInv, Transfers
<1>5. /\ \A u \in Units : u < FlashUnits /\ rom[u] \in {"junk", flash[u]}
      /\ \A u \in RamUnit : u < RamUnits /\ sram[u] \in {"junk", ram[u]}
  BY Sizes, FlasherAssumption DEF TruthInv, Untold, Units, RamUnit
<1>6. Short => Trouble
  BY DEF TruthInv, TruthShapes, Short, Trouble
<1>7. SaysTruth'
  <2>1. said'.rom = "passed" => \A u \in Units : u < req.size => flash[u] = "new"
    BY <1>3, <1>5
  <2>2. said'.ram = "passed" => \A u \in RamUnit : ram[u] = "new"
    BY <1>3, <1>5
  <2>3. said'.rom = "failed" => Trouble
    BY <1>3, <1>4, <1>5, <1>6 DEF Written, Read
  <2>4. said'.ram = "failed" => Trouble
    BY <1>3, <1>4, <1>5 DEF RamWritten, RamRead
  <2>5. Trouble => used.fails + used.shorts > 0
    BY DEF TruthInv, TruthShapes, Trouble
  <2>. QED
    BY <1>1, <1>3, <1>4, <2>1, <2>2, <2>3, <2>4, <2>5 DEF TruthInv, SaysTruth, Written, Short
<1>8. /\ ~Writing' /\ ~WritingRam' /\ ~Reading' /\ ~ReadingRam' /\ Stopped'
      /\ \A k \in Kinds : ~InIo(k)'
  BY <1>1 DEF Writing, WritingRam, Reading, ReadingRam, InIo, Stopped, PreWrite, Before
<1>9. TruthShapes' /\ Untold' /\ Transfers'
  <2>1. TruthShapes'
    BY <1>1, <1>3 DEF TruthInv, TruthShapes
  <2>2. Untold'
    BY <1>1, <1>8 DEF TruthInv, Untold
  <2>3. Transfers'
    BY <1>1, <1>8 DEF Transfers, InIo
  <2>. QED
    BY <2>1, <2>2, <2>3
<1>. QED
  BY <1>7, <1>9 DEF TruthInv

LEMMA TruthStutter == TruthInv /\ UNCHANGED vars => TruthInv'
BY DEF TruthInv, TruthShapes, Untold, Transfers, SaysTruth, vars, device, Writing, WritingRam, Reading,
       ReadingRam, InIo, Stopped, Written, RamWritten, Read, RamRead, Short, Trouble, Total

(***************************************************************************)
(* mx_flasher tells the truth: unless a block was cut short, a device that *)
(* has a ROM's name has the whole ROM, as it has after a run without an    *)
(* error; what was saved is what the device holds; "passed" means so, and  *)
(* "FAILED" comes only when something went wrong.                          *)
(***************************************************************************)
THEOREM FlasherSaysTruth == FlasherSpec => []SaysTruth
<1>1. FlasherInit => FlashInv /\ TruthInv
  BY FlashInit, TruthInit
<1>2. FlashInv /\ TruthInv /\ [FlasherNext]_vars => FlashInv' /\ TruthInv'
  BY FlashNext, TruthErases, TruthMoves, TruthIoStart, TruthIoDone, TruthIo, TruthVerify, TruthStutter
     DEF FlasherNext, Flasher, Over
<1>3. TruthInv => SaysTruth
  BY DEF TruthInv
<1>. QED
  BY <1>1, <1>2, <1>3, PTL DEF FlasherSpec

-----------------------------------------------------------------------------
(* Even numbers of erases and of reads.                                    *)

\* While erasing page by page, the loop's count is the parity of the erases; the
\* blocks still to be read are as even as those that have been.
EvenErases ==
  /\ at \in Before => odd.erases = FALSE /\ count = 0
  /\ at \in {"chip0", "chip1"} => req.all
  /\ at \in {"erase", "erasePad"} => count \in {0, 1}
  /\ req.size <= FlashUnits =>
       /\ at \in {"erase", "erasePad"} => odd.erases = (count = 1)
       /\ at \notin {"erase", "erasePad", "end"} \/ (at = "end" /\ ok) =>
            odd.erases = FALSE \/ odd.lost = TRUE \/ req.all = TRUE
EvenReads ==
  IF at = "io" /\ IsRead(io.kind)
  THEN \E k \in Nat : LET pairs == 2 * BlockOf(io.kind) * k IN
         \/ odd.reads = FALSE /\ io.left = pairs
         \/ odd.reads = TRUE /\ io.left = pairs + BlockOf(io.kind)
  ELSE at # "end" \/ ok => odd.reads = FALSE
EvenInv ==
  /\ odd \in [erases : BOOLEAN, reads : BOOLEAN, lost : BOOLEAN]
  /\ EvenErases
  /\ EvenReads

LEMMA EvenInit == FlasherInit => EvenInv
BY DEF FlasherInit, EvenInv, EvenErases, EvenReads, Before

\* Before the erases, and after them.
LEMMA EvenBefore ==
  ASSUME EvenInv,
         \/ Start \/ ReadFiles \/ GetDevice \/ ReadInfo \/ ReadCounter \/ ReadChipIds
         \/ GameInfo \/ ReadIds \/ PickTable \/ CountErase
  PROVE  EvenInv'
<1>1. at \in Before /\ UNCHANGED <<count, odd>>
  BY DEF Start, ReadFiles, GetDevice, ReadInfo, ReadCounter, ReadChipIds, GameInfo, ReadIds,
         PickTable, CountErase, Query, Unless, Before, device
<1>2. /\ at' \notin {"erasePad", "chip1", "io"} /\ (at' = "end" => ok' = FALSE)
      /\ at' = "chip0" => req'.all
  <2>1. CASE Start
    BY <2>1 DEF Start
  <2>2. CASE ReadFiles
    BY <2>2 DEF ReadFiles, Unless
  <2>3. CASE GetDevice
    BY <2>3 DEF GetDevice, Unless, Begin
  <2>4. CASE ReadInfo
    BY <2>4 DEF ReadInfo, Query
  <2>5. CASE ReadCounter \/ ReadChipIds
    BY <2>5 DEF ReadCounter, ReadChipIds, Query
  <2>6. CASE GameInfo
    BY <2>6 DEF GameInfo, Query, Begin
  <2>7. CASE ReadIds \/ PickTable
    BY <2>7 DEF ReadIds, PickTable, Query, Unless
  <2>8. CASE CountErase
    BY <2>8 DEF CountErase
  <2>. QED
    BY <2>1, <2>2, <2>3, <2>4, <2>5, <2>6, <2>7, <2>8
<1>3. EvenReads'
  BY <1>1, <1>2 DEF EvenInv, EvenReads, Before
<1>4. EvenErases'
  BY <1>1, <1>2 DEF EvenInv, EvenErases, Before
<1>. QED
  BY <1>1, <1>3, <1>4 DEF EvenInv

LEMMA EvenAfterwards ==
  ASSUME EvenInv, WriteName \/ SetMode \/ FindName \/ SaveFile \/ Verify
  PROVE  EvenInv'
<1>1. /\ at \notin Before \cup {"erase", "erasePad", "chip0", "chip1", "end", "io"}
      /\ at' \notin Before \cup {"erase", "erasePad", "chip0", "chip1", "io"}
      /\ UNCHANGED <<req, odd>>
      /\ at' = "end" => ok' = FALSE \/ ok' = ok
  BY DEF WriteName, SetMode, FindName, SaveFile, Verify, Query, Before, device
<1>2. EvenErases'
  BY <1>1 DEF EvenInv, EvenErases
<1>3. EvenReads'
  BY <1>1 DEF EvenInv, EvenReads
<1>. QED
  BY <1>1, <1>2, <1>3 DEF EvenInv

LEMMA EvenErase ==
  ASSUME FlashInv, EvenInv, ErasePage \/ EraseEnd \/ ErasePad \/ EraseChip
  PROVE  EvenInv'
<1>1. /\ at \in {"erase", "erasePad", "chip0", "chip1"} /\ req' = req
      /\ at' \in {"erase", "erasePad", "chip1", "write", "end"} /\ (at' = "end" => ok' = FALSE)
  BY DEF ErasePage, EraseEnd, ErasePad, EraseChip, IoKeep
<1>2. odd \in [erases : BOOLEAN, reads : BOOLEAN, lost : BOOLEAN] /\ odd.reads = FALSE
  BY <1>1 DEF EvenInv, EvenReads
<1>3. odd' = odd \/ \E r : odd' = [odd EXCEPT !.erases = @ # (r # "lost"),
                                          !.lost = @ \/ (at = "erasePad" /\ r = "lost")]
  BY DEF ErasePage, EraseEnd, ErasePad, EraseChip, Erase, device
<1>4. odd' \in [erases : BOOLEAN, reads : BOOLEAN, lost : BOOLEAN] /\ odd'.reads = FALSE
  BY <1>2, <1>3
<1>5. EvenReads'
  BY <1>1, <1>4 DEF EvenReads
<1>6. /\ at = "chip1" \/ at = "chip0" => req.all
      /\ at \in {"erase", "erasePad"} => count \in {0, 1}
      /\ req.size <= FlashUnits /\ at \in {"erase", "erasePad"} => odd.erases = (count = 1)
  BY DEF EvenInv, EvenErases
<1>7. CASE ErasePage
  <2>1. at = "erase" /\ addr \in Nat /\ addr < EraseSize(req) /\ req \in Requests
    BY <1>7 DEF ErasePage, FlashInv, AtPage
  <2>2. req.size <= FlashUnits => EntriesOf(addr) # {}
    <3>1. req.size <= FlashUnits => EraseSize(req) <= FlashUnits
      BY <2>1, Sizes DEF EraseSize
    <3>. QED
      BY <2>1, <3>1, Sizes, OutOfTable
  <2>3. PICK r \in Results :
          /\ odd' = [odd EXCEPT !.erases = @ # (r # "lost"),
                                !.lost = @ \/ (at = "erasePad" /\ r = "lost")]
          /\ ok' = (r = "ok")
          /\ at' = IF r # "ok" THEN "end" ELSE IF EntriesOf(addr) = {} THEN "erasePad" ELSE "erase"
          /\ count' = IF r = "ok" /\ EntriesOf(addr) # {} THEN 1 - count ELSE count
    BY <1>7 DEF ErasePage, Erase
  <2>4. r = "ok" => odd'.erases = ~odd.erases
    BY <1>2, <2>3
  <2>5. count' \in {0, 1}
    BY <1>6, <2>1, <2>3
  <2>6. req.size <= FlashUnits /\ r = "ok" => at' = "erase" /\ odd'.erases = (count' = 1)
    <3>1. SUFFICES ASSUME req.size <= FlashUnits, r = "ok" PROVE at' = "erase" /\ odd'.erases = (count' = 1)
      OBVIOUS
    <3>2. at' = "erase" /\ count' = 1 - count
      BY <2>2, <2>3, <3>1
    <3>3. (count' = 1) = ~(count = 1)
      BY <1>6, <2>1, <3>2
    <3>. QED
      BY <1>6, <2>1, <2>4, <3>1, <3>2, <3>3
  <2>7. r # "ok" => at' = "end" /\ ok' = FALSE
    BY <2>3
  <2>8. r = "ok" => at' \in {"erase", "erasePad"}
    BY <2>3
  <2>9. EvenErases'
    BY <1>1, <2>5, <2>6, <2>7, <2>8 DEF EvenErases, Before
  <2>. QED
    BY <1>4, <1>5, <2>9 DEF EvenInv
<1>8. CASE EraseEnd
  <2>1. at = "erase" /\ at' = "erasePad" /\ UNCHANGED <<odd, count>>
    BY <1>8 DEF EraseEnd, device
  <2>2. EvenErases'
    BY <1>1, <1>6, <2>1 DEF EvenErases, Before
  <2>. QED
    BY <1>4, <1>5, <2>2 DEF EvenInv
<1>9. CASE ErasePad
  <2>1. at = "erasePad" /\ at' = "write"
    BY <1>9 DEF ErasePad
  <2>2. IF count = 1
        THEN \E r \in Results : odd' = [odd EXCEPT !.erases = @ # (r # "lost"),
                                         !.lost = @ \/ (at = "erasePad" /\ r = "lost")]
        ELSE odd' = odd
    BY <1>9 DEF ErasePad, Erase
  <2>3. req.size <= FlashUnits => odd'.erases = FALSE \/ odd'.lost = TRUE
    <3>1. CASE count = 1
      <4>1. PICK r \in Results : odd' = [odd EXCEPT !.erases = @ # (r # "lost"),
                                         !.lost = @ \/ (at = "erasePad" /\ r = "lost")]
        BY <2>2, <3>1
      <4>2. CASE r = "lost"
        BY <1>2, <2>1, <4>1, <4>2
      <4>3. CASE r # "lost"
        <5>1. odd'.erases = ~odd.erases
          BY <1>2, <4>1, <4>3
        <5>. QED
          BY <1>6, <2>1, <3>1, <5>1
      <4>. QED
        BY <4>2, <4>3
    <3>2. CASE count # 1
      BY <1>6, <2>1, <2>2, <3>2
    <3>. QED
      BY <3>1, <3>2
  <2>4. EvenErases'
    BY <1>1, <2>1, <2>3 DEF EvenErases, Before
  <2>. QED
    BY <1>4, <1>5, <2>4 DEF EvenInv
<1>10. CASE EraseChip
  <2>1. at \in {"chip0", "chip1"} /\ at' \in {"chip1", "write", "end"}
    BY <1>10 DEF EraseChip
  <2>2. req.all = TRUE
    <3>1. req.all \in BOOLEAN
      BY FlasherAssumption DEF FlashInv
    <3>. QED
      BY <1>6, <2>1, <3>1
  <2>3. EvenErases'
    BY <1>1, <2>1, <2>2 DEF EvenErases, Before
  <2>. QED
    BY <1>4, <1>5, <2>3 DEF EvenInv
<1>. QED
  BY <1>7, <1>8, <1>9, <1>10

\* A read of a whole memory is of an even number of blocks.
LEMMA WholePairs ==
  ASSUME NEW kind \in Kinds, IsRead(kind)
  PROVE  /\ BlockOf(kind) \in Nat \ {0}
         /\ \E k \in Nat : Total(kind) = 2 * BlockOf(kind) * k
<1>1. kind \in {"read", "readRam"}
  BY DEF IsRead
<1>2. /\ BlockOf(kind) \in Nat \ {0} /\ Total(kind) \in Nat
      /\ Total(kind) % (2 * BlockOf(kind)) = 0
  BY <1>1, FlasherAssumption DEF BlockOf, IsRam, Total
<1> DEFINE p == 2 * BlockOf(kind)
<1>3. p \in Nat \ {0}
  BY <1>2
<1>4. Total(kind) = p * (Total(kind) \div p) /\ Total(kind) \div p \in Nat
  <2>1. Total(kind) % p = 0
    BY <1>2
  <2> HIDE DEF p
  <2>. QED
    BY <1>2, <1>3, <2>1, Multiple
<1>. QED
  BY <1>2, <1>4

LEMMA EvenIoStart == FlashInv /\ EvenInv /\ IoStart => EvenInv'
<1>1. SUFFICES ASSUME FlashInv, EvenInv, IoStart PROVE EvenInv'
  OBVIOUS
<1>2. /\ at \in Kinds /\ at' \in {"io", "writeRam", "mode", "findRam", "verify"} /\ UNCHANGED <<odd, req>>
  <2>1. at' = "io" \/ at' = Skip[at]
    BY <1>1 DEF IoStart
  <2>2. at \in Kinds => Skip[at] \in {"writeRam", "mode", "findRam", "verify"}
    <3>1. /\ Skip["write"] = "writeRam" /\ Skip["writeRam"] = "mode"
          /\ Skip["read"] = "findRam" /\ Skip["readRam"] = "verify"
      BY DEF Skip
    <3>. QED
      BY <3>1, KindNames
  <2>. QED
    BY <1>1, <2>1, <2>2 DEF IoStart
<1>3. odd.reads = FALSE /\ at \notin Before \cup {"erase", "erasePad", "chip0", "chip1", "end", "io"}
  BY <1>1, <1>2, KindNames DEF EvenInv, EvenReads, Before
<1>4. EvenErases'
  BY <1>1, <1>2, <1>3 DEF EvenInv, EvenErases, Before
<1>5. EvenReads'
  <2>1. CASE at' = "io" /\ IsRead(io'.kind)
    <3>1. PICK kind \in Kinds : at = kind
      BY <1>2
    <3>2. io' = [kind |-> kind, addr |-> 0, left |-> Total(kind)]
      <4>1. Wanted(at)
        <5>1. Skip[at] # "io"
          <6>1. /\ Skip["write"] = "writeRam" /\ Skip["writeRam"] = "mode"
                /\ Skip["read"] = "findRam" /\ Skip["readRam"] = "verify"
            BY DEF Skip
          <6>. QED
            BY <1>2, <6>1, KindNames
        <5>. QED
          BY <1>1, <2>1, <5>1 DEF IoStart
      <4>. QED
        BY <1>1, <3>1, <4>1 DEF IoStart
    <3>3. PICK k \in Nat : Total(kind) = 2 * BlockOf(kind) * k
      BY <2>1, <3>2, WholePairs
    <3>4. io'.left = 2 * BlockOf(kind) * k /\ io'.kind = kind /\ BlockOf(io'.kind) = BlockOf(kind)
      BY <3>2, <3>3
    <3>5. odd'.reads = FALSE
      BY <1>2, <1>3
    <3>. QED
      BY <2>1, <3>4, <3>5 DEF EvenReads, BlockOf
  <2>2. CASE ~(at' = "io" /\ IsRead(io'.kind))
    BY <1>2, <1>3, <2>2 DEF EvenReads
  <2>. QED
    BY <2>1, <2>2
<1>. QED
  BY <1>1, <1>2, <1>4, <1>5 DEF EvenInv

LEMMA EvenIoDone == FlashInv /\ EvenInv /\ IoDone => EvenInv'
<1>1. SUFFICES ASSUME FlashInv, EvenInv, IoDone PROVE EvenInv'
  OBVIOUS
<1>2. /\ at = "io" /\ io.kind \in Kinds /\ io.left = 0 /\ UNCHANGED <<odd, req>>
      /\ at' = "hang" \/ at' = After[io.kind]
  BY <1>1 DEF IoDone, device, FlashInv
<1>3. at' \in {"hang", "romName", "ramName", "saveRom", "saveRam"}
  BY <1>2, KindNames DEF After
<1>4. odd.reads = FALSE
  <2>1. CASE IsRead(io.kind)
    <3>1. PICK b \in Nat \ {0} : BlockOf(io.kind) = b
      BY <1>2, <2>1, WholePairs
    <3>2. PICK k \in Nat : \/ odd.reads = FALSE /\ io.left = 2 * b * k
                           \/ odd.reads = TRUE /\ io.left = 2 * b * k + b
      BY <1>1, <1>2, <2>1, <3>1 DEF EvenInv, EvenReads
    <3>3. 2 * b * k + b # 0
      BY <3>1
    <3>. QED
      BY <1>2, <3>2, <3>3
  <2>2. CASE ~IsRead(io.kind)
    BY <1>1, <1>2, <2>2 DEF EvenInv, EvenReads
  <2>. QED
    BY <2>1, <2>2
<1>5. EvenErases'
  BY <1>1, <1>2, <1>3 DEF EvenInv, EvenErases, Before
<1>6. EvenReads'
  BY <1>2, <1>3, <1>4 DEF EvenReads
<1>. QED
  BY <1>1, <1>2, <1>5, <1>6 DEF EvenInv

\* Pairs of blocks, of a size that is not a number of the text.
LEMMA Pairs ==
  ASSUME NEW b \in Nat \ {0}, NEW k \in Nat
  PROVE  /\ 2 * b * k < b => k = 0
         /\ 2 * b * k + b >= b
         /\ k > 0 => k - 1 \in Nat /\ 2 * b * k - b = 2 * b * (k - 1) + b
<1> DEFINE p == 2 * b
<1>1. p \in Nat \ {0} /\ p > b
  OBVIOUS
<1>2. k > 0 => p * k >= p
  <2> HIDE DEF p
  <2>. QED
    BY <1>1
<1>3. k > 0 => k - 1 \in Nat /\ p * k = p * (k - 1) + p
  <2> HIDE DEF p
  <2>. QED
    BY <1>1
<1>4. p * k \in Nat
  BY <1>1
<1>. QED
  BY <1>1, <1>2, <1>3, <1>4

LEMMA EvenIo == FlashInv /\ EvenInv /\ (IoBlock \/ IoRest) => EvenInv'
<1>1. SUFFICES ASSUME FlashInv, EvenInv, IoBlock \/ IoRest PROVE EvenInv'
  OBVIOUS
<1> DEFINE bytes == IF io.left >= BlockOf(io.kind) THEN BlockOf(io.kind) ELSE io.left
<1>2. /\ at = "io" /\ io \in [kind : Kinds, addr : Nat, left : Nat] /\ io.left > 0
      /\ UNCHANGED req /\ BlockOf(io.kind) \in Nat \ {0}
  BY <1>1, Sizes DEF IoBlock, IoRest, FlashInv, BlockOf
<1>3. RwBlock(bytes, "end")
  BY <1>1, <1>2 DEF IoBlock, IoRest
<1>4. PICK r \in Results :
        /\ odd' = [odd EXCEPT !.reads = @ # (IsRead(io.kind) /\ r # "lost")]
        /\ IF r = "ok" THEN at' = at /\ io' = [io EXCEPT !.addr = @ + bytes, !.left = @ - bytes]
           ELSE at' = "end" /\ ok' = FALSE
  <2> HIDE DEF bytes
  <2>. QED
    BY <1>3 DEF RwBlock, Transfer
<1>5. /\ odd \in [erases : BOOLEAN, reads : BOOLEAN, lost : BOOLEAN] /\ odd' \in [erases : BOOLEAN, reads : BOOLEAN, lost : BOOLEAN]
      /\ odd'.erases = odd.erases /\ odd'.lost = odd.lost
  BY <1>1, <1>4 DEF EvenInv, IsRead
<1>6. r = "ok" => IF IsRead(io.kind) THEN odd'.reads = ~odd.reads ELSE odd'.reads = odd.reads
  BY <1>4, <1>5 DEF IsRead
<1>7. EvenErases'
  BY <1>1, <1>2, <1>4, <1>5 DEF EvenInv, EvenErases, Before
<1>8. EvenReads'
  <2>1. CASE at' = "end" /\ ok' = FALSE
    BY <2>1 DEF EvenReads
  <2>2. CASE r = "ok" /\ at' = at /\ ~IsRead(io.kind) /\ io' = [io EXCEPT !.addr = @ + bytes, !.left = @ - bytes]
    <3>1. io'.kind = io.kind
      BY <1>2, <2>2
    <3>2. odd.reads = FALSE
      BY <1>1, <1>2, <2>2 DEF EvenInv, EvenReads
    <3>. QED
      BY <1>2, <1>6, <2>2, <3>1, <3>2 DEF EvenReads, IsRead
  <2>3. CASE r = "ok" /\ at' = at /\ IsRead(io.kind) /\ io' = [io EXCEPT !.addr = @ + bytes, !.left = @ - bytes]
    <3>1. PICK b \in Nat \ {0} : BlockOf(io.kind) = b
      BY <1>2
    <3>2. PICK k \in Nat : \/ odd.reads = FALSE /\ io.left = 2 * b * k
                           \/ odd.reads = TRUE /\ io.left = 2 * b * k + b
      BY <1>1, <1>2, <2>3, <3>1 DEF EvenInv, EvenReads
    <3>3. io.left >= b
      <4>1. io.left >= b \/ k = 0
        BY <1>2, <3>1, <3>2, Pairs
      <4>2. k = 0 => 2 * b * k = 0
        BY <3>1
      <4>. QED
        BY <1>2, <3>1, <3>2, <4>1, <4>2
    <3>4. io'.kind = io.kind /\ io'.left = io.left - b /\ BlockOf(io'.kind) = b
      BY <1>2, <2>3, <3>1, <3>3 DEF BlockOf
    <3>5. \E m \in Nat : \/ odd'.reads = FALSE /\ io'.left = 2 * b * m
                         \/ odd'.reads = TRUE /\ io'.left = 2 * b * m + b
      <4>1. CASE odd.reads = FALSE /\ io.left = 2 * b * k
        <5>1. k # 0
          <6>1. k = 0 => 2 * b * k = 0
            BY <3>1
          <6>. QED
            BY <1>2, <4>1, <6>1
        <5>2. k - 1 \in Nat /\ io'.left = 2 * b * (k - 1) + b
          BY <3>1, <3>4, <4>1, <5>1, Pairs
        <5>3. odd'.reads = TRUE
          BY <1>6, <2>3, <4>1
        <5>. QED
          BY <5>2, <5>3
      <4>2. CASE odd.reads = TRUE /\ io.left = 2 * b * k + b
        <5>1. io'.left = 2 * b * k
          BY <3>1, <3>4, <4>2
        <5>2. odd'.reads = FALSE
          BY <1>6, <2>3, <4>2
        <5>. QED
          BY <5>1, <5>2
      <4>. QED
        BY <3>2, <4>1, <4>2
    <3>. QED
      BY <1>2, <2>3, <3>4, <3>5 DEF EvenReads
  <2>. QED
    BY <1>4, <2>1, <2>2, <2>3
<1>. QED
  BY <1>5, <1>7, <1>8 DEF EvenInv

LEMMA EvenStutter == EvenInv /\ UNCHANGED vars => EvenInv'
<1>1. SUFFICES ASSUME EvenInv, UNCHANGED vars PROVE EvenInv'
  OBVIOUS
<1>2. UNCHANGED <<at, req, count, io, ok, odd>>
  BY <1>1 DEF vars, device
<1>3. EvenErases' /\ EvenReads'
  BY <1>1, <1>2 DEF EvenInv, EvenErases, EvenReads
<1>. QED
  BY <1>1, <1>2, <1>3 DEF EvenInv

(***************************************************************************)
(* A run without an error, of a file that fits into the flash, leaves the  *)
(* device with an even number of erases, unless it erased whole chips, and *)
(* of reads, of which a block is one even when it is cut short.            *)
(***************************************************************************)
THEOREM FlasherEvenAfterSuccess == FlasherSpec => [](req.size <= FlashUnits => EvenAfterSuccess)
<1>1. FlasherInit => FlashInv /\ EvenInv
  BY FlashInit, EvenInit
<1>2. FlashInv /\ EvenInv /\ [FlasherNext]_vars => FlashInv' /\ EvenInv'
  BY FlashNext, EvenBefore, EvenErase, EvenIoStart, EvenIo, EvenIoDone, EvenAfterwards, EvenStutter
     DEF FlasherNext, Flasher, Over
<1>3. EvenInv => (req.size <= FlashUnits => EvenAfterSuccess)
  BY DEF EvenInv, EvenErases, EvenReads, EvenAfterSuccess
<1>. QED
  BY <1>1, <1>2, <1>3, PTL DEF FlasherSpec

-----------------------------------------------------------------------------
(***************************************************************************)
(* The loops.  A transfer's address and what is left add up to its size,   *)
(* also in the block that ends it; before the first there was none.        *)
(***************************************************************************)
Points ==
  {"start", "files", "find", "dataBus", "addrBus", "counter", "chipIds", "names",
   "ids", "table", "count", "erase", "erasePad", "chip0", "chip1", "write", "writeRam", "read",
   "readRam", "io", "romName", "ramName", "mode", "findRom", "findRam", "saveRom", "saveRam",
   "verify", "hang", "end"}
IoShapes ==
  /\ io \in [kind : Kinds, addr : Nat, left : Nat] /\ io.addr + io.left \in {0, Total(io.kind)}
  /\ at = "start" => io.addr + io.left = 0
RunShapes ==
  /\ at \in Points /\ addr \in Nat /\ count \in {0, 1} /\ ok \in BOOLEAN
  /\ mode \in {"game", "on", "off", "mx"} /\ note.erases \in 0..CountMax

LEMMA IoShapesNext == TruthShapes /\ IoShapes /\ [FlasherNext]_vars => IoShapes'
<1>1. SUFFICES ASSUME TruthShapes, IoShapes, [FlasherNext]_vars PROVE IoShapes'
  OBVIOUS
<1>2. io \in [kind : Kinds, addr : Nat, left : Nat]
  BY <1>1 DEF IoShapes
<1>3. CASE Start
  <2>1. io' = io /\ at = "start" /\ at' = "files"
    BY <1>3 DEF Start
  <2>. QED
    BY <1>1, <2>1 DEF IoShapes
<1>4. CASE IoStart
  <2>1. req' = req /\ at' # "start"
    BY <1>4 DEF IoStart, Skip, Kinds, After
  <2>2. io' = io \/ io' = [kind |-> at, addr |-> 0, left |-> Total(at)]
    BY <1>4 DEF IoStart
  <2>3. CASE io' = io
    BY <1>1, <2>1, <2>3 DEF IoShapes, Total
  <2>4. CASE io' = [kind |-> at, addr |-> 0, left |-> Total(at)]
    <3>1. at \in Kinds
      BY <1>4 DEF IoStart
    <3>2. PICK k \in Kinds : k = at
      BY <3>1
    <3>3. Total(k) \in Nat
      <4>1. req.size \in Nat /\ FlashUnits \in Nat /\ RamUnits \in Nat
        BY <1>1, Sizes, FlasherAssumption DEF TruthShapes
      <4>. QED
        BY <4>1 DEF Total
    <3>4. /\ io'.kind = k /\ io'.addr = 0 /\ io'.left = Total(k)
          /\ io' \in [kind : Kinds, addr : Nat, left : Nat]
      BY <2>4, <3>2, <3>3
    <3>5. io'.addr + io'.left = Total(k)
      BY <3>3, <3>4
    <3>6. Total(k) = Total(io.kind)'
      BY <2>1, <3>4 DEF Total
    <3>. QED
      BY <2>1, <3>4, <3>5, <3>6 DEF IoShapes
  <2>. QED
    BY <2>2, <2>3, <2>4
<1>5. CASE IoBlock \/ IoRest
  <2>1. PICK n \in Nat : /\ n <= io.left /\ req' = req /\ at' # "start"
                         /\ io' = io \/ io' = [io EXCEPT !.addr = @ + n, !.left = @ - n]
    <3>1. CASE IoBlock
      <4>1. BlockOf(io.kind) \in Nat /\ BlockOf(io.kind) <= io.left
        BY <3>1, Sizes DEF IoBlock, BlockOf
      <4>. QED
        BY <3>1, <4>1 DEF IoBlock, RwBlock
    <3>2. CASE IoRest
      <4>1. io.left \in Nat /\ io.left <= io.left
        BY <1>2
      <4>. QED
        BY <3>2, <4>1 DEF IoRest, RwBlock
    <3>. QED
      BY <1>5, <3>1, <3>2
  <2>2. CASE io' = io
    BY <1>1, <2>1, <2>2 DEF IoShapes, Total
  <2>3. CASE io' = [io EXCEPT !.addr = @ + n, !.left = @ - n]
    <3>1. io'.kind = io.kind /\ io'.addr = io.addr + n /\ io'.left = io.left - n
          /\ io' = [kind |-> io'.kind, addr |-> io'.addr, left |-> io'.left]
      BY <1>2, <2>3
    <3>2. io.addr \in Nat /\ io.left \in Nat /\ io.kind \in Kinds
      BY <1>2
    <3>3. io'.addr \in Nat /\ io'.left \in Nat /\ io'.addr + io'.left = io.addr + io.left
      BY <2>1, <3>1, <3>2
    <3>4. Total(io.kind)' = Total(io.kind)
      BY <2>1, <3>1 DEF Total
    <3>5. io' \in [kind : Kinds, addr : Nat, left : Nat]
      BY <3>1, <3>2, <3>3
    <3>. QED
      BY <1>1, <2>1, <3>3, <3>4, <3>5 DEF IoShapes
  <2>. QED
    BY <2>1, <2>2, <2>3
<1>6. CASE ~(Start \/ IoStart \/ IoBlock \/ IoRest)
  <2>1. io' = io /\ req' = req
    BY <1>1, <1>6
       DEF FlasherNext, Flasher, Over, vars, ReadFiles, GetDevice, ReadInfo, ReadCounter, ReadChipIds,
           GameInfo, ReadIds, PickTable, CountErase, ErasePage, EraseEnd, ErasePad, EraseChip, IoDone,
           WriteName, SetMode, FindName, SaveFile, Verify, Query, Unless, IoKeep
  <2>2. at' = "start" => at = "start"
    <3>1. CASE IoDone
      BY <1>2, <3>1, KindNames DEF IoDone, After
    <3>2. CASE GetDevice \/ GameInfo
      BY <3>2 DEF GetDevice, GameInfo, Query, Unless, Begin
    <3>3. CASE ~(IoDone \/ GetDevice \/ GameInfo)
      BY <1>1, <1>6, <3>3
         DEF FlasherNext, Flasher, Over, vars, ReadFiles, ReadInfo, ReadCounter, ReadChipIds,
             ReadIds, PickTable, CountErase, ErasePage, EraseEnd, ErasePad, EraseChip,
             WriteName, SetMode, FindName, SaveFile, Verify, Query, Unless
    <3>. QED
      BY <3>1, <3>2, <3>3
  <2>. QED
    BY <1>1, <2>1, <2>2 DEF IoShapes, Total
<1>. QED
  BY <1>3, <1>4, <1>5, <1>6

LEMMA RunPlaces == IoShapes /\ RunShapes /\ [FlasherNext]_vars => at' \in Points /\ ok' \in BOOLEAN
<1>1. SUFFICES ASSUME IoShapes, RunShapes, [FlasherNext]_vars PROVE at' \in Points /\ ok' \in BOOLEAN
  OBVIOUS
<1>2. io.kind \in Kinds /\ at \in Points /\ ok \in BOOLEAN
  BY <1>1 DEF IoShapes, RunShapes
<1>3. CASE \/ Start \/ ReadFiles \/ GetDevice \/ ReadInfo \/ ReadCounter \/ ReadChipIds \/ GameInfo
           \/ ReadIds \/ PickTable \/ CountErase
  BY <1>2, <1>3 DEF Start, ReadFiles, GetDevice, ReadInfo, ReadCounter, ReadChipIds, GameInfo, ReadIds,
                    PickTable, CountErase, Query, Unless, Begin, Points
<1>4. CASE ErasePage \/ EraseEnd \/ ErasePad \/ EraseChip
  BY <1>2, <1>4 DEF ErasePage, EraseEnd, ErasePad, EraseChip, Points
<1>5. CASE IoStart
  BY <1>2, <1>5, KindNames DEF IoStart, Skip, Points
<1>6. CASE IoBlock \/ IoRest
  BY <1>2, <1>6 DEF IoBlock, IoRest, RwBlock, Points
<1>7. CASE IoDone
  BY <1>2, <1>7, KindNames DEF IoDone, After, Points
<1>8. CASE WriteName \/ SetMode \/ FindName \/ SaveFile \/ Verify
  BY <1>2, <1>8 DEF WriteName, SetMode, FindName, SaveFile, Verify, Query, Points
<1>9. CASE Over \/ UNCHANGED vars
  BY <1>2, <1>9 DEF Over, vars
<1>. QED
  BY <1>1, <1>3, <1>4, <1>5, <1>6, <1>7, <1>8, <1>9 DEF FlasherNext, Flasher

LEMMA RunShapesNext ==
  TruthShapes /\ IoShapes /\ RunShapes /\ [FlasherNext]_vars => RunShapes'
<1>1. SUFFICES ASSUME TruthShapes, IoShapes, RunShapes, [FlasherNext]_vars PROVE RunShapes'
  OBVIOUS
<1>2. /\ addr \in Nat /\ count \in {0, 1} /\ note \in Notes /\ note.erases \in 0..CountMax
      /\ CountMax \in Nat /\ mode \in {"game", "on", "off", "mx"}
  BY <1>1, FlasherAssumption DEF RunShapes, TruthShapes
<1>3. addr' \in Nat /\ count' \in {0, 1}
  <2>1. CASE ErasePage
    <3>1. \/ UNCHANGED <<addr, count>>
          \/ EntriesOf(addr) # {} /\ addr' = addr + PageSize(addr) /\ count' = 1 - count
      BY <2>1 DEF ErasePage
    <3>2. EntriesOf(addr) # {} => PageSize(addr) \in Nat
      <4>1. ASSUME NEW i \in EntriesOf(addr) PROVE PageSize(addr) \in Nat
        BY <1>2, OneEntry, EntryShape DEF EntriesOf
      <4>. QED
        BY <4>1
    <3>. QED
      BY <1>2, <3>1, <3>2
  <2>2. CASE ~ErasePage
    <3>1. UNCHANGED <<addr, count>>
      BY <1>1, <2>2
         DEF FlasherNext, Flasher, Over, vars, Start, ReadFiles, GetDevice, ReadInfo, ReadCounter,
             ReadChipIds, GameInfo, ReadIds, PickTable, CountErase, EraseEnd, ErasePad, EraseChip,
             IoStart, IoBlock, IoRest, IoDone, WriteName, SetMode, FindName, SaveFile, Verify, Query,
             Unless
    <3>. QED
      BY <1>2, <3>1
  <2>. QED
    BY <2>1, <2>2
<1>4. note'.erases \in 0..CountMax
  <2>1. CASE CountErase
    <3>1. note' = note \/ (note.erases # CountMax /\ note' = [note EXCEPT !.erases = note.erases + 1])
      BY <2>1 DEF CountErase
    <3>. QED
      BY <1>2, <3>1 DEF Notes
  <2>2. CASE WriteName
    <3>1. note' = note \/ \E f \in {"rom", "ram"} : note' = [note EXCEPT ![f] = "new"]
      BY <2>2 DEF WriteName
    <3>. QED
      BY <1>2, <3>1 DEF Notes
  <2>3. CASE ~(CountErase \/ WriteName)
    <3>1. note' = note
      BY <1>1, <2>3
         DEF FlasherNext, Flasher, Over, vars, device, Start, ReadFiles, GetDevice, ReadInfo, ReadCounter,
             ReadChipIds, GameInfo, ReadIds, PickTable, ErasePage, EraseEnd, ErasePad, EraseChip,
             IoStart, IoBlock, IoRest, IoDone, SetMode, FindName, SaveFile, Verify, Query, Unless, IoKeep
    <3>. QED
      BY <1>2, <3>1
  <2>. QED
    BY <2>1, <2>2, <2>3
<1>5. mode' \in {"game", "on", "off", "mx"}
  <2>1. CASE IoStart \/ SetMode
    BY <1>2, <2>1 DEF IoStart, SetMode, SetRamMode
  <2>2. CASE ~(IoStart \/ SetMode)
    <3>1. mode' = mode
      BY <1>1, <2>2
         DEF FlasherNext, Flasher, Over, vars, device, Start, ReadFiles, GetDevice, ReadInfo, ReadCounter,
             ReadChipIds, GameInfo, ReadIds, PickTable, CountErase, ErasePage, EraseEnd, ErasePad, EraseChip,
             IoBlock, IoRest, IoDone, WriteName, FindName, SaveFile, Verify, Query, Unless, IoKeep
    <3>. QED
      BY <1>2, <3>1
  <2>. QED
    BY <2>1, <2>2
<1>. QED
  BY <1>1, <1>3, <1>4, <1>5, RunPlaces DEF RunShapes

(***************************************************************************)
(* The erase loop and every transfer stay inside the file and the device's *)
(* memories, and these hold what erases and writes can leave, for every    *)
(* page table and size and whatever fails.                                 *)
(***************************************************************************)
THEOREM FlasherTypes == FlasherSpec => []FlasherTypeOK
<1> DEFINE Inv == FlashInv /\ TruthInv /\ EvenInv /\ IoShapes /\ RunShapes
<1>1. FlasherInit => Inv
  <2>1. FlasherInit => IoShapes
    BY KindNames DEF FlasherInit, IoShapes
  <2>2. FlasherInit => RunShapes
    BY FlasherAssumption DEF FlasherInit, RunShapes, Points
  <2>. QED
    BY <2>1, <2>2, FlashInit, TruthInit, EvenInit
<1>2. Inv /\ [FlasherNext]_vars => Inv'
  <2>1. FlashInv /\ TruthInv /\ [FlasherNext]_vars => FlashInv' /\ TruthInv'
    BY FlashNext, TruthErases, TruthMoves, TruthIoStart, TruthIoDone, TruthIo, TruthVerify, TruthStutter
       DEF FlasherNext, Flasher, Over
  <2>2. FlashInv /\ EvenInv /\ [FlasherNext]_vars => EvenInv'
    BY EvenBefore, EvenErase, EvenIoStart, EvenIo, EvenIoDone, EvenAfterwards, EvenStutter
       DEF FlasherNext, Flasher, Over
  <2>3. TruthInv => TruthShapes
    BY DEF TruthInv
  <2>. QED
    BY <2>1, <2>2, <2>3, IoShapesNext, RunShapesNext
<1>3. Inv => FlasherTypeOK
  BY KindNames DEF FlashInv, TruthInv, TruthShapes, EvenInv, IoShapes, RunShapes, Points, FlasherTypeOK
<1>. QED
  BY <1>1, <1>2, <1>3, PTL DEF FlasherSpec
=============================================================================
