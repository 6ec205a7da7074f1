# A TLA+ model of the megadrive tools

The repository is a collection of programs around the Sega Mega Drive: some
run on the console (68000, Z80 or 32X SH-2 code), some on a PC, one on a Teensy
board. What they have in common is that almost every one of them is one half of
a conversation: two or three processors that share a few wires, a few words of
memory or a USB pipe, without a lock and mostly without a checksum. These
conversations are what is modelled here, each with *both* halves translated
from their sources.

## The parts of the system

| part | sources | state | operations | how it interacts | what is hard | what makes it correct |
|---|---|---|---|---|---|---|
| hexed cable | `hexed/pc_transfer.c` 99-181, `hexed/transfer.S` 38-138 | port lines TH, TL, TR, D0-D3 and who drives them | send/receive a byte as two nibbles, turn the lines round | five wires, polled from both ends | every instruction of one side interleaves with the other; hand-over of the data lines; last nibbles are only held by timing | never two drivers; each byte once and in order; both finish |
| hexed transfer | `pc_transfer.c` 225-603, `transfer.S` 176-443, `transfer.h` | PC: arguments, position in the command; console: registers, memory | send, receive, jump, i/o sequence, load state, receive VRAM; start handshake; ^C; reset | over the cable; entered from hexed.s' VBL or at boot | aborts and resets anywhere; length 0, odd addresses; stale start handshake | the command's effect is the one asked for; no abort breaks the hardware rule; runs end |
| hexed editor | `hexed/hexed.s` | cursor, mode and the mode to come back to, one register of scratch (`d5`), the joypad's last reading and autorepeat counter, DTACK safety | one frame per vertical blank: draw, read the pad, handle it | hands over to the transfer; reads and writes the machine it runs on | the cursor's offset wraps below zero in a byte; registers mean something else in each mode; a press can be seen by half a read; hardware registers that hang when read | the cursor is on the screen and goes where asked; nothing happens that was not confirmed; dangerous addresses are not read |
| teensytp firmware | `teensytp/main.c` | pad slots, phases, Team Player sequence, mode | three interrupt handlers, aging, packets | pins to the console; packets from the host | handlers interrupt every store of main; a game polls at any speed | a poll sees one consistent pad, of the right half and phase; reports in order |
| teensytp host | `teensytp/host/main.c` | URBs, players, mode | select loop: input, mode keys, reap, send, reconnect | usbfs, evdev, the terminal | completions, input and unplugging in any order; one shared packet | never touches a packet in flight; knows what is pending; every change is sent |
| Teensy USB device | `teensytp/teensy3/usb_dev.c`, `usb_mem.c`, `usb_seremu.c`, `usb_rawhid.c`, `usb_desc.c` | the pool of packet buffers, two banks and a queue for each endpoint, `tx_state`, the print buffer and its timer, endpoint 0's transfer | `usb_isr`, `usb_free`, `usb_rx_memory`, `usb_rawhid_recv`, `usb_seremu_write` and its flush callback, `usb_setup` and `usb_control` | the firmware's loop calls it, the interrupt shares everything with it; the controller toggles banks by itself | masks are partial; a count is read before and cleared after them; banks, toggles and `tx_state` move in different handlers; the host gives transfers up | a buffer has one owner; banks agree; what is received comes in order, what is printed is sent |
| Teensy core, the rest | `teensytp/teensy3/*` (third party) | | | used by the firmware | `attachInterrupt` enables interrupts | as used |
| 32X mailbox | `testpico/main.c` 1811-1838, `sh2_main.c`, `sh2_test.sh2` | communication registers | the 68k asks one of two SH-2s to echo, read, write, set sr ... | eight words of shared registers, interrupts | bytes of a word seen before the others; time-outs; exceptions; an interrupt that is never acknowledged | once, as asked, by the addressed one; a clean return is a full answer |
| testpico tests | `testpico/main.c`, `z80_test.s80`, `sh2_main.c`, `sh2_test.sh2` | VDP registers and memories, interrupts, Z80, sound timers, the 32X with two SH-2s | some hundred hardware tests, one after the other, on one console; RESET | the tests share the console; the VDP, the Z80 and the SH-2s go on by themselves | each test relies on what the ones before it left, also after a RESET in the middle | every test finds the console as it assumes it, and passes on the console that the tests describe |
| mx_flasher | `mx/linux/mx_flasher.c` | the arguments; the device's flash, RAM, names, erase counter and mode | query, erase, count, write, name, set the mode, read, verify | USB commands with time-outs | any command fails, before or after its effect, and some failures are only warnings; short transfers; page sizes | only erased flash is programmed; what is reported and what the device says of itself is true; the device survives |
| mega-usb, megaed-sv | `mega-usb/mega-usb.c`, `megaed-sv/main.c`, `asmtools.s` | PC: arguments, pending command; cartridge: point in a command, RAM | upload, download, run, test | a serial line without a reset; answers of one byte | a run may be interrupted at any byte and the next one finds the cartridge there | what is reported as done was done; a good run leaves nothing behind; an earlier run's failure does not last |
| mega-usb-pro | `mega-usb-pro/mega-usb-pro.c` | the arguments left, the last reset type, what the last run left on the line | reset, FIFO, memory access, upload, run, handshake `*t` | a serial line to the cartridge's processor, which passes the FIFO to a menu on the console | whether a reset is needed is guessed from a static; answers of two speakers on one line; reads without a time-out | what is loaded lands where it belongs; each answer is to its own command; runs end |
| megaed-stop(-md), testsram, mdpcjoy, nshtest, idc | | | small single programs | | | not modelled (see the end) |

`PROJECT.json` lists each part with its status, under `map` the lines that each
definition stands for, and under `hazards` each thing that can go wrong, at its
line, with the properties that would notice.

## Modules

```
HexedWires           the five lines and the byte primitives of both programs
 ├─ HexedLink        a script of bytes and hand-overs     ──refines──> ScriptChannel
 │   └─ HexedLinkProofs
 └─ HexedTransfer    the commands of pc_transfer and transfer.S
     └─ HexedTransferStory    where both programs are in an undisturbed command
         └─ HexedTransferProofs
HexedEditor          hexed.s, one action per frame
 └─ HexedEditorProofs
TeensyPads           the firmware, its interrupt handlers, a console that polls
 └─ TeensyPadsProofs
TeensyHost           the PC program, usbfs, the firmware's end of the endpoints
 └─ TeensyHostProofs
UsbDevice            the Teensy's USB device, interrupt and loop  ──refines──> UsbPipe
 └─ UsbControl       with endpoint 0 and the host's transfers     ──refines──> UsbDevice
     └─ UsbDeviceProofs
X32Mailbox           68000 and two SH-2s over the communication registers
 └─ X32MailboxProofs
PicoVdp              VDP and RAM, as pure operators
 └─ PicoBoard        interrupts, V counter, Z80, sound timers
     ├─ PicoTests    the tests of the Mega Drive, as sequences of accesses
     └─ Pico32x      the 32X
         └─ Pico32xTests   the tests of the 32X (with PicoTests)
             └─ TestPico   main, the hardware's own steps, RESET
MxFlasher            a run of mx_flasher against the device
 └─ MxFlasherProofs
MegaUsb              mega-usb and megaed-sv over the serial line
MegaUsbPro           mega-usb-pro, the cartridge and the console's menu
MC*                  the instances that the configurations check
```

`HexedWires` is used by two modules that compose it with different callers:
`HexedLink` with an arbitrary legal script, which is small enough to be proved
about, and `HexedTransfer` with the real programs.

Definitions that end in `_Bug` are not part of a specification. Each is the
definition below it with a mistake somebody could make in that code, and the
comment names the property that fails when it takes that definition's place;
`PROJECT.json` lists them under `mutants`, at least one for every property of
every passing run. Some properties are stated and not part of a run: the type
invariants, `LinkInv`, `DataInv`, `EditorInv` and `TrackInv`, `LinesFollowTh` of
`TeensyPads` and `DtackByMenu` of `HexedEditor` (all proved, but for the two type
invariants that the end of the section on proofs names), and those that the
section on disagreements names.

### How code becomes actions

* **HexedWires.** An action is one port access (`outb`, `inb`, `move.b` to or
  from the port) or the end of one polling loop. `pc.at` and `md.at` are the
  two program counters. `PcSees` and `MdSees` return any nibble when nobody, or
  both, drive D0-D3. A line is the value of its driver; TH is pulled up when
  the Mega Drive's pin is an input.
* **HexedTransfer.** `PcProgram` is `main` of pc_transfer.c from the start
  handshake to its exit, by command; `MdProgram` is `do_transfer` with its
  handler table. A word, a long or a program at an odd address is an address error
  (`MdCrash`): the console leaves for the exception handler of hexed.s, and
  `do_transfer` never answers again. The count of i/o operations and the counts of
  bytes are tested as signed numbers (`NoMoreOps`). Bytes go through the primitives of `HexedWires` nibble by
  nibble. `PcAbort` is the SIGINT handler (which raises TL and exits), `Reset`
  the console's reset button, which brings it to the poll at boot.
* **HexedEditor.** `InputFrame` is everything between two vertical blanks: the
  mode's routine, `get_input` with its autorepeat counter, and what the mode
  does with the buttons. `cur`, `d5`, `back`, `save` are the registers and
  memory that hold them; the digits have base `Base` and the screen `Rows` rows
  of `Row` bytes. Up and down are in both halves of a pad reading (TH high and
  low), so `Inputs` has presses that only one of the two reads has seen.
  `WordsDrawn` is what the drawing routines would read of the machine.
* **TeensyPads.** Actions are what runs without an interrupt between: an
  interrupt handler as a whole (the firmware does not nest them), and each
  statement of `main`, `do_usb`, `switch_mode` and `update_btns_*` that reads or
  writes what a handler uses. The console sets TH and TR and reads at any
  moment, and the clock may move between any two of these. In `switch_mode` the
  interrupt of the TR pin comes on in `MainPin` (`attachInterrupt`), two steps
  before vector and mode are those of the Team Player (`TrIsOn`): edges in between
  reach the handler of the old mode.
* **TeensyHost.** One pass of the select loop per action, with the handlers it
  calls in the code's order; usbfs completes, fails and cancels URBs in between,
  the Teensy may go while `find_device` walks its descriptors, and keys, sticks
  and the devices themselves are moved, held and removed at any time. `select`'s
  result is a variable, and the input devices in it are read one by one in
  their order, an event each. `fd` is the Teensy's descriptor, numbered in the
  order of the devices: `select` sees only those below it. `KcMap` is
  `open_evdev`'s table with its default bindings; a button is the letter that
  binds it; a stick leans when it is a whole unit inside an outer third.
* **UsbDevice, UsbControl.** The interrupt handler is one step, and so is what
  the loop does with it masked; every read or write of shared state outside a
  mask is a step of its own: `usb_free`'s look at `usb_rx_memory_needed`, the
  end of `usb_rx_memory`, each part of `usb_seremu_write`. `hw` is the
  controller: which bank it uses next, which a bus reset puts back to even.
  In `UsbControl` a token on endpoint 0 and the interrupt for it are one step,
  since the controller answers NAK until the handler has run. The host may give
  any transfer up for another one.
* **X32Mailbox.** One access to a communication register per action, a long
  access being two; interrupts and exceptions of the SH-2s where they are
  enabled.
* **TestPico.** A test is the sequence of its accesses and the values it expects
  (`PicoTests`, `Pico32xTests`); `TestPico` carries one access out per step.
  Between two of them the VDP empties a FIFO slot or goes on with a fill, a
  line ends, a timer overflows, the Z80 or an SH-2 takes a step, or RESET is
  pressed. The hardware (`PicoVdp`, `PicoBoard`, `Pico32x`) is external: it does
  what the tests expect of it, so what is checked is the order of the tests and
  what each leaves behind. Memories have the cells that a test looks at.
* **MxFlasher.** One USB command with its answer per action, which may fail
  before the device has seen it, or after it has had its effect, one file block of
  each loop, opening, reading and saving a file each with its own failure. An erase
  that failed before the device saw it is no erase there (`odd.lost` when it was the
  one that makes the number even, whose result `erase_seq` does not look at). The
  commands that only print (device, counters, identification, page table) are steps
  too, since a failing one ends the run. `flash`, `ram` and `note` are the device, `rom` and `sram` the buffers.
* **MegaUsb.** One byte written, received or processed per action, the eight bytes
  of the address and the size of `*xd` included; only the fill of a megabyte in
  test 5 is a single step. `CartTest` and `CartTested` are the beginning and the end
  of a test, seconds apart: a run can be interrupted and the next one begun in
  between, and the `k` comes after that. A run whose operands are missing ends in
  `PcInvarg`.
* **MegaUsbPro.** What one `write` sends is a chunk, and one chunk is sent,
  taken or answered per action; the two writes of `send_cmd_a`, the command and its
  operands, are one chunk. (A run that is interrupted between them leaves half a
  command, which `Landed` and `RunsEnd` except: the next run does not meet an idle
  cartridge.) An operand that is missing or a file that cannot
  be read ends the run where the code meets it, after what came before it on the
  command line has been done. The cartridge's processor and the menu on the
  console are external.

## What the runs show

| run | what is asked | bounds |
|---|---|---|
| `HexedLink` | every byte of a transfer arrives once and in order, whatever the interleaving (`Delivery`, by refinement of `ScriptChannel`); samples are of driven lines (`SamplesDriven`); never two drivers (`NoContention`); both sides finish (`Completes`) | a script of 17 steps with every legal pair of neighbouring steps, one bit for a nibble |
| `HexedTransfer` | each command that can be carried out has the effect asked for, on memory, files, registers and the program counter (`CommandDone`), and its run ends (`RunsEnd`); ^C and reset at any step never leave two drivers (`NoTransferContention`); an acknowledged start was acknowledged by a console that polls (`AckIsFresh`) | two runs, one abort, one reset; the requests have all commands, an i/o sequence and an odd savestate, in a dozen bytes, and two that the console cannot carry out: a word written and a jump made to an odd address |
| `HexedEditor` | the cursor is on the screen (`CursorOnScreen`) and moves as asked (`CursorTracks`); memory is written, the program left or the cursor sent away only as A confirmed (`ConfirmedOnly`) | 16 addresses, a screen of two rows of four, binary digits; every mode; all the pairs of buttons that the code tells apart |
| `Pads` | the six-button sequence, and what is left of it when the clock moves at the wrong moment (`SixButtonRead`); the nibble that was acknowledged, also in a sequence that a mode switch cuts into (`AckedNibble`); reports never go backwards (`ReportsForward`) | two reports, two mode switches, eight edges of TH, three Team Player sequences |
| `HostLoop` | the packet in flight is not touched (`PacketStable`), `pending` is true to the kernel (`PendingTruth`), the program ends in sync, the pads with its state and its state with the players' hands (`InSync`), every change is sent (`ChangeIsSent`) | a keyboard with two keys for one button, a joystick with a bound button and a stick whose range is not divisible by three, for a player who exists in Team Player mode only, and two devices that say nothing; up to three input events, one mode (selected, or given with `-m`), one debug text, one failed transfer, one unplugging of the Teensy or of an input device, or three removals and one unplugging, in the combinations `MCBudgets` |
| `UsbDevice` | a buffer has one owner (`OneOwner`) and none is lost (`BuffersKept`); the flush callback sends a packet that is there (`FlushHasPacket`); until a bus reset `tx_state` and controller agree (`BanksAgree`); a control transfer is answered in step (`ControlInStep`); reception is a pipe (`Received`, by refinement of `UsbPipe`); what is printed is sent (`Flushed`) | six buffers, two receiving endpoints, packets of two bytes (on endpoint 0 too); three packets in (they may be empty), two prints of one or two bytes, one bus reset, two requests before each configuration |
| `UsbStarving` (violation) | "we should never reach this point ... no memory was actually needed" | as above |
| `X32Mailbox` | a command is carried out once, as asked and by the addressed SH-2 (`OnceAsAsked`); a clean return is a full answer, and an error count is of this call (`ReturnIsTrue`); calls return (`CallsEnd`) | two calls out of nine kinds, one vertical interrupt |
| `TestPico` | every test passes (`TestsPass`) and finds registers, interrupts and bus as `main` and the tests before it promise (`ConsoleReady`); no wait lasts for ever (no deadlock) | all the tests, with and without a 32X; one RESET at any point, a second one up to the end of the fill tests (`LastAgain`) |
| `MegaUsb` | success is true and leaves the line clean, unless the run met a cartridge in a test or with memory to send (`CommandTruth`); failure is the arguments' fault unless the cartridge was found inside a command (`FailsForAReason`); runs end, but for those that meet a game or a cartridge with memory to send (`MegaRunsEnd`) | three runs out of ten command lines, two of them interrupted at any byte, one reset; files of 0, 1/2, 2 and too many blocks, one with bytes that look like answers |
| `MegaUsbPro` | a run that meets an idle cartridge puts files where they belong and leaves nothing behind (`Landed`), every answer is to its own command (`RunsInStep`), and runs end (`RunsEnd`) | three runs out of eleven command lines, two of which end at an operand that is missing or a file that is not there; one interrupted at any chunk |
| `FlasherRuns` | only erased flash is programmed (`ProgrammedErased`); when a run succeeds, the name of the ROM in the device, the saved files and a verification are true (`SaysTruth`); success leaves an even number of reads, and of page erases unless the last, evening one never reached the device (`EvenAfterSuccess`); runs end (`RunEnds`) | pages of one and two units, files that end inside a page, at its end and at the end of flash; requests that write, erase, save, verify, and that query, set a mode and read ROM and RAM into files; two failures (of the device or of a file), one short transfer |

### Why the bounds are enough

The protocols have no memory beyond one step: `HexedLink`'s invariant relates
the two sides through the neighbouring steps of the script only, and the script
has all legal neighbours, and the proof in `HexedLinkProofs` has no bound at
all. Aborts, resets and failures are bounded by the smallest number that lets
one hit the recovery from another (in `MegaUsb` two aborts out of three runs, so
that the third run meets what two left behind; in `TestPico` a second RESET can
hit what the first one left, in the set-up and in the tests of DMA and of fills,
the ones that meet the leftovers; the later tests take one RESET each). A flasher run stops at its first error but goes on
after a warning, so two failures are the least that meet. `UsbDevice` needs two
receiving endpoints, so that the tail of `usb_rx_memory` has one to forget,
buffers for all their banks and two more, and packets that a print fills
exactly, passes, or does not fill; its proofs have no such bound. The editor's offsets wrap once in each
direction on the small screen just as on the large one, and the proofs cover the
real sizes. The eight edges of TH in
`Pads` are those of a whole six-button poll, or of two that a mode switch or the
aging cuts short; `SixButtonRead` is proved for any number. Time is bounded at four or five
milliseconds, enough to pass the phase's time-out (more than 1 ms) twice.

## Fairness and timing

* `HexedLink`, `HexedTransfer`: each processor keeps executing
  (`WF_vars` of each program). Nobody has to start, abort or reset anything.
* Three timing constants state what the code relies on without saying so.
  `PcPrompt`: having seen TH, the PC samples D0-D3 before the console's next
  command moves them (some 50 cycles of a 7.6 MHz 68000). `MdPrompt`: the
  console's polling loop of 28 cycles notices TL before the PC's next access
  takes the nibble away. `DelayOk`: `output_to_input`'s `usleep(40)` is longer
  than that loop. The runs assume all three. The proof of the hand-over assumes
  none, those about the data the first two. Without `PcPrompt`
  (a PC that is preempted before pc_transfer.c:153) or `MdPrompt`, `SamplesDriven`
  fails, see below.
* `TeensyPads` has no fairness and no liveness: the firmware answers a console
  that is free to stop.
* `TeensyHost`: the program runs, the firmware runs, and the bus delivers what
  is submitted (`WF` on `Host`, `OutDone`, `DoUsb`).
* `UsbDevice`: the loop runs (`WF` on `Main`) and start-of-frame interrupts, of
  which the host sends one per millisecond, keep counting the flush timer down
  (`WF` on `SofFlush`). The host need not send, configure or take anything but
  the printed packet.
* `TestPico` states no fairness: it looks for deadlocks instead of liveness.
* `X32Mailbox`: all three processors execute, and vertical blanking ends. The
  68000's loop that ends a call, 10000 rounds of a read and a delay (main.c:1823),
  is longer than any command of `do_cmd`, so it expires only when nobody is working on the call.
* `MxFlasher`: libusb's time-outs end every transfer.
* `MegaUsb`: both programs execute. A person needs longer to start the program
  again than the line needs to deliver what was sent (`Settled`), but does not wait
  for a test or for a large download to end (`Busy`). The end of
  `usbReadDma` without data is what mega-usb.c:192 describes: it comes only
  when the PC is idle. Opening the port resets the line's buffers, as the
  driver of the cartridge's serial chip does on open (`KeepsInput = FALSE`).
* `MegaUsbPro`: program, cartridge and menu execute. When a run starts on a
  console that has just been started, the menu's FIFO is empty.

## What is proved

TLAPS checks these for every value of the constants that satisfies the named
assumptions of the modules.

**The cable** (`HexedLinkProofs`): `LinkSpec => []LinkInv`, and from it
`LinkTypeOK` and `NoContention`. That the data lines have one driver is not
inductive: it is true because of where each program is when it turns the lines
round. `LinkInv` adds

* `PcLocal`, `MdLocal`: what each control point says of its own side - the
  level of its lines, the direction, which operation of the script it can be in;
* `Joint`: how far apart the two sides can be (`Ahead`) at each control point
  of the PC, including how far the console may have run on past the PC
  (`RanOn`) and that the PC may be two steps ahead of a console that still
  polls for the end of a byte.

The step lemma goes by the actions of the PC and of the console, one conjunct at
a time. The assumptions are `ScriptAssumption` (only scripts that the commands
of the two programs can produce: which step may follow which), `NibbleAssumption`
and `NoneAssumption`. No timing assumption is used: with any preemption the
hand-over is safe, and only the data can be wrong.

When it is right: under `PcPrompt` and `MdPrompt` (the hypotheses of the
theorems; `DelayOk` is not needed), `LinkSpec => []DataInv`,
`LinkSpec => []SamplesDriven` and `LinkSpec => Delivery`, the refinement of
`ScriptChannel`. `DataInv` says where each byte is: `PcData` and `MdData` give
for every control point the half that is on the lines and the half that has been
assembled, as functions of the script, and `GotData` what has been delivered so
far. It needs `LinkInv` for the partner's place: a nibble is only known to be
held because the other program cannot have gone on. For the refinement, the end
of a byte is the channel's step, whose value and position `DataInv` gives, and
everything else is a stutter.

**The transfer commands** (`HexedTransferProofs`): `TransferSpec =>
[]NoTransferContention` and the action property `TransferSpec => AckIsFresh`, for
any command lines and any number of runs, with ^C at any access of the PC, a
RESET at any access of the console, and no assumption on timing. Here the two
sides need not be at the same point of anything: after an abort the console may
be anywhere in a command when the next run starts. `HandInv` says what remains
true. `PcLines` and `MdLines` give for each control point the direction and the
level of the lines its own side drives, and the stages of `do_transfer` in which
a primitive is called; `Joint` says which points of the other side are excluded
when the PC, or the console, drives the data lines or waits inside a byte. It
is inductive for *any* order of calls on the PC's side (`JobShape` says only that
they are calls of the four primitives, which lemma `CallsType` proves of every
command line), so it does not depend on the two programs agreeing about the
command. What it rests on is that TR is low only in the start handshake, and
that a program that drives the lines goes on only when it sees the other's answer.
The assumption is `RequestsAssumption`, the command lines that `main` accepts.

For the same runs, `TransferSpec => []TransferTypeOK`: whatever a run is
interrupted at, both programs' control points and registers, the bytes received,
the memory and the addresses jumped to stay what they are declared to be. This is about the data where `HandInv` is about
the lines, and its lemmas say what each routine can hold: a number assembled from
bytes received is a natural number (`NumType`), a byte sent is two nibbles
(`Typed`, `NibblesOfBytes`), and each handler of transfer.S hands on only calls
and bytes (`HandlerType`). It rests on `WholeNibbles` too: here the nibbles are
the sixteen there are, not the smaller set that is enough for the cable.

`TransferSpec => []CommandDone`, for any memory and any number of runs, is the
statement about whole commands (theorem `CommandsDone`). Its hypotheses are
`PcPrompt` and `MdPrompt`, as for the cable: outside these windows a nibble is
sampled after it has left the lines, and then any byte may be another. What
happens when the PC turns the port round (`DelayOk`) does not matter here.

Of the command lines nothing is assumed but that `main` accepts them. `CommandDone`
itself speaks of the runs up to the first one whose command line is not
`Encodable`: addresses and lengths that fit into the three bytes they are sent in,
at least one byte to transfer, even addresses for words, longs and jumps, at most
32768 operations for `io`, and for a write the bytes of its width. `main` checks
none of this, and all of it is needed (below).

The invariant is `CommandInv`: as long as there was no ^C and no RESET, the console has
jumped only where it was told to, and either no run has started or the state is
one of the `Story` of `HexedTransferStory`. That module counts the *calls* of the
command line (`Script`): `Started` is how many the PC has begun, `Taken` how many of
them the console has seen through; they differ by at most two, by the call that is
under way and by a byte whose upper nibble the PC has put on the lines and
already forgotten (`InFlight`). `PcWire` and `MdWire` tie the control points and the
lines to the call at that place. Everything else is said of the console at
`LastByte`, the last byte it has seen: `Story` has one disjunct for each stage of
`do_transfer` and its handlers, which gives the registers, the memory and what
has come back as functions of the command line and of that number (`InSend`: so
many bytes are stored, the address has moved by as many; `InOp`, `InWrite`,
`InRead`, `InGive`: so many operations are done, whose effect is `Results`, and so
many bytes of the next one are there). With it the proof has four parts:

1. The calls of a command line are what the stages take them to be: `ScriptIs`
   says at which number in `Calls(r)` each byte of each kind of command stands, from
   lemmas about concatenation and about the folds that build the calls (`CatAt`,
   `FlattenAre`, `OffsetsAre`, `IoCallsAre`).
2. A number arrives as it was sent (`ThreeBytes`, `TwoBytes`) and a code selects the
   handler that it was meant for (`CodesDiffer`).
3. Each step keeps the story. A step of the PC leaves the stage alone and
   moves the count (`PcProgramLive`); a step of a primitive of the console moves
   a nibble, and one of a handler takes the byte that has arrived, or hands over the
   next one, and enters the next stage (`MdProgramLive`, with a lemma for each
   handler). The start of the next run finds the console back in its main loop
   (`MdSettled`; `RunStarts`). Where the two programs wait for each other comes
   from `HandInv`.
4. At the end of a run `LastByte` is the number of calls, which only the last place
   in the story of each command allows, and there the bytes that have come back and the
   memory are the promised ones (`RunDone`).

With ^C or RESET nothing like it holds, and `CommandDone` does not claim it (see the
table below for where the console can then jump).

**The editor** (`HexedEditorProofs`): `EditorSpec => []EditorInv`, and from it
`CursorOnScreen` and the action property `ConfirmedOnly`. The offset of the
cursor is a byte that goes below zero or past the page for a moment; that the
routine at `update addr` brings it back is arithmetic on `OffMod`, `Under` and
`Page` (lemmas `MoveOffs`, `TurnedOnScreen`, `EvenOnScreen`, `GotoOnScreen`). For
`ConfirmedOnly` the invariant carries what `d5` is in each mode: as soon as
`done` is set, it is the value, the width and the address that were on the screen
when A was pressed (`AskedInv`), the input box keeps the width of its purpose
(`BoxInv`), and a menu's choice is one of its lines (`ChoiceInv`).

On top of it, `EditorSpec => []TrackInv`, and from both the action properties
`CursorTracks` and `DtackByMenu` and the type invariant `EditorTypeOK`.
`CursorTracks` is arithmetic modulo the size of the address space: a step
may borrow from the page and give it back when the page is turned, and a switch to
words makes the offset even, which makes the address even only because every page
is (`PageInv`: pages move by rows and screens, both even). That a goto arrives
where the box said needs the box to hold an address (`BoxFits`, `GotoFits`): a
digit that counts round leaves the digits above and below it alone (lemma
`DigitReplaced`), and what is saved of the last address completes to an address.
`DtackByMenu` needs the counter to start again before it reaches the flag that
shares its byte (`FlagsInv`, lemma `CountKeeps`). Assumptions:
`SizesAssumption` (the address space has an even size, as 2^24 has),
`DataAssumption`, and `PowerAssumption` (powers are positive integers and
`b^(i+j) = b^i * b^j`; the provers do not know `^`).

**The USB device** (`UsbDeviceProofs`): for any number of buffers, endpoints,
packets, prints and bus resets,

* `UsbSpec => []FlushHasPacket`. The flush callback runs in the interrupt
  between any two steps of `usb_seremu_write`. The invariant `FlushInv` adds what
  keeps them apart: from the step that takes the packet to the one that puts it
  back `tx_noautoflush` is set (`main.at \in {"write", "fill"} => ser.noauto`).
* `UsbSpec => []BanksAgree`. That the bank `usb_tx` fills next is the one the
  controller sends next depends on what both banks hold: `BanksFilled` says for
  each of the six values of `tx_state` which banks are full, that the queue is
  empty unless both are, and which bank the controller is at; `Untouched` that
  nothing has been sent before the first configuration, and `Quiet` that nothing
  is printed then. With `FlushInv` and the shapes of the records (`TxShape`) it
  is inductive. Lemma `SentFills` is the fact about `usb_tx`, `TransmitKeeps`
  that about a packet taken by the host and the next one moved up.
* `ControlSpec => UsbSpec`: the device with its control endpoint is a device, so
  both properties hold of it too (`ControlledDevice`). Each action of endpoint 0
  either leaves the other state alone or is one of the device's own steps
  (SET_CONFIGURATION, a bus reset).
* `ControlSpec => []ControlInStep`: endpoint 0 against the host's transfers, for
  any requests and descriptors. The invariant `InStep` has `Sending` (the two
  banks and what is still to be read of the reply: all packets but the last are
  full, toggles alternate, and a full last packet has another one behind it),
  `Flow` (what the host has received and what the device still has,
  `Unsent`, make up what was asked for), `NextBank` (which bank is filled next),
  `Addresses` (both have the same address and the same request in hand) and
  `Silent` (SET_REPORT is not answered). All of them speak of a host that has
  taken what it was offered (`~left`); after a SETUP over an unsent packet they
  are false, see below.

* `UsbSpec => []OneOwner` and the action property `UsbSpec => BuffersKept`. That
  no buffer is in two places is not inductive as it stands: a step that moves a
  buffer must know where it was. `OwnInv` therefore says that there is a function
  `own` which gives each buffer the code of one place (a bank, a queue, the pool,
  the loop's hand, the print buffer) such that every place holds what `own` says
  of it; each operation is then one change of `own`, proved once and used by the
  interrupt and by the loop (`BufShape` says what the loop has in hand at each of
  its points). SET_CONFIGURATION frees and refills the whole table of banks slot
  by slot: its recursive functions are handled by induction over the slot (lemma
  `NatSets`, the least element of a set of counterexamples), with the invariant
  instantiated for each slot.
* `UsbSpec => Received`, the refinement of `UsbPipe`: the abstract queue is what
  lies in the loop's hand followed by the contents of `rxq`; it needs `OwnInv`,
  since a buffer that is filled for one endpoint must not be one that waits in
  the queue of the other.

The assumptions are `UsbAssumption`, and for `ControlInStep` the
`RequestsAssumption` of `UsbControl`: a SET_ADDRESS announces no data.

**The firmware** (`TeensyPadsProofs`): for any number of polls, reports and mode
switches,

* `PadsSpec => []AckedNibble`, by `SwitchInv` (while the mode is being switched no
  sequence is taken as one of the new mode, and outside of it vector and mode are
  the same) and `SequenceInv`: an edge of TH is pending, or the lines show the
  nibble `tp_cnt` says, or an edge of TR is pending and TL does not acknowledge
  yet. A sequence that the switch cuts into has edges that the old handler took:
  of it `CountInv` says that the count is never ahead of the console's edges, and
  `TurnInv` that what the new handler has put on the lines is not either.
* `PadsSpec => []SixButtonRead`, for a clock that moves at any time. `PollInv`
  compares the phase with the number of rises of TH and the handler's `time` with
  how long the console has been idle; the main loop resets the phase (`age`, `reset`)
  only where the console has been idle for two milliseconds, or where an edge came
  after the clock had moved on from what the loop had read (`polled.raced`). In such
  a poll the phase is behind, never ahead, which is what the property then says;
  the full sequence of the comment at main.c:387 is not kept (below).
* `PadsSpec => []LinesFollowTh`: a phase that is reset too early costs the order of
  the reads, not the half that TH selects.
* The action property `PadsSpec => ReportsForward`, by `ForwardInv`: the two halves
  that the handler uses are of one report, which is at least as new as the one on
  the lines, at each of the stores of `update_btns_3btn`.
* `PadsSpec => []PadsTypeOK`: `CountInv` says that the Team Player count is at
  most one more than the edges of TR of the sequence, that it is 0 in the button
  modes, and that an edge of TR that a mode switch leaves over is cleared before
  interrupts are on again (`MainPin`).

The assumption is `PadsAssumption`.

**The mailbox** (`X32MailboxProofs`): `MailboxSpec => []OnceAsAsked` and
`MailboxSpec => []ReturnIsTrue`, for any calls, any addresses and data, and any
value that a read of the command word returns while it is being written. Neither
is inductive. `MailboxInv` adds `M68kInv`, the phases of a call as `x32_cmd` can
know them (`Untouched`, being executed, `Finished`, or `Lost` in an exception
handler), and `Sh2Inv`: an SH-2 that executes has the command of the call that is
being polled for, is the one it is for, and has either loaded only (`Loading`) or
stored from what it has carried out (`Storing`), which is read off the programs
of `do_cmd`. `TornInv` and `VintInv` say when a read can be torn and that no call
is made to an SH-2 that takes its interrupt again and again. With `Widths`, that
registers, loaded words and the results of every access of `do_cmd` stay words
and the error counter a byte, it gives `MailboxSpec => []MailboxTypeOK`. The
assumption is `MailboxAssumption`.

**The PC program of teensytp** (`TeensyHostProofs`): `HostSpec => []PendingTruth`
and the action property `HostSpec => PacketStable`. That the bits of
`pending_urbs` are the URBs the kernel has is inductive only together with where
the loop is: `KernelInv` adds that in `WithDevice` the descriptor is open, in
`WithoutDevice` it is not, and that a closed device leaves the kernel nothing.
`PacketStable` follows: the buffer is written only where the bit is clear. No
assumption on the constants is needed for these two.

`HostSpec => []InSync` says that nothing is forgotten on the whole way from a
player's hand to the pads, with `HostAssumption` (what `-e` can give: a range is
not empty, a key or an axis has a number). `SyncInv` has a part for each leg:

* `HandsInv`, from the hand to `state`: the events in a device's queue tell, read
  backwards, where each key was and, the last one, where each stick is. Hence
  every button that the host has is held by an input as far as the host has read
  (`NoneExtra`), and a button with one input only is not missing (`NoneMissing`).
  It speaks of players whose devices have not been removed.
* `PipeInv`, from `state` to the pads: unless a player is dirty, the *last* packet
  about it, in flight, else in the firmware's buffers, else none and the pads
  themselves, has what the host has; the same for the mode. A failed transfer or
  a lost Teensy excuses those whose packet it was until they are sent again.
* `StillReady`: what `select` has found is still there when it is read. With
  `KernelInv` and the types, `SyncInv` is inductive.

TLC checks `SyncInv` on the run's instance too. Attempts at this proof found three
mistakes in the model: `Leaning` did not round a third of the range
down as the code does, keys and axes of one number were taken for one input, and
the queues that `select` does not look at were expected to be empty; `fd` is there
since.

**The flasher** (`MxFlasherProofs`): `FlasherSpec => []ProgrammedErased`. That
nothing is programmed over old data depends on a loop that steps through pages of
several sizes: `FlashInv` says that it is always at the start of a page and that
all below it is erased, that it ends with `EraseSize` erased (as do the chips,
`chip1` only when the size needs it), and that while the file is written all from
`io.addr` to its end is still erased. The step of the loop is arithmetic on whole
pages (`Multiple`, `WholePage`, `InPage`) and on the table (`OneEntry`,
`ErasesPage`: the page that is erased reaches the next address, and that is a
page's start again, also across the border of two entries). Assumptions:
`FlasherAssumption`, and `TableAssumption` - entries of whole pages that cover the
flash once each, as the three tables from mx_flasher.c:137 on do. At a hole the
loop would stop, and the rest of the file be written over old data. `FlasherSpec =>
[]FlasherTypeOK` adds `IoShapes`: a transfer's address and what is left of it add
up to its size at every block, also the one that fails or is cut short.

`FlasherSpec => []SaysTruth`: `TruthInv` says how far each transfer has come
(`Transfers`: written, or read, up to `io.addr`, and all of it where the run has
gone on without an error), and `Untold`, that nothing is said before, and that
what has been read is what is there. `FlasherSpec => [](req.size <= FlashUnits =>
EvenAfterSuccess)`: `EvenErases` ties the parity of the device's erases to
`count` unless the evening erase was lost (`odd.lost`), `EvenReads` that of its reads
to the number of block pairs that are left.
For a file that is longer than the flash the parity of the erases is wrong
(`MCOversize`, below), which is why the theorem speaks of files that fit.

**Only model-checked: everything else.** Liveness (`Completes`, `RunsEnd`,
`ChangeIsSent`, `CallsEnd`, `RunEnds`, `MegaRunsEnd`, `Flushed`) needs fairness
and ENABLED, which the prover does not handle. `TestsPass` and `ConsoleReady`
are about what a fixed program computes step by step: the run *is* their proof,
apart from the number of RESETs. `CommandTruth` and `Landed` are
about whole uploads, as `CommandDone` is about whole transfers: the invariant
would relate the position in the calls of one side to the position in the other's
parse of the same bytes. They are within reach by the same argument and not done.
`FailsForAReason` and `RunsInStep` compare with histories and are checked only.
Of the type invariants two have no theorem: `HostTypeOK` says that buttons are
letters, which takes an induction over the bindings that `KcMap` folds (the proof
has the rest of it, with the values of the table in their place: `LoopTypes`), and
`MegaTypeOK`, whose module has no proofs.

## Disagreements between code and comments

One is a run of its own, `UsbStarving`: `usb_free` tests
`usb_rx_memory_needed` before it masks interrupts, and `usb_rx_memory` clears it
after unmasking them (usb_dev.c:635), although "we should never reach this
point"; a bank that the interrupt leaves without a buffer in between is
forgotten and stays empty until the next configuration. The others can each be seen by changing the
constant, the requests or the property of the run that is named.

| where | change | property | what happens |
|---|---|---|---|
| `hexed.s:574` | `HexedEditor` with invariant `SecurityByWords` | `SecurityByWords` | "doing byte reads on security reg hangs": the filter lets the row with that register through in byte mode, and the row is drawn by bytes |
| `teensytp/main.c:387` | `Pads` with `SixButtonRead` without its guard `~polled.raced` | `SixButtonRead` | a millisecond that ends between the reading of the clock and the aging breaks the six-button sequence of the comment |
| `mx_flasher.c:480` | `FlasherRuns` with invariant `ReadsEvenOnExit` | `ReadsEvenOnExit` | "must perform even number of reads, or dev hangs on exit": a failing read leaves an odd number |
| `mx_flasher.c:672` | `FlasherRuns` with invariant `ErasesEven` | `ErasesEven` | "must submit even number of erase commands (fw bug?)": the result of the erase that makes it even is not looked at, so when it is lost the run succeeds all the same with an odd number |
| `transfer.S:212`, `229` | `HexedTransfer` with `Requests <- MCLenZero`, `Undisturbed` without `used.valid` | `RunsEnd` | the loops count after the byte: for a length of 0 the console takes, or sends, one byte that the PC does not exchange, and stays in it |
| `transfer.S:238`, `284` | `HexedTransfer`, `Undisturbed` without `used.valid` | `RunsEnd` | a word or a long at an odd address (also at 299, 318, 327), or a jump to one, is an address error: the console is gone, and the PC waits for ever for what is left to exchange; `main` lets such addresses through |
| `pc_transfer.c:153` | `HexedLink` with `PcPrompt = FALSE` | `SamplesDriven` | a preempted PC samples the upper nibble after the lines have moved |
| `pc_transfer.c:129`, `transfer.S:44` | `HexedLink` with `MdPrompt = FALSE` | `SamplesDriven` | the PC lets go of the nibble before the console has sampled it |
| `pc_transfer.c:85` | `HexedTransfer` with `Requests <- MCJump`, `Undisturbed` taken as `TRUE` | `CommandDone` | ^C raises TL, which the console takes for the next half of a byte; it takes the bytes of the next run for the rest of the command, and jumps to an address that nobody asked for |
| `teensytp/main.c:238` | `Pads` with `AckedNibble` without `polled.fresh` | `AckedNibble` | `attachInterrupt` enables interrupts inside the section that disabled them: edges before the new vector is set are taken by the old handler and are missing from the Team Player's count |
| `host/main.c:746` | `HostLoop` with invariant `CommandsSent` | `CommandsSent` | a mode is sent when it is selected only: a Teensy that was unplugged, or was not there yet, is in its own mode although the host shows another |
| `host/main.c:426` | `HostLoop` with invariant `NoneStuck` | `NoneStuck` | an input device that is removed is closed, and what it held stays pressed |
| `mx_flasher.c:665` | `FlasherRuns` with `Requests <- MCOversize`, invariant `ErasesEven` | `ErasesEven` | a file longer than the flash leaves the loop before the page is counted, so the number of page erases that is made even is one too small |
| `mx_flasher.c:245`, `778` | `FlasherRuns` with `Requests <- MCEmpty` | `RunEnds` | an empty file passes the check `file_size < 0`, and `print_progress` steps by `total / 20`, which is 0 |
| `megaed-sv/main.c:662` | `MegaUsb` with `pc.met # "testing"` taken out of `InStep` | `CommandTruth` | the `k` of a test that an interrupted run has begun comes seconds later and answers the next run's handshake; from there each of its answers is the one before, and it may save a file that begins with a `k`, and succeed |
| `megaed-sv/main.c:480` | `MegaUsb` with `MegaRunsEnd` without `pc.pours` | `MegaRunsEnd` | a run that was interrupted after `*xd` leaves a cartridge that waits for eight bytes; the next run's handshake has six, and both wait for ever |
| `mega-usb.c:321` | `MegaUsb` with `KeepsInput = TRUE` | `FailsForAReason` | answers left by an interrupted run shift those of the next one; nothing flushes the port |

Met while modelling, in states that a property excludes or a bound leaves out:

* **USB device.** `usb_rx_memory_needed` is decremented after a test made before
  the mask (usb_mem.c:91-95), so it can go from 0 to 255. SET_CONFIGURATION sent
  again leaks the buffers it clears while the count is above zero
  (usb_dev.c:171-195). After a bus reset `tx_state` may stay at an odd bank while
  the controller starts at the even one (usb_dev.c:200-208, 862), and packets
  leave swapped: `BanksAgree` stops at the first reset. A SETUP that finds an
  unsent packet clears the banks of endpoint 0 but does not take
  `ep0_tx_bdt_bank` back (usb_dev.c:423-434), so the next answer is put in the
  wrong bank; the same happens when a descriptor is asked for with a length that
  is a multiple of the packet size. GET_STATUS of an IN endpoint is always
  stalled, since line 253 compares without the mask that CLEAR_FEATURE uses. SET_REPORT
  with anything but the reboot request is never answered. SET_FEATURE and
  CLEAR_FEATURE compare `wIndex & 0x7F` with `NUM_ENDPOINTS` but write at
  `USB0_ENDPT0 + 4 * wIndex` (usb_dev.c:265-282): for an IN endpoint that is no
  endpoint's register, and index 0 stalls endpoint 0 itself.
* **teensytp host.** `find_device` ends the program when the Teensy goes while its
  descriptors are read, where one that goes a moment earlier or later is waited
  for. Of two keys bound to one button, the first that is let go releases it.
  `select` is given `dev.fd + 1` only: after three input devices have been
  closed a Teensy that is plugged in again gets a lower number than the ones
  that remain, and their input is not read any more (`Settled` asks for their
  queues to be read all the same; with `Readable = {}` in its place, and two key
  events, `InSync` is violated). The keys that can be bound
  are bounded by the size of the table in bytes (581), four times its length.
  ^C between the loop's test and `select` waits for the next event.
* **mx_flasher.** The mode that `-m` sets is undone by the temporary one for
  reading in the same run (1149 and 460). A name that cannot be read makes `main`
  return without releasing the device (1155, 1180).
* **mega-usb-pro.** An interrupted run whose `*t` or answers are still under way
  can end the next run with success too early, and that run leaves its own
  answers to the one after it. After an interrupted `-w` the `-r` of the next run
  may wait for ever, as `serial_read` has no time-out. `prev_type` starts at -2
  in each run, so a run that finds the console where a soft reset or `-l` left
  it, and does not reset it first, fails.

In the editor, without a property of its own: a goto to an odd address in word
mode makes the next draw take an address error in each frame; `and.w #3` before
`btst #7` in `get_safety_mask` (hexed.s:1420-1425) makes the FM check
ineffective; A held down repeats through the menus; an edit of a cell that the
filter shows as unsafe reads it without the filter; the wait for TL in
`mode_transfer` cannot be left. `PC_TRANSFER` is 0 in hexed.s by default: the
transfer is modelled as it is built with 1.

## Not modelled

Of testpico: `t_tim_ym_timer_ab_sync`, which would need the phases of two timers;
how many loops fit into a line (the lines on which the Z80's loops end are taken
from the tests); the lines that a failed test prints, and so the scrolling of the
console printer; the exception screen, the interactive loop at the end; a RESET in
the middle of the 32X tests.
What the hardware does is taken from what the tests expect, so the model says
nothing about hardware.

Of the Teensy core: clocks, pins and register definitions, `usb_rawhid_send` and
the serial port's input, which the firmware never calls, and the request that
reboots the board. Of mx_flasher: the parsing of options, which is the choice of a
request. Of mega-usb: what the cartridge's `do_test`
measures (test 5, which fills memory, is the one that is modelled), `run_game`'s
synchronisation with the VDP, the failures of saving a file (`fopen`, `malloc` and
`fwrite` in `recv_file`), and `*f`, whose blocks of 1024 bytes, counted in a byte,
are for the cartridge's own system: megaed-sv does not know that command. Of
mega-usb-pro: the cartridge's own processor is external. A read operation of `io` at
an odd address is in `HexedTransfer` and its proofs, not in its run: after it both
ends sample lines that nobody drives, which is more than TLC can go through.

nshtest has no state of its own; megaed-stop and megaed-stop-md are menus around
calls of the cartridge's firmware; mdpcjoy is one loop without shared state;
testsram is one sequential algorithm, planned below. Fonts, drawing, messages,
the terminal's echo and `CMD_TEST` of the transfer are left out.

## Plan

Done, in this order: the cable and its abstract channel; the transfer commands
with aborts; the firmware and its host; the 32X mailbox; the flasher; the editor;
mega-usb and megaed-sv; the proofs of the hand-over and of the editor; the USB
device, its abstract pipe and its control endpoint, with their proofs; testpico's
tests with the console they run on; mega-usb-pro; the rest of the flasher's run;
the host's input devices; proofs about the host and the flasher; the flasher's
files and queries; the proofs of the cable's data and its channel, of the
firmware, the mailbox, endpoint 0, the host's synchrony and the rest of the flasher;
the USB device's buffers and reception; the transfer's hand-over with aborts and
resets; testpico's remaining time tests; what a whole transfer does
(`CommandDone`).

Next:

1. `SramSize`: testsram's detection of the size by address aliasing, checked
   against a reference over all small sizes and mirrorings.
2. An abstract mailbox (request, one execution, answer or error) that
   `X32Mailbox` refines, and an abstract pad (last report, phase) that
   `TeensyPads` refines; the abstract command line that both uploaders promise.
3. Proofs: `CommandTruth` of mega-usb and `Landed` of mega-usb-pro, in the way of
   `CommandsDone`; the firmware against an abstract pad.
