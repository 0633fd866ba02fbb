# TLA+ verification of SingleScan

SingleScan is a 2D laser scanner that watches protective regions. A Nios II soft core runs one
main loop and one timer interrupt (`fpga_project/software/scan`) on a board support package
(`fpga_project/software/scan_bsp`); the FPGA fabric (`hdl/`) drives the laser, measures 811 points
per revolution, compares them with three boundary layers and switches the alarm outputs. Core and
fabric talk through two Avalon FIFOs, one word at a time; the PC talks to the core through a W5500
Ethernet chip; regions and parameters are kept in an EEPROM, the program in an EPCS flash.

This directory holds TLA+ modules for the parts with state and concurrency, TLC configurations,
and TLAPS proofs. `PROJECT.json` maps every definition to the lines it models. Paths below are
relative to `src/`; `scan/` stands for `fpga_project/software/scan/src/`, `bsp/` for
`fpga_project/software/scan_bsp/`.

## Inventory

| Part | State | Operations | Correct when |
|---|---|---|---|
| Command receiver, `hdl/command_module.v` | FSM, word counter, about 45 parameter registers, three region RAMs, `laser_presdo` | one clock, with or without a word | it stays in step with the writer; each word reaches its own cell |
| Command sender, `scan/nios2fpga_protocol.c`, `scan/region.c` | none (the packet being written) | parameter packet, region packet, presdo packet | lengths announced are lengths written |
| Boot, `scan/main.c`, `init_fpga_sys` | position in the sequence | load group, send parameters, main loop | the fabric ends up with the parameters and regions of the EEPROM |
| Region selection, `scan/main.c`, `user_interrupt.c`, `pc2dev.c`, `bsp.c` | `last_io_value[2]`, `change_region_flag`, `change_region_value`, EEPROM groups | sampling twice (loop and interrupt), reload, PC requests | the group in force is the one selected |
| Region comparison, `hdl/compare_region.v` | point counter, width of the target, flag of the revolution, alarm counter, alarm | point, start and end of a revolution, threshold, size, RAM write | no alarm missed, none without cause; the minimal size is respected |
| Scan upload, `hdl/pos_buffer.v`, `hdl/update2nios.v`, `scan/fpga2nios_protocol.c`, `queue.c` | position FIFO, frame FSM, laser FIFO, queue | point, clock, word read, parse, timeout | a published scan is one whole revolution; scans keep coming |
| Device alarms, `scan/fpga2nios_protocol.c`, `main.c` | samples of five frames, four alarms | status frame, evaluation, reaction, PC settings | raised on a run of bad frames; laser off under alarm |
| PC protocol, `scan/pc2dev.c`, `sick_protocol.c`, `tim561.c` | the buffer, `SysPara`, two flags of the dialogue | 48 parameters, save, load and read of regions, 572 SICK requests | every value in force is in its range; every known request gets its answer; the loop returns |
| Parameters and regions in EEPROM, `scan/region.c`, `iic.c` | 48 layers, the parameters | page bursts, load at boot with a test of four bytes | what was saved is restored, also after a power failure elsewhere |
| Sockets, `scan/bsp.c`, `socket.c`, `w5500.c`, `device.c` | eight sockets of the W5500, three flags | poll, receive, send, reset of the chip | no client can hold the loop; sockets become free again |
| Remote update, `scan/remote_update.c`, `bsp/drivers/src/altera_avalon_epcs_flash_controller.c`, `epcs_commands.c` | the flash and its latches, the request | write, read, erase | exactly the bytes named change; the reply tells what the flash holds |
| Console, `bsp/drivers/src/altera_avalon_jtag_uart_*.c` | two rings, two FIFOs, `irq_enable`, `host_inactive` | write, read, close, ioctl, interrupt, alarm | nothing lost or twice; no call waits for ever |
| Descriptors, `bsp/HAL/src/alt_open.c` .. | pool, high water mark, flags | open, close, lock, fcntl, redirection | a locked device has one user |
| Clock, `bsp/HAL/src/alt_tick.c` .. | tick counter, alarms | tick, start, stop | alarms are called on time, across the roll-over |
| Watchdog | fed or not | reset of the core only | a reset leaves no damage elsewhere |
| Distance calculation, motor, laser drive, DAC, LEDs, rest of the BSP | | | not modelled, see the end |

How they interact: the main loop calls everything synchronously, in this order: sockets and PC
packets, words of the laser FIFO, alarms, switch, reload, watchdog. The interrupt shares the four
`alarm_region` globals with it. The fabric knows of the firmware only the words in the FIFO and
has no way to ask for one again. The watchdog resets the core and not the fabric, the flash or the
EEPROM; the W5500 is reset by the firmware at every start.

What is hard here: two samplers of one switch without masking; a link without checksum test,
acknowledgement or timeout; a RAM with two users; three clocks of very different speed on the way
of a scan; counters and indices offset by one pipeline stage; a network chip that changes state
between any two register accesses; stores that are written in pieces and read at the next boot;
waits that only the watchdog ends; rings shared with an interrupt routine. `PROJECT.json` lists
these as hazards, each at its line.

## Modules

**CommandModule** is `command_module.v`, one step per clock. `cs`, `recv_command`, `data_len_reg`,
`recv_cnt`, `dac_set_flag`, the region write ports and `laser_presdo` keep their names; the
parameter registers are one function `reg` from command to value, `Width` gives the number of
values each can hold, and `Latch` what each takes from a word (enable bits compare with
0x11111111, the motor speed refuses values out of range, the others truncate). A word is a record
of its data and of whether its upper half is the head code. Boundaries have 16 bits and fit the
18-bit RAM; they are not truncated.

**CommandLink** puts the writer beside it. `BeginPacket` is the call of a packet function,
`WriteWord` a write to the FIFO that the fabric takes in the same clock, `IdleClock` a clock
without a word, at which the bus may show anything. `MinGap` is the number of clocks between two
words: a FIFO write of the core takes many clocks of the fabric, one is enough for the results.
`Announced` and `Sent` are separate constants because the firmware does not keep them equal.
`wantReg` and `wantRam` are history: what the words written so far ask for.

**BootLink** extends it with the sequence of `main` and `init_fpga_sys`, the switch, and the
reloads of the main loop, with the true lengths of the presdo packet (30 announced, 8 written).

**RegionSwitch** is the selection of the group. The main loop is modelled access by access
(`ReadIo`, `StoreL0`, `GetL0`, ..., `StoreL1` are the loads and stores of `main.c:188-194`), because
the build is -O0 and the interrupt may come between any two; the interrupt is one step. A layer
in the EEPROM is a version number or `Torn`; a layer in the FPGA is a group with the version it
was loaded from. Loading a layer is one step, since the link is the business of the modules above;
what remains of it is `swallow`: the FSM is waiting for words of an earlier packet and will eat the
next one, as after every boot and after a reset in mid-packet. `missed` is history: the layers
eaten that way. Parameter packets the PC sends between boot and the first reload are not followed.

**CompareRegion** is one layer of `compare_region.v` (the three are copies) with the sector
control of `data_select.v`. Points are thousands of clocks apart, so a step is a point with the
36 clocks after it. `target_pos_r0`, `rddata`, `region_flag`, `alarm_cnt_r0`, `alarm_io_r` are the
registers; `run` is history. With a minimal size `sum_r` adds up the widths of the points (`range_des`)
and starts again at a jump of 50 mm; `Restart` looks at every value `judge_0` passes through while
boundary and width of the new point arrive. `SetTargetSize` has the four clocks in which `judge_0` lags
behind the new mode. The output inversion by `hw_type` is left out. **TargetSize** adds the points of
the revolution and the width inside up to each of them as history and compares the sum with the extent
of the targets.

**Upload** has the acceptance rule and timeout of `pos_buffer.v`, the frame FSM of
`update2nios.v` clock by clock, and the read loop, queue and parser of the firmware. The queue is
an array that keeps old words when its indices are cleared, as in `queue.c`. A point is its
revolution and index, so that "one whole revolution in order" can be said. The first status word
is a count whose low half may be 0xeeee and end the frame early. Timing that the clocks settle is
put into guards: a frame takes about 815 clocks and a point comes every few thousand, so at most
one point falls into a frame and a revolution does not begin or end within one. A revolution that
begins before the last frame has been read is a stall of the firmware and is counted. The time of
the timeout is counted in half revolutions.

**SysWarn** has the four sample arrays with their common index, the evaluation every fifth
frame, the reaction of the main loop and the settings of the PC. The temperature test is one
comparison (its two thresholds for the two signs differ only in the constant). `recent` is
history. The notification of the clients and the LEDs are left out.

**Eeprom** is the layout of the AT24C1024 and `eeprom_write_page` as the bursts it sends, with real
addresses. A burst goes to one page of the chip and is done or undone when the power fails.
**SysPara** is data: the fields of `Sys_Para` the PC sets, the range `pc2dev_parse` protects each
with, the initializer, the reset values of the fabric, the list of `init_fpga_sys`, and what each
register of `command_module.v` makes of a word: `Decode` (an enable bit is 1 for 0x11111111 only, the
others keep as many low bits as they have, `Width`) and `Taken` (the motor speed is refused outside of
8..15). APD_VOL_SETTING goes through one register to two places (`Channels`): with bit 15 to the comparator,
without it, and with low ten bits in 200..680, to the base of the high voltage (`adt7301_top.v:55`).
**SickTable** is data: the two tables of `tim561.c`, 572 entries each, by the names they contain.
**PcProtocol** composes the three: `Poll` puts a buffer of one or two packets before the parser,
`ParseNext` handles one, `WriteStep` writes one burst; the parser waits for the write as the code
does. `StatusSent` and `StatusRead` are the status frame that overwrites `update_pos_flag` with what
the fabric said earlier. `PowerFail` strikes between any two steps, `Watchdog` ends the loop that has
run off the buffer. `React` is what the main loop does in every round while a device alarm lasts
(`main.c:155-183`): it writes 1 to LASER_FREQ, and under a motor or laser alarm 0 to LASER_ENABLE; how
alarms arise is the business of SysWarn, here they come at any time. `kept` and `forced` are history:
what was saved completely in each area, and which registers an alarm has written since SysPara's value
went there (the PC's next setting of the parameter, or a boot, takes a register out of `forced`).

**Sockets** has the main loop's way through the sockets, one register access (or a group the chip
cannot tell apart) per step: `tim561_run` polls, `send` waits for memory, issues SEND and waits
for SEND_OK. The chip and the clients are external: connections begin, end, stall, vanish and are
reset between any two steps. A piece is what one `send` puts into the transmit memory. The reports
of the main loop are queues of sends (`job`). `calm` spaces the reports: the firmware sends at
most one scan per revolution.

**EpcsCommands** is the flash driver as the sequences of SPI commands it sends, with chip
recognition, page cuts and address modes, on real addresses. **RemoteUpdate** takes a request
through its driver calls, one page or block at a time (`loop` is where the `while` or `for` stands,
`reads` that the flash is still to be read back, `script` what the call has still to send), and
executes the commands on a chip with a write enable latch, write-in-progress and address mode,
between requests of the PC, power cuts, the watchdog and the boot from the same flash. A byte is the set of values programmed
into it since it was erased. **FlashStore** is the abstract specification: requests change the bytes
they name, each once, all of them before the next request.

**JtagUart** is the console driver: calls of the program and the interrupt routine step by step
over two shared rings, the FIFOs of the hardware, a host that comes and goes, the alarm that
counts `host_inactive`. **Channel** is the abstract specification of one direction.

**AltFd** (descriptor pool, locks, redirection), **AltTick** (clock and alarms; `left` is history)
and their composition **Hal** are the HAL services the firmware and the console driver use.

The `MC*` modules give the constants their small values.

## Runs

| Run | Checks | Result |
|---|---|---|
| `command_link` | `TypeOK`, `InStep`, `Delivered`, `ReturnsToIdle` | holds |
| `boot_link` | `Resynchronised`, `LaterReloadsLoaded`, `ParametersHeld` | holds |
| `region_switch` | `Settled`, `EventuallySettled` | holds |
| `region_switch_race` | `SwitchFollowed` | violated |
| `upload` | `FifoBounds`, `WholeRevolution`, `ScansKeepComing` | holds |
| `compare_region` | `TypeOK`, `AlarmRaised`, `AlarmJustified`, `SizeRespected` | holds |
| `sys_warn` | `LaserOffUnderAlarm`, `RaisedOnRun` | holds |
| `sockets` | `NeverAlone`, `LoopAlive`, `Available`, `VanishedFreed`, `Greeted` | holds |
| `pc_protocol` | `InRange`, `InForce`, `SavedIntact`, `ReadsAnswered`, `FlagCatchesUp`, `LoopEnds` | holds |
| `remote_update` | `NoneIgnored`, `Confirmed`, `ImplementsStore` (refinement of FlashStore), `Answered` | holds |
| `console` | `Wakeup`, `Lossless` (refinement of two Channels), `Delivered`, `CallEnds` | holds |
| `hal` | `LockUnique`, `OnTime`, `LockedRefused` | holds |

Each property of a passing run has a faulty variant of a definition (in the module, beside the
original) under which TLC finds it violated.

### What the violation shows

`region_switch_race`: the interrupt between two accesses of the main loop makes a turn of the switch
invisible until the next turn. `Settled` still holds: firmware, FPGA and PC agree on the group,
only it is not the one the switch shows. With `TurnAtBoot = TRUE` in the same configuration no
race is needed: boot takes the switch without setting `last_io_value`, and a turn to position 0
before the first sampling is lost.

### Known limits of the code, as the properties state them

Several properties hold with an exception that is written into them or into the model, because the
code behaves that way:

- `write_laser_presdo` announces 30 and writes 8 words (`nios2fpga_protocol.c:137`): the next 22
  words, the beginning of the first reload, go into `laser_presdo`, and that layer is lost. The
  damage is bounded (`Resynchronised`, and `LaterReloadsLoaded` speaks of later ones).
- A watchdog reset in mid-packet (`main.c:224`) leaves a layer partly old and partly words of the next
  boot; in RegionSwitch it is `Garbage` until it is loaded again.
- The position FIFO is read also when the laser FIFO is full (`update2nios.v:183`): after a stall of
  the firmware a scan may lack points, so `WholeRevolution` is about runs without one;
  `ScansKeepComing` says the upload recovers. A frame that begins in the clock in which the status
  timer expires changes from distance to status and publishes an old scan (`switched`; about once
  in three months of operation).
- The width of a target loses its first point and counts the last one twice; `SizeRespected` says to
  within what. When a size is first set, a revolution may count as intruded because `judge_0` lags.
- Point k is judged by boundary k+1 and the last point by none (`compare_region.v:200`).
- Nothing is sent to the fabric when the last device alarm clears (`main.c:155`): pin and LED stay, and so
  do the words the alarm has written over LASER_FREQ (1) and
  LASER_ENABLE (0). SysPara and the fabric differ until the PC sets the parameter or the firmware boots;
  `InForce` speaks of the alarm's word there (`forced`).
- What `pc2dev_parse` lets pass need not fit the register. MIN_DISTANCE_VALUE may be 0..500 and the
  register has eight bits (`pc2dev.c:317`, `command_module.v:59`), so 300 works as 44; the parameters that
  are not checked keep their low bits. `InForce` says what the register holds, not that it is the parameter.
- SIGNAL_THRESHOLD (`pc2dev.c:250`) is kept in SysPara, but no register listens to 0xa701, and at boot it goes
  out under APD_VOL_SETTING without bit 15, that is to the base of the high voltage, where
  `apd_vol_base` follows it. The comparator has its threshold only from an APD_VOL_SETTING with bit 15;
  `InForce` is about these. A base outside of 200..680 is kept in SysPara and ignored by the fabric.
- `init_fpga_sys` does not send VALID_NUM_THRESHOLD and DUST_ALARM_THRESHOLD (`nios2fpga_protocol.c:69`):
  after a power failure the fabric has its reset values; `InForce` is about the others.
- With a blank EEPROM `valid_num_threshold` is 0, outside of the range the PC may set; PcProtocol
  starts with an EEPROM that was written at the factory.
- A region packet that arrives in two TCP segments is stored with stale bytes at its end and the
  parser runs off the buffer until the watchdog ends it (`pc2dev.c:443`); `LoopEnds` holds because of
  the watchdog, `SavedIntact` because the layer written is the one named.
- A client whose window stays closed holds the loop until the watchdog restarts the firmware
  (`socket.c:173`), and the client of SOCKET0 that leaves takes every other connection with it
  (`bsp.c:132`). A client of the sockets that get no reports keeps its socket when it vanishes,
  because the keepalive call is commented out (`main.c:67`): `VanishedFreed` is about the others.
- The reply to a flash write echoes what the flash holds only if a chip was recognised and the
  address lies in it (`remote_update.c:15`); the premise of `Confirmed` says so. A power cut or a
  watchdog reset during an update, and a reset in 4-byte mode, can leave a sensor that does not boot.
- `alt_fd_lock` does not look at the highest descriptor (`bsp/HAL/src/alt_fd_lock.c:61`) and may lock a
  device that an unlocked descriptor uses; there are never two locks (`LockUnique`).
- `command_module.v:326` says region data wait for the end of a revolution, while
  `protocol_fifo_out_ready` is constantly 1. CompareRegion therefore lets `WriteBoundary` happen at
  any time, and `AlarmRaised` and `AlarmJustified` hold all the same.
- Not covered by a property: `string2hex` converts letters to other bytes (`sick_protocol.c:28`); the
  checksum of a region reply stands one byte too far (`pc2dev.c:521`); a layer number above 47 is not
  refused (`pc2dev.c:88`); a packet behind a SICK request in the same buffer is dropped (`pc2dev.c:44`).

### Bounds, and why they are enough

- `command_link`: three registers (an enable bit, the speed with its range, a truncated one), two
  regions of two words in RAMs of three, words that look like heads and words that do not.
  Every control path depends on the position in a packet and not on its length; the theorem
  covers all lengths.
- `boot_link`: regions of 24 words instead of 811: longer than the 22 words swallowed, so the FSM
  ends inside the packet as it does on the device. Two reloads.
- `region_switch`: two groups, three layers, two turns, two requests: a lost sample needs one
  turn, a torn load a turn between two layers, a reset in mid-packet one request. The theorem
  covers any number.
- `upload`: four points, status frames of three words, one status frame at any moment, two changes
  of `UPLOAD_EN`, one stall, FIFOs in proportion to the real ones (two frames and a little more):
  a stall with a full laser FIFO, a left-over and the recovery all happen.
- `compare_region`: four points (the first and the last behave differently, and three are needed to
  reach the minimal size), two distances that belong together and "nothing measured", cap two, one
  RAM write, two changes of the settings. The theorems cover any number.
- `sys_warn`: rounds of two frames, a good and a bad value for each quantity.
- `sockets`: the sockets 0 and 1, which get the reports, with their 4 KB, that is two pieces; one client
  that misbehaves at a time. The sockets 4 and 5 run the same code without the reports.
- `pc_protocol`: every parameter with the values at and around its limits and every SICK request on
  a sensor that has just started or has an alarm, after it saves, reads and alarms; at any time
  LASER_ENABLE, loads and the requests that start and stop the upload, and both kinds of alarm in
  every round; two layers, one in each bank of the
  EEPROM; two changes and one power failure: a save torn by a failure needs one of each, an
  overlap of areas two. Real addresses, so overlaps and page wraps are those of the device.
  An alarm touches two registers: each is set by the PC before and after it.
- `remote_update`: four chips (the board's, one with large sectors, one with four byte addresses,
  one that the driver does not know); packets across pages, blocks, the end of the chip and 16 MB;
  two bytes of each packet are watched.
- `console`: rings of three (two usable slots), FIFOs of one character, three characters in each
  direction and calls of up to two: a ring that wraps, is full and runs empty within a call.
- `hal`: five descriptors (three standard, two free), two devices and a name that is none; a
  counter of three bits, so that an alarm may span the roll-over.

### Fairness

CommandLink (`FairSpec`): the clock runs, and a packet function, once called, writes its words: it
neither blocks nor returns. RegionSwitch: the main loop keeps running (`WF` of `Main`; every call in
it returns) and the timer keeps interrupting. Upload: the motor turns, both FSMs are clocked, the
timeout counts, the loop reads. Sockets: the loop runs on, the watchdog and the retransmission
timer of the chip run out, and scans keep coming (strong, as a scan is reported only when the
loop is at its place). PcProtocol: the processor runs on or is restarted, a status frame comes every
second and is read when the loop comes round (strong, as parsing disables it). RemoteUpdate: the
processor runs, the chip ends every write. JtagUart: interrupts are taken, an attached host
reads, the program runs on between interrupts (strong), the watchdog counts. Nothing is assumed
of the PC, the clients, the switch or the power.

## Proofs

TLAPS checks these for every value of the constants that satisfies the named assumptions:

- `CommandLinkProof`: `TypeCorrect`, `StaysInStep` and `LinkCorrect` (`WellFormed` implies `[]InStep` and
  `[](InStep /\ Delivered)`).
  `WellFormed` says what the firmware must respect: true lengths, one data word per parameter
  packet, a region fits its RAM, the 16-bit counter does not wrap. All packet functions but
  `write_laser_presdo` do. `InStep` is inductive with `TypeOK`: it names, for each number of words
  written, the state and counters of the FSM, including the one clock of lag after the last data word
  and after the checksum. `Delivered` rests on it: the word in the registered write port goes where
  `recv_cnt - 2` points one clock later.
  On top of it, for `BootSpec`: `LinkResynchronises` (`Resynchronised`), `ParametersStay` (`ParametersHeld`),
  `ReloadsLoad` (`LaterReloadsLoaded`). The presdo packet does not tell the truth, so `InStep` ends with it.
  `Position` says where firmware and FSM are instead: between the presdo packet and the end of the
  region packet after it, the FSM counts that packet's words as its own, and its end is found because a
  region word is never a head (`Plain`); before and after, `InStep` holds. `Held` and `Filled` say, item by item of the
  program, which registers and RAMs have their final contents.
- `RegionSwitchProof`: `TypeCorrect` and `NoReloadLost` (`[]Settled`). `Settled` speaks of the top of the
  loop only; `ReloadNotLost` says for each place of the loop what holds while no reload is
  pending (`Progress`), the key being that the flag is cleared before the layers are read, so a
  change of the value during the load raises it again. `Eaten` bounds what the link can lose.
- `CompareRegionProof`: `TypeCorrect`, `NoAlarmMissed`, `NoFalseAlarm`. `Counted` relates the counter, which
  stops at its cap and falls back by one, to the true number of revolutions; `Pending` says a point
  that was inside has either raised the alarm or is the last one judged and will at the next
  point. Without `Pending` the end of a revolution could find the alarm off.
  And `SizeIsRespected` (`SizeRespected`), for any number of points and any sizes. The running sum restarts
  at jumps, so `SumFits` says which point it has been running from: the widths are kept as prefix sums
  (`total`), and the sum lies between the width of the target without its first point and the width with
  the last point twice. Prefix sums make that an invariant of steps and not an induction over points.
- `FramesProof`, on what the fabric sends through the laser FIFO. SysWarn: `WarnTypeCorrect`, `LaserOff`
  (`LaserOffUnderAlarm`), `RaisedOnlyOnRun` (`RaisedOnRun`), for any length of a round and any thresholds. `RaisedOnRun`
  compares the samples with the last frames, so the invariant has to say how they are related: `Fresh`,
  while an alarm is off the samples of the round under way are those of the last `len` frames. At the
  end of a round this may fail (an alarm that is withdrawn there leaves the samples it had frozen), and
  it need not hold: the next round overwrites them before they are judged.
  Upload: `FifosInBounds` (`FifoBounds`) and `NoWordRefused`, for any number of points and FIFOs that take
  a scan and a status frame. `Room` holds always: a revolution is accepted only whole. The rest holds
  without a stall: `InTime` says that a whole revolution leaves the position FIFO before the sector
  ends, and where a frame is when the status timer expires in it; `Budget` counts the words under way,
  still to be sent and due before the laser FIFO is empty again, and they fit.
  `ScansWhole` (`WholeRevolution`): the words in the queue and in the laser FIFO are read as one sequence
  (`Stream`), to which update2nios appends and from whose front the parser takes. `Framed` says what holds
  of any part of it: a head follows a tail and is followed by its length, and the first word that ends
  a distance frame is its tail, with a whole revolution before it, or the tail of a status frame.
  `OpenFrames` says of the frame under way that its words and the position FIFO make up one revolution,
  or that the status timer has changed it; `Collected`, that a full position FIFO holds one revolution. That
  the parser reads words behind the end of the queue does no harm: what it finds there is "switched".
- `BspProof`, on the board support package. HAL: `PoolConsistent`, `OneLock` (`LockUnique`),
  `RefusedWhileLocked` (`LockedRefused`), `AlarmsOnTime` (`OnTime`), for any pool, devices, width of the
  counter and alarms, the periods from 1 to two less than the wrap (a longer one would be
  taken for a time that has passed). `LockBelow` is what makes the short search of `alt_fd_lock` sound: a locked
  descriptor that shares its device lies below the high water mark, where the search looks. `DueIn` says
  what an alarm due in `l` ticks looks like: its time modulo the range, and the roll-over flag exactly
  when the counter has still to wrap.
  Flash: `FlashConsistent`, `NoCommandIgnored` (`NoneIgnored`), `AnswersConfirmed` (`Confirmed`), for any
  chips of the driver's tables, addresses, packets, watched bytes, block counts and patience of the
  watchdog. Neither property is inductive: a command is taken because of the commands sent before it, and
  an answer is right because of the calls made before it. `FlashInv` says both. In the middle of a call it
  names, for each command still to send, the latches of the chip (`Heard`, and what `busy` will do when it
  ends); between two calls, how far the request has got: which bytes of the packet are
  programmed, which blocks are erased, what the buffer holds. A packet that runs over the end of the
  chip continues at its beginning; that no byte is then named twice rests on a chip being a multiple of
  64 KB. A power cut or the watchdog at any point is covered: what it leaves in four byte mode or with a
  write in progress does not boot.
  `FlashImplementsStore` (`ImplementsStore`) is the refinement of FlashStore. What is still to change is in
  three places, the write in progress, the commands of the call and the rest of the loop, and `Pending`
  picks a value from them: the proof is that they never disagree. `Goal` is what the request makes of a
  byte, and `Flow`, the one addition to the invariant, says that the write in progress writes it; that
  the commands and the loop mean it too follows from `FlashInv` and the arithmetic of pages
  (`PageBytes`: the bytes of a page write are those of its part of the packet, across the end of the chip
  too) and sectors (`BlocksReach`: the sectors of blocks 0..n-1 are those that begin before block n). A call then takes its bytes from
  the loop, its write command hands them to the chip, and the store sees neither; the end of a write is
  `Apply`, a request `Begin`, a watchdog reset or power cut `Interrupt`, the boot `Restart`.
- `JtagUartProof`: `TypeCorrect`, `NoLostWakeup` (`Wakeup`), `DriverImplementsChannels` (`Lossless`), for rings
  and FIFOs of any size. `CallOK` and `IsrOK` say what a call or the interrupt routine still knows of the
  ring it looked at some steps ago: the space or the characters it saw can only have grown.
  `Lossless` is the refinement of `Channel`, proved step by step: the queue of a direction is its ring and
  its hardware FIFO, one behind the other; the interrupt routine moves a character from one to the
  other and leaves the queue alone, write and host append to it, host and read take from its front. The channel's specification
  has no fairness; that characters arrive is `Delivered`, which TLC checks.
- `PcProtocolProof`: `ParametersInRange` (`InRange`), `SavesIntact` (`SavedIntact`), `FabricInForce` (`InForce`),
  `AllReadsAnswered` (`ReadsAnswered`), for any set of layers, any factory image that has passed
  `pc2dev_parse`, any values and requests, any number of changes and failures. The tables of SysPara are
  unfolded, not assumed. `Apart` shows from the addresses of the code that no two bursts of the 48
  layers, the parameters and the group byte share a byte of the chip, so a save touches its own area
  only. `InRange` needs `PagesFit`: each of the two pages of the parameters holds values that have
  passed the checks, whichever saves they come from, so the mixture that a power failure leaves does
  too. For the APD, one command sets two parameters and bit 15 tells them apart: what is kept as
  `apd_vol_base` has bit 15 clear (`Fits`), or `init_fpga_sys` would send it to the other channel and
  `InForce` would fail. `InForce` is inductive beside the types: `Holds` says of one register that it has
  what it makes of a word, `ApdHolds` and `OtherChannel` that the two words `init_fpga_sys` sends under
  APD_VOL_SETTING do not undo each other, `ReactStep` that an alarm's words are the ones `forced` names. `SaveOK` describes a save under way: the area's last bursts are still to come,
  the others hold what they should. `ReadsAnswered` needs that a layer comes in a buffer of its own
  (`LoadAlone`). That request and answer stand at the same place of the tables of SickTable is
  `TableAssumption`, a statement about 572 fixed entries that TLC evaluates; what is proved is that
  `find_index` and the exceptions lead to that entry.
- `SocketsProof`: `Invariant` and `NoneClosedAlone` (`NeverAlone`), for any sockets, transmit memories and clients.
  `send` closes a socket on what it read some steps before. `ServedUp` (what the loop has served is
  connected on the chip), `InHand` (send waits only with a piece in hand) and `Doomed` (a socket that
  send has decided to close has not been served since) together say why it cannot hit a new connection.

`StaysInStep` of CommandLinkProof states `InStep` by itself: it does not depend on `Delivered`.

The proofs were also a test of the model. `signal_thresold` had been given an upper limit of 16 bits, but
the code looks at bit 15 of a 32-bit value only; `InRange` could not be proved with the limit, and
the range is now what the code lets pass.

The assumptions are on constants, and TLC evaluates them in the runs: sizes and depths are positive, the
laser FIFO takes a scan, a status frame and six words more, and the queue a scan (`UploadAssumption`; 2048
words for 811 and 5), the layers are sent in packets that tell the truth and are long enough for the words
that `write_laser_presdo` announces too much, and region words are no heads (`BootAssumption`; 16 bits), the
factory image is one the firmware could have saved (`ParamAssumption`), layers are among the 48 of the
EEPROM map (`LayoutAssumption`), and a chip that the driver recognises has the size of its table row,
which is a multiple of its sectors, and these of 64 KB (`RemoteUpdateAssumption`). `WellFormed` is a hypothesis of two theorems and no assumption, as
BootLink is about a packet that does not respect it.

Only model-checked, and why:

- liveness (`ReturnsToIdle`, `EventuallySettled`, `ScansKeepComing`, `LoopAlive`, `Available`, `VanishedFreed`,
  `Greeted`, `FlagCatchesUp`, `LoopEnds`, `Answered`, `CallEnds`, and `Delivered` of the console): beyond this prover.

The modules that no proof is about have a type invariant all the same; their runs leave it out where it
says no more than the types.

## Plan

Done: the command link and boot, region selection, region comparison in both modes, upload, device
alarms, then EEPROM, parameters and PC protocol, sockets, remote update with the flash driver and its
abstract store, console with its abstract channel, descriptors, clock. Proved: all invariants, action
properties and refinements of CommandLink, BootLink, RegionSwitch, CompareRegion, TargetSize, Upload,
SysWarn, PcProtocol, Sockets, JtagUart, RemoteUpdate and Hal.

Left, in this order:

1. The parameters the PC sends between boot and the first reload, in RegionSwitch.
2. The path of a SICK request through PcProtocol and Sockets in one composition.

## Not modelled

- Distance calculation (`hdl/calc_distance`): arithmetic with constants tuned on hardware; nothing in the
  repository says what the result should be. Only the sector control is part of CompareRegion.
- Motor, scanner and laser drive, DAC: pulse generation, transceivers and analog feedback.
- The bit streams of SPI (W5500) and I2C (EEPROM) below a register access and a page write.
- LEDs; the text and the checksums of answers.
- The rest of the BSP: addresses and register macros (`system.h`, generated), logging, profiling, heap,
  and the HAL calls the firmware never makes (DMA, sleep, time of day, file systems, signals).
  `alt_epcs_flash_write` has no caller.
- The Avalon FIFOs, the W5500, the flash chip and the JTAG host are external: they appear as sequences
  and states, as the code uses them.
