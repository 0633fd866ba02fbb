----------------------------- MODULE RemoteUpdate -----------------------------
(***************************************************************************)
(* The remote update: the PC's write, read and erase requests, the SPI     *)
(* commands the driver sends for them, the flash chip that executes them,  *)
(* and the restarts that can fall between any two of these steps.  The     *)
(* sensor starts from the same flash that it updates.                      *)
(***************************************************************************)
EXTENDS EpcsCommands, FiniteSets

CONSTANTS
    Boards,     \* the chips fitted, by what they answer to RES and RDID
    Addresses,  \* addresses of the write and read requests
    Counts,     \* block counts of the erase requests
    Data,       \* packets
    Probes,     \* the bytes of a packet that are watched
    Patience    \* sectors that can be erased before the watchdog's 5 s are over

ASSUME RemoteUpdateAssumption ==
    /\ Addresses \subseteq Nat /\ Counts \subseteq Nat /\ Probes \subseteq 0..255
    /\ Patience \in Nat \ {0}
    \* The program begins at byte 0, as does every erase.
    /\ 0 \in Addresses /\ 0 \in Probes
    /\ \A b \in Boards :
          /\ b.size \in Nat \ {0} /\ b.sector \in Nat \ {0}
          /\ b.size % b.sector = 0 /\ b.sector % EPCS_BLOCK_SIZE = 0
          \* The rows of the driver's tables give the sizes of the chips.
          /\ \A c \in alt_epcs_flash_query(b) : c.size = b.size

VARIABLES
    board,      \* the chip on the board
    mem,        \* its watched bytes, each the packet bytes programmed into it
    busy,       \* the command whose write is in progress, if any
    wel, mode4, \* write enable latch; it expects addresses of four bytes
    select,     \* the page program whose chip select is held, if any
    power,      \* off | copier | run | dead
    devs,       \* alt_flash_dev_list
    req,        \* the request being handled
    loop,       \* where its loop over pages or blocks stands
    reads,      \* it has still to read the flash back
    script,     \* the SPI commands that the driver call has still to send
    image,      \* image.data
    slow,       \* sectors erased since the watchdog was fed
    answer      \* the last request that was completed, and what was replied

chipVars == <<mem, busy, wel, mode4, select>>
reqVars == <<req, loop, reads>>
vars == <<board, chipVars, power, devs, reqVars, script, image, slow, answer>>

Idle == [op |-> "none"]
Bytes == Data \X (0..255)
Factory == <<"factory", 0>>
Watch == {a + j : a \in Addresses, j \in Probes}
    \cup {(a + j) % b.size : a \in Addresses, j \in Probes, b \in Boards}

Init ==
    /\ board \in Boards /\ mem = [c \in Watch |-> {Factory}]
    /\ busy = <<>> /\ wel = FALSE /\ mode4 = FALSE /\ select = <<>>
    /\ power = "off" /\ devs = {}
    /\ req = Idle /\ loop = Nothing /\ reads = FALSE /\ script = <<>>
    /\ image = [j \in Probes |-> {}] /\ slow = 0 /\ answer = Idle

-----------------------------------------------------------------------------
(* The chip.  It takes an address with the number of bytes of its mode and  *)
(* ignores what it does not decode; a program wraps inside its page.        *)
Takes(c) == busy = <<>> /\ c.bytes = IF mode4 THEN 4 ELSE 3
Decoded(at) == (IF mode4 THEN at ELSE at % (256 * 256 * 256)) % board.size

(* The watched bytes that a command at this address changes, and to what. *)
Target(c, at) ==
    LET page == (at \div page_size) * page_size
        k(a) == (a - at) % page_size
    IN  IF c.op = "se"
          THEN [a \in {x \in Watch : x < board.size /\ x \div board.sector = at \div board.sector} |-> {}]
          ELSE [a \in {x \in Watch : x \in page..(page + page_size - 1) /\ k(x) < c.len}
                  |-> mem[a] \cup {<<req.data, c.from + k(a)>>}]

Overwrite(f) == [a \in Watch |-> IF a \in DOMAIN f THEN f[a] ELSE mem[a]]

ChipDone ==
    /\ busy # <<>>
    /\ mem' = Overwrite(busy[1]) /\ busy' = <<>> /\ wel' = FALSE
    /\ UNCHANGED <<board, mode4, select, power, devs, reqVars, script, image, slow, answer>>

-----------------------------------------------------------------------------
(* The firmware sends its next command. *)
Sends(op) == power = "run" /\ script # <<>> /\ Head(script).op = op
Sent == script' = Tail(script) /\ UNCHANGED <<board, power, devs, reqVars, answer>>

WriteEnable ==
    /\ Sends("wren") /\ Sent
    /\ wel' = (wel \/ busy = <<>>)
    /\ UNCHANGED <<mem, busy, mode4, select, image, slow>>

FourByteMode ==
    /\ Sends("en4b") \/ Sends("dis4b")
    /\ Sent
    /\ mode4' = IF wel /\ busy = <<>> THEN Head(script).op = "en4b" ELSE mode4
    /\ wel' = (wel /\ busy # <<>>)
    /\ UNCHANGED <<mem, busy, select, image, slow>>

SectorErase ==
    /\ Sends("se") /\ Sent
    /\ busy' = IF wel /\ Takes(Head(script)) THEN <<Target(Head(script), Decoded(Head(script).at))>> ELSE busy
    /\ slow' = slow + 1
    /\ UNCHANGED <<mem, wel, mode4, select, image>>

(* The command and the address, with the select line kept (MERGE). *)
PageProgram ==
    /\ Sends("pp") /\ Sent /\ select' = <<Head(script)>>
    /\ UNCHANGED <<mem, busy, wel, mode4, image, slow>>

(* The data; the release of the select line starts the program. *)
PageData ==
    /\ Sends("data") /\ Sent
    /\ busy' = IF select # <<>> /\ wel /\ Takes(select[1]) THEN <<Target(select[1], Decoded(select[1].at))>> ELSE busy
    /\ select' = <<>>
    /\ UNCHANGED <<mem, wel, mode4, image, slow>>

PollDoneLatched == Sends("poll") /\ busy = <<>> /\ wel /\ Sent /\ UNCHANGED <<chipVars, image, slow>>

PollDone == Sends("poll") /\ busy = <<>> /\ Sent /\ UNCHANGED <<chipVars, image, slow>>

Read ==
    /\ Sends("read") /\ Sent
    /\ image' = IF Takes(Head(script))
                  THEN [j \in Probes |-> mem[(Decoded(Head(script).at) + j) % board.size]]
                  ELSE [j \in Probes |-> {}]
    /\ UNCHANGED <<chipVars, slow>>

Spi == WriteEnable \/ FourByteMode \/ SectorErase \/ PageProgram \/ PageData \/ PollDone \/ Read

-----------------------------------------------------------------------------
(* The requests (data_parse).  Only the main loop feeds the watchdog.       *)
Ready == power = "run" /\ req = Idle

Accept(r, pages, back, data) ==
    /\ Ready /\ req' = r /\ loop' = pages /\ reads' = back
    /\ image' = data /\ slow' = 0 /\ answer' = Idle
    /\ UNCHANGED <<board, chipVars, power, devs, script>>

RequestWriteNoReadBack(a, d) ==
    Accept([op |-> "write", addr |-> a, data |-> d],
           image_write(devs, a), FALSE, [j \in Probes |-> {<<d, j>>}])

(* PC_REMOTE_UPDATE_WRITE: write, then read back into the same buffer. *)
RequestWrite(a, d) ==
    Accept([op |-> "write", addr |-> a, data |-> d],
           image_write(devs, a), TRUE, [j \in Probes |-> {<<d, j>>}])

RequestRead(a) == Accept([op |-> "read", addr |-> a], Nothing, TRUE, image)

RequestErase(n) == Accept([op |-> "erase", count |-> n], Loop(0, n), FALSE, image)

(* The calls of the driver, one at a time. *)
Calls == power = "run" /\ req # Idle /\ script = <<>>

WritePage ==
    /\ Calls /\ req.op = "write" /\ loop.len > 0
    /\ LET n == length_of_current_write(loop.at, loop.len) IN
          /\ script' = epcs_write_buffer(loop.at, n, 256 - loop.len,
                                         alt_flash_open_dev(devs).four_bytes_mode)
          /\ loop' = Loop(next_page_start(loop.at), loop.len - n)
    /\ UNCHANGED <<board, chipVars, power, devs, req, reads, image, slow, answer>>

EraseBlock ==
    /\ Calls /\ req.op = "erase" /\ loop.len > 0
    /\ script' = image_erase(devs, loop.at) /\ loop' = Loop(loop.at + 1, loop.len - 1)
    /\ UNCHANGED <<board, chipVars, power, devs, req, reads, image, slow, answer>>

ReadImage ==
    /\ Calls /\ loop.len = 0 /\ reads
    /\ script' = image_read(devs, req.addr) /\ reads' = FALSE
    /\ UNCHANGED <<board, chipVars, power, devs, req, loop, image, slow, answer>>

Firmware == Spi \/ WritePage \/ EraseBlock \/ ReadImage

(* The reply, with image.data as it is then; an erase is not answered. *)
Finish ==
    /\ Calls /\ loop.len = 0 /\ ~reads
    /\ answer' = [request |-> req, data |-> image] /\ req' = Idle
    /\ UNCHANGED <<board, chipVars, power, devs, loop, reads, script, image, slow>>

-----------------------------------------------------------------------------
(* Restarts.  The processor forgets everything; the chip only when the      *)
(* power goes, and then a write in progress has changed some of its bytes.  *)
Forget(p) ==
    /\ power' = p /\ devs' = {} /\ req' = Idle /\ script' = <<>> /\ slow' = 0
    /\ loop' = Nothing /\ reads' = FALSE
    /\ image' = [j \in Probes |-> {}] /\ answer' = Idle /\ select' = <<>>
    /\ UNCHANGED board

(* An erase request that outlasts the 5 s. *)
Watchdog ==
    /\ power = "run" /\ slow >= Patience /\ Forget("copier")
    /\ UNCHANGED <<mem, busy, wel, mode4>>

PowerCut ==
    /\ power # "off" /\ Forget("off")
    /\ busy' = <<>> /\ wel' = FALSE /\ mode4' = FALSE
    /\ \E C \in SUBSET (IF busy = <<>> THEN {} ELSE DOMAIN busy[1]) :
          mem' = Overwrite([a \in C |-> busy[1][a]])

PowerUp ==
    /\ power = "off" /\ power' = "copier"
    /\ UNCHANGED <<board, chipVars, devs, reqVars, script, image, slow, answer>>

(* The boot copier loads the program from the flash at the reset address.   *)
(* With a byte erased or programmed twice in it, a write in progress or     *)
(* four byte addresses, what it loads is not the program.                   *)
Whole == \A c \in Watch : c < board.size => Cardinality(mem[c]) = 1

(* alt_flash_device_register: the list is empty after a start. *)
alt_dev_llist_insert(found) == devs' = devs \cup found

Boot ==
    /\ power = "copier" /\ Whole /\ busy = <<>> /\ ~mode4
    /\ power' = "run" /\ alt_dev_llist_insert(alt_epcs_flash_query(board))
    /\ UNCHANGED <<board, chipVars, reqVars, script, image, slow, answer>>

BootFails ==
    /\ power = "copier" /\ ~(Whole /\ busy = <<>> /\ ~mode4) /\ power' = "dead"
    /\ UNCHANGED <<board, chipVars, devs, reqVars, script, image, slow, answer>>

Next ==
    \/ ChipDone \/ Firmware \/ Finish \/ Watchdog \/ PowerCut \/ PowerUp \/ Boot \/ BootFails
    \/ \E a \in Addresses, d \in Data : RequestWrite(a, d)
    \/ \E a \in Addresses : RequestRead(a)
    \/ \E n \in Counts : RequestErase(n)

(* The processor runs and the chip ends every write. *)
Fairness == WF_vars(ChipDone) /\ WF_vars(Firmware) /\ WF_vars(Finish) /\ WF_vars(Boot)

Spec == Init /\ [][Next]_vars /\ Fairness

-----------------------------------------------------------------------------
(* Where everything is: the chip's latches and the commands are well formed,*)
(* the firmware has a request whenever it has commands to send.             *)
TypeOK ==
    /\ board \in Boards /\ mem \in [Watch -> SUBSET (Bytes \cup {Factory})]
    /\ wel \in BOOLEAN /\ mode4 \in BOOLEAN /\ Len(busy) <= 1 /\ Len(select) <= 1
    /\ power \in {"off", "copier", "run", "dead"} /\ Cardinality(devs) <= 1
    /\ slow \in 0..(IF Counts = {} THEN 0 ELSE CHOOSE n \in Counts : \A m \in Counts : m <= n)
    /\ power # "run" => req = Idle /\ script = <<>> /\ devs = {}
    /\ req = Idle => script = <<>>

(* Every command reaches the chip when it can take it: none but the status  *)
(* poll while a write is in progress, every write under write enable, every *)
(* address with the number of bytes the chip expects; and between requests  *)
(* the chip is idle, in three byte mode, as the other users of the flash    *)
(* (the boot copier) expect it.  The driver never looks at what it gets     *)
(* back, so a command that the chip ignores would go unnoticed.             *)
NoneIgnored ==
    /\ power = "run" /\ script # <<>> /\ Head(script).op # "poll" => busy = <<>>
    /\ power = "run" /\ script # <<>> /\ Head(script).op \in {"pp", "se", "data", "read"} =>
          /\ Takes(Head(script))
          /\ Head(script).op # "read" => wel
          /\ Head(script).op = "data" => select # <<>>
    /\ power = "run" /\ req = Idle => busy = <<>> /\ ~mode4 /\ ~wel

(* A request is finished only when it is done: the reply to a write or a    *)
(* read is what the flash holds at that address, after a write every byte   *)
(* of the packet has been programmed, and after an erase every block that   *)
(* it counts is erased, provided that the chip was recognised and the       *)
(* address lies in it.  So the PC can compare the reply with what it sent.  *)
Confirmed ==
    answer # Idle /\ devs # {} =>
        LET r == answer.request IN
        IF r.op = "erase"
          THEN \A c \in Watch : c < board.size /\ c < r.count * EPCS_BLOCK_SIZE => mem[c] = {}
          ELSE r.addr < board.size => \A j \in Probes :
                  /\ answer.data[j] = mem[(r.addr + j) % board.size]
                  /\ r.op = "write" => <<r.data, j>> \in answer.data[j]

(* Every request is answered unless the sensor restarts. *)
Answered == (req # Idle) ~> (answer # Idle \/ power # "run")

-----------------------------------------------------------------------------
(* What is on its way, as bytes still to change: the write in progress, the *)
(* commands of the driver call, and the rest of the loop.                   *)
Writing == {script[i] : i \in {j \in DOMAIN script : script[j].op \in {"data", "se"}}}
BlocksLeft ==
    {BlockAt(i) : i \in loop.at..(loop.at + loop.len - 1)} \cap 0..(alt_flash_open_dev(devs).size - 1)

Rest ==
    LET k(a) == (a - req.addr) % board.size
    IN  CASE req.op = "write" ->
               [a \in {x \in Watch : x < board.size /\ k(x) \in (256 - loop.len)..255}
                   |-> mem[a] \cup {<<req.data, k(a)>>}]
          [] req.op = "erase" ->
               [a \in {x \in Watch : x < board.size /\ \E at \in BlocksLeft :
                          x \div board.sector = at \div board.sector} |-> {}]
          [] OTHER -> <<>>

Pending ==
    LET stages == {busy[i] : i \in DOMAIN busy} \cup {Target(c, c.at % board.size) : c \in Writing} \cup {Rest}
        target(a) == {f[a] : f \in {g \in stages : a \in DOMAIN g}}
    IN  [a \in {x \in Watch : \E v \in target(x) : v # mem[x]} |-> CHOOSE v \in target(a) : v # mem[a]]

Flash == INSTANCE FlashStore WITH
    todo <- Pending, size <- board.size, sector <- board.sector, running <- power = "run",
    Starts <- Addresses, Packet <- 256, Block <- EPCS_BLOCK_SIZE

(* The driver and the chip together implement the byte store: page cuts,    *)
(* latches, modes and polling never change a byte the request does not      *)
(* name, and every byte it names is changed before the next request begins. *)
ImplementsStore == Flash!Spec

=============================================================================
