----------------------------- MODULE EpcsCommands -----------------------------
(***************************************************************************)
(* The EPCS flash driver as what it sends: which chip it recognises and    *)
(* with which geometry, the sequence of SPI commands of each call, and the  *)
(* loops that make the calls.  Addresses and sizes are the real ones, in   *)
(* bytes.                                                                  *)
(***************************************************************************)
EXTENDS Integers, Sequences

EPCS_BLOCK_SIZE == 65536
page_size == 256
Mbit == 131072

-----------------------------------------------------------------------------
(* alt_epcs_flash_query: the electronic signature (RES) of the old chips,   *)
(* then the device id (RDID) of the new ones, first by its three bytes and  *)
(* then by the density byte alone.                                          *)
Chip(id, mbits, block, four) ==
    [id |-> id, size |-> mbits * Mbit, block |-> block, four_bytes_mode |-> four]

Signatures ==
    {Chip(\h16, 64, 65536, FALSE), Chip(\h14, 16, 65536, FALSE), Chip(\h13, 8, 65536, FALSE),
     Chip(\h12, 4, 65536, FALSE), Chip(\h10, 1, 32768, FALSE)}

DeviceIds ==
    {Chip(\h20BA15, 16, 65536, FALSE), Chip(\h20BA16, 32, 65536, FALSE),
     Chip(\hEF4016, 32, 65536, FALSE), Chip(\hC22016, 32, 65536, FALSE),
     Chip(\h20BA17, 64, 65536, FALSE), Chip(\h20BA18, 128, 65536, FALSE)}

Densities ==
    {Chip(\h18, 128, 262144, FALSE), Chip(\h19, 256, 65536, TRUE),
     Chip(\h20, 512, 65536, TRUE), Chip(\h21, 1024, 65536, TRUE)}

Known(table, id) == {c \in table : c.id = id}

epcs_read_electronic_signature(board) == board.res
epcs_read_device_id(board) == board.rdid

(* What the driver takes the chip for: none is -ENODEV. *)
alt_epcs_flash_query(board) ==
    LET res == epcs_read_electronic_signature(board)
        rdid == epcs_read_device_id(board)
    IN  IF Known(Signatures, res) # {} THEN Known(Signatures, res)
        ELSE IF Known(DeviceIds, rdid) # {} THEN Known(DeviceIds, rdid)
        ELSE Known(Densities, rdid % 256)

-----------------------------------------------------------------------------
(* The commands.  One that carries an address says with how many bytes it   *)
(* is sent; "poll" is the wait for the end of the write in progress.        *)
Bare(op) == [op |-> op]
Addressed(op, at, len, from, four) ==
    [op |-> op, at |-> at, len |-> len, from |-> from, bytes |-> IF four THEN 4 ELSE 3]

epcs_write_enable == <<Bare("wren")>>
epcs_await_wip_released == <<Bare("poll")>>
epcs_enter_4_bytes_mode == epcs_write_enable \o <<Bare("en4b")>>
epcs_exit_4_bytes_mode == epcs_write_enable \o <<Bare("dis4b")>>
In4Bytes(four, s) == IF four THEN epcs_enter_4_bytes_mode \o s \o epcs_exit_4_bytes_mode ELSE s

epcs_sector_eraseNoWait(at, four) ==
    In4Bytes(four, epcs_write_enable \o <<Addressed("se", at, 0, 0, four)>>)

epcs_sector_erase(at, four) ==
    In4Bytes(four, epcs_write_enable \o <<Addressed("se", at, 0, 0, four)>> \o epcs_await_wip_released)

epcs_read_buffer(at, len, four) ==
    In4Bytes(four, epcs_await_wip_released \o <<Addressed("read", at, len, 0, four)>>)

(* The page program and its data are two transfers under one chip select.   *)
epcs_write_buffer(at, len, from, four) ==
    In4Bytes(four, epcs_write_enable
        \o <<Addressed("pp", at, len, from, four), Addressed("data", at, len, from, four)>>
        \o epcs_await_wip_released)

-----------------------------------------------------------------------------
(* The calls of the flash device.  Each is refused outside of the chip; an  *)
(* address is an int compared as an unsigned.                               *)
alt_epcs_test_address(dev, at) == at \in 0..(dev.size - 1)

alt_epcs_flash_erase_block(dev, at) ==
    IF alt_epcs_test_address(dev, at) THEN epcs_sector_erase(at, dev.four_bytes_mode) ELSE <<>>

(* A loop of the driver or of the parser: where it stands, and how many     *)
(* bytes or blocks it has still to go.                                      *)
Loop(at, len) == [at |-> at, len |-> len]
Nothing == Loop(0, 0)

(* A block write is cut at the page boundaries. *)
next_page_start(data_offset) == (data_offset \div page_size + 1) * page_size

length_of_current_writeUncut(data_offset, length) == length

length_of_current_write(data_offset, length) ==
    LET room == next_page_start(data_offset) - data_offset
    IN  IF length < room THEN length ELSE room

alt_epcs_flash_write_block(dev, at, len) ==
    IF alt_epcs_test_address(dev, at) THEN Loop(at, len) ELSE Nothing

alt_epcs_flash_read(dev, at, len) ==
    IF alt_epcs_test_address(dev, at) THEN epcs_read_buffer(at, len, dev.four_bytes_mode) ELSE <<>>

-----------------------------------------------------------------------------
(* The calls through the device structure.  The length of an erase and the  *)
(* block of a write go nowhere: what is erased is the chip's sector.        *)
alt_erase_flash_block(d, offset, length) == alt_epcs_flash_erase_block(d, offset)
alt_write_flash_block(d, block_offset, data_offset, length) ==
    alt_epcs_flash_write_block(d, data_offset, length)
alt_read_flash(d, offset, length) == alt_epcs_flash_read(d, offset, length)

NoFlash == Chip(0, 0, 0, FALSE)
alt_flash_open_dev(devs) == IF devs = {} THEN NoFlash ELSE CHOOSE d \in devs : TRUE

(* 256 bytes or a block at a time, nothing when no device is registered. *)
image_write(devs, addr) ==
    LET fd == alt_flash_open_dev(devs)
        block_addr == (addr \div EPCS_BLOCK_SIZE) * EPCS_BLOCK_SIZE
        offset == addr % EPCS_BLOCK_SIZE
    IN  IF fd = NoFlash THEN Nothing ELSE alt_write_flash_block(fd, block_addr, block_addr + offset, 256)

image_read(devs, addr) ==
    LET fd == alt_flash_open_dev(devs)
    IN  IF fd = NoFlash THEN <<>> ELSE alt_read_flash(fd, addr, 256)

(* The product is an int of 32 bits. *)
BlockAt(i) == (i % 65536) * EPCS_BLOCK_SIZE

image_erase(devs, i) ==
    LET fd == alt_flash_open_dev(devs)
    IN  IF fd = NoFlash THEN <<>> ELSE alt_erase_flash_block(fd, BlockAt(i), EPCS_BLOCK_SIZE)

=============================================================================
