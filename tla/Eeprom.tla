-------------------------------- MODULE Eeprom --------------------------------
(***************************************************************************)
(* The AT24C1024 EEPROM and the layout of what the firmware keeps in it.   *)
(* eeprom_write_page cuts its data into bursts; the chip takes a burst     *)
(* into one of its pages, and a burst that runs past the end of the page   *)
(* goes on at the page's beginning.  A burst is the unit that a power      *)
(* failure leaves done or undone.                                          *)
(***************************************************************************)
EXTENDS Integers, Sequences

EEPROM_PAGE_SIZE == 256
AT24C1024_MAX_ADDR == 131072 - 11072
TARGET_NUMBER == 811
ZENITH_NUMBER == 103
CUR_ALARM_GROUP == 0
SYS_PARA_ADDR == 1024
GROUP_OFFSET_ADDR == 4096
REGION_SPACE_SIZE == 2048
SizeofSysPara == 308

(* The address of layer k: GROUP0_INNER_START_ADDR and its successors. *)
LayerAddr(k) == GROUP_OFFSET_ADDR + REGION_SPACE_SIZE * k

(* Faulty variants, used to show that the properties can fail. *)
DeviceLowBank(base, addr) == addr % 65536

(* start(), the device address, two address bytes: the high address bit is  *)
(* taken from base, the others from addr.                                   *)
Device(base, addr) == ((base \div 65536) % 2) * 65536 + (addr % 65536)

Burst(base, addr, len) == [at |-> Device(base, addr), len |-> len]

(* eeprom_write_byte *)
WriteByte(addr) == <<Burst(addr, addr, 1)>>

(* eeprom_write_page: whole pages, then what remains. *)
Bursts(addr, len) ==
    LET number == (len \div EEPROM_PAGE_SIZE) % 256
        remain == len % EEPROM_PAGE_SIZE
    IN  [i \in 1..(number + (IF remain = 0 THEN 0 ELSE 1)) |->
            Burst(addr, addr + (i - 1) * EEPROM_PAGE_SIZE,
                  IF i <= number THEN EEPROM_PAGE_SIZE ELSE remain)]

(* The byte of the chip that the j-th byte of burst b goes to. *)
Cell(b, j) ==
    (b.at \div EEPROM_PAGE_SIZE) * EEPROM_PAGE_SIZE + ((b.at + j) % EEPROM_PAGE_SIZE)

(* Whether the bursts b and c have a byte in common. *)
Meet(b, c) ==
    /\ b.at \div EEPROM_PAGE_SIZE = c.at \div EEPROM_PAGE_SIZE
    /\ \/ (c.at - b.at) % EEPROM_PAGE_SIZE < b.len
       \/ (b.at - c.at) % EEPROM_PAGE_SIZE < c.len

(* eeprom_sequential_read refuses addresses beyond this one. *)
Readable(addr) == addr <= AT24C1024_MAX_ADDR

(* The bursts of the parameters (save_sys_para) and of a layer: its points, *)
(* then the corners the PC tool drew it with (region_save2eeprom).          *)
ParaBursts == Bursts(SYS_PARA_ADDR, SizeofSysPara)

LayerBursts(k) ==
    Bursts(LayerAddr(k), TARGET_NUMBER * 2)
      \o Bursts(LayerAddr(k) + TARGET_NUMBER * 2, ZENITH_NUMBER)

Mixed == -2     \* what is left of a burst that another one has overwritten in part

(* What is kept of memory m after content c has been written in burst b. *)
WriteBurst(m, b, c) ==
    [s \in DOMAIN m |-> IF s = b THEN c ELSE IF Meet(s, b) THEN Mixed ELSE m[s]]
=============================================================================
