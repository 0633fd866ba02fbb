--------------------------------- MODULE AltFd ---------------------------------
(***************************************************************************)
(* The file descriptors of the HAL: open, close, ioctl and fcntl on the    *)
(* descriptor pool, and the redirection of the standard streams before     *)
(* main.  The HAL is single threaded here: ALT_SEM_PEND and ALT_SEM_POST   *)
(* are empty, so a call is one step.                                       *)
(***************************************************************************)
EXTENDS Integers, Sequences

CONSTANTS
    ALT_MAX_FD,
    Names,      \* names that a program opens
    Devices,    \* alt_dev_list after alt_sys_init
    Console,    \* the device of ALT_STDIN, ALT_STDOUT and ALT_STDERR
    Null,       \* /dev/null
    NoDev       \* a null pointer

ASSUME AltFdAssumption ==
    /\ ALT_MAX_FD \in Nat /\ ALT_MAX_FD > 3
    /\ {Console, Null} \subseteq Devices /\ Devices \subseteq Names /\ NoDev \notin Names

VARIABLES
    dev, flags,     \* alt_fd_list
    alt_max_fd,     \* the highest descriptor ever allocated
    redirect        \* the standard streams still to redirect

fdVars == <<dev, flags, alt_max_fd, redirect>>

Fd == 0..(ALT_MAX_FD - 1)
Std == {0, 1, 2}
Flag == {"EXCL", "DEV", "NONBLOCK"}
Open == {i \in Fd : dev[i] # NoDev}

FdInit ==
    /\ dev = [i \in Fd |-> IF i \in Std THEN Null ELSE NoDev]
    /\ flags = [i \in Fd |-> {}] /\ alt_max_fd = -1 /\ redirect = <<1, 0, 2>>

-----------------------------------------------------------------------------
(* A device is found by its exact name. *)
alt_find_dev(name) == IF name \in Devices THEN name ELSE NoDev

(* The file systems: none is ever registered, alt_fs_list stays empty. *)
alt_find_file(name) == NoDev

(* alt_get_fd: the first free descriptor; with none the call fails (EMFILE).*)
Free == {i \in Fd : dev[i] = NoDev}
alt_get_fd == CHOOSE i \in Free : \A j \in Free : i <= j
HighWater(i) == IF i > alt_max_fd THEN i ELSE alt_max_fd

(* Whether a descriptor up to the high water mark has locked the device. *)
alt_file_lockedBelow(d, max) == \E i \in Fd : i < max /\ dev[i] = d /\ "EXCL" \in flags[i]
alt_file_locked(d, max) == \E i \in Fd : i <= max /\ dev[i] = d /\ "EXCL" \in flags[i]

(* An open that is refused gives the descriptor back, with the high water   *)
(* mark raised all the same.  Without a free descriptor (EMFILE) or with a  *)
(* name that no device has (ENODEV) nothing changes.                        *)
OpenAs(d, at, new) ==
    /\ d # NoDev /\ Free # {}
    /\ alt_max_fd' = HighWater(alt_get_fd)
    /\ IF alt_file_locked(d, HighWater(alt_get_fd)) THEN UNCHANGED <<dev, flags>>
       ELSE dev' = [dev EXCEPT ![at] = d] /\ flags' = [flags EXCEPT ![at] = new]

ALT_OPEN(name, nb) ==
    LET d == IF alt_find_dev(name) # NoDev THEN alt_find_dev(name) ELSE alt_find_file(name)
    IN  /\ redirect = <<>>
        /\ OpenAs(d, alt_get_fd, {"DEV"} \cup (IF nb THEN {"NONBLOCK"} ELSE {}))
        /\ UNCHANGED redirect

(* alt_open_fd: a descriptor is opened, copied over the standard one and    *)
(* given back.                                                              *)
alt_io_redirect ==
    /\ redirect # <<>> /\ OpenAs(alt_find_dev(Console), redirect[1], {"DEV"})
    /\ redirect' = Tail(redirect)

(* The standard descriptors are never given back. *)
Release(i) ==
    IF i \in Std THEN UNCHANGED <<dev, flags>>
    ELSE dev' = [dev EXCEPT ![i] = NoDev] /\ flags' = [flags EXCEPT ![i] = {}]

(* Whatever the device's close returns, the descriptor is free. *)
ALT_CLOSE(i) == redirect = <<>> /\ i \in Open /\ Release(i) /\ UNCHANGED <<alt_max_fd, redirect>>

OthersStd(i, max) == {j \in Std \ {i} : dev[j] = dev[i]}

(* The search of alt_fd_lock stops before the high water mark. *)
Others(i, max) == {j \in Fd \ {i} : j < max /\ dev[j] = dev[i]}

alt_fd_lock(i) ==
    flags' = IF Others(i, alt_max_fd) = {} THEN [flags EXCEPT ![i] = @ \cup {"EXCL"}] ELSE flags

alt_fd_unlock(i) == flags' = [flags EXCEPT ![i] = @ \ {"EXCL"}]

ALT_IOCTL(i) ==
    /\ redirect = <<>> /\ i \in Open /\ "DEV" \in flags[i]
    /\ alt_fd_lock(i) \/ alt_fd_unlock(i)
    /\ UNCHANGED <<dev, alt_max_fd, redirect>>

ALT_FCNTL(i, nb) ==
    /\ redirect = <<>> /\ i \in Open
    /\ flags' = [flags EXCEPT ![i] = (@ \ {"NONBLOCK"}) \cup (IF nb THEN {"NONBLOCK"} ELSE {})]
    /\ UNCHANGED <<dev, alt_max_fd, redirect>>

FdNext ==
    \/ alt_io_redirect
    \/ \E name \in Names, nb \in BOOLEAN : ALT_OPEN(name, nb)
    \/ \E i \in Fd : ALT_CLOSE(i) \/ ALT_IOCTL(i)
    \/ \E i \in Fd, nb \in BOOLEAN : ALT_FCNTL(i, nb)

-----------------------------------------------------------------------------
(* The pool: the standard descriptors always have a device, a free one has  *)
(* no flags, and none in use lies above the high water mark.                *)
FdTypeOK ==
    /\ dev \in [Fd -> Devices \cup {NoDev}] /\ flags \in [Fd -> SUBSET Flag]
    /\ Std \subseteq Open /\ alt_max_fd \in -1..(ALT_MAX_FD - 1)
    /\ \A i \in Fd \ Open : flags[i] = {}
    /\ \A i \in Open \ Std : i <= alt_max_fd
    /\ redirect = <<>> => \A i \in Std : dev[i] = Console /\ "DEV" \in flags[i]

(* At most one descriptor of a device holds its exclusive lock, although    *)
(* alt_fd_lock does not look at the highest descriptor.                     *)
LockUnique ==
    \A i, j \in Open : dev[i] = dev[j] /\ "EXCL" \in flags[i] \cap flags[j] => i = j

(* While a device is locked no further descriptor of it is opened, and an   *)
(* open that is refused leaves every descriptor as it was.                  *)
LockedRefused ==
    [][\A d \in Devices :
         (\E i \in Open : dev[i] = d /\ "EXCL" \in flags[i]) =>
             {i \in Fd : dev'[i] = d} \subseteq {i \in Fd : dev[i] = d}]_fdVars

=============================================================================
