------------------------------- MODULE OtaImg -------------------------------
(***************************************************************************)
(* ports/esp-idf/mcumgr/mgmt_img_esp.c: firmware images uploaded over the  *)
(* air into the partition that does not run.  The image manager of mcumgr  *)
(* calls these functions for a client that may go away at any block and    *)
(* come back with another image; the OTA handle of the unfinished upload   *)
(* stays open.  The ESP-IDF calls may fail, and the device may reset.      *)
(*                                                                         *)
(* The image manager, the flash and the boot loader are external: a block  *)
(* of flash is erased before it can be programmed, and one programmed      *)
(* twice with different data holds neither.                                *)
(***************************************************************************)
EXTENDS Integers

CONSTANTS
    Images,     \* the images a client may upload
    NBlocks,    \* the blocks of an image
    MaxFaults   \* how many library calls may fail

ASSUME OtaAssumption == NBlocks \in Nat \ {0}

Parts == {"ota_0", "ota_1"}
Other(part) == CHOOSE p \in Parts : p # part
Blocks == 0 .. NBlocks - 1
Erased == "erased"
Mixed == "mixed"
Closed == "closed"

VARIABLES
    ota_flash,      \* the blocks of each partition
    running,    \* the partition that runs
    boot,       \* the one the boot loader is to start
    confirmed,  \* the running image is marked valid
    handle,     \* s_ota.handle: the partition it writes to, or Closed
    image,      \* the image the client uploads
    off,        \* the block the image manager expects next, 0 between uploads
    fresh,      \* this upload began with no handle open, no call failed and
                \* nothing else was asked for since (observation)
    failed,     \* such an upload was refused at its end (observation)
    faults

otaVars == <<ota_flash, running, boot, confirmed, handle, image, off, fresh, failed, faults>>

\* The partition holds one image, from its first block to its last.
WholeIn(content, part) == \E v \in Images : \A b \in Blocks : content[part][b] = v
Whole(part) == WholeIn(ota_flash, part)

OtaInit ==
    /\ \E v \in Images :
        ota_flash = [p \in Parts |-> [b \in Blocks |->
                    IF p = "ota_0" THEN v ELSE Erased]]
        /\ image = v
    /\ running = "ota_0" /\ boot = "ota_0" /\ confirmed = TRUE
    /\ handle = Closed /\ off = 0
    /\ fresh = FALSE /\ failed = FALSE /\ faults = 0

Fault == faults < MaxFaults /\ faults' = faults + 1

\* esp_ota_get_next_update_partition: the library documents it to follow the
\* running partition, the comment in slot_to_partition the boot partition.
NextUpdate == {Other(running), Other(boot)}

slot_to_partition(slot) ==
    IF slot = 0 THEN {running} ELSE IF boot # running THEN {boot} ELSE NextUpdate

ErasePart(part) == [ota_flash EXCEPT ![part] = [b \in Blocks |-> Erased]]

\* esp_ota_write_with_offset on flash that may be programmed already.
Programmed(old, v) == IF old \in {Erased, v} THEN v ELSE Mixed

\* esp_ota_begin erases the partition; the running one is refused, and so is
\* any as long as the running image is not confirmed.
MayBegin(part) == part # running /\ confirmed

\* The end of img_mgmt_impl_write_pending: esp_ota_set_boot_partition verifies
\* the image, on the flash as it is by then.
set_boot(slot, content) ==
    \E part \in slot_to_partition(slot) :
        boot' = IF WholeIn(content, part) THEN part ELSE boot

\* img_mgmt_impl_write_pending, asked for by a client without an upload:
\* esp_ota_end closes the handle whatever was written with it.
WritePending(slot) ==
    /\ handle' = Closed
    /\ IF handle # Closed /\ ~WholeIn(ota_flash, handle) THEN UNCHANGED boot
                                                     ELSE set_boot(slot, ota_flash)
    /\ fresh' = FALSE
    /\ UNCHANGED <<ota_flash, running, confirmed, image, off, failed, faults>>

\* img_mgmt_impl_write_confirmed
WriteConfirmed ==
    /\ confirmed' = TRUE
    /\ UNCHANGED <<ota_flash, running, boot, handle, image, off, fresh, failed, faults>>

\* A bug the runs must notice: the first block goes to flash not erased.
OpenedAsIs(part) == ota_flash

\* The flash a block is written to: esp_ota_begin has erased the partition when
\* there was no handle.
Opened(part) == IF handle = Closed THEN ErasePart(part) ELSE ota_flash

\* img_mgmt_impl_write_image_data of the next block of the client's image.
WriteImageData(part) ==
    LET next == [Opened(part) EXCEPT ![part][off] = Programmed(@, image)]
        last == off = NBlocks - 1
        clean == IF off = 0 THEN handle = Closed ELSE fresh
    IN /\ handle = part \/ (handle = Closed /\ MayBegin(part))
       /\ ota_flash' = next
       /\ off' = IF last THEN 0 ELSE off + 1
       /\ IF last
          THEN /\ handle' = Closed
               /\ IF WholeIn(next, part) THEN set_boot(1, next) ELSE UNCHANGED boot
               /\ failed' = (failed \/ (clean /\ boot' # part))
          ELSE handle' = part /\ UNCHANGED <<boot, failed>>
       /\ fresh' = (clean /\ ~last)
       /\ UNCHANGED <<running, confirmed, image, faults>>

\* The same when esp_ota_begin refuses, or the write fails: the handle is
\* aborted, and the image manager expects a first block again.
WriteRefused(part) ==
    /\ \/ handle = Closed /\ ~MayBegin(part) /\ UNCHANGED <<ota_flash, faults>>
       \/ (handle = part \/ (handle = Closed /\ MayBegin(part)))
          /\ Fault /\ ota_flash' = Opened(part)
    /\ handle' = Closed /\ off' = 0 /\ fresh' = FALSE
    /\ UNCHANGED <<running, boot, confirmed, image, failed>>

\* img_mgmt_impl_erase_slot, which means slot 1.
EraseSlot ==
    \E part \in slot_to_partition(1) :
        /\ ota_flash' = ErasePart(part)
        /\ fresh' = FALSE
        /\ UNCHANGED <<running, boot, confirmed, handle, image, off, failed, faults>>

\* The client goes away, and one comes with an image from its first block.
NewClient(v) ==
    /\ image' = v /\ off' = 0 /\ fresh' = FALSE
    /\ UNCHANGED <<ota_flash, running, boot, confirmed, handle, failed, faults>>

\* A reset: the boot loader starts the boot partition, or the other one when
\* there is no whole image in it; the handle was in memory.
OtaReset ==
    /\ running' = IF Whole(boot) THEN boot ELSE running
    /\ boot' = running'
    /\ confirmed' = (running' = running /\ confirmed)
    /\ handle' = Closed /\ off' = 0 /\ fresh' = FALSE
    /\ UNCHANGED <<ota_flash, image, failed, faults>>

OtaNext ==
    \/ \E part \in NextUpdate \cup ({handle} \ {Closed}) :
        WriteImageData(part) \/ WriteRefused(part)
    \/ \E slot \in 0 .. 1 : WritePending(slot)
    \/ WriteConfirmed \/ EraseSlot \/ OtaReset
    \/ \E v \in Images : NewClient(v)

OtaSpec == OtaInit /\ [][OtaNext]_otaVars

(***************************************************************************)
(* Properties                                                              *)
(***************************************************************************)

\* However uploads are broken off, repeated and mixed with erasures and resets,
\* the image that runs is whole, so a reset always finds something to start;
\* and an upload that found no handle open and met no fault is the one that
\* starts next.
UploadSafe == Whole(running) /\ ~failed
=============================================================================
