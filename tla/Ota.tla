--------------------------------- MODULE Ota ---------------------------------
(***************************************************************************)
(* The firmware upgrade: ZigbeeHandlers::upgradeStatus and otaData of       *)
(* main/zigbee/handlers.cpp over the delta writer of esp_delta_ota_ops.cpp. *)
(*                                                                         *)
(* All of it runs in the Zigbee task, one callback at a time.  What the     *)
(* callbacks keep between calls are statics: they outlive a transfer that   *)
(* is abandoned, and only some of them are reset when the next one starts.  *)
(*                                                                         *)
(* The stack and the flash API are external.  The stack starts a transfer,  *)
(* hands over its blocks in order, may abandon it between any two of them,  *)
(* abandons it when the callback returns an error, asks for a check when    *)
(* all has arrived and finishes if the check was good.  The flash API may   *)
(* refuse anything; it never notices a wrong image by itself, so that what  *)
(* is proved of the order of calls does not lean on its checksum.           *)
(*                                                                         *)
(* A file is a sequence of units <<id, i>>.                                 *)
(***************************************************************************)
EXTENDS Integers, Sequences

CONSTANTS
    Images,     \* the files a server may offer: records of id, size, delta (or
                \* a plain image), tag ("image" or "other"), and whether the
                \* element length, the chip and the base firmware are right
    Blocks,     \* sizes of the blocks a server may send
    ElemHdr,    \* OTA_ELEMENT_HEADER_LEN: 6
    PatchHdr,   \* DELTA_OTA_UPGRADE_PATCH_HEADER_SIZE: 64
    Digest,     \* the part of it that is compared: 36
    ImageHdr,   \* DELTA_OTA_UPGRADE_IMAGE_HEADER_SIZE: 24
    PatchMod    \* 2^8: patch_len is a uint8_t

\* What a file has before its body.
Skip(m) == ElemHdr + IF m.delta THEN PatchHdr ELSE 0

ASSUME OtaAssumption ==
    /\ ElemHdr \in Nat \ {0} /\ PatchHdr \in Nat /\ Digest \in 0 .. PatchHdr
    /\ ImageHdr \in Nat /\ PatchMod \in Nat /\ PatchHdr < PatchMod
    /\ Blocks \subseteq Nat \ {0}
    /\ \A m \in Images : /\ m.size \in Nat /\ m.size > Skip(m) + ImageHdr
                         /\ m.delta \in BOOLEAN /\ m.tag \in {"image", "other"}
                         /\ m.length \in BOOLEAN /\ m.chip \in BOOLEAN
                         /\ m.base \in BOOLEAN

VARIABLES
    phase,      \* of the stack: idle, receive, apply, finish, restart
    image, sent,                            \* its transfer
    total, offset, otaStarted, tagSeen, tag, handle,  \* statics of the handlers
    ctx, patch,                             \* and of the delta writer
    flash,      \* what is written in the partition since it was begun
    open,       \* the update handles the flash API holds
    handles,    \* the number it has given out
    bootNew,    \* the boot partition is the new one
    clean,      \* history: no transfer was given up since the last check
    spoilt      \* history: patch_buf held the start of another transfer's header
                \* when this one began, or patch_len overflowed in it

statics == <<total, offset, otaStarted, tagSeen, tag, handle>>
writer  == <<ctx, patch>>
api     == <<flash, open, handles>>
vars == <<phase, image, sent, statics, writer, api, bootNew, clean, spoilt>>

Unit(m, i) == <<m.id, i>>
Units(m, from, n) == [k \in 1 .. n |-> Unit(m, from + k - 1)]

\* The firmware, or the patch, inside a file.
Body(m) == Units(m, Skip(m), m.size - Skip(m))

NoCtx == [verified |-> FALSE, chip |-> FALSE, hdr |-> <<>>]

Init ==
    /\ phase = "idle" /\ image \in Images /\ sent = 0
    /\ total = 0 /\ offset = 0 /\ otaStarted = FALSE
    /\ tagSeen = FALSE /\ tag = "image" /\ handle = 0
    /\ ctx = NoCtx /\ patch = <<>>
    /\ flash = <<>> /\ open = {} /\ handles = 0
    /\ bootNew = FALSE /\ clean = TRUE /\ spoilt = FALSE

\* Power is lost: the statics and the stack start anew, the flash stays.
Restart ==
    /\ phase # "restart" /\ phase' = "idle" /\ sent' = 0
    /\ total' = 0 /\ offset' = 0 /\ otaStarted' = FALSE
    /\ tagSeen' = FALSE /\ tag' = "image" /\ handle' = 0
    /\ ctx' = NoCtx /\ patch' = <<>> /\ open' = {} /\ clean' = TRUE
    /\ UNCHANGED <<image, flash, handles, bootNew, spoilt>>

-----------------------------------------------------------------------------
(* The delta writer.  An operator returns the set of outcomes it may have: ok *)
(* or not, and the ctx, patch and flash after it.  How much of a block that   *)
(* fails reached the flash is not told apart: the next Begin erases it.       *)

Outcome(ok, c, p, f) == [ok |-> ok, ctx |-> c, patch |-> p, flash |-> f]

\* The flash API writes, or refuses to.
FlashWrite(c, p, f, out) == {Outcome(TRUE, c, p, f \o out), Outcome(FALSE, c, p, f)}

\* Mutation: the image header that was held back is not written.
WriteCbBody(c, f, out) ==
    IF c.chip
      THEN FlashWrite(c, <<>>, f, out)
    ELSE IF Len(c.hdr) + Len(out) <= ImageHdr
      THEN {Outcome(TRUE, [c EXCEPT !.hdr = @ \o out], <<>>, f)}
    ELSE IF image.chip
      THEN FlashWrite([c EXCEPT !.chip = TRUE], <<>>, f, out)
      ELSE {Outcome(FALSE, c, <<>>, f)}

\* delta_ota_write_cb: hold back the image header until the chip is verified.
WriteCb(c, f, out) ==
    IF c.chip
      THEN FlashWrite(c, <<>>, f, out)
    ELSE IF Len(c.hdr) + Len(out) <= ImageHdr
      THEN {Outcome(TRUE, [c EXCEPT !.hdr = @ \o out], <<>>, f)}
    ELSE IF image.chip
      THEN FlashWrite([c EXCEPT !.chip = TRUE], <<>>, f, c.hdr \o out)
      ELSE {Outcome(FALSE, c, <<>>, f)}

\* delta_ota_patch_header_verify: every patch for the running firmware starts
\* with the same magic and digest.
HeaderOk(buf) ==
    \A k \in 1 .. Digest :
        \E m \in Images : m.delta /\ m.base /\ buf[k] = Unit(m, ElemHdr + k - 1)

\* esp_delta_ota_write: collect the patch header, verify it, feed the rest.
\* patch is the part of patch_buf below patch_len.  The patch decoder passes on
\* what it is fed, unit by unit, or refuses it, as the flash does.
DeltaWrite(c, f, data) ==
    IF c.verified THEN WriteCb(c, f, data)
    ELSE LET len == (Len(patch) + Len(data)) % PatchMod
             buf == SubSeq(patch \o data, 1, len)
         IN IF len <= PatchHdr
              THEN {Outcome(TRUE, c, buf, f)}
            ELSE IF HeaderOk(buf)
              THEN WriteCb([c EXCEPT !.verified = TRUE], f,
                           SubSeq(buf, PatchHdr + 1, len))
              ELSE {Outcome(FALSE, c, <<>>, f)}

Overflows(c, data) ==
    image.delta /\ ~c.verified /\ Len(patch) + Len(data) >= PatchMod

\* What is written of a block: straight to flash, or through the patch.
Write(c, f, data) == IF image.delta THEN DeltaWrite(c, f, data)
                     ELSE FlashWrite(c, patch, f, data)

-----------------------------------------------------------------------------
(* upgradeStatus *)

\* The stack gives the transfer up; the callback's statics never hear of it.
GiveUp(counted) == phase' = "idle" /\ clean' = (clean /\ counted = 0)

Leftover(m) == m.delta /\ patch # <<>>

\* Mutation: the start forgets the offset of the transfer before.
StartOffset(m) ==
    /\ phase = "idle" /\ phase' = "receive" /\ image' = m /\ sent' = 0
    /\ otaStarted' = FALSE /\ offset' = 0 /\ spoilt' = Leftover(m)
    /\ UNCHANGED <<total, tagSeen, tag, handle, writer, api, bootNew, clean>>

\* Mutation: the start forgets the element header of the transfer before.
StartTag(m) ==
    /\ phase = "idle" /\ phase' = "receive" /\ image' = m /\ sent' = 0
    /\ otaStarted' = FALSE /\ tagSeen' = FALSE /\ spoilt' = Leftover(m)
    /\ UNCHANGED <<total, offset, tag, handle, writer, api, bootNew, clean>>

\* START only marks that the partition must be begun.
Start(m) ==
    /\ phase = "idle" /\ phase' = "receive" /\ image' = m /\ sent' = 0
    /\ otaStarted' = FALSE /\ spoilt' = Leftover(m)
    /\ UNCHANGED <<total, offset, tagSeen, tag, handle, writer, api, bootNew,
                   clean>>

\* The first RECEIVE begins the partition: if that fails, the block is dropped
\* before it is counted.
BeginFails ==
    /\ phase = "receive" /\ ~otaStarted
    /\ otaStarted' = TRUE
    /\ GiveUp(offset)
    /\ UNCHANGED <<image, sent, total, offset, tagSeen, tag, handle, writer, api,
                   bootNew, spoilt>>

\* If it succeeds the same call goes on with a new handle and an empty
\* partition (and delta writer).
Begun ==
    IF otaStarted THEN UNCHANGED <<handle, open, handles>>
    ELSE /\ handles' = handles + 1 /\ handle' = handles'
         /\ open' = open \cup {handle'}
BegunCtx   == IF ~otaStarted /\ image.delta THEN NoCtx ELSE ctx
BegunFlash == IF ~otaStarted THEN <<>> ELSE flash

\* otaData: the element header, unless it was seen, and what follows it.
Fits(n)        == tagSeen \/ n > ElemHdr
ElementTag     == IF tagSeen THEN tag ELSE image.tag
ElementOk(n)   == Fits(n) /\ (tagSeen \/ image.length)
Element(n)     == IF tagSeen THEN Units(image, sent, n)
                  ELSE Units(image, sent + ElemHdr, n - ElemHdr)

\* RECEIVE, of a block of n units: counted before it is looked at.
Receive(n) ==
    /\ phase = "receive" /\ n <= image.size - sent
    /\ sent' = sent + n
    /\ otaStarted' = TRUE /\ Begun
    /\ total' = image.size
    /\ offset' = offset + n
    /\ tagSeen' = ElementOk(n)
    /\ tag' = IF Fits(n) THEN ElementTag ELSE tag
    /\ IF ElementOk(n) /\ ElementTag = "image"
         THEN \E w \in Write(BegunCtx, BegunFlash, Element(n)) :
                /\ ctx' = w.ctx /\ patch' = w.patch /\ flash' = w.flash
                /\ IF w.ok THEN UNCHANGED <<phase, clean>> ELSE GiveUp(offset + n)
                /\ spoilt' = (spoilt \/ Overflows(BegunCtx, Element(n)))
         ELSE /\ ctx' = BegunCtx /\ flash' = BegunFlash /\ UNCHANGED <<patch, spoilt>>
              /\ GiveUp(offset + n)
    /\ UNCHANGED <<image, bootNew>>

\* The stack abandons the transfer: a time-out, an answer of another status.
Abandon ==
    /\ phase = "receive" /\ UNCHANGED <<image, sent, statics>>
    /\ GiveUp(offset)
    /\ UNCHANGED <<writer, api, bootNew, spoilt>>

\* Mutation: any transfer that delivered its bytes is good.
CheckSent ==
    /\ phase = "receive" /\ otaStarted /\ sent = image.size
    /\ phase' = "apply"
    /\ total' = 0 /\ offset' = 0 /\ tagSeen' = FALSE
    /\ clean' = TRUE
    /\ UNCHANGED <<image, sent, otaStarted, tag, handle, writer, api, bootNew, spoilt>>

\* Mutation: the check leaves the element header marked as seen.
CheckKeepsTag ==
    /\ phase = "receive" /\ otaStarted /\ sent = image.size
    /\ phase' = IF offset = total THEN "apply" ELSE "idle"
    /\ total' = 0 /\ offset' = 0
    /\ clean' = TRUE
    /\ UNCHANGED <<image, sent, otaStarted, tagSeen, tag, handle, writer, api,
                   bootNew, spoilt>>

\* CHECK compares the bytes counted with the size of the file and resets.
Check ==
    /\ phase = "receive" /\ otaStarted /\ sent = image.size
    /\ phase' = IF offset = total THEN "apply" ELSE "idle"
    /\ total' = 0 /\ offset' = 0 /\ tagSeen' = FALSE
    /\ clean' = TRUE
    /\ UNCHANGED <<image, sent, otaStarted, tag, handle, writer, api, bootNew, spoilt>>

\* APPLY changes nothing.
Apply ==
    /\ phase = "apply" /\ phase' = "finish"
    /\ UNCHANGED <<image, sent, statics, writer, api, bootNew, clean, spoilt>>

\* FINISH ends the update, sets the boot partition and restarts.
Finish ==
    /\ phase = "finish" /\ phase' = "restart"
    /\ open' = open \ {handle} /\ bootNew' = TRUE
    /\ ctx' = IF image.delta THEN NoCtx ELSE ctx
    /\ UNCHANGED <<image, sent, statics, patch, flash, handles, clean, spoilt>>

\* esp_delta_ota_end frees the context, and returns if the patch cannot be
\* finished or cleaned up: esp_ota_end is then never called.
FinalizeFails ==
    /\ phase = "finish" /\ image.delta
    /\ phase' = "idle" /\ ctx' = NoCtx
    /\ UNCHANGED <<image, sent, statics, patch, api, bootNew, clean, spoilt>>

\* esp_ota_end, which closes the handle in any case, or
\* esp_ota_set_boot_partition fails.
EndFails ==
    /\ phase = "finish" /\ phase' = "idle"
    /\ open' = open \ {handle}
    /\ ctx' = IF image.delta THEN NoCtx ELSE ctx
    /\ UNCHANGED <<image, sent, statics, patch, flash, handles, bootNew, clean, spoilt>>

Next ==
    \/ \E m \in Images : Start(m)
    \/ BeginFails \/ \E n \in Blocks : Receive(n)
    \/ Abandon \/ Restart \/ Check \/ Apply \/ Finish \/ FinalizeFails \/ EndFails

Spec == Init /\ [][Next]_vars

-----------------------------------------------------------------------------
(* Properties *)

AnyUnit == {m.id : m \in Images} \X Nat
Piece   == Seq(AnyUnit)
Ctx     == [verified : BOOLEAN, chip : BOOLEAN, hdr : Piece]

TypeOK ==
    /\ phase \in {"idle", "receive", "apply", "finish", "restart"}
    /\ image \in Images /\ sent \in 0 .. image.size
    /\ total \in Nat /\ offset \in Nat
    /\ otaStarted \in BOOLEAN /\ tagSeen \in BOOLEAN /\ tag \in {"image", "other"}
    /\ handles \in Nat /\ handle \in 0 .. handles /\ open \subseteq 1 .. handles
    /\ ctx \in Ctx
    /\ patch \in Piece /\ flash \in Piece
    /\ bootNew \in BOOLEAN /\ clean \in BOOLEAN /\ spoilt \in BOOLEAN

\* The body of m up to unit s is in the partition, or in the image header held back.
BodyAt(m, s, c, p, f) ==
    /\ s > Skip(m) /\ p = <<>>
    /\ c.chip => f = Units(m, Skip(m), s - Skip(m))
    /\ ~c.chip => /\ f = <<>> /\ s - Skip(m) <= ImageHdr
                  /\ c.hdr = Units(m, Skip(m), s - Skip(m))

\* The file m up to unit s is in the patch header p.
HeaderAt(m, s, c, p, f) ==
    /\ s <= Skip(m) /\ p = Units(m, ElemHdr, s - ElemHdr)
    /\ c = NoCtx /\ f = <<>>

\* The file m up to unit s is in the partition or on its way there.
OrderAt(m, s, c, p, f) ==
    IF ~m.delta THEN f = Units(m, ElemHdr, s - ElemHdr)
    ELSE IF c.verified THEN BodyAt(m, s, c, p, f) ELSE HeaderAt(m, s, c, p, f)

Receiving == phase = "receive" /\ otaStarted

\* The counter runs ahead of the transfer by what an abandoned one left; if by
\* nothing, the element header was read in this transfer.
CounterInv ==
    /\ offset = 0 => ~tagSeen
    /\ Receiving => /\ offset >= sent /\ total = image.size
                    /\ tagSeen /\ tag = "image"
    /\ phase = "receive" /\ ~otaStarted => sent = 0
    /\ phase \in {"apply", "finish", "restart"} => offset = 0

\* clean means that it does not.
CleanInv ==
    clean => /\ Receiving => offset = sent
             /\ ~Receiving => offset = 0

OrderInv ==
    /\ phase = "receive" /\ ~otaStarted /\ ~spoilt /\ image.delta => patch = <<>>
    /\ Receiving /\ offset = sent /\ ~spoilt =>
            sent > ElemHdr /\ OrderAt(image, sent, ctx, patch, flash)
    /\ phase \in {"apply", "finish", "restart"} /\ ~spoilt => flash = Body(image)
    /\ bootNew => phase = "restart"

\* What a block is written to, and an update ended with, is open: begun in this
\* transfer, and not ended since.
HandleInv == Receiving \/ phase \in {"apply", "finish"} => handle \in open

OtaInv == TypeOK /\ CounterInv /\ CleanInv /\ OrderInv /\ HandleInv

\* The device boots a new firmware only if the partition holds exactly the body
\* of one file, unit by unit: whatever transfers were abandoned or refused
\* before, and even if the flash API accepts any image (but see spoilt).
BootOnlyComplete == bootNew /\ ~spoilt => flash = Body(image)

AllSent == Receiving /\ sent = image.size

\* A complete transfer of a file passes its check if none was given up since the
\* last one: a single refused check clears every trace of an abandoned transfer
\* but a piece of its patch header.
CleanCheckPasses ==
    AllSent /\ clean /\ ~spoilt => offset = total /\ flash = Body(image)

\* The statics hold an unsupported element tag that the next transfer will use.
Poisoned == tagSeen /\ tag = "other"

\* After a file with an unsupported tag no file at all is accepted until the
\* device restarts: every block is refused, so the check that would reset the
\* tag never comes.
PoisonedForGood ==
    [][Poisoned => \/ Poisoned' /\ phase' \notin {"apply", "finish"}
                   \/ Restart]_vars

-----------------------------------------------------------------------------
(* The upgrade implements Upgrade *)

\* What a transfer has written counts from its first block on, as long as the
\* counter is right and no patch header was lost (see spoilt).
Counts ==
    /\ ~spoilt
    /\ \/ Receiving /\ offset = sent
       \/ phase \in {"apply", "finish", "restart"}

State ==
    CASE ~Counts                           -> "none"
      [] Counts /\ phase = "receive"       -> "coming"
      [] Counts /\ phase \in {"apply", "finish"} -> "whole"
      [] Counts /\ phase = "restart"       -> "booted"

Promise == INSTANCE Upgrade WITH
    Files <- Images, Firmware <- [m \in Images |-> Body(m)],
    state <- State, file <- image, part <- IF Counts THEN flash ELSE <<>>

\* The callbacks, the delta writer and whatever the stack and the flash API
\* give up, refuse or lose between them implement the promise: from its first
\* block on a transfer that can still be accepted writes the firmware in order
\* from its first unit, with the image header that was held back in front, and
\* what was checked is what is booted.
KeepsUpgrade == Promise!Spec

\* False: "Data is written sequentially to the partition"
\* (esp_delta_ota_ops.h:55-56), by calls that all returned ESP_OK.
WrittenSequentially == AllSent /\ clean => flash = Body(image)

\* It is true of servers that begin every file with a block that holds both of
\* its headers, when no block is longer than patch_len counts: the 223 bytes
\* that are asked for (sensor.cpp:178) do both.
HeadersFirst == [][sent = 0 /\ sent' > 0 => sent' > Skip(image)]_vars
BlocksCounted == \A n \in Blocks : n < PatchMod
=============================================================================
