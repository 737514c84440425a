------------------------------- MODULE DriveFlags -------------------------------
(***************************************************************************)
(* The program freemkv-fw puts into a MediaTek drive: the handler of its   *)
(* vendor command, the hook that runs at every start, and the stubs which  *)
(* the drive's own code calls where it decides about a disc, a speed, a    *)
(* region or a host (freemkv-fw/src/engine/core.rs emits them, abi.rs      *)
(* names the commands).                                                    *)
(*                                                                         *)
(* One byte per feature lives in memory and rules the stubs; a copy of the *)
(* bytes may be saved in a block of the drive's flash.  The drive's        *)
(* routines (the programmer, the setter of a grant's state, the reset of   *)
(* the AACS engine, its start) are external.  Commands that only read are  *)
(* left out, and so is CALL, a debug command which runs any routine.  An   *)
(* image without the stubs of the handshake has no bypass either, and is   *)
(* not a subject of this module.                                           *)
(***************************************************************************)
EXTENDS Naturals

CONSTANTS
    Agids,            \* the authentication grants the drive keeps
    Choices,          \* what hosts set: features with a byte (a bound)
    Images,           \* the startup settings an image may be made with
    Unsaved           \* no settings were saved

Off == 0
On == 1
Oem == 255
Features == {"Speed", "Region", "Unrestricted", "Bd", "Hrl", "Encryption"}
Bytes == 0..255
(* For a handshake: the writer of a refusal, on modern and on classic      *)
(* images, or the one call in which modern images join both verdicts.      *)
Stubs == {"refusal", "classic", "join"}
Configs == [Features -> Bytes]

ASSUME FlagsAssumption ==
    Choices \subseteq Features \X Bytes /\ Images \subseteq Configs /\ Unsaved \notin Configs

VARIABLES
    baked,       \* the startup settings of the image
    stub,        \* the kind of stub the image has for a handshake
    flag,        \* the bytes that rule the stubs
    block,       \* the flash block: its saved-marker, and its bytes
    agid,        \* how each grant came to its authenticated state
    latched,     \* the engine wraps what is read with a bus key
    kept,        \* history: the settings the last program saved
    cut,         \* history: the power failed in that program
    meddled      \* history: a debug command or a warm start changed memory

flagsVars == <<baked, stub, flag, block, agid, latched, kept, cut, meddled>>

AllOem == [f \in Features |-> Oem]
NoGrant == [a \in Agids |-> "none"]

-----------------------------------------------------------------------------
\* A mutant: a grant stays as it is when the settings change.
GrantsKept(next) == agid

(* What the handler leaves of the grants when the settings become `next`:  *)
(* the bypass's grants end with the bypass, and the native ones with them. *)
GrantsAfter(next) ==
    IF flag["Encryption"] = Off /\ next["Encryption"] # Off THEN NoGrant ELSE agid

(* RESET_TO_FLASH: the saved bytes, if the block is marked. *)
FromFlash == IF block.marker = Oem THEN baked ELSE block.bytes

FlagsInit ==
    /\ baked \in Images /\ stub \in Stubs
    /\ flag = baked
    /\ block = [marker |-> Oem, bytes |-> AllOem]
    /\ agid = NoGrant /\ latched = TRUE
    /\ kept = Unsaved /\ cut = FALSE /\ meddled = FALSE

-----------------------------------------------------------------------------
(* SET of a feature; the identifier 0 and those past the last are refused. *)
SetFlag(f, v) ==
    /\ flag' = [flag EXCEPT ![f] = v]
    /\ agid' = GrantsAfter(flag')
    /\ UNCHANGED <<baked, stub, block, latched, kept, cut, meddled>>

(* RESET to the image's settings, or to the saved ones. *)
ResetFlags(next) ==
    /\ flag' = next
    /\ agid' = GrantsAfter(flag')
    /\ UNCHANGED <<baked, stub, block, latched, kept, cut, meddled>>

\* A mutant: SAVE writes the bytes as they stand, the marker among them.
SavedUnstamped == [block |-> [block EXCEPT !.bytes = flag], keeps |-> flag]

(* What SAVE writes: it stamps the marker, so that settings which are all  *)
(* OEM count too.  A write is a block with the settings it means to keep.  *)
SavedFlags == [block |-> [marker |-> On, bytes |-> flag], keeps |-> flag]

(* What RESET to OEM writes. *)
Blank == [block |-> [marker |-> Oem, bytes |-> AllOem], keeps |-> Unsaved]

(* What a FLASH WRITE may write: any one byte of the block changed. *)
KeptIn(made) == [block |-> made, keeps |-> IF made.marker = Oem THEN Unsaved ELSE made.bytes]
OneByteWrites ==
    {KeptIn([block EXCEPT !.marker = v]) : v \in {On, Oem}}
        \cup {KeptIn([block EXCEPT !.bytes[c[1]] = c[2]]) : c \in Choices}

(* The external programmer, asked to erase the block's sector and write it *)
(* again, does that or nothing; its answer goes to the host, except that   *)
(* of RESET to OEM, which nobody looks at.                                 *)
Program(w) ==
    \/ block' = w.block /\ kept' = w.keeps /\ cut' = FALSE
    \/ UNCHANGED <<block, kept, cut>>

SaveFlags ==
    /\ Program(SavedFlags)
    /\ UNCHANGED <<baked, stub, flag, agid, latched, meddled>>

(* RESET to OEM also blanks the saved settings. *)
ResetToOem ==
    /\ flag' = AllOem
    /\ agid' = GrantsAfter(flag')
    /\ Program(Blank)
    /\ UNCHANGED <<baked, stub, latched, meddled>>

FlashWrite ==
    /\ \E w \in OneByteWrites : Program(w)
    /\ UNCHANGED <<baked, stub, flag, agid, latched, meddled>>

-----------------------------------------------------------------------------
(* Every start writes the image's settings; the saved ones do not take     *)
(* part.  A cold start clears the grants (REBOOT forces one, except on     *)
(* classic images, where it is inert); what a warm one leaves of them is   *)
(* the drive's own affair.                                                 *)
Started(warm) ==
    /\ flag' = baked
    /\ IF warm THEN agid' \in {agid, NoGrant} ELSE agid' = NoGrant
    /\ meddled' = (agid' # NoGrant)
    /\ latched' = TRUE
    /\ UNCHANGED <<baked, stub>>

StartDrive(warm) == Started(warm) /\ UNCHANGED <<block, kept, cut>>

(* What an interrupted program leaves: each byte erased or written. *)
TornBlocks(made) ==
    {[marker |-> m, bytes |-> [f \in Features |-> IF f \in done THEN made.bytes[f] ELSE Oem]] :
        m \in {Oem, made.marker}, done \in SUBSET {f \in Features : made.bytes[f] # Oem}}

(* The power fails while the programmer works on the erased sector. *)
PowerFails ==
    /\ \E w \in OneByteWrites \cup {SavedFlags, Blank} :
           /\ block' \in TornBlocks(w.block)
           /\ kept' = w.keeps
    /\ cut' = TRUE
    /\ Started(FALSE)

(* A debug command stores a byte anywhere; only the settings matter here. *)
Poke(f, v) ==
    /\ flag' = [flag EXCEPT ![f] = v]
    /\ meddled' = TRUE
    /\ UNCHANGED <<baked, stub, block, agid, latched, kept, cut>>

-----------------------------------------------------------------------------
(* A disc comes in: the drive's own code ends the sessions and arms the bus key. *)
InsertDisc ==
    /\ agid' = NoGrant /\ latched' = TRUE
    /\ UNCHANGED <<baked, stub, flag, block, kept, cut, meddled>>

(* The drive's verdict on a host's handshake passes the stub: both verdicts *)
(* on images that join them, else the refusals only.                        *)
Bypassed(valid) == flag["Encryption"] = Off /\ (stub = "join" \/ ~valid)
StateAfter(valid) ==
    CASE Bypassed(valid) -> "bypass"
      [] ~Bypassed(valid) /\ valid -> "host"
      [] OTHER -> "none"

(* The modern stubs reset the engine, which takes the bus key away, before *)
(* they force the grant; the classic one only forces it.                   *)
BypassResets(valid) == Bypassed(valid) /\ stub # "classic"

Handshake(a, valid) ==
    /\ agid' = [agid EXCEPT ![a] = StateAfter(valid)]
    /\ latched' = (latched /\ ~BypassResets(valid))
    /\ UNCHANGED <<baked, stub, flag, block, kept, cut, meddled>>

(* READ DISC STRUCTURE releases the volume identifier to all while the     *)
(* bypass is on, after a reset of the engine, else to the authenticated.   *)
VidReleased(a) == flag["Encryption"] = Off \/ agid[a] # "none"

(* A refusal of it resets the engine too; but a classic image leaves the   *)
(* path of a refusal as the OEM made it.                                   *)
DenialResets(a) == ~VidReleased(a) /\ stub # "classic"

ReadVid(a) ==
    /\ latched' = (latched /\ flag["Encryption"] # Off /\ ~DenialResets(a))
    /\ UNCHANGED <<baked, stub, flag, block, agid, kept, cut, meddled>>

FlagsNext ==
    \/ \E c \in Choices : SetFlag(c[1], c[2]) \/ Poke(c[1], c[2])
    \/ ResetFlags(baked) \/ ResetFlags(FromFlash) \/ ResetToOem
    \/ SaveFlags \/ FlashWrite
    \/ \E warm \in BOOLEAN : StartDrive(warm)
    \/ PowerFails \/ InsertDisc
    \/ \E a \in Agids, valid \in BOOLEAN : Handshake(a, valid)
    \/ \E a \in Agids : ReadVid(a)

FlagsSpec == FlagsInit /\ [][FlagsNext]_flagsVars

-----------------------------------------------------------------------------
FlagsTypeOK ==
    /\ baked \in Configs /\ flag \in Configs /\ stub \in Stubs
    /\ block \in [marker : Bytes, bytes : Configs]
    /\ agid \in [Agids -> {"none", "host", "bypass"}]
    /\ latched \in BOOLEAN /\ meddled \in BOOLEAN
    /\ kept \in Configs \cup {Unsaved} /\ cut \in BOOLEAN

(* A grant the bypass made does not outlive it: the volume identifier is   *)
(* released, once Encryption is not off, only to hosts that earned it, by  *)
(* whichever command or start the bypass ended.  And on modern images,     *)
(* while such a grant lives, the engine wraps nothing with a key its host  *)
(* never agreed on.  Classic images do not promise that: their stub forces *)
(* the grant and leaves the key that the disc's insertion armed.           *)
(* Debug commands, and what a warm start leaves in memory, are excepted.   *)
BypassIsContained ==
    ~meddled =>
        \A a \in Agids :
            /\ VidReleased(a) => flag["Encryption"] = Off \/ agid[a] = "host"
            /\ agid[a] = "bypass" /\ stub # "classic" => ~latched

(* RESET_TO_FLASH restores the settings the last program saved, or the     *)
(* image's when it saved none; after a program that was cut it may restore *)
(* the image's, or those it was writing with some at OEM: never a mixture  *)
(* with older settings.                                                    *)
SavedSettingsAreKept ==
    \/ FromFlash = IF kept = Unsaved THEN baked ELSE kept
    \/ /\ cut
       /\ \/ FromFlash = baked
          \/ kept # Unsaved /\ \A f \in Features : FromFlash[f] \in {kept[f], Oem}
=============================================================================
