------------------------------- MODULE MemorySweep -------------------------------
(***************************************************************************)
(* The raw read of a MediaTek drive's memory behind Backup and Dump.       *)
(* probe.rs, read_full_image_with_restriction: a chunk that does not read  *)
(* is split into pieces, a piece that does not read is filled and recorded *)
(* as a gap, and after SplitBudget dead chunks in a row chunks are no      *)
(* longer split.  backends/mtk/fwdump.rs, capture_full_image, on a drive   *)
(* with freemkv firmware: window by window.  Every read can succeed, be    *)
(* rejected or fail, whatever the last one at the same place did.          *)
(***************************************************************************)
EXTENDS Naturals, Sequences, FiniteSets

CONSTANTS
    SweepChunks,   \* chunks in the image
    Pieces,        \* pieces in a chunk; a piece is also a window of capture_full_image
    SplitBudget    \* dead chunks in a row that are split

ASSUME SweepAssumption ==
    SweepChunks \in Nat \ {0} /\ Pieces \in Nat \ {0} /\ SplitBudget \in Nat

VARIABLES
    channel,     \* "flash", or "freemkv" where the drive answers the injected command
    image,       \* what each piece taken so far holds: the drive's bytes or the fill
    piece,       \* the next piece of a chunk being split; 0: a whole chunk is next
    anyRead,     \* some piece of that chunk did read
    dead,        \* chunks in a row of which nothing read
    gaps,        \* the recorded gaps, <<first piece, past the last>>
    readable,    \* the count of pieces reported as read
    failures,    \* what kinds of failure the reads of the flash channel had
    captured     \* what the Backup or the Dump became of it

sweepVars == <<channel, image, piece, anyRead, dead, gaps, readable, failures, captured>>

Total == SweepChunks * Pieces
Outcomes == {"bytes", "rejected", "failed"}

SweepInit ==
    /\ channel \in {"flash", "freemkv"}
    /\ image = <<>> /\ piece = 0 /\ anyRead = FALSE /\ dead = 0 /\ gaps = <<>>
    /\ readable = 0 /\ failures = {} /\ captured = "none"

-----------------------------------------------------------------------------
\* A mutant: a gap is extended over whatever was read since.
RecordGapOver(n) ==
    IF gaps # <<>>
    THEN [gaps EXCEPT ![Len(gaps)] = <<@[1], Len(image) + n>>]
    ELSE Append(gaps, <<Len(image), Len(image) + n>>)

RecordGap(n) ==
    IF gaps # <<>> /\ gaps[Len(gaps)][2] = Len(image)
    THEN [gaps EXCEPT ![Len(gaps)] = <<@[1], Len(image) + n>>]
    ELSE Append(gaps, <<Len(image), Len(image) + n>>)

\* take: the next n pieces are the drive's, or the fill and a gap.
TakePieces(n, read) ==
    /\ image' = image \o [i \in 1..n |-> IF read THEN "drive" ELSE "fill"]
    /\ readable' = IF read THEN readable + n ELSE readable
    /\ gaps' = IF read THEN gaps ELSE RecordGap(n)

\* read_exact: only a CHECK CONDITION that says so is a rejection, not a short answer.
ReadExact(o) == failures' = failures \cup ({o} \ {"bytes"}) /\ UNCHANGED <<channel, captured>>

ReadChunk ==
    /\ channel = "flash" /\ piece = 0 /\ Len(image) < Total
    /\ \E o \in Outcomes :
         /\ ReadExact(o)
         /\ CASE o = "bytes" ->
                   TakePieces(Pieces, TRUE) /\ dead' = 0 /\ UNCHANGED <<piece, anyRead>>
              [] o # "bytes" /\ dead >= SplitBudget ->
                   TakePieces(Pieces, FALSE) /\ UNCHANGED <<piece, anyRead, dead>>
              [] OTHER ->
                   piece' = 1 /\ anyRead' = FALSE /\ UNCHANGED <<image, readable, gaps, dead>>

ReadPiece ==
    /\ piece > 0
    /\ \E o \in Outcomes :
         LET some == anyRead \/ o = "bytes" IN
         /\ ReadExact(o) /\ TakePieces(1, o = "bytes")
         /\ IF piece = Pieces
            THEN piece' = 0 /\ anyRead' = FALSE /\ dead' = IF some THEN 0 ELSE dead + 1
            ELSE piece' = piece + 1 /\ anyRead' = some /\ UNCHANGED dead

ReadWindow ==
    /\ channel = "freemkv" /\ Len(image) < Total
    /\ \E read \in BOOLEAN : TakePieces(1, read)
    /\ UNCHANGED <<channel, piece, anyRead, dead, failures, captured>>

\* Every failure of the flash channel was a rejection.
Restricted == channel = "flash" /\ failures = {"rejected"}

Finished == Len(image) = Total /\ piece = 0 /\ captured = "none"

\* Backup needs every byte: the rest of the image is rebuilt from what was read.
DeliverBackup ==
    /\ Finished
    /\ \/ captured' = "backup" /\ readable = Total /\ gaps = <<>>
       \/ captured' = "error" /\ readable = Total /\ gaps = <<>>
       \/ captured' = (IF Restricted THEN "restricted" ELSE "error") /\ readable < Total
    /\ UNCHANGED <<channel, image, piece, anyRead, dead, gaps, readable, failures>>

\* Dump saves what there is, with the list of its gaps.
DeliverDump ==
    /\ Finished
    /\ captured' = CASE readable > 0 -> "dump"
                     [] readable = 0 /\ Restricted -> "restricted"
                     [] OTHER -> "error"
    /\ UNCHANGED <<channel, image, piece, anyRead, dead, gaps, readable, failures>>

SweepNext == ReadChunk \/ ReadPiece \/ ReadWindow \/ DeliverBackup \/ DeliverDump

SweepSpec == SweepInit /\ [][SweepNext]_sweepVars
-----------------------------------------------------------------------------
Filled == {i \in 1..Len(image) : image[i] = "fill"}

\* At every moment the recorded gaps are exactly the filled pieces, in order and
\* none touching the next, and the count is exactly the rest; so no backup is built
\* from an image with fill in it. (probe.rs: FullImage, "Every offset the drive does
\* not expose is filled and recorded".)
SweepIsExact ==
    /\ Filled = {i \in 1..Len(image) : \E g \in 1..Len(gaps) : gaps[g][1] < i /\ i <= gaps[g][2]}
    /\ \A g \in 1..Len(gaps) : gaps[g][1] < gaps[g][2] /\ gaps[g][2] <= Len(image)
    /\ \A g \in 1..(Len(gaps) - 1) : gaps[g][2] < gaps[g + 1][1]
    /\ readable = Cardinality({i \in 1..Len(image) : image[i] = "drive"})
    /\ captured = "backup" => Filled = {}
    /\ captured = "dump" => Filled # 1..Total
=============================================================================
