------------------------------ MODULE PioneerCapture ------------------------------
(***************************************************************************)
(* backends/pioneer/backup.rs: capture_signed_candidate.  The identity and *)
(* a probe of read access come first; then the Kernel region is read, its  *)
(* geometry gives where the header of Normal is, the header how long       *)
(* Normal is.  Each region is read in chunks in two passes which must      *)
(* agree; what fails before the Kernel is complete fails the capture, what *)
(* fails later leaves an archive of the Kernel alone.  One action per read *)
(* of the drive, which may fail and may return other bytes than before.    *)
(***************************************************************************)
EXTENDS Naturals, Sequences

CONSTANTS
    RegionChunks,  \* chunks in each region
    ProbeLimit     \* short answers to the probe before it gives up

ASSUME CaptureAssumption == RegionChunks \in Nat \ {0} /\ ProbeLimit \in Nat \ {0}

VARIABLES
    capturing,   \* "identity", "probe", a region, "assemble", "saved" or "failed"
    probes,      \* short answers to the probe so far
    chunks,      \* what this pass over the region has read so far
    passes,      \* what each complete pass over each region read
    region,      \* what each region is taken to hold
    archive      \* the components of the archive

captureVars == <<capturing, probes, chunks, passes, region, archive>>

Regions == {"kernel", "header", "normal"}

\* What a chunk reads as: the drive's bytes, or others once it is disturbed.
Chunk == {"true", "other"}

CaptureInit ==
    /\ capturing = "identity" /\ probes = 0 /\ chunks = <<>>
    /\ passes = [r \in Regions |-> <<>>] /\ region = [r \in Regions |-> <<>>]
    /\ archive = {}

-----------------------------------------------------------------------------
\* A failure up to the Kernel ends the capture; a later one keeps the Kernel.
RegionFails ==
    /\ capturing' = IF capturing \in {"header", "normal"} THEN "kernelOnly" ELSE "failed"
    /\ UNCHANGED <<probes, chunks, passes, region, archive>>

ReadCaptureIdentity ==
    /\ capturing = "identity"
    /\ \/ RegionFails
       \/ capturing' = "probe" /\ UNCHANGED <<probes, chunks, passes, region, archive>>

\* prepare_firmware_read: a short answer is asked again, an error is not.
ProbeAccess ==
    /\ capturing = "probe"
    /\ \/ RegionFails
       \/ capturing' = "kernel" /\ UNCHANGED probes
       \/ /\ probes' = probes + 1
          /\ capturing' = IF probes' = ProbeLimit THEN "failed" ELSE "probe"
    /\ UNCHANGED <<chunks, passes, region, archive>>

\* read_region_strict: the first chunk that fails, or is short, fails the region.
ReadRegionChunk ==
    /\ capturing \in Regions /\ Len(chunks) < RegionChunks
    /\ \/ RegionFails
       \/ /\ \E c \in Chunk : chunks' = Append(chunks, c)
          /\ UNCHANGED <<capturing, probes, passes, region, archive>>

\* A pass has read the whole of the region.
PassEnds ==
    /\ capturing \in Regions /\ Len(chunks) = RegionChunks
    /\ passes' = [passes EXCEPT ![capturing] = Append(@, chunks)] /\ chunks' = <<>>
    /\ UNCHANGED <<probes, archive>>

EndFirstPass ==
    /\ PassEnds /\ passes[capturing] = <<>>
    /\ UNCHANGED <<capturing, region>>

NextRegion(r) == CASE r = "kernel" -> "header" [] r = "header" -> "normal" [] OTHER -> "assemble"

\* A mutant: the second pass is read for nothing, and its bytes are kept.
EndSecondPassUncompared ==
    /\ PassEnds /\ passes[capturing] # <<>>
    /\ region' = [region EXCEPT ![capturing] = chunks] /\ capturing' = NextRegion(capturing)

\* The passes agree. The Kernel must then be of the identity's hardware and have a
\* known layout, the header a length, and Normal must be what the layout expects.
EndSecondPass ==
    \/ capturing \in Regions /\ Len(chunks) = RegionChunks /\ passes[capturing] # <<>> /\ RegionFails
    \/ /\ PassEnds /\ passes[capturing] # <<>> /\ chunks = passes[capturing][1]
       /\ region' = [region EXCEPT ![capturing] = chunks] /\ capturing' = NextRegion(capturing)

\* construct_signed_candidate, or build_kernel_envelope: either may be refused, and
\* then nothing is saved, not even the Kernel.
Assemble ==
    /\ capturing \in {"assemble", "kernelOnly"}
    /\ \/ capturing' = "failed" /\ UNCHANGED archive
       \/ /\ capturing' = "saved"
          /\ archive' = IF capturing = "assemble" THEN {"kernel", "normal"} ELSE {"kernel"}
    /\ UNCHANGED <<probes, chunks, passes, region>>

CaptureNext ==
    \/ ReadCaptureIdentity \/ ProbeAccess \/ ReadRegionChunk \/ EndFirstPass \/ EndSecondPass
    \/ Assemble

CaptureSpec == CaptureInit /\ [][CaptureNext]_captureVars
-----------------------------------------------------------------------------
StableRegion(r) ==
    /\ Len(region[r]) = RegionChunks
    /\ Len(passes[r]) = 2 /\ passes[r][1] = region[r] /\ passes[r][2] = region[r]

\* Whatever the drive did between the reads, and wherever a pass was broken off,
\* what an archive holds of a region is what two complete passes over it both read;
\* Normal is archived only with its Kernel, and over the extent of a header that was
\* itself stable. (backup.rs:596, "must match or the capture is not trustworthy".)
ArchiveIsStable ==
    /\ \A r \in archive : StableRegion(r)
    /\ "normal" \in archive => "kernel" \in archive /\ StableRegion("header")
    /\ archive # {} => capturing = "saved"
=============================================================================
