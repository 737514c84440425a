-------------------------------- MODULE Detection --------------------------------
(***************************************************************************)
(* backend/detection.rs: detect, and who asks it: registry.rs resolve for  *)
(* Flash, and the facets' identification for Recovery, which asks one      *)
(* backend after the other, each with a detection of its own.  One action  *)
(* per command to the drive; every command can be rejected, can fail and   *)
(* can answer short, another time than the last.                           *)
(***************************************************************************)

VARIABLES
    speaks,      \* the protocols the drive shows when it answers in full
    loader,      \* it runs its loader: revision BOOT (MediaTek) or 0000 (Pioneer)
    purpose,     \* "flash", or "recovery" with or without a Current file
    candidates,  \* the backends still to be asked, of a Recovery
    detecting,   \* the next command or decision
    found,       \* what each vendor probe of this detection established
    conclusion,  \* the Conclusion of the detection
    chosen       \* the answer: a backend, "none" of them, or an error

detectionVars == <<speaks, loader, purpose, candidates, detecting, found, conclusion, chosen>>

Protocols == {"mediatek", "pioneer"}
Errors == {"error", "currentRequired"}

DetectionInit ==
    /\ speaks \in SUBSET Protocols /\ loader \in BOOLEAN
    /\ purpose \in {"flash", "recovery", "recoveryWithCurrent"}
    /\ candidates \in IF purpose = "recoveryWithCurrent" THEN {{b} : b \in Protocols} ELSE {Protocols}
    /\ detecting = "inquiry"
    /\ found = [p \in Protocols |-> "unread"]
    /\ conclusion = "none" /\ chosen = "none"

-----------------------------------------------------------------------------
(* detect *)

Answer(a) ==
    /\ chosen' = a /\ detecting' = "answered"
    /\ UNCHANGED <<speaks, loader, purpose, candidates, found, conclusion>>

\* A rejected, failed or short INQUIRY ends everything; another device is Unknown.
Inquiry ==
    /\ detecting = "inquiry"
    /\ \/ Answer("error")
       \/ /\ \/ detecting' = "pioneer" /\ UNCHANGED conclusion
             \/ speaks = {} /\ conclusion' = "unknown" /\ detecting' = "decide"
          /\ UNCHANGED <<speaks, loader, purpose, candidates, found, chosen>>

\* What a vendor probe establishes. ILLEGAL REQUEST is a drive without the command;
\* any other failure, and an incomplete structure, are no evidence of anything.
\* A Pioneer loader answers with an identity and without the full structure.
ProbeResults(p) ==
    {"rejected", "failed"} \cup
        IF p \notin speaks THEN {"absent"}
        ELSE IF p = "pioneer" /\ loader THEN {"identity"} ELSE {"evidence"}

FollowedBy(p) == IF p = "pioneer" THEN "mediatek" ELSE "conclude"

\* Both probes are completed, whatever the first one gave.
VendorProbe(p) ==
    /\ detecting = p
    /\ \E r \in ProbeResults(p) : found' = [found EXCEPT ![p] = r]
    /\ detecting' = FollowedBy(p)
    /\ UNCHANGED <<speaks, loader, purpose, candidates, conclusion, chosen>>

Evident == {p \in Protocols : found[p] = "evidence"}
Failed == {p \in Protocols : found[p] = "failed"}

\* A mutant: a failed probe counts as a protocol the drive does not have.
ConcludeDespiteFailure ==
    /\ detecting = "conclude"
    /\ conclusion' = CASE Evident = Protocols -> "ambiguous" [] Evident = {} -> "unknown" [] OTHER -> "detected"
    /\ detecting' = "decide"
    /\ UNCHANGED <<speaks, loader, purpose, candidates, found, chosen>>

\* A failure matters only where nothing was recognised: then it is the answer.
Conclude ==
    /\ detecting = "conclude"
    /\ IF Evident = {} /\ Failed # {}
       THEN Answer("error")
       ELSE /\ conclusion' = CASE Evident = Protocols -> "ambiguous"
                               [] Evident = {} -> "unknown"
                               [] OTHER -> "detected"
            /\ detecting' = "decide"
            /\ UNCHANGED <<speaks, loader, purpose, candidates, found, chosen>>

-----------------------------------------------------------------------------
(* The consumers. *)

\* resolve_detection: Flash, Backup and Inspect get no backend for a loader.
Resolve ==
    /\ detecting = "decide" /\ purpose = "flash"
    /\ CASE conclusion = "ambiguous" -> Answer("error")
         [] conclusion = "detected" /\ ~(Evident = {"mediatek"} /\ loader) ->
              \E p \in Evident : Answer(p)
         [] OTHER -> Answer("none")

\* Of the remaining backends MediaTek is asked first; each detects again.
Asked == IF "mediatek" \in candidates THEN "mediatek" ELSE "pioneer"

AskNext ==
    IF candidates = {Asked}
    THEN Answer("none")
    ELSE /\ candidates' = candidates \ {Asked}
         /\ detecting' = "inquiry" /\ found' = [p \in Protocols |-> "unread"]
         /\ conclusion' = "none"
         /\ UNCHANGED <<speaks, loader, purpose, chosen>>

\* Receiver::identify may refuse the code it reads, for want of a Current file
\* where none was named, or find no receiver.
IdentifyMediatek ==
    CASE conclusion = "ambiguous" -> Answer("error")
      [] conclusion = "detected" /\ Evident = {"mediatek"} ->
           \/ Answer("mediatek") \/ Answer("error") \/ AskNext
           \/ purpose = "recovery" /\ Answer("currentRequired")
      [] OTHER -> AskNext

\* A loader without an identity in full needs a Current file; with one, the drive
\* must be of its vendor and be targeted by it. The file and the options can then
\* still be refused.
IdentifyPioneer ==
    LET Bound == \/ Answer("pioneer") \/ Answer("error")
                 \/ purpose = "recoveryWithCurrent" /\ AskNext
    IN  CASE conclusion = "ambiguous" -> Answer("error")
          [] conclusion = "detected" /\ Evident = {"pioneer"} -> Bound
          [] conclusion = "unknown" /\ found["pioneer"] = "identity" ->
               IF purpose = "recovery" THEN Answer("currentRequired") ELSE Bound
          [] OTHER -> AskNext

Identify ==
    /\ detecting = "decide" /\ purpose # "flash"
    /\ IF Asked = "mediatek" THEN IdentifyMediatek ELSE IdentifyPioneer

DetectionNext ==
    \/ Inquiry \/ (\E p \in Protocols : VendorProbe(p)) \/ Conclude \/ Resolve \/ Identify

DetectionSpec == DetectionInit /\ [][DetectionNext]_detectionVars
-----------------------------------------------------------------------------
\* A drive that shows a protocol is never handed to the other protocol's backend
\* unless a probe of its own failed or was refused in that very detection, and "no
\* backend" is never the answer of a detection in which a probe failed and nothing
\* was recognised; a loader is never offered for Flash.
\* (detection.rs: "a failed command is not an unsupported drive".)
SelectionIsProven ==
    detecting = "answered" =>
        /\ chosen \in Protocols =>
             /\ chosen \in speaks
             /\ \A p \in Protocols \ {chosen} : p \in speaks => found[p] # "evidence"
             /\ purpose = "flash" => ~loader
             /\ found[chosen] = "identity" => purpose = "recoveryWithCurrent"
        /\ chosen = "none" => (Failed # {} => Evident # {})
=============================================================================
