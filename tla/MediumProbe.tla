------------------------------- MODULE MediumProbe -------------------------------
(***************************************************************************)
(* platform/adapter.rs: medium_status, the probe behind the tray gate of a *)
(* flash.  A disc that has spun down answers TEST UNIT READY like an empty *)
(* drive, so a first "no medium" is followed by a START STOP UNIT, whose   *)
(* result is ignored, and asked again.  One action per command; meanwhile  *)
(* the user may move the tray, and a UNIT ATTENTION may come up.           *)
(***************************************************************************)
EXTENDS Naturals

CONSTANT
    MaxMoves       \* bound: the tray is moved so often during one probe

ASSUME ProbeAssumption == MaxMoves \in Nat

VARIABLES
    tray,        \* "open", "empty", "idle" (a disc, spun down) or "ready" (a disc)
    slot,        \* the drive is a slot loader
    attention,   \* a UNIT ATTENTION is pending
    probing,     \* the next command of the probe
    retried,     \* TEST UNIT READY is in its second attempt
    mechanism,   \* the slot loader was positively identified
    spinUp,      \* the spin-up was not sent ("no"), has "failed" or is "done"
    status,      \* what medium_status returned
    moves        \* how often the tray has been moved

probeVars == <<tray, slot, attention, probing, retried, mechanism, spinUp, status, moves>>

Loaded == {"idle", "ready"}

ProbeInit ==
    /\ tray \in {"open", "empty", "idle", "ready"} /\ slot \in BOOLEAN
    /\ slot => tray # "open"
    /\ attention \in BOOLEAN
    /\ probing = "first" /\ retried = FALSE /\ mechanism = FALSE
    /\ spinUp = "no" /\ status = "none" /\ moves = 0

-----------------------------------------------------------------------------
(* The drive. *)

\* What TEST UNIT READY says of the tray; some slot loaders say "open" for empty.
Senses ==
    CASE tray = "open" -> {"trayOpen"}
      [] tray = "ready" -> {"good", "becomingReady"}
      [] OTHER -> IF slot THEN {"noMedium", "trayOpen"} ELSE {"noMedium"}

\* A disc the user loads spins up by itself and is announced.
MoveTray ==
    /\ moves < MaxMoves /\ status = "none"
    /\ \E t \in {"open", "empty", "ready"} :
         tray' = t /\ t # tray /\ (slot => t # "open")
    /\ attention' = TRUE /\ moves' = moves + 1
    /\ UNCHANGED <<slot, probing, retried, mechanism, spinUp, status>>

-----------------------------------------------------------------------------
(* medium_status *)

Ends(s) ==
    /\ status' = s /\ probing' = "done"
    /\ UNCHANGED <<retried, mechanism>>

Proceed(step) == probing' = step /\ UNCHANGED status

\* The second attempt answers with the attention only if another came up.
UnitAttention ==
    /\ probing \in {"first", "second"} /\ attention
    /\ attention' = FALSE
    /\ IF retried THEN Ends("disc") ELSE retried' = TRUE /\ UNCHANGED <<probing, mechanism, status>>
    /\ UNCHANGED <<tray, slot, spinUp, moves>>

TransportFails ==
    /\ probing \in {"first", "second"} /\ Ends("error")
    /\ UNCHANGED <<tray, slot, attention, spinUp, moves>>

TestUnitReady ==
    /\ probing = "first" /\ ~attention
    /\ \E s \in Senses :
         IF s \in {"good", "becomingReady"}
         THEN Ends("disc")
         ELSE /\ Proceed(IF s = "trayOpen" THEN "mechanism" ELSE "spinUp")
              /\ retried' = FALSE /\ UNCHANGED mechanism
    /\ UNCHANGED <<tray, slot, attention, spinUp, moves>>

\* is_slot_loading: only a well-formed answer of a slot loader counts. The
\* command is retried once, so a pending attention is answered on the way.
Mechanism ==
    /\ probing = "mechanism" /\ attention' = FALSE
    /\ \E positive \in {FALSE, slot} :
         IF positive
         THEN mechanism' = TRUE /\ Proceed("spinUp") /\ UNCHANGED retried
         ELSE Ends("open")
    /\ UNCHANGED <<tray, slot, spinUp, moves>>

\* A mutant: the probe goes on without a spin-up.
SkipSpinUp ==
    /\ probing = "spinUp" /\ Proceed("second")
    /\ UNCHANGED <<tray, slot, attention, retried, mechanism, spinUp, moves>>

\* spin_up_best_effort: sent once, its failure ignored; a pending attention is
\* reported in its place.
SpinUp ==
    /\ probing = "spinUp" /\ Proceed("second")
    /\ spinUp' \in {"failed", "done"} /\ (attention => spinUp' = "failed")
    /\ attention' = FALSE
    /\ tray' = IF tray = "idle" /\ spinUp' = "done" THEN "ready" ELSE tray
    /\ UNCHANGED <<slot, retried, mechanism, moves>>

TestUnitReadyAgain ==
    /\ probing = "second" /\ ~attention
    /\ \E s \in Senses, positive \in {mechanism, mechanism \/ slot} :
         Ends(IF s = "noMedium" \/ (s = "trayOpen" /\ positive) THEN "empty" ELSE "disc")
    /\ UNCHANGED <<tray, slot, attention, spinUp, moves>>

Probe ==
    \/ UnitAttention \/ TransportFails \/ TestUnitReady \/ Mechanism \/ SpinUp
    \/ TestUnitReadyAgain

ProbeNext == Probe \/ MoveTray

ProbeSpec == ProbeInit /\ [][ProbeNext]_probeVars
-----------------------------------------------------------------------------
\* A verdict of closed and empty is of a tray that is closed and empty at the
\* TEST UNIT READY it rests on, whatever was done to the tray meanwhile; only
\* a disc that a START STOP UNIT failed to spin up, a failure that is ignored,
\* is taken for none. (adapter.rs: medium_status.)
EmptyIsProven ==
    status = "empty" => tray = "empty" \/ (tray = "idle" /\ spinUp = "failed")
=============================================================================
