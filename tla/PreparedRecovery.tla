---------------------------- MODULE PreparedRecovery ----------------------------
(***************************************************************************)
(* workflow.rs: prepare_recovery and execute_recovery.  A preparation      *)
(* binds a target to the drive at the selector and keeps the session in a  *)
(* mutex that every clone shares; the front-end asks the user, and a call  *)
(* on some clone takes the session, opens the selector again, reads the    *)
(* drive's identity again and writes.  The user can exchange the drive     *)
(* between any two steps, and calls on clones interleave.                  *)
(***************************************************************************)

CONSTANTS
    Drives,          \* drives the user can attach at the selector
    NoDrive,         \* nothing is attached, or a handle whose drive is gone
    FamilyOf,        \* the firmware family of each drive
    InquiryOf,       \* its vendor, product and revision
    BackendFor,      \* the backend of each firmware family
    Overriders,      \* backends whose family check exists and can be bypassed
    RecoveryRequests,
    NoImage,         \* no Current file is supplied
    Preparations,    \* calls of prepare_recovery
    Callers,         \* threads that hold clones and call execute_recovery
    NoIdentity,      \* what an INQUIRY that failed leaves
    NoSession        \* the mutex holds None

ASSUME RecoveryAssumption ==
    /\ NoDrive \notin Drives /\ Preparations \cap Callers = {}
    /\ \A d \in Drives : InquiryOf[d] # NoIdentity

RecoverySessions ==
    [of : Preparations, receiver : Drives, identity : {InquiryOf[d] : d \in Drives} \cup {NoIdentity}]

ASSUME SessionAssumption == NoSession \notin RecoverySessions

VARIABLES
    attached,    \* the drive at the selector
    preparing,   \* the next step of each preparation
    receiver,    \* the drive each preparation identified
    handle,      \* the drive each open handle reaches
    retained,    \* the session each preparation's mutex holds
    executing,   \* the next step of each call of execute_recovery
    taken,       \* the session each call has taken
    entered      \* the updates that began: the session, the caller and the drive

recoveryVars == <<attached, preparing, receiver, handle, retained, executing, taken, entered>>

RecoveryInit ==
    /\ attached \in Drives
    /\ preparing = [p \in Preparations |-> "open"]
    /\ receiver = [p \in Preparations |-> NoDrive]
    /\ handle = [w \in Preparations \cup Callers |-> NoDrive]
    /\ retained = [p \in Preparations |-> NoSession]
    /\ executing = [c \in Callers |-> "idle"]
    /\ taken = [c \in Callers |-> NoSession]
    /\ entered = {}

-----------------------------------------------------------------------------
(* Preparation: open_recovery, the facet's prepare, the identity. *)

PrepareTo(p, step) == preparing' = [preparing EXCEPT ![p] = step]

\* Two files of different backends, or of different families without the bypass.
SuppliedMismatch(r) ==
    /\ r.current # NoImage /\ ~r.bypass
    /\ r.current # r.target

\* The Current file selects the backend; without one each backend is tried.
Identifies(r, d) == r.current # NoImage => BackendFor[r.current] = BackendFor[FamilyOf[d]]

Evidence(r, d) == IF r.current = NoImage THEN FamilyOf[d] ELSE r.current

Prepares(r, d) ==
    LET backend == BackendFor[FamilyOf[d]] IN
    /\ r.bypass => backend \in Overriders
    /\ BackendFor[r.target] = backend
    /\ backend \in Overriders /\ ~r.bypass => r.target = Evidence(r, d)

PreparationFails(p) ==
    /\ preparing[p] \in {"open", "bind"} /\ PrepareTo(p, "failed")
    /\ UNCHANGED <<attached, receiver, handle, retained, executing, taken, entered>>

\* open_recovery: nothing is opened before the files and the consent are in order.
OpenRecovery(p) ==
    /\ preparing[p] = "open" /\ attached # NoDrive
    /\ \E r \in RecoveryRequests :
         /\ r.execute => r.acknowledged
         /\ ~SuppliedMismatch(r) /\ Identifies(r, attached) /\ Prepares(r, attached)
    /\ handle' = [handle EXCEPT ![p] = attached]
    /\ receiver' = [receiver EXCEPT ![p] = attached]
    /\ PrepareTo(p, "bind")
    /\ UNCHANGED <<attached, retained, executing, taken, entered>>

\* The identity is read last, from the handle, and kept even when it is empty.
Retain(p) ==
    /\ preparing[p] = "bind" /\ PrepareTo(p, "ready")
    /\ \E i \in {NoIdentity} \cup {InquiryOf[d] : d \in {handle[p]} \cap Drives} :
         retained' = [retained EXCEPT ![p] = [of |-> p, receiver |-> receiver[p], identity |-> i]]
    /\ UNCHANGED <<attached, receiver, handle, executing, taken, entered>>

-----------------------------------------------------------------------------
(* Execution. *)

ExecuteTo(c, step) == executing' = [executing EXCEPT ![c] = step]

ReturnError(c) ==
    /\ ExecuteTo(c, "idle") /\ taken' = [taken EXCEPT ![c] = NoSession]
    /\ UNCHANGED <<attached, preparing, receiver, handle, retained, entered>>

\* A mutant: the session is cloned out of the mutex instead of taken.
TakeClone(c) ==
    \E p \in Preparations :
        /\ executing[c] = "idle" /\ preparing[p] = "ready" /\ retained[p] # NoSession
        /\ ExecuteTo(c, "reopen") /\ taken' = [taken EXCEPT ![c] = retained[p]]
        /\ UNCHANGED <<attached, preparing, receiver, handle, retained, entered>>

\* With the risk acknowledged, the session leaves the mutex; a call without the
\* acknowledgement, or on a mutex that holds None, returns and changes nothing.
Take(c) ==
    \E p \in Preparations :
        /\ executing[c] = "idle" /\ preparing[p] = "ready" /\ retained[p] # NoSession
        /\ ExecuteTo(c, "reopen") /\ taken' = [taken EXCEPT ![c] = retained[p]]
        /\ retained' = [retained EXCEPT ![p] = NoSession]
        /\ UNCHANGED <<attached, preparing, receiver, handle, entered>>

Reopen(c) ==
    /\ executing[c] = "reopen"
    /\ \/ ReturnError(c)
       \/ /\ attached # NoDrive /\ handle' = [handle EXCEPT ![c] = attached]
          /\ ExecuteTo(c, "revalidate")
          /\ UNCHANGED <<attached, preparing, receiver, retained, taken, entered>>

\* execute_recovery_on: an identity that is empty, or another one, is refused.
Revalidate(c) ==
    /\ executing[c] = "revalidate"
    /\ \/ ReturnError(c)
       \/ /\ handle[c] # NoDrive /\ InquiryOf[handle[c]] = taken[c].identity
          /\ ExecuteTo(c, "execute")
          /\ UNCHANGED <<attached, preparing, receiver, handle, retained, taken, entered>>

\* gates::recovery and the backend's execute, which may refuse the receiver.
Execute(c) ==
    /\ executing[c] = "execute"
    /\ \/ ReturnError(c)
       \/ /\ handle[c] # NoDrive
          /\ entered' = entered \cup {[session |-> taken[c], by |-> c, on |-> handle[c]]}
          /\ ExecuteTo(c, "idle") /\ taken' = [taken EXCEPT ![c] = NoSession]
          /\ UNCHANGED <<attached, preparing, receiver, handle, retained>>

\* The user exchanges the drive: every handle to the old one is dead.
Exchange(d) ==
    /\ d # attached /\ attached' = d
    /\ handle' = [w \in Preparations \cup Callers |-> NoDrive]
    /\ UNCHANGED <<preparing, receiver, retained, executing, taken, entered>>

RecoveryNext ==
    \/ \E p \in Preparations : PreparationFails(p) \/ OpenRecovery(p) \/ Retain(p)
    \/ \E c \in Callers : Take(c) \/ Reopen(c) \/ Revalidate(c) \/ Execute(c)
    \/ \E d \in Drives \cup {NoDrive} : Exchange(d)

RecoverySpec == RecoveryInit /\ [][RecoveryNext]_recoveryVars
-----------------------------------------------------------------------------
\* However calls on clones interleave, one preparation begins at most one update,
\* and only on a drive that reports the identity of the one it was prepared for,
\* whatever was attached in between. (workflow.rs: PreparedRecovery::take and
\* execute_recovery_on.)
RecoversOnceWhatWasPrepared ==
    /\ \A u, v \in entered : u.session.of = v.session.of => u = v
    /\ \A u \in entered : InquiryOf[u.on] = InquiryOf[u.session.receiver]

RecoveryTypes ==
    /\ attached \in Drives \cup {NoDrive}
    /\ preparing \in [Preparations -> {"open", "bind", "ready", "failed"}]
    /\ receiver \in [Preparations -> Drives \cup {NoDrive}]
    /\ handle \in [Preparations \cup Callers -> Drives \cup {NoDrive}]
    /\ retained \in [Preparations -> RecoverySessions \cup {NoSession}]
    /\ executing \in [Callers -> {"idle", "reopen", "revalidate", "execute"}]
    /\ taken \in [Callers -> RecoverySessions \cup {NoSession}]
    /\ entered \subseteq [session : RecoverySessions, by : Callers, on : Drives]

\* A call holds the session of p; an update with it has begun.
Held(p) == \E c \in Callers : taken[c] # NoSession /\ taken[c].of = p
Begun(p) == \E u \in entered : u.session.of = p

SessionIsTrue(s) == s.identity = NoIdentity \/ s.identity = InquiryOf[s.receiver]

\* A session is in one place: its mutex, one call, or the one update that began.
OnePlace ==
    /\ \A p \in Preparations : preparing[p] # "ready" => retained[p] = NoSession /\ ~Held(p) /\ ~Begun(p)
    /\ \A p \in Preparations : retained[p] # NoSession => retained[p].of = p /\ ~Held(p) /\ ~Begun(p)
    /\ \A p \in Preparations : Held(p) => ~Begun(p)
    /\ \A c, d \in Callers :
         taken[c] # NoSession /\ taken[d] # NoSession /\ taken[c].of = taken[d].of => c = d

\* Its identity is empty or its receiver's, and before a write it is the drive's.
IdentityKept ==
    /\ \A p \in Preparations :
         /\ preparing[p] = "bind" => receiver[p] \in Drives /\ handle[p] \in {receiver[p], NoDrive}
         /\ retained[p] # NoSession => SessionIsTrue(retained[p])
    /\ \A c \in Callers :
         /\ taken[c] # NoSession => SessionIsTrue(taken[c])
         /\ executing[c] # "idle" => taken[c] # NoSession
         /\ executing[c] = "execute" /\ handle[c] # NoDrive => InquiryOf[handle[c]] = taken[c].identity

RecoveryInv == RecoveryTypes /\ OnePlace /\ IdentityKept /\ RecoversOnceWhatWasPrepared
=============================================================================
