------------------------------ MODULE FirmwareForm ------------------------------
(***************************************************************************)
(* The window of freemkv-fw-gui while firmware is created: the selected    *)
(* file, the analysis of it on a thread, the form of the startup settings, *)
(* and the job which reads the file again, builds the image and publishes  *)
(* it.  Another program may replace the selected file at any time.         *)
(*                                                                         *)
(* The tasks Verify and Probe, which change nothing, and the log, language *)
(* and wording of the window are left out.                                 *)
(***************************************************************************)
EXTENDS FirmwareBuild

CONSTANTS
    Files,            \* the images the selected file may hold at first
    OtherFiles,       \* the images another program may put there
    OfferedSettings,  \* what users choose: features with a value (a bound)
    MaxCreates,       \* the jobs a user starts (a bound)
    MaxReplacements,  \* the files another program writes (a bound)
    NoFile

(* The hooks which a supported setting rules, in one of these sets. *)
RuledHooks(f) ==
    CASE f = "unrestricted" -> {{"uhd", "bd"}, {"auth"}, {"discInformation", "geometry"}}
      [] f = "encryption" -> {{"ake", "gatea"}}
      [] OTHER -> {{f}}

Span(image, hook) == image.site[hook]..(image.site[hook] + Need(hook) - 1)

(* Every hook of the image calls code of its own, which the drive's updater *)
(* authenticates and the drive never writes.                                *)
HooksAreSafe(image) ==
    \A hook \in {h \in Hook : image.site[h] # 0} :
        /\ Span(image, hook) \subseteq Cell
        /\ \A c \in Span(image, hook) : image.cell[c].holds = hook
        /\ Span(image, hook) \cap image.reserved = {}
        /\ \E range \in Authenticated(image) : Span(image, hook) \subseteq range

(* What is reported as supported is hooked completely.                      *)
IsHooked(image, support) ==
    \A f \in support.features : \E hooks \in RuledHooks(f) : \A h \in hooks : image.site[h] # 0

(* What a firmware file holds, whether the OEM made it or this program (that *)
(* every job keeps it is proved): hooks that are safe, none without the      *)
(* handler, at most one record, and that names the hooks that run.           *)
IsFirmware(image) ==
    /\ image \in FirmwareImage /\ IsFiniteSet(image.entries)
    /\ HooksAreSafe(image)
    /\ Patched(image) \/ image.site = Unhooked
    /\ \A c, d \in Cell :
         image.cell[c].holds = "record" /\ image.cell[d].holds = "record" => c = d
    /\ \A record \in Record(image) :
         /\ record.boot = image.site["boot"] /\ record.handler = image.site["handler"]
         /\ record.support.boot /\ IsHooked(image, record.support)

ASSUME FilesAssumption ==
    /\ \A file \in Files \cup OtherFiles : IsFirmware(file)
    /\ NoFile \notin FirmwareImage \cup {"input", "output"}

Paths == {"input", "output"}

VARIABLES
    disk,         \* path -> the image in that file
    form,         \* what is selected and shown
    analysis,     \* the running analysis: the image it read, once it did
    creation,     \* the job
    published,    \* history: path -> the job whose output the file still is
    creates,      \* history: the jobs started
    replacements  \* history: the files replaced

formVars == <<disk, form, analysis, creation, published, creates, replacements>>

NoSelection ==
    [input |-> NoFile, analyzed |-> NoFile, settings |-> Standard, dirty |-> FALSE,
     support |-> NoSupport, seen |-> NoFile]
NoAnalysis == [of |-> NoFile, read |-> NoFile]
NoCreation == [state |-> "none"]

FormInit ==
    /\ disk \in {[input |-> i, output |-> NoFile] : i \in Files \cup {NoFile}}
    /\ form = NoSelection /\ analysis = NoAnalysis /\ creation = NoCreation
    /\ published = [input |-> NoCreation, output |-> NoCreation] /\ creates = 0 /\ replacements = 0

NoJob == creation.state = "none"

(* The form of a frame is drawn after StartPreview had its turn in it. *)
Drawn == NoJob /\ form.analyzed = form.input

-----------------------------------------------------------------------------
(* The user selects a file: nothing of the last one stays. *)
SelectImage(p) ==
    /\ NoJob /\ disk[p] # NoFile
    /\ form' = [NoSelection EXCEPT !.input = p]
    /\ analysis' = NoAnalysis
    /\ UNCHANGED <<disk, creation, published, creates, replacements>>

(* A frame of the form starts the analysis of a newly selected file. *)
StartPreview ==
    /\ form.analyzed # form.input
    /\ form' = [NoSelection EXCEPT !.input = form.input, !.analyzed = form.input]
    /\ analysis' = [of |-> form.input, read |-> NoFile]
    /\ UNCHANGED <<disk, creation, published, creates, replacements>>

(* Its thread reads the file. *)
ReadPreview ==
    /\ analysis.of # NoFile /\ analysis.read = NoFile
    /\ analysis' = [analysis EXCEPT !.read = disk[analysis.of]]
    /\ UNCHANGED <<disk, form, creation, published, creates, replacements>>

(* A frame takes the result: the settings only if the user chose none yet. *)
TakePreview ==
    /\ analysis.read # NoFile
    /\ analysis' = NoAnalysis
    /\ \E options \in {BootOptions(analysis.read)} :
       form' = IF options.verdict # "made" THEN form
               ELSE [form EXCEPT
                        !.settings = IF form.dirty THEN @ ELSE options.settings,
                        !.support = options.support,
                        !.seen = analysis.read]
    /\ UNCHANGED <<disk, creation, published, creates, replacements>>

(* Only what is supported can be chosen. *)
Choose(f, value) ==
    /\ Drawn /\ SupportsValue(form.support, f, value) /\ form.settings.values[f] # value
    /\ form' = [form EXCEPT !.settings.values[f] = value,
                            !.settings.explicit = @ \cup {f},
                            !.dirty = TRUE]
    /\ UNCHANGED <<disk, analysis, creation, published, creates, replacements>>

ResetSettings ==
    /\ Drawn
    /\ form' = [form EXCEPT !.settings = Standard, !.dirty = TRUE]
    /\ UNCHANGED <<disk, analysis, creation, published, creates, replacements>>

Create(p) ==
    /\ Drawn /\ creates < MaxCreates
    /\ form.input # NoFile /\ form.support.boot /\ Honours(form.support, form.settings)
    /\ creation' = [state |-> "running", input |-> form.input, output |-> p,
                    settings |-> form.settings, seen |-> form.seen,
                    origin |-> NoFile, support |-> NoSupport, verdict |-> "none"]
    /\ creates' = creates + 1
    /\ UNCHANGED <<disk, form, analysis, published, replacements>>

-----------------------------------------------------------------------------
(* The job reads the file again, and publishes what it builds in one step. *)
(* Storage may fail before that step, or in the comparison after it.       *)
Ended(verdict) == [creation EXCEPT !.origin = disk[creation.input], !.verdict = verdict]

PublishImage(result) ==
    /\ disk' = [disk EXCEPT ![creation.output] = result.image]
    /\ published' = [published EXCEPT ![creation.output] =
          [Ended("made") EXCEPT !.support = result.support]]

RunCreate ==
    /\ ~NoJob /\ creation.verdict = "none"
    /\ \E result \in {Modified(disk[creation.input], creation.settings)} :
          \/ /\ result.verdict # "made" /\ creation' = Ended(result.verdict)
             /\ UNCHANGED <<disk, published>>
          \/ /\ result.verdict = "made" /\ creation' = Ended("storage")
             /\ UNCHANGED <<disk, published>>
          \/ /\ result.verdict = "made" /\ creation' \in {Ended("made"), Ended("storage")}
             /\ PublishImage(result)
    /\ UNCHANGED <<form, analysis, creates, replacements>>

(* The window takes the result. *)
PumpDone ==
    /\ ~NoJob /\ creation.verdict # "none"
    /\ creation' = NoCreation
    /\ UNCHANGED <<disk, form, analysis, published, creates, replacements>>

(* Another program puts another image into the selected file. *)
ReplaceFile(i) ==
    /\ replacements < MaxReplacements /\ i # disk["input"]
    /\ replacements' = replacements + 1
    /\ disk' = [disk EXCEPT !["input"] = i]
    /\ published' = [published EXCEPT !["input"] = NoCreation]
    /\ UNCHANGED <<form, analysis, creation, creates>>

FormNext ==
    \/ \E p \in Paths : SelectImage(p)
    \/ StartPreview \/ ReadPreview \/ TakePreview
    \/ \E choice \in OfferedSettings : Choose(choice[1], choice[2])
    \/ ResetSettings
    \/ \E p \in Paths : Create(p)
    \/ RunCreate \/ PumpDone
    \/ \E i \in OtherFiles : ReplaceFile(i)

FormSpec == FormInit /\ [][FormNext]_formVars

-----------------------------------------------------------------------------
(* Properties. *)

(* A published image keeps the OEM's code, its hooks are safe, what it     *)
(* reports as supported is hooked completely, and what the user chose is   *)
(* what the drive starts with and what a later edit reads and rewrites:    *)
(* the record names the hook that runs, not the one it replaced.  Settings *)
(* of another file, if that was replaced after its analysis, may leave a   *)
(* record which no edit accepts (boot.rs 440 checks only explicit choices).*)
ImageIsAsReported ==
    \A p \in {q \in Paths : published[q] # NoCreation} :
        LET image == disk[p]
            job == published[p]
            kept == {c \in Cell : job.origin.cell[c] = Native}
        IN /\ image.intact /\ HooksAreSafe(image)
           /\ \A c \in kept : image.cell[c] = Native
           /\ IsHooked(image, job.support)
           /\ \A f \in job.settings.explicit :
                 SupportsValue(job.support, f, job.settings.values[f])
           /\ job.support.boot =>
                 /\ image.cell[image.site["boot"]].flags = job.settings.values
                 /\ Cardinality(Record(image)) = 1
                 /\ \A record \in Record(image) :
                      /\ record.boot = image.site["boot"]
                      /\ record.handler = image.site["handler"]
                      /\ record.support = job.support
                      /\ job.origin = job.seen => RecordIsSound(image, record)

(* What the form offers is what is built: unless the file was replaced in   *)
(* between, a job that was started fails only for storage.  Two exceptions. *)
(* The dump of a drive that runs modified firmware is shown with the record *)
(* in it, and only the job asks whether it can be flashed (api.rs 353, 291).*)
(* And an image which holds the levers but not their record makes the       *)
(* preview take the second attempt (api.rs 356), with space for more levers *)
(* than a first one has; a choice among those is refused at the first       *)
(* attempt, and the job ends there unless that names space as what it       *)
(* missed.                                                                  *)
FormOffersWhatIsBuilt ==
    "verdict" \in DOMAIN creation /\ creation.verdict \in {"refused", "noSpace"}
    /\ creation.origin = creation.seen =>
        /\ creation.verdict = "refused"
        /\ \/ creation.origin.sort = "driveRead" /\ Record(creation.origin) # {}
           \/ /\ creation.settings.explicit # {} /\ Record(creation.origin) = {}
              /\ ModifyOnce(creation.origin, Standard).verdict = "noSpace"
=============================================================================
