----------------------------- MODULE FirmwareBuild -----------------------------
(***************************************************************************)
(* What api::modify_with_defaults makes of a firmware image: the allocator *)
(* of code space, the builders of the three image generations, the report  *)
(* from which the supported boot settings are derived, the editable record *)
(* of those settings, and the second attempt with extended coverage.       *)
(*                                                                         *)
(* The code area is a row of cells; every hook takes one and the command   *)
(* handler two.  What the analyses recognise in an image is its `found`.   *)
(* A hook's site holds the address it calls, 0 where it is as the OEM made *)
(* it.  Alignment, branch ranges and the instructions themselves are left  *)
(* out.                                                                    *)
(***************************************************************************)
EXTENDS Integers, FiniteSets

Sets == INSTANCE FiniteSetsExt

CONSTANT CodeCells                             \* the cells of the code area

ASSUME CodeCellsAssumption == CodeCells \in Nat \ {0}

Cell == 1..CodeCells
BootFeature == {"unrestricted", "hrl", "encryption", "speed", "region"}
BootValue(f) == IF f \in {"speed", "region"} THEN {"oem", "on"} ELSE {"oem", "on", "off"}

(* The settings asked for: a value each, and the explicitly chosen ones. *)
Standard ==
    [values |-> [unrestricted |-> "on", hrl |-> "oem", encryption |-> "oem", speed |-> "oem",
                 region |-> "oem"],
     explicit |-> {}]

(* The hooks: the handler of the vendor command and the hook of the start,  *)
(* the levers, and the parts of the two media conversions.                  *)
Unhooked == [handler |-> 0, boot |-> 0, speed |-> 0, region |-> 0, ake |-> 0, gatea |-> 0,
             deny |-> 0, uhd |-> 0, hrl |-> 0, bd |-> 0, auth |-> 0, discInformation |-> 0,
             geometry |-> 0, discMode |-> 0, density |-> 0, identityClear |-> 0]
Hook == DOMAIN Unhooked
Need(hook) == IF hook = "handler" THEN 2 ELSE 1

Erased == [holds |-> "erased"]
Native == [holds |-> "native"]
Stub(hook) == [holds |-> hook]
Defaults(hook, values) == [holds |-> hook, flags |-> values]

(* An image: how it is recognised, the entries of its authentication table, *)
(* its cells, and where its hooks are.                                      *)
Value == [BootFeature -> {"oem", "on", "off"}]
Support == [boot : BOOLEAN, features : SUBSET BootFeature, partial : BOOLEAN]
Entry == [index : Nat, first : Cell, last : Cell, flag : {"on", "off", "blank"}]
Content ==
    {Erased, Native} \cup {Stub(hook) : hook \in Hook}
    \cup [holds : {"handler", "boot"}, flags : Value]
    \cup [holds : {"record"}, flags : Value, support : Support, boot : Cell, handler : Cell]
FirmwareImage ==
    [sort : {"oem", "driveRead"}, engine : {"MT1959", "MT1939", "classic"},
     found : SUBSET STRING, entries : SUBSET Entry, reserved : SUBSET Cell,
     extendable : BOOLEAN, intact : BOOLEAN, downgrade : {"absent", "oem", "set"},
     cell : [Cell -> Content], site : [Hook -> 0..CodeCells]]

-----------------------------------------------------------------------------
(* Code space (code_space.rs). *)

\* The maximal runs of consecutive cells of a set.
Stretches(cells) ==
    {first..Sets!Min({last \in cells : last >= first /\ last + 1 \notin cells}) :
        first \in {c \in cells : c - 1 \notin cells}}

ErasedCells(image) == {c \in Cell : image.cell[c] = Erased}
Authenticated(image) == {e.first..e.last : e \in {x \in image.entries : x.flag = "on"}}

\* The first of the largest holes.
Largest(holes) == {h \in holes : \A o \in holes : Cardinality(o) <= Cardinality(h)}
FirstOfLargest(holes) ==
    CHOOSE h \in Largest(holes) : \A o \in Largest(holes) : Sets!Min(h) <= Sets!Min(o)

(* Where an allocation goes, 0 if it fits nowhere: the largest erased hole *)
(* outside reserved storage, among those within one authenticated range,   *)
(* or else among the parts of holes that are.                              *)
Holes(image, need) ==
    LET runs == {run \in Stretches(ErasedCells(image) \ image.reserved) :
                    Cardinality(run) >= need}
        whole == {run \in runs : \E range \in Authenticated(image) : run \subseteq range}
        clipped == UNION {{run \cap range : range \in Authenticated(image)} : run \in runs}
    IN IF whole # {} THEN whole ELSE {hole \in clipped : Cardinality(hole) >= need}

Find(image, need) ==
    IF Holes(image, need) = {} THEN 0 ELSE Sets!Min(FirstOfLargest(Holes(image, need)))

Patched(image) == \E c \in Cell : image.cell[c].holds = "handler"

(* The coverage extended over an erased run: an active entry which ends    *)
(* before the run, with nothing reserved and no other entry in between;    *)
(* the largest run, the first of them, the first such entry.  {} when the  *)
(* image does not prove that its updater accepts it.                       *)
Prolongs(image, entry, run) ==
    LET gained == (entry.last + 1)..Sets!Max(run) IN
    /\ entry.flag = "on" /\ entry.last < Sets!Min(run)
    /\ gained \cap image.reserved = {}
    /\ \A other \in image.entries \ {entry} :
         other.flag # "blank" => gained \cap (other.first..other.last) = {}

Reachable(image) ==
    {run \in Stretches(ErasedCells(image)) : \E e \in image.entries : Prolongs(image, e, run)}

Extended(image) ==
    LET run == FirstOfLargest(Reachable(image))
        prolonging == {e \in image.entries : Prolongs(image, e, run)}
        entry == CHOOSE e \in prolonging : \A other \in prolonging : e.index <= other.index
    IN IF ~image.extendable \/ Patched(image) \/ ~image.intact \/ Reachable(image) = {} THEN {}
       ELSE {[image EXCEPT !.entries = (@ \ {entry}) \cup {[entry EXCEPT !.last = Sets!Max(run)]}]}

MetadataPreserved(original, image) ==
    \/ image.entries = original.entries
    \/ \E retry \in Extended(original) : image.entries = retry.entries

-----------------------------------------------------------------------------
(* Builds: the image so far, the addresses reported, whether some lever was *)
(* missed for want of space, and whether every placement so far succeeded.  *)

Fresh(image) == [image |-> image, fact |-> Unhooked, limited |-> FALSE, placed |-> TRUE]

(* Write a stub into free space and let its site branch to it. *)
PutAt(build, hook, content, at) ==
    LET span == at..(at + Need(hook) - 1)
    IN IF ~build.placed \/ at = 0 THEN [build EXCEPT !.placed = FALSE]
       ELSE [build EXCEPT
               !.image.cell = [c \in Cell |-> IF c \in span THEN content ELSE build.image.cell[c]],
               !.image.site[hook] = at,
               !.fact[hook] = at]

Put(build, hook, content) == PutAt(build, hook, content, Find(build.image, Need(hook)))

PutStub(build, hook) == Put(build, hook, Stub(hook))
PutBoth(build, first, second) == PutStub(PutStub(build, first), second)
PutFound(build, hook) == IF hook \in build.image.found THEN PutStub(build, hook) ELSE build

(* Hooks installed together on a working copy, or none of them. *)
OrLimited(build, done) == IF done.placed THEN done ELSE [build EXCEPT !.limited = TRUE]

Lever(build, hook) ==
    IF hook \in build.image.found THEN OrLimited(build, PutStub(build, hook)) ELSE build

(* The conversion is all or nothing on a copy of its own; its failure is   *)
(* only a hook's reason and misses no lever.                               *)
OrAsBefore(build, done) == IF done.placed THEN done ELSE build

Converted(build, contract, first, second) ==
    IF contract \in build.image.found THEN OrAsBefore(build, PutBoth(build, first, second))
    ELSE build

(* The handler of the vendor command and the hook that writes the settings *)
(* at every start.                                                         *)
Base(image, values) ==
    LET handler == Put(Fresh(image), "handler", Defaults("handler", values))
    IN Put(handler, "boot", Defaults("boot", values))

\* A mutant: the report keeps the address of the hook that was replaced.
BootHookReplacedSilently(build, values) ==
    LET done == Put(build, "boot", Defaults("boot", values))
    IN [done EXCEPT !.fact["boot"] = build.fact["boot"]]

BootHookReplaced(build, values) == Put(build, "boot", Defaults("boot", values))

(* The media conversion, on top of raw reading.  One with a cache of its   *)
(* own has the boot hook replaced by one that clears it.                   *)
Cleared(build, values) ==
    IF build.fact["identityClear"] = 0 THEN build ELSE BootHookReplaced(build, values)

ConvertedModern(build, values) ==
    LET classic == Converted(build, "classicConversion", "discInformation", "geometry")
        plain == Converted(classic, "conversion", "discMode", "density")
    IN Cleared(Converted(plain, "clearingConversion", "discMode", "identityClear"), values)

(* Volume ID, authentication and deny together, and the media controls     *)
(* where they are recognised.                                              *)
Controls(build) == PutFound(PutFound(PutFound(PutFound(build, "uhd"), "hrl"), "bd"), "auth")

RawReadModern(build, values) ==
    LET hooks == Controls(PutStub(PutBoth(build, "ake", "gatea"), "deny"))
    IN IF "rawRead" \notin build.image.found THEN build
       ELSE IF hooks.placed THEN ConvertedModern(hooks, values)
       ELSE [build EXCEPT !.limited = TRUE]

BuildModern(image, values) ==
    RawReadModern(Lever(Lever(Base(image, values), "speed"), "region"), values)

(* Lack of space for raw reading shows only if the revocation list is      *)
(* missed as well: either makes the common lever an applied one.           *)
EitherLever(before, build) ==
    IF build.fact["ake"] # 0 \/ build.fact["hrl"] # 0
    THEN [build EXCEPT !.limited = before.limited] ELSE build

RawReadClassic(build) ==
    IF "rawRead" \in build.image.found THEN OrLimited(build, PutBoth(build, "gatea", "ake"))
    ELSE build

LeversClassic(build) == EitherLever(build, Lever(RawReadClassic(build), "hrl"))

BuildClassic(image, values) ==
    Converted(LeversClassic(Lever(Lever(Base(image, values), "speed"), "region")),
              "classicConversion", "discInformation", "geometry")

-----------------------------------------------------------------------------
(* Reports: the verdict, the signed image and what can be set in it. *)

NotMade(verdict) == [verdict |-> verdict]

NoSupport == [boot |-> FALSE, features |-> {}, partial |-> FALSE]

(* What the addresses reported, and nothing else, say can be set. *)
SupportOf(build) ==
    LET installed(h) == build.fact[h] # 0
        refusal == \/ installed("uhd") /\ installed("bd")
                   \/ installed("auth") /\ "refusal" \in build.image.found
        widening == installed("auth") \/ installed("discInformation")
    IN [boot |-> installed("boot"),
        features |-> {f \in BootFeature :
            CASE f = "unrestricted" -> refusal \/ widening
              [] f = "encryption" -> installed("ake")
              [] OTHER -> installed(f)},
        partial |-> widening /\ ~refusal]

SupportsValue(support, f, value) ==
    /\ support.boot /\ f \in support.features /\ value \in BootValue(f)
    /\ ~(f = "unrestricted" /\ value = "off" /\ support.partial)

Honours(support, settings) ==
    \A f \in settings.explicit : SupportsValue(support, f, settings.values[f])

(* The downgrade byte, wherever the image has an identity page. *)
Downgradeable(image) ==
    [image EXCEPT !.downgrade = IF @ = "absent" THEN @ ELSE "set"]

Signed(image) == [image EXCEPT !.intact = TRUE]

(* The record's cell goes where the last build left space. *)
Attached(build, settings) ==
    LET record == [holds |-> "record", flags |-> settings.values, support |-> SupportOf(build),
                   boot |-> build.fact["boot"], handler |-> build.fact["handler"]]
        at == Find(build.image, 1)
    IN IF at = 0 THEN {} ELSE {[build.image EXCEPT
               !.cell = [c \in Cell |-> IF c = at THEN record ELSE build.image.cell[c]]]}

(* The settings record of an image, {} if there is none. *)
Record(image) == {image.cell[c] : c \in {x \in Cell : image.cell[x].holds = "record"}}

(* Read only if its instructions are where it says, and set what it says. *)
RecordIsSound(image, record) ==
    /\ image.cell[record.boot] = Defaults("boot", record.flags)
    /\ image.cell[record.handler] = Defaults("handler", record.flags)
    /\ record.support.partial =>
         "unrestricted" \in record.support.features /\ record.flags["unrestricted"] # "off"

-----------------------------------------------------------------------------
(* The engines, and the interface the command line and the form call. *)

(* An MT1939 image whose build fails for any reason gets the downgrade     *)
(* byte alone, and reports no other lever.                                 *)
OrDowngradeOnly(image, build) ==
    IF "base" \in image.found /\ build.placed THEN {build}
    ELSE IF image.engine = "MT1959" \/ image.downgrade = "absent" THEN {}
    ELSE {Fresh(image)}

Built(image, values) ==
    OrDowngradeOnly(image,
        IF image.engine = "classic" THEN BuildClassic(image, values)
        ELSE BuildModern(image, values))

(* Setting an image's own record, without any new hook. *)
Update(image, record, settings) ==
    LET set(content) == IF "flags" \in DOMAIN content
                        THEN [content EXCEPT !.flags = settings.values] ELSE content
        updated == [image EXCEPT
            !.cell = [c \in Cell |->
                IF \/ c \in {record.boot, record.handler, record.handler + 1}
                   \/ image.cell[c].holds = "record"
                THEN set(image.cell[c]) ELSE image.cell[c]]]
    IN IF ~RecordIsSound(image, record) \/ ~image.intact \/ ~Honours(record.support, settings)
       THEN NotMade("refused")
       ELSE [verdict |-> "made", image |-> updated, support |-> record.support,
             limited |-> FALSE]

(* A choice that is refused while a lever was missed for want of space     *)
(* counts as want of space.                                                *)
Outputs(build, support, settings) ==
    LET finished == [build EXCEPT !.image = Signed(Downgradeable(@))]
    IN IF support.boot THEN Attached(finished, settings) ELSE {finished.image}

Delivered(image, output, support, limited) ==
    IF \/ \E record \in Record(output) : ~RecordIsSound(output, record)
       \/ ~MetadataPreserved(image, output)
    THEN NotMade("refused")
    ELSE [verdict |-> "made", image |-> output, support |-> support, limited |-> limited]

FromBuild(image, build, support, settings) ==
    IF ~Honours(support, settings)
    THEN NotMade(IF build.limited THEN "noSpace" ELSE "refused")
    ELSE IF Outputs(build, support, settings) = {} THEN NotMade("noSpace")
    ELSE Delivered(image, CHOOSE x \in Outputs(build, support, settings) : TRUE, support,
                   build.limited)

FromBuilds(image, builds, settings) ==
    LET made(build) == FromBuild(image, build, SupportOf(build), settings)
        space == "base" \in image.found /\ image.engine = "MT1959"
    IN IF builds # {} THEN made(CHOOSE b \in builds : TRUE)
       ELSE NotMade(IF space THEN "noSpace" ELSE "refused")

ModifyOnce(image, settings) ==
    IF image.sort = "driveRead" THEN NotMade("refused")
    ELSE IF Record(image) # {}
    THEN Update(image, CHOOSE r \in Record(image) : TRUE, settings)
    ELSE IF Patched(image) THEN NotMade("refused")
    ELSE FromBuilds(image, Built(image, settings.values), settings)

(* Once more with extended coverage if space was what was missing; what    *)
(* fails then fails, whatever the first attempt had made.                  *)
Again(image, again) ==
    IF again.verdict = "made" /\ ~MetadataPreserved(image, again.image)
    THEN NotMade("refused") ELSE again

Retried(image, first, retries, settings) ==
    LET short == \/ first.verdict = "noSpace"
                 \/ first.verdict = "made" /\ first.limited
    IN IF ~short \/ retries = {} THEN first
       ELSE Again(image, ModifyOnce(CHOOSE x \in retries : TRUE, settings))

Modified(image, settings) ==
    Retried(image, ModifyOnce(image, settings), Extended(image), settings)

(* What a form offers of the result of a disposable build. *)
FormOptions(preview) ==
    IF preview.verdict = "made"
    THEN [verdict |-> "made", support |-> preview.support, settings |-> Standard]
    ELSE NotMade(preview.verdict)

\* A mutant: the record of a damaged image is offered for editing.
OptionsOfDamaged(image) ==
    LET record == CHOOSE r \in Record(image) : TRUE
    IN IF Record(image) = {} THEN FormOptions(Modified(image, Standard))
       ELSE [verdict |-> "made", support |-> record.support,
             settings |-> [values |-> record.flags, explicit |-> {}]]

(* The settings a form starts from: the image's own, or the standard ones  *)
(* with what a disposable build of the image supports.                     *)
BootOptions(image) ==
    LET record == CHOOSE r \in Record(image) : TRUE
    IN IF Record(image) = {} THEN FormOptions(Modified(image, Standard))
       ELSE IF RecordIsSound(image, record) /\ image.intact
       THEN [verdict |-> "made", support |-> record.support,
             settings |-> [values |-> record.flags, explicit |-> {}]]
       ELSE NotMade("refused")
=============================================================================
