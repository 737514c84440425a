----------------------------- MODULE FirmwareProofs -----------------------------
(***************************************************************************)
(* Proofs about FirmwareForm and the builder below it: every image that is *)
(* published is what its report says, and what the form offers is built.   *)
(***************************************************************************)
EXTENDS FirmwareForm, FiniteSetTheorems, WellFoundedInduction, TLAPS

(* Least elements.  *)
LEMMA LeastExists ==
  ASSUME NEW S \in SUBSET Int, IsFiniteSet(S), S # {}
  PROVE  \E x \in S : \A y \in S : x <= y
<1> DEFINE below(x) == {y \in S : y <= x}
           family == {below(x) : x \in S}
<1>1. family \subseteq FiniteSubsetsOf(S) /\ family # {}
  <2>1. ASSUME NEW x \in S PROVE below(x) \in FiniteSubsetsOf(S)
    BY FS_Subset, below(x) \subseteq S DEF FiniteSubsetsOf
  <2> QED BY <2>1
<1>2. PICK T \in family : \A U \in family : ~ <<U, T>> \in StrictSubsetOrdering(S)
  <2>1. IsWellFoundedOn(StrictSubsetOrdering(S), FiniteSubsetsOf(S))
    BY FS_StrictSubsetOrderingWellFounded
  <2> QED BY <1>1, <2>1, WFMin
<1>3. PICK x \in S : T = below(x)
  OBVIOUS
<1>4. ASSUME NEW y \in S, y < x PROVE FALSE
  <2>0. x \in Int /\ y \in Int /\ S \subseteq Int
    OBVIOUS
  <2>1. ASSUME NEW z \in below(y) PROVE z \in below(x)
    <3>1. z \in S /\ z \in Int /\ z <= y
      BY <2>0
    <3> QED BY <3>1, <2>0, <1>4
  <2>2. x \in below(x) /\ x \notin below(y)
    BY <2>0, <1>4
  <2>3. below(y) \subseteq T /\ x \in T /\ x \notin below(y)
    BY <2>1, <2>2, <1>3
  <2>4. below(y) \in family
    OBVIOUS
  <2>5. T \subseteq S /\ below(y) \subseteq S
    BY <1>3
  <2>6. <<below(y), T>> \in StrictSubsetOrdering(S)
    BY <2>3, <2>5 DEF StrictSubsetOrdering
  <2> QED BY <2>4, <2>6, <1>2
<1> QED BY <1>4

LEMMA MinIsLeast ==
  ASSUME NEW S \in SUBSET Int, IsFiniteSet(S), S # {}
  PROVE  Sets!Min(S) \in S /\ \A y \in S : Sets!Min(S) <= y
BY LeastExists DEF Sets!Min

LEMMA CellsAreFinite ==
  ASSUME NEW S \in SUBSET Cell
  PROVE  IsFiniteSet(S) /\ Cardinality(S) \in 0..CodeCells
<1>1. IsFiniteSet(Cell) /\ Cardinality(Cell) = CodeCells
  BY FS_Interval, CodeCellsAssumption DEF Cell
<1> QED BY <1>1, FS_Subset, FS_CardinalityType, CodeCellsAssumption

LEMMA GreatestExists ==
  ASSUME NEW S \in SUBSET Cell, S # {}
  PROVE  \E x \in S : \A y \in S : y <= x
<1> DEFINE T == {n \in Cell : CodeCells + 1 - n \in S}
<1>1. T \in SUBSET Cell /\ T \in SUBSET Int /\ IsFiniteSet(T)
  BY CellsAreFinite DEF Cell
<1>2. ASSUME NEW y \in S PROVE CodeCells + 1 - y \in T
  BY CodeCellsAssumption DEF Cell
<1>3. T # {}
  BY <1>2
<1>4. PICK n \in T : \A m \in T : n <= m
  BY <1>1, <1>3, LeastExists
<1>5. \A y \in S : y <= CodeCells + 1 - n
  <2> TAKE y \in S
  <2>1. n <= CodeCells + 1 - y
    BY <1>2, <1>4
  <2> QED BY <2>1, CodeCellsAssumption DEF Cell
<1> QED BY <1>4, <1>5

-----------------------------------------------------------------------------
(* Holes.  *)

(* An interval of cells.  *)
IsHole(h) == \E a, b \in Cell : a <= b /\ h = a..b

LEMMA HoleFacts ==
  ASSUME NEW a \in Cell, NEW b \in Cell, a <= b
  PROVE  /\ a..b \in SUBSET Cell /\ a..b # {} /\ Sets!Min(a..b) = a /\ Sets!Max(a..b) = b
         /\ Cardinality(a..b) = b - a + 1
<1>1. a \in Int /\ b \in Int /\ a..b \in SUBSET Int /\ a..b \in SUBSET Cell /\ a \in a..b /\ b \in a..b
  BY CodeCellsAssumption DEF Cell
<1>2. IsFiniteSet(a..b) /\ Cardinality(a..b) = b - a + 1
  BY <1>1, FS_Interval
<1>3. Sets!Min(a..b) = a
  <2>1. Sets!Min(a..b) \in a..b /\ Sets!Min(a..b) <= a
    BY <1>1, <1>2, MinIsLeast
  <2> QED BY <2>1, <1>1
<1>4. Sets!Max(a..b) = b
  <2>1. Sets!Max(a..b) \in a..b /\ \A y \in a..b : Sets!Max(a..b) >= y
    <3>1. \E x \in a..b : \A y \in a..b : x >= y
      BY <1>1
    <3> QED BY <3>1 DEF Sets!Max
  <2> QED BY <2>1, <1>1
<1> QED BY <1>1, <1>2, <1>3, <1>4

(* The runs of a set of cells are holes within it.  *)
LEMMA StretchesAreHoles ==
  ASSUME NEW cells \in SUBSET Cell, NEW run \in Stretches(cells)
  PROVE  IsHole(run) /\ run \subseteq cells
<1> DEFINE Ends(a) == {last \in cells : last >= a /\ last + 1 \notin cells}
<1>1. PICK a \in cells : a - 1 \notin cells /\ run = a..Sets!Min(Ends(a))
  BY DEF Stretches
<1>2. cells \subseteq Int /\ a \in Int
  BY DEF Cell
<1>3. Ends(a) # {}
  <2>1. PICK m \in cells : \A y \in cells : y <= m
    BY GreatestExists
  <2>2. m \in Int /\ m >= a /\ m + 1 \notin cells
    <3>1. m \in Int /\ m >= a
      BY <1>2, <2>1
    <3> QED BY <3>1, <2>1
  <2> QED BY <2>2
<1> DEFINE b == Sets!Min(Ends(a))
<1>4. b \in Ends(a) /\ \A y \in Ends(a) : b <= y
  <2>1. Ends(a) \in SUBSET Int /\ Ends(a) \in SUBSET Cell
    BY <1>2
  <2>2. IsFiniteSet(Ends(a))
    BY <2>1, CellsAreFinite
  <2> HIDE DEF Ends
  <2> QED BY <2>1, <2>2, <1>3, MinIsLeast
<1>5. b \in cells /\ b >= a /\ b \in Cell /\ a \in Cell
  BY <1>4
<1>6. a..b \subseteq cells
  <2> SUFFICES ASSUME (a..b) \ cells # {} PROVE FALSE
    OBVIOUS
  <2> DEFINE missing == (a..b) \ cells
  <2>1. missing \in SUBSET Int /\ missing \in SUBSET Cell
    BY <1>2, <1>5, CodeCellsAssumption DEF Cell
  <2>2. IsFiniteSet(missing)
    BY <2>1, CellsAreFinite
  <2>3. PICK x \in missing : \A y \in missing : x <= y
    BY <2>1, <2>2, LeastExists
  <2>4. x \in Int /\ x > a /\ x <= b /\ x \notin cells /\ b \in Int
    <3>1. x \in Int /\ x >= a /\ x <= b /\ x \notin cells /\ b \in Int
      <4> HIDE DEF b
      <4> QED BY <1>2, <1>5
    <3>2. x # a
      BY <1>1, <3>1
    <3> QED BY <3>1, <3>2, <1>2
  <2>5. x - 1 \in cells
    BY <2>3, <2>4, <1>2
  <2>6. x - 1 \in Ends(a)
    BY <2>4, <2>5, <1>2
  <2> QED BY <2>4, <2>6, <1>4
<1> QED BY <1>1, <1>5, <1>6 DEF IsHole

(* The intersection of two holes is one, unless it is empty.  *)
LEMMA HolesIntersect ==
  ASSUME NEW g, NEW h, IsHole(g), NEW c \in Cell, NEW d \in Cell, h = c..d, g \cap h # {}
  PROVE  IsHole(g \cap h)
<1>1. PICK a \in Cell, b \in Cell : a <= b /\ g = a..b
  BY DEF IsHole
<1> DEFINE p == IF a >= c THEN a ELSE c
           q == IF b <= d THEN b ELSE d
<1>2. p \in Cell /\ q \in Cell /\ g \cap h = p..q
  BY <1>1 DEF Cell
<1>3. p <= q
  BY <1>2 DEF Cell
<1> QED BY <1>2, <1>3 DEF IsHole

LEMMA LargestExists ==
  ASSUME NEW holes, holes # {}, \A h \in holes : IsHole(h)
  PROVE  Largest(holes) # {}
<1> DEFINE sizes == {n \in Cell : \E h \in holes : Cardinality(h) = n}
<1>1. ASSUME NEW h \in holes PROVE Cardinality(h) \in Cell
  <2>1. PICK a \in Cell, b \in Cell : a <= b /\ h = a..b
    BY DEF IsHole
  <2>2. Cardinality(h) = b - a + 1
    BY <2>1, HoleFacts
  <2> QED BY <2>1, <2>2, CodeCellsAssumption DEF Cell
<1>2. sizes # {} /\ sizes \in SUBSET Cell
  BY <1>1
<1>3. PICK n \in sizes : \A m \in sizes : m <= n
  BY <1>2, GreatestExists
<1>4. PICK h \in holes : Cardinality(h) = n
  OBVIOUS
<1>5. \A o \in holes : Cardinality(o) <= Cardinality(h)
  BY <1>1, <1>3, <1>4
<1> QED BY <1>4, <1>5 DEF Largest

LEMMA FirstOfLargestExists ==
  ASSUME NEW holes, holes # {}, \A h \in holes : IsHole(h)
  PROVE  FirstOfLargest(holes) \in holes
<1> DEFINE starts == {n \in Cell : \E h \in Largest(holes) : Sets!Min(h) = n}
<1>1. Largest(holes) # {} /\ Largest(holes) \subseteq holes
  BY LargestExists DEF Largest
<1>2. ASSUME NEW h \in holes PROVE Sets!Min(h) \in Cell
  BY HoleFacts DEF IsHole
<1>3. starts # {} /\ starts \in SUBSET Cell /\ starts \in SUBSET Int
  BY <1>1, <1>2 DEF Cell
<1>4. IsFiniteSet(starts)
  BY <1>3, CellsAreFinite
<1>5. PICK n \in starts : \A m \in starts : n <= m
  BY <1>3, <1>4, LeastExists
<1>6. PICK h \in Largest(holes) : Sets!Min(h) = n
  OBVIOUS
<1>7. \A o \in Largest(holes) : Sets!Min(h) <= Sets!Min(o)
  BY <1>1, <1>2, <1>5, <1>6
<1>8. FirstOfLargest(holes) \in Largest(holes)
  BY <1>6, <1>7 DEF FirstOfLargest
<1> QED BY <1>1, <1>8

(* What the allocator answers: erased cells outside reserved storage, which *)
(* one range of the table authenticates.                                    *)
LEMMA FoundIsFree ==
  ASSUME NEW image \in FirmwareImage, NEW need \in {1, 2}, Find(image, need) # 0
  PROVE  LET span == Find(image, need)..(Find(image, need) + need - 1)
         IN /\ Find(image, need) \in Cell /\ span \subseteq ErasedCells(image) \ image.reserved
            /\ \E range \in Authenticated(image) : span \subseteq range
<1> DEFINE free == ErasedCells(image) \ image.reserved
           runs == {run \in Stretches(free) : Cardinality(run) >= need}
           whole == {run \in runs : \E range \in Authenticated(image) : run \subseteq range}
           clipped == UNION {{run \cap range : range \in Authenticated(image)} : run \in runs}
<1>1. free \in SUBSET Cell
  BY DEF ErasedCells
<1>2. ASSUME NEW hole \in Holes(image, need)
      PROVE  /\ IsHole(hole) /\ hole \subseteq free /\ Cardinality(hole) >= need
             /\ \E range \in Authenticated(image) : hole \subseteq range
  <2>1. CASE hole \in runs /\ \E range \in Authenticated(image) : hole \subseteq range
    BY <2>1, <1>1, StretchesAreHoles
  <2>2. CASE \E run \in runs, range \in Authenticated(image) :
               hole = run \cap range /\ Cardinality(hole) >= need
    <3>1. PICK run \in runs, range \in Authenticated(image) :
            hole = run \cap range /\ Cardinality(hole) >= need
      BY <2>2
    <3>2. PICK e \in image.entries : range = e.first..e.last
      BY DEF Authenticated
    <3>3. e \in Entry
      BY DEF FirmwareImage
    <3>4. e.first \in Cell /\ e.last \in Cell
      BY <3>3 DEF Entry
    <3>5. hole # {}
      BY <3>1, FS_EmptySet
    <3>6. IsHole(run) /\ run \subseteq free
      BY <1>1, StretchesAreHoles
    <3>7. IsHole(hole)
      BY <3>1, <3>2, <3>4, <3>5, <3>6, HolesIntersect
    <3> QED BY <3>1, <3>6, <3>7
  <2>3. CASE whole # {}
    <3>1. Holes(image, need) = whole
      BY <2>3 DEF Holes
    <3> QED BY <3>1, <2>1
  <2>4. CASE whole = {}
    <3>1. Holes(image, need) = {h \in clipped : Cardinality(h) >= need}
      BY <2>4 DEF Holes
    <3>2. hole \in clipped /\ Cardinality(hole) >= need
      BY <3>1
    <3>3. \E run \in runs, range \in Authenticated(image) : hole = run \cap range
      BY <3>2
    <3> QED BY <3>2, <3>3, <2>2
  <2> QED BY <2>3, <2>4
<1> DEFINE best == FirstOfLargest(Holes(image, need))
<1>3. Holes(image, need) # {} /\ Find(image, need) = Sets!Min(best)
  BY DEF Find
<1>4. best \in Holes(image, need)
  BY <1>2, <1>3, FirstOfLargestExists
<1>5. PICK a \in Cell, b \in Cell : a <= b /\ best = a..b
  BY <1>2, <1>4 DEF IsHole
<1>6. Find(image, need) = a /\ b - a + 1 >= need
  BY <1>2, <1>3, <1>4, <1>5, HoleFacts
<1>7. a..(a + need - 1) \subseteq best
  BY <1>5, <1>6 DEF Cell
<1> QED BY <1>2, <1>4, <1>5, <1>6, <1>7

-----------------------------------------------------------------------------
(* Builds.  *)

Build == [image : FirmwareImage, fact : [Hook -> 0..CodeCells], limited : BOOLEAN, placed : BOOLEAN]

(* Two images that differ at most in cells and hooks.  *)
SameFrame(i, o) ==
    /\ i.sort = o.sort /\ i.engine = o.engine /\ i.found = o.found /\ i.entries = o.entries
    /\ i.reserved = o.reserved /\ i.extendable = o.extendable /\ i.intact = o.intact
    /\ i.downgrade = o.downgrade

Starts == {"boot", "handler"}

HookIsSafe(image, hook) ==
    /\ Span(image, hook) \subseteq Cell
    /\ \A c \in Span(image, hook) : image.cell[c].holds = hook
    /\ Span(image, hook) \cap image.reserved = {}
    /\ \E range \in Authenticated(image) : Span(image, hook) \subseteq range

(* A build from the image o, for the settings `values`: the report is of    *)
(* the hooks, only erased cells were written, and every hook is safe.       *)
Sane(o, values, b) ==
    /\ b \in Build /\ SameFrame(b.image, o)
    /\ b.fact = b.image.site
    /\ \A c \in Cell :
         IF o.cell[c] # Erased THEN b.image.cell[c] = o.cell[c]
         ELSE b.image.cell[c] = Erased \/ b.image.cell[c].holds \in Hook
    /\ \A hook \in Hook : b.image.site[hook] # 0 => HookIsSafe(b.image, hook)
    /\ \A hook \in Starts :
         b.image.site[hook] # 0 => b.image.cell[b.image.site[hook]] = Defaults(hook, values)

Suits(content, hook, values) ==
    /\ content \in Content /\ content.holds = hook
    /\ hook \in Starts => content = Defaults(hook, values)

(* What a placement reports, beside the image it makes.  *)
Placed(b, hook, r) ==
    /\ r.limited = b.limited
    /\ r.placed => /\ b.placed /\ r.fact[hook] # 0
                   /\ \A other \in Hook \ {hook} : r.fact[other] = b.fact[other]

LEMMA ContentFacts ==
  /\ Erased \in Content /\ Native \in Content /\ Erased.holds = "erased" /\ Native.holds = "native"
  /\ Erased # Native
  /\ \A hook \in Hook : Stub(hook) \in Content /\ Stub(hook).holds = hook
  /\ \A hook \in Starts, values \in Value :
       Defaults(hook, values) \in Content /\ Defaults(hook, values).holds = hook
  /\ "erased" \notin Hook /\ "native" \notin Hook /\ "record" \notin Hook
  /\ Starts \subseteq Hook
<1>1. Hook = {"handler", "boot", "speed", "region", "ake", "gatea", "deny", "uhd", "hrl", "bd", "auth",
             "discInformation", "geometry", "discMode", "density", "identityClear"}
  BY DEF Hook, Unhooked
<1> QED BY <1>1 DEF Content, Erased, Native, Stub, Defaults, Starts

LEMMA ImageFacts ==
  ASSUME NEW image \in FirmwareImage
  PROVE  /\ image.found \in SUBSET STRING /\ image.entries \in SUBSET Entry
         /\ image.reserved \in SUBSET Cell /\ image.intact \in BOOLEAN
         /\ image.cell \in [Cell -> Content] /\ image.site \in [Hook -> 0..CodeCells]
BY DEF FirmwareImage

(* Writing content for a hook into its span.  *)
LEMMA WrittenFields ==
  ASSUME NEW b \in Build, NEW hook \in Hook, NEW content \in Content, NEW at \in Cell, b.placed
  PROVE  LET r == PutAt(b, hook, content, at)
             span == at..(at + Need(hook) - 1)
         IN /\ r \in Build /\ SameFrame(r.image, b.image) /\ r.limited = b.limited /\ r.placed
            /\ r.image.cell = [c \in Cell |-> IF c \in span THEN content ELSE b.image.cell[c]]
            /\ r.image.site = [b.image.site EXCEPT ![hook] = at]
            /\ r.fact = [b.fact EXCEPT ![hook] = at]
<1>1. at # 0 /\ at \in 0..CodeCells
  BY CodeCellsAssumption DEF Cell
<1> DEFINE span == at..(at + Need(hook) - 1)
           cell == [c \in Cell |-> IF c \in span THEN content ELSE b.image.cell[c]]
<1>2. b.image \in FirmwareImage /\ b.fact \in [Hook -> 0..CodeCells] /\ b.limited \in BOOLEAN
  BY DEF Build
<1>3. cell \in [Cell -> Content]
  BY <1>2, ImageFacts
<1>4. PutAt(b, hook, content, at) =
        [b EXCEPT !.image.cell = cell, !.image.site[hook] = at, !.fact[hook] = at]
  BY <1>1 DEF PutAt
<1> HIDE DEF cell
<1> DEFINE image == [b.image EXCEPT !.cell = cell, !.site[hook] = at]
<1>5. /\ image \in FirmwareImage /\ SameFrame(image, b.image) /\ image.cell = cell
      /\ image.site = [b.image.site EXCEPT ![hook] = at]
  BY <1>1, <1>2, <1>3 DEF FirmwareImage, SameFrame
<1>6. PutAt(b, hook, content, at) = [b EXCEPT !.image = image, !.fact[hook] = at]
  BY <1>4, <1>2 DEF Build, FirmwareImage
<1> HIDE DEF image
<1> DEFINE r == PutAt(b, hook, content, at)
<1>7. r.image = image /\ r.fact = [b.fact EXCEPT ![hook] = at] /\ r.limited = b.limited /\ r.placed
  BY <1>6 DEF Build
<1>8. r \in Build
  <2> DEFINE fact == [b.fact EXCEPT ![hook] = at]
  <2>1. fact \in [Hook -> 0..CodeCells]
    BY <1>1, <1>2
  <2>2. r = [b EXCEPT !.image = image, !.fact = fact]
    BY <1>6 DEF Build
  <2> HIDE DEF fact, r
  <2> QED BY <2>1, <2>2, <1>5 DEF Build
<1> HIDE DEF r
<1>9. /\ r \in Build /\ SameFrame(r.image, b.image) /\ r.limited = b.limited /\ r.placed
      /\ r.image.cell = cell /\ r.image.site = [b.image.site EXCEPT ![hook] = at]
      /\ r.fact = [b.fact EXCEPT ![hook] = at]
  BY <1>5, <1>7, <1>8
<1> QED BY <1>9 DEF r, cell

LEMMA PutIsSane ==
  ASSUME NEW o, NEW values, NEW b, Sane(o, values, b), NEW hook \in Hook, NEW content,
         Suits(content, hook, values)
  PROVE  LET r == Put(b, hook, content) IN Sane(o, values, r) /\ Placed(b, hook, r)
<1> DEFINE at == Find(b.image, Need(hook))
           r == Put(b, hook, content)
           span == at..(at + Need(hook) - 1)
<1>1. b \in Build /\ b.image \in FirmwareImage /\ content \in Content
  BY DEF Sane, Suits, Build
<1>2. CASE ~b.placed \/ at = 0
  <2>1. r = [b EXCEPT !.placed = FALSE]
    BY <1>2 DEF Put, PutAt
  <2>2. r \in Build /\ r.image = b.image /\ r.fact = b.fact /\ r.limited = b.limited /\ ~r.placed
    BY <1>1, <2>1 DEF Build
  <2> HIDE DEF r
  <2>3. Sane(o, values, r) /\ Placed(b, hook, r)
    BY <2>2 DEF Sane, Placed
  <2> QED BY <2>3 DEF r
<1>3. CASE b.placed /\ at # 0
  <2>1. Need(hook) \in {1, 2} /\ Need(hook) \in Int
    BY DEF Need
  <2>2. /\ at \in Cell /\ span \subseteq ErasedCells(b.image) \ b.image.reserved
        /\ \E range \in Authenticated(b.image) : span \subseteq range
    BY <1>1, <1>3, <2>1, FoundIsFree
  <2>3. at \in span /\ at \in Int /\ at # 0 /\ span \subseteq Cell
    BY <2>1, <2>2 DEF Cell, ErasedCells
  <2>4. /\ r \in Build /\ SameFrame(r.image, b.image) /\ r.limited = b.limited /\ r.placed
        /\ r.image.cell = [c \in Cell |-> IF c \in span THEN content ELSE b.image.cell[c]]
        /\ r.image.site = [b.image.site EXCEPT ![hook] = at]
        /\ r.fact = [b.fact EXCEPT ![hook] = at]
    BY <1>1, <1>3, <2>2, WrittenFields DEF Put
  <2> HIDE DEF r, at
  <2>5. /\ b.image.site \in [Hook -> 0..CodeCells] /\ b.fact = b.image.site
        /\ b.image.cell \in [Cell -> Content]
    BY <1>1, ImageFacts DEF Sane
  <2>6. \A c \in span : b.image.cell[c] = Erased
    BY <2>2 DEF ErasedCells
  <2>7. Authenticated(r.image) = Authenticated(b.image) /\ r.image.reserved = b.image.reserved
    BY <2>4 DEF SameFrame, Authenticated
  <2>8. SameFrame(r.image, o) /\ r.fact = r.image.site
    BY <2>4, <2>5 DEF Sane, SameFrame
  <2>9. \A c \in Cell :
          IF o.cell[c] # Erased THEN r.image.cell[c] = o.cell[c]
          ELSE r.image.cell[c] = Erased \/ r.image.cell[c].holds \in Hook
    <3> TAKE c \in Cell
    <3>1. IF o.cell[c] # Erased THEN b.image.cell[c] = o.cell[c]
          ELSE b.image.cell[c] = Erased \/ b.image.cell[c].holds \in Hook
      BY DEF Sane
    <3>2. r.image.cell[c] = IF c \in span THEN content ELSE b.image.cell[c]
      BY <2>4
    <3>3. content.holds = hook
      BY DEF Suits
    <3> QED BY <3>1, <3>2, <3>3, <2>6
  <2>10. ASSUME NEW h \in Hook, r.image.site[h] # 0 PROVE HookIsSafe(r.image, h)
    <3>1. CASE h = hook
      <4>1. Span(r.image, h) = span
        BY <2>4, <2>5, <3>1 DEF Span
      <4>2. \A c \in span : r.image.cell[c].holds = h
        BY <2>3, <2>4, <3>1 DEF Suits
      <4>3. span \cap r.image.reserved = {}
        BY <2>2, <2>7
      <4> QED BY <4>1, <4>2, <4>3, <2>2, <2>3, <2>7 DEF HookIsSafe
    <3>2. CASE h # hook
      <4>1. r.image.site[h] = b.image.site[h]
        BY <2>4, <2>5, <3>2
      <4>2. Span(r.image, h) = Span(b.image, h) /\ HookIsSafe(b.image, h)
        BY <4>1, <2>10 DEF Span, Sane
      <4>3. ASSUME NEW c \in Span(r.image, h) PROVE r.image.cell[c].holds = h
        <5>1. c \in Cell /\ b.image.cell[c].holds = h
          BY <4>2 DEF HookIsSafe
        <5>2. c \notin span
          BY <5>1, <2>6, ContentFacts
        <5> QED BY <5>1, <5>2, <2>4
      <4> QED BY <4>2, <4>3, <2>7 DEF HookIsSafe
    <3> QED BY <3>1, <3>2
  <2>11. ASSUME NEW h \in Starts, r.image.site[h] # 0
         PROVE  r.image.cell[r.image.site[h]] = Defaults(h, values)
    <3>1. CASE h = hook
      <4>1. r.image.site[h] = at
        BY <2>4, <2>5, <3>1
      <4> QED BY <4>1, <2>3, <2>4, <2>11, <3>1 DEF Suits
    <3>2. CASE h # hook
      <4>1. h \in Hook
        BY ContentFacts
      <4>2. r.image.site[h] = b.image.site[h] /\ b.image.site[h] # 0 /\ b.image.site[h] \in 0..CodeCells
        BY <4>1, <2>4, <2>5, <2>11, <3>2
      <4>3. b.image.cell[b.image.site[h]] = Defaults(h, values) /\ HookIsSafe(b.image, h)
        BY <4>1, <4>2 DEF Sane
      <4>4. b.image.site[h] \in Cell /\ b.image.cell[b.image.site[h]].holds = h
        <5>1. b.image.site[h] \in Span(b.image, h)
          BY <4>2 DEF Span, Need
        <5> QED BY <5>1, <4>3 DEF HookIsSafe
      <4>5. b.image.site[h] \notin span
        BY <4>1, <4>4, <2>6, ContentFacts
      <4> QED BY <4>2, <4>3, <4>4, <4>5, <2>4
    <3> QED BY <3>1, <3>2
  <2>12. Sane(o, values, r)
    BY <2>4, <2>8, <2>9, <2>10, <2>11 DEF Sane
  <2>13. Placed(b, hook, r)
    BY <2>3, <2>4, <2>5, <1>3 DEF Placed
  <2> QED BY <2>12, <2>13 DEF r
<1> QED BY <1>2, <1>3, <1>1 DEF Build

(* Two builds of one image for different settings go alike.  *)
Twins(b, d) ==
    /\ b.placed = d.placed /\ b.limited = d.limited /\ b.fact = d.fact
    /\ SameFrame(b.image, d.image) /\ ErasedCells(b.image) = ErasedCells(d.image)

LEMMA FindIsTheSame ==
  ASSUME NEW i, NEW j, NEW need, SameFrame(i, j), ErasedCells(i) = ErasedCells(j)
  PROVE  Find(i, need) = Find(j, need)
<1>1. i.reserved = j.reserved /\ Authenticated(i) = Authenticated(j)
  BY DEF SameFrame, Authenticated
<1>2. Holes(i, need) = Holes(j, need)
  BY <1>1 DEF Holes
<1> QED BY <1>2 DEF Find

LEMMA PutsAreTwins ==
  ASSUME NEW b \in Build, NEW d \in Build, Twins(b, d), NEW hook \in Hook,
         NEW x \in Content, NEW y \in Content, x.holds = hook, y.holds = hook
  PROVE  Twins(Put(b, hook, x), Put(d, hook, y))
<1> DEFINE at == Find(b.image, Need(hook))
           r == Put(b, hook, x)
           s == Put(d, hook, y)
           span == at..(at + Need(hook) - 1)
<1>1. Find(d.image, Need(hook)) = at
  BY FindIsTheSame DEF Twins
<1>2. CASE ~b.placed \/ at = 0
  <2>1. r = [b EXCEPT !.placed = FALSE] /\ s = [d EXCEPT !.placed = FALSE]
    BY <1>1, <1>2 DEF Put, PutAt, Twins
  <2> HIDE DEF at, r, s
  <2>2. /\ r.image = b.image /\ r.fact = b.fact /\ r.limited = b.limited /\ ~r.placed
        /\ s.image = d.image /\ s.fact = d.fact /\ s.limited = d.limited /\ ~s.placed
        /\ r.placed = s.placed
    BY <2>1 DEF Build
  <2> QED BY <2>2 DEF Twins, r, s
<1>3. CASE b.placed /\ at # 0
  <2>1. Need(hook) \in {1, 2} /\ b.image \in FirmwareImage /\ d.image \in FirmwareImage
    BY DEF Need, Build
  <2>2. at \in Cell
    BY <1>3, <2>1, FoundIsFree
  <2>0. r = PutAt(b, hook, x, at) /\ s = PutAt(d, hook, y, at) /\ d.placed
    BY <1>1, <1>3 DEF Put, Twins
  <2> HIDE DEF r, s, at
  <2>3. /\ r \in Build /\ SameFrame(r.image, b.image) /\ r.limited = b.limited /\ r.placed
        /\ r.image.cell = [c \in Cell |-> IF c \in span THEN x ELSE b.image.cell[c]]
        /\ r.image.site = [b.image.site EXCEPT ![hook] = at]
        /\ r.fact = [b.fact EXCEPT ![hook] = at]
    BY <1>3, <2>0, <2>2, WrittenFields
  <2>4. /\ s \in Build /\ SameFrame(s.image, d.image) /\ s.limited = d.limited /\ s.placed
        /\ s.image.cell = [c \in Cell |-> IF c \in span THEN y ELSE d.image.cell[c]]
        /\ s.image.site = [d.image.site EXCEPT ![hook] = at]
        /\ s.fact = [d.fact EXCEPT ![hook] = at]
    BY <2>0, <2>2, WrittenFields
  <2>5. x # Erased /\ y # Erased
    BY ContentFacts
  <2>6. ErasedCells(r.image) = ErasedCells(b.image) \ span
    BY <2>3, <2>5 DEF ErasedCells
  <2>7. ErasedCells(s.image) = ErasedCells(d.image) \ span
    BY <2>4, <2>5 DEF ErasedCells
  <2>8. SameFrame(r.image, s.image)
    BY <2>3, <2>4 DEF SameFrame, Twins
  <2>9. r.placed = s.placed /\ r.limited = s.limited /\ r.fact = s.fact
    <3>1. b.limited = d.limited /\ b.fact = d.fact
      BY DEF Twins
    <3>2. r.limited = s.limited /\ r.fact = s.fact
      BY <2>3, <2>4, <3>1
    <3>3. r.placed \in BOOLEAN /\ s.placed \in BOOLEAN
      BY <2>3, <2>4 DEF Build
    <3> QED BY <2>3, <2>4, <3>2, <3>3
  <2>10. Twins(r, s)
    BY <2>6, <2>7, <2>8, <2>9 DEF Twins
  <2> QED BY <2>10 DEF r, s
<1> QED BY <1>2, <1>3 DEF Build

(* Two sane builds of one image that go alike.  *)
Pair(o, v, b, w, d) == Sane(o, v, b) /\ Sane(o, w, d) /\ Twins(b, d)

LEMMA PutsArePairs ==
  ASSUME NEW o, NEW v, NEW b, NEW w, NEW d, Pair(o, v, b, w, d), NEW hook \in Hook,
         NEW x, NEW y, Suits(x, hook, v), Suits(y, hook, w)
  PROVE  /\ Pair(o, v, Put(b, hook, x), w, Put(d, hook, y))
         /\ Placed(b, hook, Put(b, hook, x))
<1>1. b \in Build /\ d \in Build /\ x \in Content /\ y \in Content /\ x.holds = hook /\ y.holds = hook
  BY DEF Pair, Sane, Suits
<1>2. Twins(Put(b, hook, x), Put(d, hook, y))
  BY <1>1, PutsAreTwins DEF Pair
<1> QED BY <1>2, PutIsSane DEF Pair

LEMMA PutStubIsAPair ==
  ASSUME NEW o, NEW v, NEW b, NEW w, NEW d, Pair(o, v, b, w, d), NEW hook \in Hook \ Starts
  PROVE  /\ Pair(o, v, PutStub(b, hook), w, PutStub(d, hook))
         /\ Placed(b, hook, PutStub(b, hook))
<1>1. Suits(Stub(hook), hook, v) /\ Suits(Stub(hook), hook, w)
  BY ContentFacts DEF Suits
<1> QED BY <1>1, PutsArePairs DEF PutStub

LEMMA PutDefaultsIsAPair ==
  ASSUME NEW o, NEW v \in Value, NEW b, NEW w \in Value, NEW d, Pair(o, v, b, w, d), NEW hook \in Starts
  PROVE  /\ Pair(o, v, Put(b, hook, Defaults(hook, v)), w, Put(d, hook, Defaults(hook, w)))
         /\ Placed(b, hook, Put(b, hook, Defaults(hook, v)))
<1>1. hook \in Hook /\ Suits(Defaults(hook, v), hook, v) /\ Suits(Defaults(hook, w), hook, w)
  BY ContentFacts DEF Suits
<1> QED BY <1>1, PutsArePairs

(* What is placed with something else is placed with it, and nothing        *)
(* without the handler and the hook of the start.                           *)
Based(b) == b.fact["handler"] # 0 /\ b.fact["boot"] # 0
Paired(b) ==
    /\ b.fact["ake"] # 0 => b.fact["gatea"] # 0
    /\ b.fact["discInformation"] # 0 => b.fact["geometry"] # 0

Good(o, v, b, w, d) == Pair(o, v, b, w, d) /\ (b.placed => Based(b) /\ Paired(b))

Coupled == {"ake", "gatea", "discInformation", "geometry"}
Couples(hooks) ==
    /\ "ake" \in hooks => "gatea" \in hooks
    /\ "discInformation" \in hooks => "geometry" \in hooks

LEMMA HookNames ==
  Hook = {"handler", "boot", "speed", "region", "ake", "gatea", "deny", "uhd", "hrl", "bd", "auth",
          "discInformation", "geometry", "discMode", "density", "identityClear"}
BY DEF Hook, Unhooked

LEMMA PutStubIsGood ==
  ASSUME NEW o, NEW v, NEW b, NEW w, NEW d, Good(o, v, b, w, d),
         NEW hook \in Hook \ (Starts \cup Coupled)
  PROVE  Good(o, v, PutStub(b, hook), w, PutStub(d, hook))
<1> DEFINE r == PutStub(b, hook)
<1>1. Pair(o, v, r, w, PutStub(d, hook)) /\ Placed(b, hook, r)
  BY PutStubIsAPair DEF Good
<1>2. ASSUME r.placed PROVE Based(r) /\ Paired(r)
  <2> HIDE DEF r
  <2>1. Based(b) /\ Paired(b)
    BY <1>1, <1>2 DEF Good, Placed
  <2>2. \A other \in Starts \cup Coupled : r.fact[other] = b.fact[other]
    BY <1>1, <1>2, HookNames DEF Placed, Starts, Coupled
  <2> QED BY <2>1, <2>2 DEF Based, Paired, Starts, Coupled
<1> QED BY <1>1, <1>2 DEF Good

LEMMA PutBothIsGood ==
  ASSUME NEW o, NEW v, NEW b, NEW w, NEW d, Good(o, v, b, w, d),
         NEW f \in Hook \ Starts, NEW g \in Hook \ Starts, f # g, Couples({f, g})
  PROVE  Good(o, v, PutBoth(b, f, g), w, PutBoth(d, f, g))
<1> DEFINE m == PutStub(b, f)
           n == PutStub(d, f)
           r == PutStub(m, g)
           s == PutStub(n, g)
<1>1. Pair(o, v, m, w, n) /\ Placed(b, f, m)
  BY PutStubIsAPair DEF Good
<1>2. Pair(o, v, r, w, s) /\ Placed(m, g, r)
  <2> HIDE DEF m, n
  <2> QED BY <1>1, PutStubIsAPair
<1> HIDE DEF m, n, r, s
<1>3. ASSUME r.placed PROVE Based(r) /\ Paired(r)
  <2>1. m.placed /\ b.placed /\ Based(b) /\ Paired(b)
    BY <1>1, <1>2, <1>3 DEF Good, Placed
  <2>2. r.fact[f] # 0 /\ r.fact[g] # 0
    BY <1>1, <1>2, <1>3, <2>1 DEF Placed
  <2>3. \A other \in Hook \ {f, g} : r.fact[other] = b.fact[other]
    BY <1>1, <1>2, <1>3, <2>1 DEF Placed
  <2>4. Based(r)
    BY <2>1, <2>3, HookNames DEF Based, Starts
  <2>5. Paired(r)
    BY <2>1, <2>2, <2>3, HookNames DEF Paired, Couples
  <2> QED BY <2>4, <2>5
<1>4. Good(o, v, r, w, s)
  BY <1>2, <1>3 DEF Good
<1> QED BY <1>4 DEF PutBoth, m, n, r, s

LEMMA PlacedAlike ==
  ASSUME NEW o, NEW v, NEW b, NEW w, NEW d, Good(o, v, b, w, d)
  PROVE  /\ b \in Build /\ d \in Build /\ b.placed = d.placed /\ b.fact = d.fact
         /\ b.limited = d.limited /\ b.image.found = d.image.found
BY DEF Good, Pair, Sane, Twins, SameFrame

LEMMA LimitedIsGood ==
  ASSUME NEW o, NEW v, NEW b, NEW w, NEW d, Good(o, v, b, w, d), NEW x \in BOOLEAN
  PROVE  Good(o, v, [b EXCEPT !.limited = x], w, [d EXCEPT !.limited = x])
<1> DEFINE r == [b EXCEPT !.limited = x]
           s == [d EXCEPT !.limited = x]
<1>1. b \in Build /\ d \in Build
  BY PlacedAlike
<1>2. r \in Build /\ r.image = b.image /\ r.fact = b.fact /\ r.placed = b.placed /\ r.limited = x
  BY <1>1 DEF Build
<1>3. s \in Build /\ s.image = d.image /\ s.fact = d.fact /\ s.placed = d.placed /\ s.limited = x
  BY <1>1 DEF Build
<1> HIDE DEF r, s
<1>4. Sane(o, v, r) /\ Sane(o, w, s) /\ Twins(r, s) /\ (r.placed => Based(r) /\ Paired(r))
  BY <1>2, <1>3 DEF Good, Pair, Sane, Twins, Based, Paired
<1>5. Good(o, v, r, w, s)
  BY <1>4 DEF Good, Pair
<1> QED BY <1>5 DEF r, s

LEMMA OrLimitedIsGood ==
  ASSUME NEW o, NEW v, NEW b, NEW w, NEW d, Good(o, v, b, w, d),
         NEW r, NEW s, Good(o, v, r, w, s)
  PROVE  Good(o, v, OrLimited(b, r), w, OrLimited(d, s))
<1>1. r.placed = s.placed
  BY PlacedAlike
<1> QED BY <1>1, LimitedIsGood DEF OrLimited

LEMMA LeverIsGood ==
  ASSUME NEW o, NEW v, NEW b, NEW w, NEW d, Good(o, v, b, w, d),
         NEW hook \in Hook \ (Starts \cup Coupled)
  PROVE  /\ Good(o, v, Lever(b, hook), w, Lever(d, hook))
         /\ Good(o, v, PutFound(b, hook), w, PutFound(d, hook))
<1>1. b.image.found = d.image.found
  BY PlacedAlike
<1>2. Good(o, v, PutStub(b, hook), w, PutStub(d, hook))
  BY PutStubIsGood
<1>3. Good(o, v, OrLimited(b, PutStub(b, hook)), w, OrLimited(d, PutStub(d, hook)))
  BY <1>2, OrLimitedIsGood
<1> QED BY <1>1, <1>2, <1>3 DEF Lever, PutFound

LEMMA ConvertedIsGood ==
  ASSUME NEW o, NEW v, NEW b, NEW w, NEW d, Good(o, v, b, w, d), NEW contract,
         NEW f \in Hook \ Starts, NEW g \in Hook \ Starts, f # g, Couples({f, g})
  PROVE  Good(o, v, Converted(b, contract, f, g), w, Converted(d, contract, f, g))
<1>1. b.image.found = d.image.found
  BY PlacedAlike
<1>2. Good(o, v, PutBoth(b, f, g), w, PutBoth(d, f, g))
  BY PutBothIsGood
<1>3. PutBoth(b, f, g).placed = PutBoth(d, f, g).placed
  BY <1>2, PlacedAlike
<1>4. Good(o, v, OrAsBefore(b, PutBoth(b, f, g)), w, OrAsBefore(d, PutBoth(d, f, g)))
  BY <1>2, <1>3 DEF OrAsBefore
<1> QED BY <1>1, <1>4 DEF Converted

LEMMA ClearedIsGood ==
  ASSUME NEW o, NEW v \in Value, NEW b, NEW w \in Value, NEW d, Good(o, v, b, w, d)
  PROVE  Good(o, v, Cleared(b, v), w, Cleared(d, w))
<1> DEFINE r == BootHookReplaced(b, v)
           s == BootHookReplaced(d, w)
<1>1. "boot" \in Starts
  BY DEF Starts
<1>2. Pair(o, v, r, w, s) /\ Placed(b, "boot", r)
  BY <1>1, PutDefaultsIsAPair DEF Good, BootHookReplaced
<1> HIDE DEF r, s
<1>3. ASSUME r.placed PROVE Based(r) /\ Paired(r)
  <2>1. Based(b) /\ Paired(b) /\ r.fact["boot"] # 0 /\ \A h \in Hook \ {"boot"} : r.fact[h] = b.fact[h]
    BY <1>2, <1>3 DEF Good, Placed
  <2> QED BY <2>1, HookNames DEF Based, Paired
<1>4. Good(o, v, r, w, s)
  BY <1>2, <1>3 DEF Good
<1>5. b.fact = d.fact
  BY PlacedAlike
<1> QED BY <1>4, <1>5 DEF Cleared, r, s

LEMMA ConvertedModernIsGood ==
  ASSUME NEW o, NEW v \in Value, NEW b, NEW w \in Value, NEW d, Good(o, v, b, w, d)
  PROVE  Good(o, v, ConvertedModern(b, v), w, ConvertedModern(d, w))
<1> DEFINE b1 == Converted(b, "classicConversion", "discInformation", "geometry")
           d1 == Converted(d, "classicConversion", "discInformation", "geometry")
           b2 == Converted(b1, "conversion", "discMode", "density")
           d2 == Converted(d1, "conversion", "discMode", "density")
           b3 == Converted(b2, "clearingConversion", "discMode", "identityClear")
           d3 == Converted(d2, "clearingConversion", "discMode", "identityClear")
<1>1. /\ {"discInformation", "geometry", "discMode", "density", "identityClear"} \subseteq Hook \ Starts
      /\ Couples({"discInformation", "geometry"}) /\ Couples({"discMode", "density"})
      /\ Couples({"discMode", "identityClear"})
  BY HookNames DEF Starts, Couples
<1>2. Good(o, v, b1, w, d1)
  BY <1>1, ConvertedIsGood
<1>3. Good(o, v, b2, w, d2)
  <2> HIDE DEF b1, d1
  <2> QED BY <1>1, <1>2, ConvertedIsGood
<1>4. Good(o, v, b3, w, d3)
  <2> HIDE DEF b2, d2
  <2> QED BY <1>1, <1>3, ConvertedIsGood
<1>5. Good(o, v, Cleared(b3, v), w, Cleared(d3, w))
  <2> HIDE DEF b3, d3
  <2> QED BY <1>4, ClearedIsGood
<1> QED BY <1>5 DEF ConvertedModern

LEMMA ControlsAreGood ==
  ASSUME NEW o, NEW v, NEW b, NEW w, NEW d, Good(o, v, b, w, d)
  PROVE  Good(o, v, Controls(b), w, Controls(d))
<1> DEFINE b1 == PutFound(b, "uhd")
           d1 == PutFound(d, "uhd")
           b2 == PutFound(b1, "hrl")
           d2 == PutFound(d1, "hrl")
           b3 == PutFound(b2, "bd")
           d3 == PutFound(d2, "bd")
<1>1. {"uhd", "hrl", "bd", "auth"} \subseteq Hook \ (Starts \cup Coupled)
  BY HookNames DEF Starts, Coupled
<1>2. Good(o, v, b1, w, d1)
  BY <1>1, LeverIsGood
<1>3. Good(o, v, b2, w, d2)
  <2> HIDE DEF b1, d1
  <2> QED BY <1>1, <1>2, LeverIsGood
<1>4. Good(o, v, b3, w, d3)
  <2> HIDE DEF b2, d2
  <2> QED BY <1>1, <1>3, LeverIsGood
<1>5. Good(o, v, PutFound(b3, "auth"), w, PutFound(d3, "auth"))
  <2> HIDE DEF b3, d3
  <2> QED BY <1>1, <1>4, LeverIsGood
<1> QED BY <1>5 DEF Controls

LEMMA RawReadModernIsGood ==
  ASSUME NEW o, NEW v \in Value, NEW b, NEW w \in Value, NEW d, Good(o, v, b, w, d)
  PROVE  Good(o, v, RawReadModern(b, v), w, RawReadModern(d, w))
<1> DEFINE b1 == PutBoth(b, "ake", "gatea")
           d1 == PutBoth(d, "ake", "gatea")
           b2 == PutStub(b1, "deny")
           d2 == PutStub(d1, "deny")
           b3 == Controls(b2)
           d3 == Controls(d2)
<1>1. /\ {"ake", "gatea"} \subseteq Hook \ Starts /\ Couples({"ake", "gatea"})
      /\ "deny" \in Hook \ (Starts \cup Coupled)
  BY HookNames DEF Starts, Couples, Coupled
<1>2. Good(o, v, b1, w, d1)
  BY <1>1, PutBothIsGood
<1>3. Good(o, v, b2, w, d2)
  <2> HIDE DEF b1, d1
  <2> QED BY <1>1, <1>2, PutStubIsGood
<1>4. Good(o, v, b3, w, d3)
  <2> HIDE DEF b2, d2
  <2> QED BY <1>3, ControlsAreGood
<1> HIDE DEF b3, d3
<1>5. b3.placed = d3.placed /\ b.image.found = d.image.found
  BY <1>4, PlacedAlike
<1>6. Good(o, v, ConvertedModern(b3, v), w, ConvertedModern(d3, w))
  BY <1>4, ConvertedModernIsGood
<1>7. Good(o, v, [b EXCEPT !.limited = TRUE], w, [d EXCEPT !.limited = TRUE])
  BY LimitedIsGood
<1> QED BY <1>5, <1>6, <1>7 DEF RawReadModern, b3, d3

(* An image nothing was put into.  *)
IsBare(o) ==
    /\ o \in FirmwareImage /\ o.site = Unhooked
    /\ \A c \in Cell : o.cell[c].holds \notin {"handler", "record"}

LEMMA FreshIsAPair ==
  ASSUME NEW o, IsBare(o), NEW v, NEW w
  PROVE  Pair(o, v, Fresh(o), w, Fresh(o))
<1>1. Unhooked \in [Hook -> 0..CodeCells] /\ \A hook \in Hook : Unhooked[hook] = 0
  <2>1. 0 \in 0..CodeCells
    BY CodeCellsAssumption
  <2>2. \A hook \in Hook : Unhooked[hook] = 0
    BY HookNames DEF Unhooked
  <2>3. DOMAIN Unhooked = Hook /\ Unhooked = [hook \in Hook |-> Unhooked[hook]]
    BY DEF Unhooked, Hook
  <2> QED BY <2>1, <2>2, <2>3
<1>2. Fresh(o) \in Build /\ Fresh(o).image = o /\ Fresh(o).fact = Unhooked
  BY <1>1 DEF Fresh, Build, IsBare
<1>3. SameFrame(o, o)
  BY DEF SameFrame
<1>4. \A v1 : Sane(o, v1, Fresh(o))
  BY <1>1, <1>2, <1>3, ContentFacts DEF Sane, IsBare
<1>5. Twins(Fresh(o), Fresh(o))
  BY <1>2, <1>3 DEF Twins
<1> QED BY <1>4, <1>5 DEF Pair

LEMMA BaseIsGood ==
  ASSUME NEW o, IsBare(o), NEW v \in Value, NEW w \in Value
  PROVE  Good(o, v, Base(o, v), w, Base(o, w))
<1> DEFINE b1 == Put(Fresh(o), "handler", Defaults("handler", v))
           d1 == Put(Fresh(o), "handler", Defaults("handler", w))
           b2 == Put(b1, "boot", Defaults("boot", v))
           d2 == Put(d1, "boot", Defaults("boot", w))
<1>1. Pair(o, v, Fresh(o), w, Fresh(o))
  BY FreshIsAPair
<1>2. Pair(o, v, b1, w, d1) /\ Placed(Fresh(o), "handler", b1)
  BY <1>1, PutDefaultsIsAPair DEF Starts
<1>3. Pair(o, v, b2, w, d2) /\ Placed(b1, "boot", b2)
  <2> HIDE DEF b1, d1
  <2> QED BY <1>2, PutDefaultsIsAPair DEF Starts
<1> HIDE DEF b1, d1, b2, d2
<1>4. ASSUME b2.placed PROVE Based(b2) /\ Paired(b2)
  <2>1. b1.placed /\ b2.fact["boot"] # 0 /\ b1.fact["handler"] # 0
    BY <1>2, <1>3, <1>4 DEF Placed
  <2>2. \A h \in Hook \ {"handler", "boot"} : b2.fact[h] = Unhooked[h]
    BY <1>2, <1>3, <1>4, <2>1 DEF Placed, Fresh
  <2>3. b2.fact["handler"] # 0
    BY <1>3, <1>4, <2>1, HookNames DEF Placed
  <2> QED BY <2>1, <2>2, <2>3, HookNames DEF Based, Paired, Unhooked
<1>5. Good(o, v, b2, w, d2)
  BY <1>3, <1>4 DEF Good
<1> QED BY <1>5 DEF Base, b1, d1, b2, d2

LEMMA LeversAreGood ==
  ASSUME NEW o, IsBare(o), NEW v \in Value, NEW w \in Value
  PROVE  Good(o, v, Lever(Lever(Base(o, v), "speed"), "region"),
              w, Lever(Lever(Base(o, w), "speed"), "region"))
<1> DEFINE b == Base(o, v)
           d == Base(o, w)
           b1 == Lever(b, "speed")
           d1 == Lever(d, "speed")
<1>1. {"speed", "region"} \subseteq Hook \ (Starts \cup Coupled)
  BY HookNames DEF Starts, Coupled
<1>2. Good(o, v, b, w, d)
  BY BaseIsGood
<1> HIDE DEF b, d
<1>3. Good(o, v, b1, w, d1)
  BY <1>1, <1>2, LeverIsGood
<1> HIDE DEF b1, d1
<1>4. Good(o, v, Lever(b1, "region"), w, Lever(d1, "region"))
  BY <1>1, <1>3, LeverIsGood
<1> QED BY <1>4 DEF b, d, b1, d1

LEMMA ModernIsGood ==
  ASSUME NEW o, IsBare(o), NEW v \in Value, NEW w \in Value
  PROVE  Good(o, v, BuildModern(o, v), w, BuildModern(o, w))
BY LeversAreGood, RawReadModernIsGood DEF BuildModern

LEMMA LeversClassicAreGood ==
  ASSUME NEW o, NEW v, NEW b, NEW w, NEW d, Good(o, v, b, w, d)
  PROVE  Good(o, v, LeversClassic(b), w, LeversClassic(d))
<1> DEFINE b1 == RawReadClassic(b)
           d1 == RawReadClassic(d)
           b2 == Lever(b1, "hrl")
           d2 == Lever(d1, "hrl")
<1>1. /\ {"ake", "gatea"} \subseteq Hook \ Starts /\ Couples({"gatea", "ake"})
      /\ "hrl" \in Hook \ (Starts \cup Coupled)
  BY HookNames DEF Starts, Couples, Coupled
<1>2. Good(o, v, PutBoth(b, "gatea", "ake"), w, PutBoth(d, "gatea", "ake"))
  BY <1>1, PutBothIsGood
<1>3. b.image.found = d.image.found /\ b.limited = d.limited /\ b.limited \in BOOLEAN
  BY PlacedAlike DEF Build
<1>4. Good(o, v, b1, w, d1)
  BY <1>2, <1>3, OrLimitedIsGood DEF RawReadClassic
<1>5. Good(o, v, b2, w, d2)
  <2> HIDE DEF b1, d1
  <2> QED BY <1>1, <1>4, LeverIsGood
<1> HIDE DEF b2, d2
<1>6. b2.fact = d2.fact
  BY <1>5, PlacedAlike
<1>7. Good(o, v, [b2 EXCEPT !.limited = b.limited], w, [d2 EXCEPT !.limited = d.limited])
  BY <1>3, <1>5, LimitedIsGood
<1>8. Good(o, v, EitherLever(b, b2), w, EitherLever(d, d2))
  BY <1>5, <1>6, <1>7 DEF EitherLever
<1> QED BY <1>8 DEF LeversClassic, b2, d2

LEMMA ClassicIsGood ==
  ASSUME NEW o, IsBare(o), NEW v \in Value, NEW w \in Value
  PROVE  Good(o, v, BuildClassic(o, v), w, BuildClassic(o, w))
<1> DEFINE b == Lever(Lever(Base(o, v), "speed"), "region")
           d == Lever(Lever(Base(o, w), "speed"), "region")
<1>1. Good(o, v, b, w, d)
  BY LeversAreGood
<1> HIDE DEF b, d
<1>2. Good(o, v, LeversClassic(b), w, LeversClassic(d))
  BY <1>1, LeversClassicAreGood
<1>3. {"discInformation", "geometry"} \subseteq Hook \ Starts /\ Couples({"discInformation", "geometry"})
  BY HookNames DEF Starts, Couples
<1>4. Good(o, v, Converted(LeversClassic(b), "classicConversion", "discInformation", "geometry"),
           w, Converted(LeversClassic(d), "classicConversion", "discInformation", "geometry"))
  BY <1>2, <1>3, ConvertedIsGood
<1> QED BY <1>4 DEF BuildClassic, b, d

-----------------------------------------------------------------------------
(* What becomes of a build.  *)

(* A build that is used: whole, or nothing but the downgrade byte.  *)
Usable(b) == Paired(b) /\ (Based(b) \/ b.fact = Unhooked)

LEMMA BuiltIsUsable ==
  ASSUME NEW o, IsBare(o), NEW v \in Value, NEW w \in Value
  PROVE  \/ Built(o, v) = {} /\ Built(o, w) = {}
         \/ \E b, d : Built(o, v) = {b} /\ Built(o, w) = {d} /\ Pair(o, v, b, w, d) /\ Usable(b)
<1> DEFINE b == IF o.engine = "classic" THEN BuildClassic(o, v) ELSE BuildModern(o, v)
           d == IF o.engine = "classic" THEN BuildClassic(o, w) ELSE BuildModern(o, w)
<1>1. Good(o, v, b, w, d)
  BY ClassicIsGood, ModernIsGood
<1>2. b.placed = d.placed
  BY <1>1, PlacedAlike
<1>3. Pair(o, v, Fresh(o), w, Fresh(o)) /\ Usable(Fresh(o))
  <2>1. Usable(Fresh(o))
    BY DEF Usable, Paired, Fresh, Unhooked
  <2> QED BY <2>1, FreshIsAPair
<1>4. b.placed => Usable(b)
  BY <1>1 DEF Good, Usable
<1>5. Built(o, v) = OrDowngradeOnly(o, b) /\ Built(o, w) = OrDowngradeOnly(o, d)
  BY DEF Built
<1> HIDE DEF b, d
<1>6. CASE "base" \in o.found /\ b.placed
  <2>1. Built(o, v) = {b} /\ Built(o, w) = {d}
    BY <1>2, <1>5, <1>6 DEF OrDowngradeOnly
  <2> QED BY <2>1, <1>1, <1>4, <1>6 DEF Good
<1>7. CASE ~("base" \in o.found /\ b.placed)
  <2>1. \/ Built(o, v) = {} /\ Built(o, w) = {}
        \/ Built(o, v) = {Fresh(o)} /\ Built(o, w) = {Fresh(o)}
    BY <1>2, <1>5, <1>7 DEF OrDowngradeOnly
  <2> QED BY <2>1, <1>3
<1> QED BY <1>6, <1>7

LEMMA SupportFacts ==
  ASSUME NEW b, Paired(b), b.fact = b.image.site
  PROVE  /\ SupportOf(b) \in Support /\ IsHooked(b.image, SupportOf(b))
         /\ SupportOf(b).boot <=> b.fact["boot"] # 0
         /\ SupportOf(b).partial => "unrestricted" \in SupportOf(b).features
<1> DEFINE s == SupportOf(b)
<1>1. s \in Support /\ (s.boot <=> b.fact["boot"] # 0)
  BY DEF SupportOf, Support
<1>2. s.partial => "unrestricted" \in s.features
  BY DEF SupportOf, BootFeature
<1>3. ASSUME NEW f \in s.features
      PROVE  \E hooks \in RuledHooks(f) : \A h \in hooks : b.image.site[h] # 0
  <2>1. CASE f = "unrestricted"
    <3>1. \/ b.fact["uhd"] # 0 /\ b.fact["bd"] # 0
          \/ b.fact["auth"] # 0
          \/ b.fact["discInformation"] # 0
      BY <1>3, <2>1 DEF SupportOf
    <3>2. RuledHooks(f) = {{"uhd", "bd"}, {"auth"}, {"discInformation", "geometry"}}
      BY <2>1 DEF RuledHooks
    <3>3. CASE b.fact["uhd"] # 0 /\ b.fact["bd"] # 0
      BY <3>2, <3>3
    <3>4. CASE b.fact["auth"] # 0
      BY <3>2, <3>4
    <3>5. CASE b.fact["discInformation"] # 0
      BY <3>2, <3>5 DEF Paired
    <3> QED BY <3>1, <3>3, <3>4, <3>5
  <2>2. CASE f = "encryption"
    <3>1. b.fact["ake"] # 0 /\ b.fact["gatea"] # 0
      BY <1>3, <2>2 DEF SupportOf, Paired
    <3>2. RuledHooks(f) = {{"ake", "gatea"}}
      BY <2>2 DEF RuledHooks
    <3> QED BY <3>1, <3>2
  <2>3. CASE f # "unrestricted" /\ f # "encryption"
    <3>1. b.fact[f] # 0
      BY <1>3, <2>3 DEF SupportOf
    <3>2. RuledHooks(f) = {{f}}
      BY <2>3 DEF RuledHooks
    <3> QED BY <3>1, <3>2
  <2> QED BY <2>1, <2>2, <2>3
<1> QED BY <1>1, <1>2, <1>3 DEF IsHooked

(* The image of a build with the downgrade byte and the new signature.  *)
Finished(b) == [b EXCEPT !.image = Signed(Downgradeable(@))]

LEMMA FinishedFacts ==
  ASSUME NEW b \in Build
  PROVE  LET image == Finished(b).image
         IN /\ image \in FirmwareImage /\ image.intact
            /\ image.cell = b.image.cell /\ image.site = b.image.site
            /\ image.entries = b.image.entries /\ image.reserved = b.image.reserved
            /\ SupportOf(Finished(b)) = SupportOf(b) /\ Finished(b).fact = b.fact
            /\ Find(image, 1) = Find(b.image, 1)
<1> DEFINE image == Signed(Downgradeable(b.image))
<1>1. b.image \in FirmwareImage
  BY DEF Build
<1>2. /\ image \in FirmwareImage /\ image.intact
      /\ image.cell = b.image.cell /\ image.site = b.image.site
      /\ image.entries = b.image.entries /\ image.reserved = b.image.reserved
  BY <1>1 DEF FirmwareImage, Signed, Downgradeable
<1>3. Finished(b).image = image /\ Finished(b).fact = b.fact
  BY DEF Finished, Build
<1>7. image.found = b.image.found
  BY <1>1 DEF FirmwareImage, Signed, Downgradeable
<1>8. SupportOf(Finished(b)) = SupportOf(b)
  BY <1>3, <1>7 DEF SupportOf
<1> HIDE DEF image
<1>4. ErasedCells(image) = ErasedCells(b.image) /\ Authenticated(image) = Authenticated(b.image)
  BY <1>2 DEF ErasedCells, Authenticated
<1>5. Holes(image, 1) = Holes(b.image, 1)
  BY <1>2, <1>4 DEF Holes
<1>6. Find(image, 1) = Find(b.image, 1)
  BY <1>5 DEF Find
<1> QED BY <1>2, <1>3, <1>6, <1>8

HasSpace(b) == SupportOf(b).boot => Find(b.image, 1) # 0

Written(b, settings) ==
    [holds |-> "record", flags |-> settings.values, support |-> SupportOf(b),
     boot |-> b.fact["boot"], handler |-> b.fact["handler"]]

Output(b, settings) ==
    LET image == Finished(b).image IN
    IF ~SupportOf(b).boot THEN image
    ELSE [image EXCEPT !.cell = [c \in Cell |-> IF c = Find(b.image, 1) THEN Written(b, settings)
                                                ELSE b.image.cell[c]]]

LEMMA OutputsAre ==
  ASSUME NEW b \in Build, NEW settings
  PROVE  Outputs(b, SupportOf(b), settings) = IF HasSpace(b) THEN {Output(b, settings)} ELSE {}
<1> DEFINE f == Finished(b)
<1>1. /\ f.image.cell = b.image.cell /\ Find(f.image, 1) = Find(b.image, 1)
      /\ SupportOf(f) = SupportOf(b) /\ f.fact = b.fact
  BY FinishedFacts
<1>2. Outputs(b, SupportOf(b), settings)
        = IF SupportOf(b).boot THEN Attached(f, settings) ELSE {f.image}
  BY DEF Outputs, Finished
<1> HIDE DEF f
<1>3. Attached(f, settings)
        = IF Find(b.image, 1) = 0 THEN {}
          ELSE {[f.image EXCEPT !.cell = [c \in Cell |-> IF c = Find(b.image, 1) THEN Written(b, settings)
                                                         ELSE b.image.cell[c]]]}
  BY <1>1 DEF Attached, Written
<1> QED BY <1>2, <1>3 DEF HasSpace, Output, f

LEMMA UsableFacts ==
  ASSUME NEW b \in Build, Usable(b), b.fact = b.image.site, NEW o, NEW v, Sane(o, v, b), IsBare(o)
  PROVE  /\ SupportOf(b).boot => b.fact["boot"] \in Cell /\ b.fact["handler"] \in Cell
         /\ ~SupportOf(b).boot => b.image.site = Unhooked
         /\ \A c \in Cell : b.image.cell[c].holds # "record"
<1>1. b.fact \in [Hook -> 0..CodeCells] /\ "boot" \in Hook /\ "handler" \in Hook
  BY HookNames DEF Build
<1>2. SupportOf(b).boot <=> b.fact["boot"] # 0
  BY SupportFacts DEF Usable
<1>3. Unhooked["boot"] = 0
  BY DEF Unhooked
<1>4. \A c \in Cell : b.image.cell[c].holds # "record"
  BY ContentFacts DEF Sane, IsBare
<1> QED BY <1>1, <1>2, <1>3, <1>4, CodeCellsAssumption DEF Usable, Based, Cell

LEMMA OutputFields ==
  ASSUME NEW o, IsBare(o), NEW v \in Value, NEW b, Sane(o, v, b), Usable(b), HasSpace(b),
         NEW settings, settings.values = v
  PROVE  LET x == Output(b, settings)
             at == Find(b.image, 1)
         IN /\ x \in FirmwareImage /\ x.intact /\ x.site = b.image.site
            /\ x.entries = o.entries /\ x.reserved = o.reserved
            /\ SupportOf(b).boot => /\ at \in Cell /\ b.image.cell[at] = Erased
                                    /\ x.cell[at] = Written(b, settings)
            /\ \A c \in Cell : c # at \/ ~SupportOf(b).boot => x.cell[c] = b.image.cell[c]
<1> DEFINE at == Find(b.image, 1)
           image == Finished(b).image
           x == Output(b, settings)
<1>1. b \in Build /\ b.image \in FirmwareImage /\ b.fact = b.image.site /\ SameFrame(b.image, o)
  BY DEF Sane, Build
<1>2. /\ image \in FirmwareImage /\ image.intact
      /\ image.cell = b.image.cell /\ image.site = b.image.site
      /\ image.entries = b.image.entries /\ image.reserved = b.image.reserved
  BY <1>1, FinishedFacts
<1> HIDE DEF image
<1>3. CASE ~SupportOf(b).boot
  <2>1. x = image
    BY <1>3 DEF Output, image
  <2> QED BY <2>1, <1>1, <1>2, <1>3 DEF SameFrame
<1>4. CASE SupportOf(b).boot
  <2>1. at # 0
    BY <1>4 DEF HasSpace
  <2>2. at \in Cell /\ b.image.cell[at] = Erased
    <3>1. at \in Cell /\ at..(at + 1 - 1) \subseteq ErasedCells(b.image)
      BY <1>1, <2>1, FoundIsFree
    <3>2. at \in at..(at + 1 - 1)
      BY <3>1 DEF Cell
    <3> QED BY <3>1, <3>2 DEF ErasedCells
  <2>3. Written(b, settings) \in Content
    <3>1. b.fact["boot"] \in Cell /\ b.fact["handler"] \in Cell
      BY <1>1, <1>4, UsableFacts
    <3>2. SupportOf(b) \in Support
      BY <1>1, SupportFacts DEF Usable
    <3> QED BY <3>1, <3>2 DEF Written, Content
  <2> DEFINE cell == [c \in Cell |-> IF c = at THEN Written(b, settings) ELSE b.image.cell[c]]
  <2>4. cell \in [Cell -> Content]
    BY <2>3, <1>1, ImageFacts
  <2>5. x = [image EXCEPT !.cell = cell]
    BY <1>4 DEF Output, image
  <2> HIDE DEF cell, x
  <2>6. /\ x \in FirmwareImage /\ x.intact /\ x.cell = cell /\ x.site = image.site
        /\ x.entries = image.entries /\ x.reserved = image.reserved
    BY <1>2, <2>4, <2>5 DEF FirmwareImage
  <2>7. /\ x.cell[at] = Written(b, settings)
        /\ \A c \in Cell : c # at => x.cell[c] = b.image.cell[c]
    BY <2>2, <2>6 DEF cell
  <2> HIDE DEF at
  <2>8. x.entries = o.entries /\ x.reserved = o.reserved /\ x.site = b.image.site
    BY <1>1, <1>2, <2>6 DEF SameFrame
  <2> QED BY <1>4, <2>2, <2>6, <2>7, <2>8 DEF x, at
<1> QED BY <1>3, <1>4

(* What a job puts on disk, beside what RecordIsSound adds.  *)
IsReported(origin, image, support, settings) ==
    /\ image.intact /\ HooksAreSafe(image)
    /\ \A c \in Cell : origin.cell[c] = Native => image.cell[c] = Native
    /\ IsHooked(image, support)
    /\ support.boot =>
          /\ image.cell[image.site["boot"]].flags = settings.values
          /\ Cardinality(Record(image)) = 1
          /\ \A record \in Record(image) :
               /\ record.boot = image.site["boot"] /\ record.handler = image.site["handler"]
               /\ record.support = support

(* A setting that would refuse discs is chosen only where it is supported.  *)
Permitted(support, settings) ==
    support.partial => settings.values["unrestricted"] # "off"

LEMMA OutputIsReported ==
  ASSUME NEW o, IsBare(o), IsFiniteSet(o.entries), NEW v \in Value, NEW b, Sane(o, v, b), Usable(b),
         HasSpace(b), NEW settings, settings.values = v
  PROVE  LET x == Output(b, settings)
         IN /\ IsFirmware(x) /\ IsReported(o, x, SupportOf(b), settings) /\ x.entries = o.entries
            /\ (\A record \in Record(x) : RecordIsSound(x, record))
                  <=> (SupportOf(b).boot => Permitted(SupportOf(b), settings))
<1> DEFINE at == Find(b.image, 1)
           x == Output(b, settings)
           s == SupportOf(b)
           record == Written(b, settings)
<1>1. b \in Build /\ b.fact = b.image.site /\ b.image.site \in [Hook -> 0..CodeCells]
      /\ Starts \subseteq Hook /\ "boot" \in Starts /\ "handler" \in Starts
  BY ImageFacts, ContentFacts DEF Sane, Build, Starts
<1>2. /\ x \in FirmwareImage /\ x.intact /\ x.site = b.image.site
      /\ x.entries = o.entries /\ x.reserved = o.reserved
      /\ s.boot => at \in Cell /\ b.image.cell[at] = Erased /\ x.cell[at] = record
      /\ \A c \in Cell : c # at \/ ~s.boot => x.cell[c] = b.image.cell[c]
  BY OutputFields
<1>3. /\ s.boot => b.fact["boot"] \in Cell /\ b.fact["handler"] \in Cell
      /\ ~s.boot => b.image.site = Unhooked
      /\ \A c \in Cell : b.image.cell[c].holds # "record"
  BY <1>1, UsableFacts
<1>4. s \in Support /\ IsHooked(b.image, s) /\ (s.boot <=> b.fact["boot"] # 0)
      /\ (s.partial => "unrestricted" \in s.features)
  BY <1>1, SupportFacts DEF Usable
<1>5. /\ record.holds = "record" /\ record.flags = v /\ record.support = s
      /\ record.boot = b.fact["boot"] /\ record.handler = b.fact["handler"]
  BY DEF Written
<1>6. b.image.entries = o.entries /\ b.image.reserved = o.reserved
  BY DEF Sane, SameFrame
<1> HIDE DEF x, s, record, at
<1>7. ASSUME NEW c \in Cell, b.image.cell[c] # Erased PROVE x.cell[c] = b.image.cell[c]
  BY <1>2, <1>7
<1>8. ASSUME NEW h \in Hook, x.site[h] # 0 PROVE HookIsSafe(x, h)
  <2>1. HookIsSafe(b.image, h) /\ Span(x, h) = Span(b.image, h)
    BY <1>2, <1>8 DEF Sane, Span
  <2>2. ASSUME NEW c \in Span(x, h) PROVE x.cell[c].holds = h
    <3>1. c \in Cell /\ b.image.cell[c].holds = h
      BY <2>1 DEF HookIsSafe
    <3> QED BY <3>1, <1>7, ContentFacts
  <2>3. Authenticated(x) = Authenticated(b.image) /\ x.reserved = b.image.reserved
    BY <1>2, <1>6 DEF Authenticated
  <2> QED BY <2>1, <2>2, <2>3 DEF HookIsSafe
<1>9. HooksAreSafe(x)
  BY <1>8 DEF HooksAreSafe, HookIsSafe
<1>10. ASSUME NEW h \in Starts, x.site[h] # 0
       PROVE  x.site[h] \in Cell /\ x.cell[x.site[h]] = Defaults(h, v)
  <2>1. x.site[h] = b.image.site[h] /\ h \in Hook /\ b.image.site[h] \in 0..CodeCells
    BY <1>1, <1>2
  <2>2. b.image.site[h] \in Cell
    BY <2>1, <1>10, CodeCellsAssumption DEF Cell
  <2>3. b.image.cell[b.image.site[h]] = Defaults(h, v)
    BY <2>1, <1>10 DEF Sane
  <2>4. Defaults(h, v) # Erased
    BY ContentFacts
  <2> QED BY <2>1, <2>2, <2>3, <2>4, <1>7
<1>11. IsHooked(x, s)
  BY <1>2, <1>4 DEF IsHooked
<1>12. Patched(x) \/ x.site = Unhooked
  <2>1. CASE ~s.boot
    BY <2>1, <1>2, <1>3
  <2>2. CASE s.boot
    <3>1. x.site["handler"] # 0
      BY <1>1, <1>2, <1>3, <2>2 DEF Cell
    <3>2. x.site["handler"] \in Cell /\ x.cell[x.site["handler"]].holds = "handler"
      BY <3>1, <1>1, <1>10, ContentFacts
    <3> QED BY <3>2 DEF Patched
  <2> QED BY <2>1, <2>2
<1>13. \A c \in Cell : x.cell[c].holds = "record" <=> s.boot /\ c = at
  BY <1>2, <1>3, <1>5
<1>14. Record(x) = IF s.boot THEN {record} ELSE {}
  BY <1>2, <1>13 DEF Record
<1>15. ASSUME s.boot
       PROVE  /\ x.site["boot"] = record.boot /\ x.site["handler"] = record.handler
              /\ x.cell[x.site["boot"]] = Defaults("boot", v)
              /\ x.cell[x.site["handler"]] = Defaults("handler", v)
  <2>1. x.site["boot"] # 0 /\ x.site["handler"] # 0
    BY <1>1, <1>2, <1>3, <1>15 DEF Cell
  <2> QED BY <2>1, <1>1, <1>2, <1>5, <1>10
<1>16. IsFirmware(x)
  BY <1>2, <1>5, <1>9, <1>11, <1>12, <1>13, <1>14, <1>15 DEF IsFirmware
<1>17. \A c \in Cell : o.cell[c] = Native => x.cell[c] = Native
  BY <1>7, ContentFacts DEF Sane
<1>18. IsReported(o, x, s, settings)
  <2>1. s.boot => Cardinality(Record(x)) = 1
    BY <1>14, FS_Singleton
  <2>2. s.boot => x.cell[x.site["boot"]].flags = settings.values
    BY <1>15 DEF Defaults
  <2> QED BY <2>1, <2>2, <1>2, <1>5, <1>9, <1>11, <1>14, <1>15, <1>17 DEF IsReported
<1>19. (\A r \in Record(x) : RecordIsSound(x, r)) <=> (s.boot => Permitted(s, settings))
  <2>1. s.boot => (RecordIsSound(x, record) <=> Permitted(s, settings))
    BY <1>4, <1>5, <1>15 DEF RecordIsSound, Permitted
  <2> QED BY <2>1, <1>14
<1> QED BY <1>2, <1>16, <1>18, <1>19 DEF x, s

LEMMA FromBuildIs ==
  ASSUME NEW o, IsBare(o), IsFiniteSet(o.entries), NEW v \in Value, NEW b, Sane(o, v, b), Usable(b),
         NEW settings, settings.values = v
  PROVE  FromBuild(o, b, SupportOf(b), settings)
           = IF ~Honours(SupportOf(b), settings)
             THEN NotMade(IF b.limited THEN "noSpace" ELSE "refused")
             ELSE IF ~HasSpace(b) THEN NotMade("noSpace")
             ELSE IF SupportOf(b).boot /\ ~Permitted(SupportOf(b), settings) THEN NotMade("refused")
             ELSE [verdict |-> "made", image |-> Output(b, settings), support |-> SupportOf(b),
                   limited |-> b.limited]
<1> DEFINE s == SupportOf(b)
           x == Output(b, settings)
<1>1. b \in Build
  BY DEF Sane
<1>2. Outputs(b, s, settings) = IF HasSpace(b) THEN {x} ELSE {}
  BY <1>1, OutputsAre
<1>3. HasSpace(b) =>
        Delivered(o, x, s, b.limited)
          = IF s.boot /\ ~Permitted(s, settings) THEN NotMade("refused")
            ELSE [verdict |-> "made", image |-> x, support |-> s, limited |-> b.limited]
  <2> SUFFICES ASSUME HasSpace(b)
               PROVE  Delivered(o, x, s, b.limited)
                        = IF s.boot /\ ~Permitted(s, settings) THEN NotMade("refused")
                          ELSE [verdict |-> "made", image |-> x, support |-> s, limited |-> b.limited]
    OBVIOUS
  <2>1. /\ x.entries = o.entries
        /\ (\A record \in Record(x) : RecordIsSound(x, record)) <=> (s.boot => Permitted(s, settings))
    BY OutputIsReported
  <2>2. MetadataPreserved(o, x)
    BY <2>1 DEF MetadataPreserved
  <2> HIDE DEF x, s
  <2> QED BY <2>1, <2>2 DEF Delivered
<1> HIDE DEF x, s
<1>4. HasSpace(b) => (CHOOSE y \in Outputs(b, s, settings) : TRUE) = x
  BY <1>2
<1>5. FromBuild(o, b, s, settings)
        = IF ~Honours(s, settings) THEN NotMade(IF b.limited THEN "noSpace" ELSE "refused")
          ELSE IF ~HasSpace(b) THEN NotMade("noSpace")
          ELSE Delivered(o, x, s, b.limited)
  BY <1>2, <1>4 DEF FromBuild
<1> QED BY <1>3, <1>5 DEF x, s

(* Two builds that go alike report alike.  *)
LEMMA TwinsReportAlike ==
  ASSUME NEW b, NEW d, Twins(b, d)
  PROVE  SupportOf(b) = SupportOf(d) /\ (HasSpace(b) <=> HasSpace(d)) /\ b.limited = d.limited
<1>1. b.image.found = d.image.found /\ b.fact = d.fact
  BY DEF Twins, SameFrame
<1>2. SupportOf(b) = SupportOf(d)
  BY <1>1 DEF SupportOf
<1>3. Find(b.image, 1) = Find(d.image, 1)
  BY FindIsTheSame DEF Twins
<1> QED BY <1>2, <1>3 DEF HasSpace, Twins

LEMMA NotPatchedIsBare ==
  ASSUME NEW o, IsFirmware(o), Record(o) = {}, ~Patched(o)
  PROVE  IsBare(o) /\ IsFiniteSet(o.entries)
BY DEF IsFirmware, IsBare, Record, Patched

(* What a first attempt on an image without a record makes.  *)
LEMMA BuildIsReported ==
  ASSUME NEW o, IsFirmware(o), Record(o) = {}, NEW settings, settings.values \in Value,
         ModifyOnce(o, settings).verdict = "made"
  PROVE  LET r == ModifyOnce(o, settings)
         IN /\ IsFirmware(r.image) /\ IsReported(o, r.image, r.support, settings)
            /\ Honours(r.support, settings) /\ r.image.entries = o.entries
            /\ \A record \in Record(r.image) : RecordIsSound(r.image, record)
<1> DEFINE r == ModifyOnce(o, settings)
           v == settings.values
<1>1. NotMade("refused").verdict # "made" /\ NotMade("noSpace").verdict # "made"
  BY DEF NotMade
<1>2. ~Patched(o) /\ r = FromBuilds(o, Built(o, v), settings)
  BY <1>1 DEF ModifyOnce
<1>3. IsBare(o) /\ IsFiniteSet(o.entries)
  BY <1>2, NotPatchedIsBare
<1>4. PICK b : Built(o, v) = {b} /\ Sane(o, v, b) /\ Usable(b)
  <2>1. Built(o, v) # {}
    BY <1>1, <1>2 DEF FromBuilds
  <2> QED BY <2>1, <1>3, BuiltIsUsable DEF Pair
<1>5. r = FromBuild(o, b, SupportOf(b), settings)
  BY <1>2, <1>4 DEF FromBuilds
<1> HIDE DEF r, v
<1>6. r.verdict = "made"
  BY DEF r
<1>7. /\ Honours(SupportOf(b), settings) /\ HasSpace(b)
      /\ SupportOf(b).boot => Permitted(SupportOf(b), settings)
      /\ r = [verdict |-> "made", image |-> Output(b, settings), support |-> SupportOf(b),
              limited |-> b.limited]
  BY <1>1, <1>3, <1>4, <1>5, <1>6, FromBuildIs DEF v
<1>8. LET x == Output(b, settings)
      IN /\ IsFirmware(x) /\ IsReported(o, x, SupportOf(b), settings) /\ x.entries = o.entries
         /\ (\A record \in Record(x) : RecordIsSound(x, record))
               <=> (SupportOf(b).boot => Permitted(SupportOf(b), settings))
  BY <1>3, <1>4, <1>7, OutputIsReported DEF v
<1> QED BY <1>7, <1>8 DEF r

(* Setting the flags of a cell that has some.  *)
SetFlags(content, v) ==
    IF "flags" \in DOMAIN content THEN [content EXCEPT !.flags = v] ELSE content

LEMMA SetFlagsFacts ==
  ASSUME NEW content \in Content, NEW v \in Value
  PROVE  LET t == SetFlags(content, v)
         IN /\ t \in Content /\ t.holds = content.holds
            /\ content = Native => t = Native
            /\ content.holds = "record" =>
                 /\ t.flags = v /\ t.support = content.support /\ t.boot = content.boot
                 /\ t.handler = content.handler
            /\ \A hook \in Starts, w \in Value : content = Defaults(hook, w) => t = Defaults(hook, v)
<1> DEFINE t == SetFlags(content, v)
           Plain == {Erased, Native} \cup {Stub(hook) : hook \in Hook}
           Started == [holds : {"handler", "boot"}, flags : Value]
           Records == [holds : {"record"}, flags : Value, support : Support, boot : Cell, handler : Cell]
<1>1. content \in Plain \/ content \in Started \/ content \in Records
  BY DEF Content
<1>2. CASE content \in Plain
  <2>1. content.holds # "record" /\ "flags" \notin DOMAIN content
    BY <1>2, HookNames DEF Erased, Native, Stub
  <2>2. t = content
    BY <2>1 DEF SetFlags
  <2>3. \A hook \in Starts : \A w : content # Defaults(hook, w)
    BY <2>1 DEF Defaults
  <2> QED BY <2>1, <2>2, <2>3
<1>3. CASE content \in Started
  <2>1. t = [holds |-> content.holds, flags |-> v]
    BY <1>3 DEF SetFlags
  <2>2. t \in Started /\ t.holds = content.holds /\ content.holds # "record" /\ content # Native
    BY <1>3, <2>1 DEF Native
  <2>3. \A hook \in Starts, w \in Value : content = Defaults(hook, w) => t = Defaults(hook, v)
    BY <2>1 DEF Defaults
  <2> QED BY <2>2, <2>3 DEF Content
<1>4. CASE content \in Records
  <2>1. t = [content EXCEPT !.flags = v]
    BY <1>4 DEF SetFlags
  <2>2. /\ t \in Records /\ t.holds = content.holds /\ t.flags = v /\ t.support = content.support
        /\ t.boot = content.boot /\ t.handler = content.handler
    BY <1>4, <2>1
  <2>3. content # Native /\ \A hook \in Starts, w \in Value : content # Defaults(hook, w)
    BY <1>4, ContentFacts DEF Starts
  <2> QED BY <2>2, <2>3 DEF Content
<1> QED BY <1>1, <1>2, <1>3, <1>4

Rewritten(o, record, v) ==
    [o EXCEPT !.cell = [c \in Cell |->
        IF c \in {record.boot, record.handler, record.handler + 1} \/ o.cell[c].holds = "record"
        THEN SetFlags(o.cell[c], v) ELSE o.cell[c]]]

LEMMA UpdateIs ==
  ASSUME NEW o \in FirmwareImage, NEW record, NEW settings
  PROVE  Update(o, record, settings)
           = IF ~RecordIsSound(o, record) \/ ~o.intact \/ ~Honours(record.support, settings)
             THEN NotMade("refused")
             ELSE [verdict |-> "made", image |-> Rewritten(o, record, settings.values),
                   support |-> record.support, limited |-> FALSE]
BY DEF Update, Rewritten, SetFlags

LEMMA UpdateIsReported ==
  ASSUME NEW o, IsFirmware(o), Record(o) # {}, NEW settings, settings.values \in Value,
         ModifyOnce(o, settings).verdict = "made"
  PROVE  LET r == ModifyOnce(o, settings)
         IN /\ IsFirmware(r.image) /\ IsReported(o, r.image, r.support, settings)
            /\ Honours(r.support, settings) /\ r.image.entries = o.entries
            /\ Permitted(r.support, settings) =>
                 \A record \in Record(r.image) : RecordIsSound(r.image, record)
            /\ ~r.limited
<1> DEFINE r == ModifyOnce(o, settings)
           v == settings.values
           record == CHOOSE y \in Record(o) : TRUE
           x == Rewritten(o, record, v)
<1>1. o \in FirmwareImage /\ o.cell \in [Cell -> Content] /\ o.site \in [Hook -> 0..CodeCells]
  BY ImageFacts DEF IsFirmware
<1>2. PICK k \in Cell : o.cell[k] = record /\ record.holds = "record"
  <2>1. record \in Record(o)
    OBVIOUS
  <2> HIDE DEF record
  <2> QED BY <2>1 DEF Record
<1>3. record \in Record(o)
  OBVIOUS
<1>4. /\ RecordIsSound(o, record) /\ o.intact /\ Honours(record.support, settings)
      /\ r = [verdict |-> "made", image |-> x, support |-> record.support, limited |-> FALSE]
  <2>1. NotMade("refused").verdict # "made"
    BY DEF NotMade
  <2>2. r = Update(o, record, settings)
    BY <2>1 DEF ModifyOnce
  <2>3. r.verdict = "made"
    OBVIOUS
  <2> HIDE DEF r, record
  <2> QED BY <2>1, <2>2, <2>3, <1>1, UpdateIs DEF v
<1> HIDE DEF r, record, v
<1>5. /\ record.boot = o.site["boot"] /\ record.handler = o.site["handler"]
      /\ record.support.boot /\ IsHooked(o, record.support)
  BY <1>3 DEF IsFirmware
<1>6. v \in Value /\ "boot" \in Starts /\ "handler" \in Starts /\ Starts \subseteq Hook
  BY ContentFacts DEF v, Starts
<1>7. record \in Content /\ record.boot \in Cell /\ record.handler \in Cell /\ record.flags \in Value
  <2>1. record \in Content
    BY <1>1, <1>2
  <2> QED BY <2>1, <1>2, HookNames DEF Content, Erased, Native, Stub
<1> DEFINE cell == [c \in Cell |->
        IF c \in {record.boot, record.handler, record.handler + 1} \/ o.cell[c].holds = "record"
        THEN SetFlags(o.cell[c], v) ELSE o.cell[c]]
<1>8. cell \in [Cell -> Content]
  BY <1>1, <1>6, SetFlagsFacts
<1>9. x = [o EXCEPT !.cell = cell]
  BY DEF Rewritten
<1> HIDE DEF x
<1>10. /\ x \in FirmwareImage /\ x.cell = cell /\ x.site = o.site /\ x.entries = o.entries
       /\ x.reserved = o.reserved /\ x.intact = o.intact
  <2> HIDE DEF cell
  <2> QED BY <1>1, <1>8, <1>9 DEF FirmwareImage
<1>11. ASSUME NEW c \in Cell
       PROVE  /\ x.cell[c].holds = o.cell[c].holds
              /\ o.cell[c] = Native => x.cell[c] = Native
              /\ o.cell[c].holds = "record" => x.cell[c] = SetFlags(o.cell[c], v)
              /\ c \in {record.boot, record.handler} => x.cell[c] = SetFlags(o.cell[c], v)
  <2>1. o.cell[c] \in Content
    BY <1>1
  <2> QED BY <2>1, <1>6, <1>10, SetFlagsFacts
<1>12. HooksAreSafe(x)
  <2>1. Authenticated(x) = Authenticated(o)
    BY <1>10 DEF Authenticated
  <2>2. \A h : Span(x, h) = Span(o, h)
    BY <1>10 DEF Span
  <2> QED BY <2>1, <2>2, <1>10, <1>11 DEF HooksAreSafe, IsFirmware
<1>13. Record(x) = {SetFlags(record, v)}
  <2>1. \A c \in Cell : o.cell[c].holds = "record" => c = k
    BY <1>2 DEF IsFirmware
  <2>2. \A c \in Cell : x.cell[c].holds = "record" <=> c = k
    BY <2>1, <1>2, <1>11
  <2>3. x.cell[k] = SetFlags(record, v)
    BY <1>2, <1>11
  <2> QED BY <2>2, <2>3 DEF Record
<1> DEFINE y == SetFlags(record, v)
<1>14. /\ y.flags = v /\ y.support = record.support /\ y.boot = record.boot
       /\ y.handler = record.handler
  BY <1>2, <1>6, <1>7, SetFlagsFacts
<1> HIDE DEF y
<1>15. IsHooked(x, record.support)
  BY <1>5, <1>10 DEF IsHooked
<1>16. x.cell[record.boot] = Defaults("boot", v) /\ x.cell[record.handler] = Defaults("handler", v)
  <2>1. o.cell[record.boot] = Defaults("boot", record.flags)
        /\ o.cell[record.handler] = Defaults("handler", record.flags)
    BY <1>4 DEF RecordIsSound
  <2>2. o.cell[record.boot] \in Content /\ o.cell[record.handler] \in Content
    BY <1>1, <1>7
  <2>3. SetFlags(o.cell[record.boot], v) = Defaults("boot", v)
    BY <2>1, <2>2, <1>6, <1>7, SetFlagsFacts
  <2>4. SetFlags(o.cell[record.handler], v) = Defaults("handler", v)
    BY <2>1, <2>2, <1>6, <1>7, SetFlagsFacts
  <2> QED BY <2>3, <2>4, <1>7, <1>11
<1>17. Patched(x) \/ x.site = Unhooked
  <2>1. Patched(o) \/ o.site = Unhooked
    BY DEF IsFirmware
  <2> QED BY <2>1, <1>10, <1>11 DEF Patched
<1>18. IsFirmware(x)
  <2>1. \A c, d \in Cell : x.cell[c].holds = "record" /\ x.cell[d].holds = "record" => c = d
    BY <1>11 DEF IsFirmware
  <2>2. IsFiniteSet(x.entries)
    BY <1>10 DEF IsFirmware
  <2>3. \A z \in Record(x) :
          /\ z.boot = x.site["boot"] /\ z.handler = x.site["handler"]
          /\ z.support.boot /\ IsHooked(x, z.support)
    BY <1>5, <1>10, <1>13, <1>14, <1>15 DEF y
  <2> QED BY <2>1, <2>2, <2>3, <1>10, <1>12, <1>17 DEF IsFirmware
<1>19. IsReported(o, x, record.support, settings)
  <2>1. Cardinality(Record(x)) = 1
    BY <1>13, FS_Singleton
  <2>2. x.cell[x.site["boot"]].flags = settings.values
    BY <1>5, <1>10, <1>16 DEF Defaults, v
  <2>3. \A z \in Record(x) : z.boot = x.site["boot"] /\ z.handler = x.site["handler"]
                             /\ z.support = record.support
    BY <1>5, <1>10, <1>13, <1>14 DEF y
  <2> QED BY <2>1, <2>2, <2>3, <1>4, <1>10, <1>11, <1>12, <1>15 DEF IsReported
<1>20. ASSUME Permitted(record.support, settings), NEW z \in Record(x)
       PROVE  RecordIsSound(x, z)
  <2>1. z = y
    BY <1>13 DEF y
  <2>2. record.support.partial => "unrestricted" \in record.support.features
    BY <1>4 DEF RecordIsSound
  <2> QED BY <2>1, <2>2, <1>14, <1>16, <1>20 DEF RecordIsSound, Permitted, v
<1> QED BY <1>4, <1>10, <1>18, <1>19, <1>20 DEF r


-----------------------------------------------------------------------------
(* The second attempt.  *)

LEMMA FirstEntryExists ==
  ASSUME NEW entries \in SUBSET Entry, entries # {}
  PROVE  \E e \in entries : \A other \in entries : e.index <= other.index
<1>1. \A e \in entries : e.index \in Nat
  BY DEF Entry
<1>2. PICK some \in entries : TRUE
  OBVIOUS
<1> DEFINE indices == {n \in 0..some.index : \E e \in entries : e.index = n}
<1>3. some.index \in indices /\ indices \in SUBSET Int /\ IsFiniteSet(indices)
  <2>1. IsFiniteSet(0..some.index) /\ indices \subseteq 0..some.index
    BY <1>1, FS_Interval
  <2>2. IsFiniteSet(indices)
    BY <2>1, FS_Subset
  <2> QED BY <1>1, <2>2
<1>4. PICK n \in indices : \A m \in indices : n <= m
  BY <1>3, LeastExists
<1>5. PICK e \in entries : e.index = n
  OBVIOUS
<1>6. ASSUME NEW other \in entries PROVE e.index <= other.index
  <2>1. other.index \in Nat /\ some.index \in Nat /\ n \in Nat /\ n <= some.index
    BY <1>1
  <2>2. CASE other.index <= some.index
    BY <2>1, <2>2, <1>4, <1>5
  <2>3. CASE ~(other.index <= some.index)
    BY <2>1, <2>3, <1>5
  <2> QED BY <2>2, <2>3
<1> QED BY <1>6

(* Only the end of one entry changes, and only of an image nothing was put into. *)
LEMMA ExtendedIsFirmware ==
  ASSUME NEW o, IsFirmware(o), NEW e \in Extended(o)
  PROVE  /\ IsFirmware(e) /\ ~Patched(o) /\ ~Patched(e) /\ e.cell = o.cell /\ Record(e) = Record(o)
         /\ Extended(o) = {e}
<1> DEFINE run == FirstOfLargest(Reachable(o))
           prolonging == {x \in o.entries : Prolongs(o, x, run)}
           entry == CHOOSE x \in prolonging : \A other \in prolonging : x.index <= other.index
           longer == [entry EXCEPT !.last = Sets!Max(run)]
           entries == (o.entries \ {entry}) \cup {longer}
<1>1. o \in FirmwareImage /\ o.entries \in SUBSET Entry /\ IsFiniteSet(o.entries)
  BY ImageFacts DEF IsFirmware
<1>2. /\ ~Patched(o) /\ Reachable(o) # {}
      /\ Extended(o) = {[o EXCEPT !.entries = entries]}
  BY DEF Extended
<1>3. ErasedCells(o) \in SUBSET Cell
  BY DEF ErasedCells
<1>4. \A x \in Reachable(o) : IsHole(x)
  BY <1>3, StretchesAreHoles DEF Reachable
<1>5. run \in Reachable(o) /\ IsHole(run)
  BY <1>2, <1>4, FirstOfLargestExists
<1>6. prolonging # {}
  <2> HIDE DEF run
  <2> QED BY <1>5 DEF Reachable
<1>7. entry \in prolonging
  <2>1. \E x \in prolonging : \A other \in prolonging : x.index <= other.index
    <3>1. prolonging \in SUBSET Entry
      BY <1>1
    <3> HIDE DEF prolonging
    <3> QED BY <3>1, <1>6, FirstEntryExists
  <2> HIDE DEF prolonging
  <2> QED BY <2>1
<1>8. Sets!Max(run) \in Cell
  BY <1>5, HoleFacts DEF IsHole
<1> HIDE DEF run
<1>9. entry \in Entry
  BY <1>1, <1>7
<1> HIDE DEF entry
<1>10. longer \in Entry
  BY <1>8, <1>9 DEF Entry
<1> HIDE DEF longer
<1>11. entries \in SUBSET Entry /\ IsFiniteSet(entries)
  <2>1. entries \in SUBSET Entry
    BY <1>1, <1>10
  <2>2. IsFiniteSet(o.entries \ {entry})
    BY <1>1, FS_Subset
  <2> QED BY <2>1, <2>2, FS_AddElement
<1>12. e = [o EXCEPT !.entries = entries] /\ Extended(o) = {e}
  BY <1>2
<1> HIDE DEF entries
<1>13. /\ e \in FirmwareImage /\ e.entries = entries /\ e.cell = o.cell /\ e.site = o.site
  BY <1>1, <1>11, <1>12 DEF FirmwareImage
<1>14. Patched(e) = Patched(o) /\ Record(e) = Record(o)
  BY <1>13 DEF Patched, Record
<1>15. e.site = Unhooked
  BY <1>2, <1>13 DEF IsFirmware
<1>16. HooksAreSafe(e)
  <2>1. \A hook \in Hook : Unhooked[hook] = 0
    BY HookNames DEF Unhooked
  <2> QED BY <2>1, <1>15 DEF HooksAreSafe
<1>17. \A c, d \in Cell : e.cell[c].holds = "record" /\ e.cell[d].holds = "record" => c = d
  BY <1>13 DEF IsFirmware
<1>18. \A record \in Record(e) :
         /\ record.boot = e.site["boot"] /\ record.handler = e.site["handler"]
         /\ record.support.boot /\ IsHooked(e, record.support)
  BY <1>13, <1>14 DEF IsFirmware, IsHooked
<1>19. IsFirmware(e)
  BY <1>11, <1>13, <1>15, <1>16, <1>17, <1>18 DEF IsFirmware
<1> QED BY <1>2, <1>12, <1>13, <1>14, <1>19

(* What one attempt makes.  *)
LEMMA OnceIsReported ==
  ASSUME NEW o, IsFirmware(o), NEW settings, settings.values \in Value,
         ModifyOnce(o, settings).verdict = "made"
  PROVE  LET r == ModifyOnce(o, settings)
         IN /\ IsFirmware(r.image) /\ IsReported(o, r.image, r.support, settings)
            /\ Honours(r.support, settings) /\ r.image.entries = o.entries
            /\ Record(o) = {} \/ Permitted(r.support, settings) =>
                 \A record \in Record(r.image) : RecordIsSound(r.image, record)
<1>1. CASE Record(o) = {}
  BY <1>1, BuildIsReported
<1>2. CASE Record(o) # {}
  BY <1>2, UpdateIsReported
<1> QED BY <1>1, <1>2

(* An image with a record has no second attempt.  *)
LEMMA UpdatedAtOnce ==
  ASSUME NEW o, IsFirmware(o), Record(o) # {}, NEW settings
  PROVE  /\ Modified(o, settings) = ModifyOnce(o, settings)
         /\ ModifyOnce(o, settings) \in {NotMade("refused")}
            \/ ModifyOnce(o, settings) = Update(o, CHOOSE r \in Record(o) : TRUE, settings)
<1> DEFINE first == ModifyOnce(o, settings)
           record == CHOOSE r \in Record(o) : TRUE
<1>1. first = NotMade("refused") \/ first = Update(o, record, settings)
  BY DEF ModifyOnce
<1>2. NotMade("refused").verdict = "refused"
  BY DEF NotMade
<1>3. Update(o, record, settings).verdict = "made" => ~Update(o, record, settings).limited
  <2> HIDE DEF record
  <2>1. o \in FirmwareImage
    BY DEF IsFirmware
  <2> QED BY <2>1, <1>2, UpdateIs
<1>4. Update(o, record, settings).verdict \in {"made", "refused"}
  <2> HIDE DEF record
  <2>1. o \in FirmwareImage
    BY DEF IsFirmware
  <2> QED BY <2>1, <1>2, UpdateIs
<1> HIDE DEF first, record
<1>5. first.verdict # "noSpace" /\ (first.verdict = "made" => ~first.limited)
  BY <1>1, <1>2, <1>3, <1>4
<1>6. Retried(o, first, Extended(o), settings) = first
  BY <1>5 DEF Retried
<1> QED BY <1>1, <1>6 DEF Modified, first, record

LEMMA ModifiedIsReported ==
  ASSUME NEW o, IsFirmware(o), NEW settings, settings.values \in Value,
         Modified(o, settings).verdict = "made"
  PROVE  LET r == Modified(o, settings)
         IN /\ IsFirmware(r.image) /\ IsReported(o, r.image, r.support, settings)
            /\ Honours(r.support, settings)
            /\ Record(o) = {} \/ Permitted(r.support, settings) =>
                 \A record \in Record(r.image) : RecordIsSound(r.image, record)
<1> DEFINE r == Modified(o, settings)
           first == ModifyOnce(o, settings)
<1>1. CASE r = first
  BY <1>1, OnceIsReported
<1>2. CASE r # first
  <2> DEFINE e == CHOOSE x \in Extended(o) : TRUE
             again == ModifyOnce(e, settings)
  <2>1. Extended(o) # {} /\ r = Again(o, again) /\ r.verdict = "made"
    BY <1>2 DEF Modified, Retried
  <2>2. e \in Extended(o)
    BY <2>1
  <2> HIDE DEF e, r, first
  <2>3. IsFirmware(e) /\ e.cell = o.cell /\ Record(e) = Record(o)
    BY <2>2, ExtendedIsFirmware
  <2>4. r = again
    BY <2>1 DEF Again, NotMade
  <2>5. /\ IsFirmware(r.image) /\ IsReported(e, r.image, r.support, settings)
        /\ Honours(r.support, settings)
        /\ Record(e) = {} \/ Permitted(r.support, settings) =>
             \A record \in Record(r.image) : RecordIsSound(r.image, record)
    BY <2>1, <2>3, <2>4, OnceIsReported
  <2>6. IsReported(o, r.image, r.support, settings)
    BY <2>3, <2>5 DEF IsReported
  <2> QED BY <2>3, <2>5, <2>6 DEF r
<1> QED BY <1>1, <1>2

(* Settings in which no disc is refused but by explicit choice.  *)
Chosen(settings) ==
    settings.values["unrestricted"] = "off" => "unrestricted" \in settings.explicit

LEMMA StandardFacts ==
  /\ Standard.values \in Value /\ Standard.explicit = {} /\ Chosen(Standard)
  /\ \A support : Honours(support, Standard) /\ Permitted(support, Standard)
<1>1. Standard.values \in Value /\ Standard.explicit = {} /\ Standard.values["unrestricted"] = "on"
  BY DEF Standard, Value, BootFeature
<1> QED BY <1>1 DEF Chosen, Honours, Permitted

LEMMA HonouredIsPermitted ==
  ASSUME NEW support, NEW settings, Honours(support, settings), Chosen(settings)
  PROVE  Permitted(support, settings)
BY DEF Honours, Chosen, Permitted, SupportsValue

(* The attempt with the settings of a form goes as the disposable one with  *)
(* the standard settings.                                                   *)
LEMMA OnceAlike ==
  ASSUME NEW o, IsFirmware(o), Record(o) = {}, NEW settings, settings.values \in Value,
         Chosen(settings)
  PROVE  LET p == ModifyOnce(o, Standard)
             q == ModifyOnce(o, settings)
         IN /\ p.verdict = "made" /\ Honours(p.support, settings) =>
                 q.verdict = "made" /\ q.limited = p.limited
            /\ p.verdict = "made" /\ ~Honours(p.support, settings) =>
                 q = NotMade(IF p.limited THEN "noSpace" ELSE "refused")
            /\ p.verdict = "noSpace" =>
                 q.verdict = "noSpace" \/ (q.verdict = "refused" /\ settings.explicit # {})
            /\ p.verdict \in {"made", "refused", "noSpace"}
<1> DEFINE p == ModifyOnce(o, Standard)
           q == ModifyOnce(o, settings)
           v == Standard.values
           w == settings.values
<1>1. NotMade("refused").verdict = "refused" /\ NotMade("noSpace").verdict = "noSpace"
  BY DEF NotMade
<1>2. CASE o.sort = "driveRead" \/ Patched(o)
  <2>1. p = NotMade("refused")
    BY <1>2 DEF ModifyOnce
  <2> QED BY <2>1, <1>1
<1>3. CASE o.sort # "driveRead" /\ ~Patched(o)
  <2>1. /\ p = FromBuilds(o, Built(o, v), Standard)
        /\ q = FromBuilds(o, Built(o, w), settings)
    BY <1>3 DEF ModifyOnce
  <2>2. IsBare(o) /\ IsFiniteSet(o.entries) /\ v \in Value /\ w \in Value
    BY <1>3, NotPatchedIsBare, StandardFacts
  <2> HIDE DEF p, q, v, w
  <2>3. CASE Built(o, v) = {} /\ Built(o, w) = {}
    <3>1. p = q /\ p \in {NotMade("refused"), NotMade("noSpace")}
      BY <2>1, <2>3 DEF FromBuilds
    <3> QED BY <3>1, <1>1 DEF p, q
  <2>4. CASE \E b, d : Built(o, v) = {b} /\ Built(o, w) = {d} /\ Pair(o, v, b, w, d) /\ Usable(b)
    <3>1. PICK b, d : Built(o, v) = {b} /\ Built(o, w) = {d} /\ Pair(o, v, b, w, d) /\ Usable(b)
      BY <2>4
    <3>2. Sane(o, v, b) /\ Sane(o, w, d) /\ Usable(d)
      BY <3>1 DEF Pair, Twins, Usable, Based, Paired
    <3> DEFINE s == SupportOf(b)
    <3>3. SupportOf(d) = s /\ (HasSpace(b) <=> HasSpace(d)) /\ b.limited = d.limited
      BY <3>1, TwinsReportAlike DEF Pair
    <3>4. p = FromBuild(o, b, s, Standard) /\ q = FromBuild(o, d, s, settings)
      BY <2>1, <3>1, <3>3 DEF FromBuilds
    <3> HIDE DEF s
    <3>5. p = IF ~HasSpace(b) THEN NotMade("noSpace")
              ELSE [verdict |-> "made", image |-> Output(b, Standard), support |-> s,
                    limited |-> b.limited]
      <4>1. Standard.values = v /\ Honours(s, Standard) /\ Permitted(s, Standard)
        BY StandardFacts DEF v
      <4>2. p = IF ~Honours(s, Standard) THEN NotMade(IF b.limited THEN "noSpace" ELSE "refused")
                ELSE IF ~HasSpace(b) THEN NotMade("noSpace")
                ELSE IF s.boot /\ ~Permitted(s, Standard) THEN NotMade("refused")
                ELSE [verdict |-> "made", image |-> Output(b, Standard), support |-> s,
                      limited |-> b.limited]
        <5>1. SupportOf(b) = s
          BY DEF s
        <5>2. IsBare(o) /\ IsFiniteSet(o.entries) /\ v \in Value /\ Sane(o, v, b) /\ Usable(b)
          BY <2>2, <3>2, <3>1
        <5>3. p = FromBuild(o, b, s, Standard)
          BY <3>4
        <5> QED BY <5>1, <5>2, <5>3, <4>1, FromBuildIs
      <4> QED BY <4>1, <4>2
    <3>6. q = IF ~Honours(s, settings) THEN NotMade(IF b.limited THEN "noSpace" ELSE "refused")
              ELSE IF ~HasSpace(b) THEN NotMade("noSpace")
              ELSE IF s.boot /\ ~Permitted(s, settings) THEN NotMade("refused")
              ELSE [verdict |-> "made", image |-> Output(d, settings), support |-> s,
                    limited |-> b.limited]
      <4>1. SupportOf(d) = s
        BY <3>3
      <4> QED BY <4>1, <2>2, <3>2, <3>3, <3>4, FromBuildIs DEF w
    <3>7. Honours(s, settings) => Permitted(s, settings)
      BY HonouredIsPermitted
    <3>8. ~Honours(s, settings) => settings.explicit # {}
      BY DEF Honours
    <3>9. CASE HasSpace(b)
      <4>1. p.verdict = "made" /\ p.support = s /\ p.limited = b.limited
        BY <3>5, <3>9
      <4>2. Honours(s, settings) => q.verdict = "made" /\ q.limited = b.limited
        BY <3>6, <3>7, <3>9
      <4> QED BY <4>1, <4>2, <3>6 DEF p, q
    <3>10. CASE ~HasSpace(b)
      <4>1. p.verdict = "noSpace"
        BY <3>5, <3>10, <1>1
      <4>2. q.verdict = "noSpace" \/ (q.verdict = "refused" /\ settings.explicit # {})
        BY <3>6, <3>8, <3>10, <1>1
      <4> QED BY <4>1, <4>2 DEF p, q
    <3> QED BY <3>9, <3>10
  <2> QED BY <2>2, <2>3, <2>4, BuiltIsUsable
<1> QED BY <1>2, <1>3

(* What a disposable build supports is built, with the one exception.  *)
LEMMA OfferedIsBuilt ==
  ASSUME NEW o, IsFirmware(o), Record(o) = {}, NEW settings, settings.values \in Value,
         Chosen(settings), Modified(o, Standard).verdict = "made",
         Honours(Modified(o, Standard).support, settings)
  PROVE  \/ Modified(o, settings).verdict = "made"
         \/ /\ Modified(o, settings).verdict = "refused" /\ settings.explicit # {}
            /\ ModifyOnce(o, Standard).verdict = "noSpace"
<1> DEFINE p == ModifyOnce(o, Standard)
           q == ModifyOnce(o, settings)
           retries == Extended(o)
           e == CHOOSE x \in retries : TRUE
           p2 == ModifyOnce(e, Standard)
           q2 == ModifyOnce(e, settings)
           short(r) == r.verdict = "noSpace" \/ (r.verdict = "made" /\ r.limited)
           m == Modified(o, Standard)
           n == Modified(o, settings)
<1>1. /\ m = IF ~short(p) \/ retries = {} THEN p ELSE Again(o, p2)
      /\ n = IF ~short(q) \/ retries = {} THEN q ELSE Again(o, q2)
  <2> HIDE DEF p, q, p2, q2
  <2>1. m = Retried(o, p, retries, Standard) /\ n = Retried(o, q, retries, settings)
    BY DEF Modified, p, q
  <2>2. Retried(o, p, retries, Standard)
          = IF ~short(p) \/ retries = {} THEN p ELSE Again(o, p2)
    BY DEF Retried, p2
  <2>3. Retried(o, q, retries, settings)
          = IF ~short(q) \/ retries = {} THEN q ELSE Again(o, q2)
    BY DEF Retried, q2
  <2> HIDE DEF retries, m, n
  <2> QED BY <2>1, <2>2, <2>3
<1>2. /\ p.verdict = "made" /\ Honours(p.support, settings) =>
           q.verdict = "made" /\ q.limited = p.limited
      /\ p.verdict = "made" /\ ~Honours(p.support, settings) =>
           q = NotMade(IF p.limited THEN "noSpace" ELSE "refused")
      /\ p.verdict = "noSpace" =>
           q.verdict = "noSpace" \/ (q.verdict = "refused" /\ settings.explicit # {})
      /\ p.verdict \in {"made", "refused", "noSpace"}
  BY OnceAlike
<1>3. NotMade("refused").verdict = "refused" /\ NotMade("noSpace").verdict = "noSpace"
  BY DEF NotMade
<1>4. m.verdict = "made" /\ Honours(m.support, settings)
  OBVIOUS
<1>5. ASSUME short(p), retries # {} PROVE Again(o, q2).verdict = "made"
  <2>1. e \in Extended(o)
    BY <1>5
  <2>2. m = Again(o, p2)
    BY <1>1, <1>5
  <2> HIDE DEF e, m
  <2>3. IsFirmware(e) /\ Record(e) = {}
    BY <2>1, ExtendedIsFirmware
  <2>4. p2.verdict = "made" /\ Honours(p2.support, settings)
    BY <2>2, <1>4 DEF Again, NotMade
  <2>5. q2.verdict = "made"
    BY <2>3, <2>4, OnceAlike
  <2>6. q2.image.entries = e.entries
    BY <2>3, <2>5, OnceIsReported
  <2> QED BY <2>1, <2>5, <2>6 DEF Again, MetadataPreserved
<1> HIDE DEF p, q, p2, q2, m, n, e, retries
<1>6. CASE retries = {} \/ ~short(p)
  <2>1. p = m
    BY <1>1, <1>6
  <2>2. q.verdict = "made" /\ q.limited = p.limited
    BY <2>1, <1>2, <1>4
  <2>3. n = q
    BY <2>1, <2>2, <1>1, <1>4, <1>6
  <2> QED BY <2>2, <2>3 DEF n
<1>7. CASE retries # {} /\ short(p)
  <2>1. CASE short(q)
    BY <2>1, <1>1, <1>5, <1>7 DEF n
  <2>2. CASE ~short(q)
    <3>1. n = q
      BY <2>2, <1>1
    <3>2. p.verdict # "made"
      <4> SUFFICES ASSUME p.verdict = "made" PROVE FALSE
        OBVIOUS
      <4>1. p.limited
        BY <1>7
      <4>2. CASE Honours(p.support, settings)
        BY <4>1, <4>2, <1>2, <2>2
      <4>3. CASE ~Honours(p.support, settings)
        BY <4>1, <4>3, <1>2, <1>3, <2>2
      <4> QED BY <4>2, <4>3
    <3>3. p.verdict = "noSpace" /\ q.verdict = "refused" /\ settings.explicit # {}
      <4>1. p.verdict = "noSpace"
        BY <3>2, <1>7
      <4>2. q.verdict = "noSpace" \/ (q.verdict = "refused" /\ settings.explicit # {})
        BY <4>1, <1>2
      <4>3. q.verdict # "noSpace"
        BY <2>2
      <4> QED BY <4>1, <4>2, <4>3
    <3> QED BY <3>1, <3>3 DEF n, p
  <2> QED BY <2>1, <2>2
<1> QED BY <1>6, <1>7

-----------------------------------------------------------------------------
(* The form.  *)

(* Settings a form may show for an image.  *)
Offered(seen, settings) ==
    /\ IsFirmware(seen) /\ BootOptions(seen).verdict = "made"
    /\ settings.values \in Value
    /\ Permitted(BootOptions(seen).support, settings)
    /\ Record(seen) = {} => Chosen(settings)

LEMMA OptionsOfABuild ==
  ASSUME NEW o, Record(o) = {}
  PROVE  /\ BootOptions(o).verdict = Modified(o, Standard).verdict
         /\ BootOptions(o).verdict = "made" =>
              /\ BootOptions(o).support = Modified(o, Standard).support
              /\ BootOptions(o).settings = Standard
BY DEF BootOptions, FormOptions, NotMade

LEMMA OptionsOfARecord ==
  ASSUME NEW o, IsFirmware(o), Record(o) # {}, BootOptions(o).verdict = "made"
  PROVE  LET record == CHOOSE r \in Record(o) : TRUE
         IN /\ BootOptions(o).support = record.support
            /\ BootOptions(o).settings = [values |-> record.flags, explicit |-> {}]
            /\ RecordIsSound(o, record) /\ o.intact /\ record.flags \in Value
<1> DEFINE record == CHOOSE r \in Record(o) : TRUE
<1>1. record \in Record(o)
  OBVIOUS
<1>2. BootOptions(o)
        = IF RecordIsSound(o, record) /\ o.intact
          THEN [verdict |-> "made", support |-> record.support,
                settings |-> [values |-> record.flags, explicit |-> {}]]
          ELSE NotMade("refused")
  BY DEF BootOptions
<1> HIDE DEF record
<1>3. RecordIsSound(o, record) /\ o.intact
  BY <1>2 DEF NotMade
<1>4. PICK k \in Cell : o.cell[k] = record /\ record.holds = "record"
  BY <1>1 DEF Record
<1>5. record \in Content
  BY <1>4, ImageFacts DEF IsFirmware
<1>6. record.flags \in Value
  BY <1>4, <1>5, HookNames DEF Content, Erased, Native, Stub
<1> QED BY <1>2, <1>3, <1>6 DEF record

LEMMA OptionsAreOffered ==
  ASSUME NEW o, IsFirmware(o), BootOptions(o).verdict = "made"
  PROVE  Offered(o, BootOptions(o).settings) /\ Offered(o, Standard)
<1>1. Offered(o, Standard)
  BY StandardFacts DEF Offered
<1>2. CASE Record(o) = {}
  BY <1>1, <1>2, OptionsOfABuild
<1>3. CASE Record(o) # {}
  <2> DEFINE record == CHOOSE r \in Record(o) : TRUE
             options == BootOptions(o)
  <2>1. /\ options.support = record.support /\ RecordIsSound(o, record)
        /\ options.settings = [values |-> record.flags, explicit |-> {}] /\ record.flags \in Value
    BY <1>3, OptionsOfARecord
  <2> HIDE DEF record
  <2>2. Permitted(options.support, options.settings)
    BY <2>1 DEF Permitted, RecordIsSound
  <2>3. options.settings.values \in Value
    BY <2>1
  <2>4. Offered(o, options.settings)
    BY <2>2, <2>3, <1>3 DEF Offered
  <2> QED BY <2>4, <1>1
<1> QED BY <1>1, <1>2, <1>3

(* What the job makes of the file, whichever that is by then.  *)
LEMMA JobDelivers ==
  ASSUME NEW o, IsFirmware(o), NEW seen, NEW settings, Offered(seen, settings),
         Modified(o, settings).verdict = "made"
  PROVE  LET r == Modified(o, settings)
         IN /\ IsFirmware(r.image) /\ IsReported(o, r.image, r.support, settings)
            /\ Honours(r.support, settings)
            /\ o = seen => \A record \in Record(r.image) : RecordIsSound(r.image, record)
<1> DEFINE r == Modified(o, settings)
<1>1. /\ IsFirmware(r.image) /\ IsReported(o, r.image, r.support, settings)
      /\ Honours(r.support, settings)
      /\ Record(o) = {} \/ Permitted(r.support, settings) =>
           \A record \in Record(r.image) : RecordIsSound(r.image, record)
  BY ModifiedIsReported DEF Offered
<1>2. ASSUME o = seen, Record(o) # {} PROVE Permitted(r.support, settings)
  <2> DEFINE record == CHOOSE x \in Record(o) : TRUE
  <2>1. r = Update(o, record, settings)
    <3>1. NotMade("refused").verdict # "made"
      BY DEF NotMade
    <3> QED BY <3>1, <1>2, UpdatedAtOnce
  <2>2. BootOptions(o).support = record.support
    BY <1>2, OptionsOfARecord DEF Offered
  <2> HIDE DEF record
  <2>3. r.support = record.support
    <3>1. o \in FirmwareImage /\ r.verdict = "made"
      BY DEF IsFirmware
    <3> QED BY <3>1, <2>1, UpdateIs DEF NotMade
  <2> QED BY <2>2, <2>3, <1>2 DEF Offered
<1> QED BY <1>1, <1>2

(* And when it makes nothing of the file that was shown.  *)
LEMMA JobFails ==
  ASSUME NEW seen, NEW settings, Offered(seen, settings),
         Honours(BootOptions(seen).support, settings),
         Modified(seen, settings).verdict # "made"
  PROVE  /\ Modified(seen, settings).verdict = "refused"
         /\ \/ seen.sort = "driveRead" /\ Record(seen) # {}
            \/ /\ settings.explicit # {} /\ Record(seen) = {}
               /\ ModifyOnce(seen, Standard).verdict = "noSpace"
<1>1. CASE Record(seen) = {}
  <2>1. /\ Modified(seen, Standard).verdict = "made"
        /\ Honours(Modified(seen, Standard).support, settings)
    BY <1>1, OptionsOfABuild DEF Offered
  <2> QED BY <1>1, <2>1, OfferedIsBuilt DEF Offered
<1>2. CASE Record(seen) # {}
  <2> DEFINE record == CHOOSE x \in Record(seen) : TRUE
  <2>1. /\ BootOptions(seen).support = record.support /\ RecordIsSound(seen, record) /\ seen.intact
    BY <1>2, OptionsOfARecord DEF Offered
  <2>2. ModifyOnce(seen, settings) = Modified(seen, settings)
    BY <1>2, UpdatedAtOnce DEF Offered
  <2>3. seen.sort # "driveRead" => ModifyOnce(seen, settings) = Update(seen, record, settings)
    BY <1>2 DEF ModifyOnce
  <2>4. Update(seen, record, settings).verdict = "made"
    <3> HIDE DEF record
    <3>1. seen \in FirmwareImage
      BY DEF Offered, IsFirmware
    <3> QED BY <3>1, <2>1, UpdateIs
  <2>5. seen.sort = "driveRead" /\ ModifyOnce(seen, settings) = NotMade("refused")
    BY <2>2, <2>3, <2>4 DEF ModifyOnce
  <2>6. Modified(seen, settings).verdict = "refused"
    BY <2>2, <2>5 DEF NotMade
  <2> QED BY <1>2, <2>5, <2>6
<1> QED BY <1>1, <1>2

-----------------------------------------------------------------------------
(* The invariant of the form.  *)

DiskInv ==
    /\ disk \in [Paths -> FirmwareImage \cup {NoFile}] /\ DOMAIN published = Paths
    /\ \A p \in Paths : disk[p] # NoFile => IsFirmware(disk[p])

Present(p) == p \in Paths /\ disk[p] # NoFile

(* What is shown is of the file that was seen, and only an image which      *)
(* shows some support has been seen.                                        *)
SelectionInv ==
    /\ form = [input |-> form.input, analyzed |-> form.analyzed, settings |-> form.settings,
               dirty |-> form.dirty, support |-> form.support, seen |-> form.seen]
    /\ form.settings = [values |-> form.settings.values, explicit |-> form.settings.explicit]
    /\ form.input # NoFile => Present(form.input)
    /\ form.seen = NoFile => form.support = NoSupport /\ form.settings = Standard
    /\ form.seen # NoFile => /\ form.support = BootOptions(form.seen).support
                             /\ Offered(form.seen, form.settings)

AnalysisInv ==
    /\ analysis = [of |-> analysis.of, read |-> analysis.read]
    /\ analysis.of # NoFile => Present(analysis.of) /\ form.seen = NoFile
    /\ analysis.read # NoFile => analysis.of # NoFile /\ IsFirmware(analysis.read)

IsRunning(job) ==
    job = [state |-> "running", input |-> job.input, output |-> job.output,
           settings |-> job.settings, seen |-> job.seen,
           origin |-> job.origin, support |-> job.support, verdict |-> job.verdict]

CreationInv ==
    \/ creation = NoCreation
    \/ /\ IsRunning(creation) /\ Present(creation.input) /\ creation.output \in Paths
       /\ Offered(creation.seen, creation.settings)
       /\ Honours(BootOptions(creation.seen).support, creation.settings)

Reported(image, job) ==
    /\ IsReported(job.origin, image, job.support, job.settings)
    /\ Honours(job.support, job.settings)
    /\ job.origin = job.seen => \A record \in Record(image) : RecordIsSound(image, record)

PublishedInv == \A p \in Paths : published[p] # NoCreation => Reported(disk[p], published[p])

FormInv ==
    /\ DiskInv /\ SelectionInv /\ AnalysisInv /\ CreationInv /\ PublishedInv
    /\ FormOffersWhatIsBuilt

LEMMA PublishedIsAsReported ==
  ASSUME PublishedInv
  PROVE  ImageIsAsReported
BY DEF PublishedInv, Reported, IsReported, Honours, ImageIsAsReported

LEMMA FormNames ==
  /\ NoFile \notin FirmwareImage /\ NoFile \notin Paths /\ Paths = {"input", "output"}
  /\ \A image : IsFirmware(image) => image # NoFile
  /\ NoCreation.state = "none" /\ ~NoSupport.boot
  /\ \A job : IsRunning(job) => job.state = "running" /\ job # NoCreation
<1>1. NoFile \notin FirmwareImage /\ NoFile \notin Paths
  BY FilesAssumption DEF Paths
<1>2. \A image : IsFirmware(image) => image # NoFile
  BY <1>1 DEF IsFirmware
<1>3. NoCreation.state = "none" /\ ~NoSupport.boot
  BY DEF NoCreation, NoSupport
<1>4. ASSUME NEW job, IsRunning(job) PROVE job.state = "running"
  BY <1>4 DEF IsRunning
<1> QED BY <1>1, <1>2, <1>3, <1>4 DEF Paths

LEMMA FormInitInv ==
  ASSUME FormInit
  PROVE  FormInv
<1>1. PICK i \in Files \cup {NoFile} : disk = [input |-> i, output |-> NoFile]
  BY DEF FormInit
<1>2. i # NoFile => IsFirmware(i)
  BY FilesAssumption
<1>3. DiskInv
  <2>1. i \in FirmwareImage \cup {NoFile}
    BY <1>2 DEF IsFirmware
  <2>2. disk \in [Paths -> FirmwareImage \cup {NoFile}]
    BY <1>1, <2>1 DEF Paths
  <2>3. DOMAIN published = Paths
    BY DEF FormInit, Paths
  <2>4. \A p \in Paths : disk[p] # NoFile => IsFirmware(disk[p])
    BY <1>1, <1>2 DEF Paths
  <2> QED BY <2>2, <2>3, <2>4 DEF DiskInv
<1>4. form = NoSelection /\ analysis = NoAnalysis /\ creation = NoCreation
  BY DEF FormInit
<1>5. SelectionInv
  BY <1>4 DEF SelectionInv, NoSelection, Standard
<1>6. AnalysisInv
  BY <1>4 DEF AnalysisInv, NoAnalysis
<1>7. CreationInv /\ FormOffersWhatIsBuilt
  BY <1>4 DEF CreationInv, FormOffersWhatIsBuilt, NoCreation
<1>8. PublishedInv
  BY DEF FormInit, PublishedInv, Paths
<1> QED BY <1>3, <1>5, <1>6, <1>7, <1>8 DEF FormInv

LEMMA SelectImageInv ==
  ASSUME FormInv, NEW p \in Paths, SelectImage(p)
  PROVE  FormInv'
<1>1. /\ disk[p] # NoFile /\ form' = [NoSelection EXCEPT !.input = p] /\ analysis' = NoAnalysis
      /\ UNCHANGED <<disk, creation, published>>
  BY DEF SelectImage
<1>2. DiskInv' /\ CreationInv' /\ PublishedInv' /\ FormOffersWhatIsBuilt'
  BY <1>1 DEF FormInv, DiskInv, CreationInv, PublishedInv, FormOffersWhatIsBuilt, Present
<1>3. SelectionInv'
  BY <1>1 DEF SelectionInv, NoSelection, Standard, Present
<1>4. AnalysisInv'
  BY <1>1 DEF AnalysisInv, NoAnalysis
<1> QED BY <1>2, <1>3, <1>4 DEF FormInv

LEMMA StartPreviewInv ==
  ASSUME FormInv, StartPreview
  PROVE  FormInv'
<1>1. /\ form' = [NoSelection EXCEPT !.input = form.input, !.analyzed = form.input]
      /\ analysis' = [of |-> form.input, read |-> NoFile]
      /\ UNCHANGED <<disk, creation, published>>
  BY DEF StartPreview
<1>2. DiskInv' /\ CreationInv' /\ PublishedInv' /\ FormOffersWhatIsBuilt'
  BY <1>1 DEF FormInv, DiskInv, CreationInv, PublishedInv, FormOffersWhatIsBuilt, Present
<1>3. form.input # NoFile => Present(form.input)
  BY DEF FormInv, SelectionInv
<1>4. SelectionInv'
  BY <1>1, <1>3 DEF SelectionInv, NoSelection, Standard, Present
<1>5. AnalysisInv'
  BY <1>1, <1>3 DEF AnalysisInv, Present, NoSelection
<1> QED BY <1>2, <1>4, <1>5 DEF FormInv

LEMMA ReadPreviewInv ==
  ASSUME FormInv, ReadPreview
  PROVE  FormInv'
<1>1. /\ analysis.of # NoFile /\ analysis' = [analysis EXCEPT !.read = disk[analysis.of]]
      /\ UNCHANGED <<disk, form, creation, published>>
  BY DEF ReadPreview
<1>2. DiskInv' /\ SelectionInv' /\ CreationInv' /\ PublishedInv' /\ FormOffersWhatIsBuilt'
  BY <1>1 DEF FormInv, DiskInv, SelectionInv, CreationInv, PublishedInv, FormOffersWhatIsBuilt,
              Present
<1>3. Present(analysis.of) /\ IsFirmware(disk[analysis.of])
  BY <1>1 DEF FormInv, AnalysisInv, DiskInv, Present
<1>4. analysis = [of |-> analysis.of, read |-> analysis.read] /\ form.seen = NoFile
  BY <1>1 DEF FormInv, AnalysisInv
<1>5. analysis'.of = analysis.of /\ analysis'.read = disk[analysis.of]
      /\ analysis' = [of |-> analysis.of, read |-> disk[analysis.of]]
  BY <1>1, <1>4
<1>6. AnalysisInv'
  BY <1>1, <1>3, <1>4, <1>5 DEF AnalysisInv, Present
<1> QED BY <1>2, <1>6 DEF FormInv

LEMMA TakePreviewInv ==
  ASSUME FormInv, TakePreview
  PROVE  FormInv'
<1> DEFINE options == BootOptions(analysis.read)
<1>1. /\ analysis.read # NoFile /\ analysis' = NoAnalysis /\ UNCHANGED <<disk, creation, published>>
      /\ form' = IF options.verdict # "made" THEN form
                 ELSE [form EXCEPT
                          !.settings = IF form.dirty THEN form.settings ELSE options.settings,
                          !.support = options.support,
                          !.seen = analysis.read]
  BY DEF TakePreview
<1>2. DiskInv' /\ CreationInv' /\ PublishedInv' /\ FormOffersWhatIsBuilt'
  BY <1>1 DEF FormInv, DiskInv, CreationInv, PublishedInv, FormOffersWhatIsBuilt, Present
<1>3. AnalysisInv'
  BY <1>1 DEF AnalysisInv, NoAnalysis
<1>4. CASE options.verdict # "made"
  <2>1. form' = form
    BY <1>1, <1>4
  <2>2. SelectionInv'
    BY <1>1, <2>1 DEF FormInv, SelectionInv, Present
  <2> QED BY <2>2, <1>2, <1>3 DEF FormInv
<1>5. CASE options.verdict = "made"
  <2> DEFINE settings == IF form.dirty THEN form.settings ELSE options.settings
  <2>1. IsFirmware(analysis.read) /\ form.seen = NoFile /\ form.settings = Standard
    BY <1>1 DEF FormInv, AnalysisInv, SelectionInv
  <2>2. Offered(analysis.read, options.settings) /\ Offered(analysis.read, Standard)
    BY <2>1, <1>5, OptionsAreOffered
  <2>3. options.settings = [values |-> options.settings.values, explicit |-> options.settings.explicit]
    <3>1. CASE Record(analysis.read) = {}
      BY <3>1, <1>5, OptionsOfABuild DEF Standard
    <3>2. CASE Record(analysis.read) # {}
      <4> DEFINE record == CHOOSE r \in Record(analysis.read) : TRUE
      <4>1. options.settings = [values |-> record.flags, explicit |-> {}]
        BY <3>2, <2>1, <1>5, OptionsOfARecord
      <4> HIDE DEF record, options
      <4> QED BY <4>1
    <3> QED BY <3>1, <3>2
  <2> HIDE DEF options
  <2>4. Offered(analysis.read, settings)
        /\ settings = [values |-> settings.values, explicit |-> settings.explicit]
    BY <2>1, <2>2, <2>3 DEF Standard
  <2>5. form' = [form EXCEPT !.settings = settings, !.support = options.support,
                             !.seen = analysis.read]
    BY <1>1, <1>5 DEF options
  <2> HIDE DEF settings
  <2>6. /\ form = [input |-> form.input, analyzed |-> form.analyzed, settings |-> form.settings,
                   dirty |-> form.dirty, support |-> form.support, seen |-> form.seen]
        /\ form.input # NoFile => Present(form.input)
    BY DEF FormInv, SelectionInv
  <2>7. form' = [input |-> form.input, analyzed |-> form.analyzed, settings |-> settings,
                 dirty |-> form.dirty, support |-> options.support, seen |-> analysis.read]
    BY <2>5, <2>6
  <2>8. SelectionInv'
    <3>1. /\ form'.input = form.input /\ form'.settings = settings /\ form'.seen = analysis.read
          /\ form'.support = options.support
          /\ form' = [input |-> form'.input, analyzed |-> form'.analyzed,
                      settings |-> form'.settings, dirty |-> form'.dirty,
                      support |-> form'.support, seen |-> form'.seen]
      BY <2>7
    <3>2. form'.support = BootOptions(form'.seen).support
      BY <3>1 DEF options
    <3>3. form'.input # NoFile => form'.input \in Paths /\ disk'[form'.input] # NoFile
      BY <1>1, <2>6, <3>1 DEF Present
    <3> QED BY <1>1, <2>4, <3>1, <3>2, <3>3 DEF SelectionInv, Present
  <2> QED BY <2>8, <1>2, <1>3 DEF FormInv
<1> QED BY <1>4, <1>5

LEMMA ChooseInv ==
  ASSUME FormInv, NEW f, NEW value, Choose(f, value)
  PROVE  FormInv'
<1> DEFINE settings == [values |-> [form.settings.values EXCEPT ![f] = value],
                        explicit |-> form.settings.explicit \cup {f}]
<1>1. /\ SupportsValue(form.support, f, value) /\ UNCHANGED <<disk, analysis, creation, published>>
      /\ form' = [form EXCEPT !.settings.values[f] = value,
                              !.settings.explicit = form.settings.explicit \cup {f},
                              !.dirty = TRUE]
  BY DEF Choose
<1>2. DiskInv' /\ CreationInv' /\ PublishedInv' /\ FormOffersWhatIsBuilt'
  BY <1>1 DEF FormInv, DiskInv, CreationInv, PublishedInv, FormOffersWhatIsBuilt, Present
<1>3. /\ form = [input |-> form.input, analyzed |-> form.analyzed, settings |-> form.settings,
                 dirty |-> form.dirty, support |-> form.support, seen |-> form.seen]
      /\ form.settings = [values |-> form.settings.values, explicit |-> form.settings.explicit]
      /\ form.input # NoFile => Present(form.input)
  BY DEF FormInv, SelectionInv
<1>4. form' = [input |-> form.input, analyzed |-> form.analyzed, settings |-> settings,
               dirty |-> TRUE, support |-> form.support, seen |-> form.seen]
  BY <1>1, <1>3
<1>5. /\ form.seen # NoFile /\ form.support = BootOptions(form.seen).support
      /\ Offered(form.seen, form.settings)
  <2>1. form.support.boot
    BY <1>1 DEF SupportsValue
  <2> QED BY <2>1, FormNames DEF FormInv, SelectionInv
<1>6. /\ value \in {"oem", "on", "off"}
      /\ ~(f = "unrestricted" /\ value = "off" /\ form.support.partial)
  BY <1>1 DEF SupportsValue, BootValue
<1>7. Offered(form.seen, settings)
  <2>1. form.settings.values \in Value
    BY <1>5 DEF Offered
  <2>2. settings.values \in Value
    BY <2>1, <1>6 DEF Value
  <2>3. settings.values["unrestricted"]
          = IF f = "unrestricted" THEN value ELSE form.settings.values["unrestricted"]
    BY <2>1 DEF Value, BootFeature
  <2>4. settings.explicit = form.settings.explicit \cup {f}
    OBVIOUS
  <2> HIDE DEF settings
  <2>5. Permitted(form.support, settings)
    BY <2>3, <1>5, <1>6 DEF Offered, Permitted
  <2>6. Record(form.seen) = {} => Chosen(settings)
    BY <2>3, <2>4, <1>5 DEF Offered, Chosen
  <2> QED BY <2>2, <2>5, <2>6, <1>5 DEF Offered
<1>8. SelectionInv'
  <2>1. settings = [values |-> settings.values, explicit |-> settings.explicit]
    OBVIOUS
  <2> HIDE DEF settings
  <2>2. /\ form'.input = form.input /\ form'.settings = settings /\ form'.seen = form.seen
        /\ form'.support = form.support
        /\ form' = [input |-> form'.input, analyzed |-> form'.analyzed,
                    settings |-> form'.settings, dirty |-> form'.dirty,
                    support |-> form'.support, seen |-> form'.seen]
    BY <1>4
  <2>3. form'.input # NoFile => form'.input \in Paths /\ disk'[form'.input] # NoFile
    BY <1>1, <1>3, <2>2 DEF Present
  <2> QED BY <1>5, <1>7, <2>1, <2>2, <2>3 DEF SelectionInv, Present
<1>9. AnalysisInv'
  BY <1>1, <1>4 DEF FormInv, AnalysisInv, Present
<1> QED BY <1>2, <1>8, <1>9 DEF FormInv

LEMMA ResetSettingsInv ==
  ASSUME FormInv, ResetSettings
  PROVE  FormInv'
<1>1. /\ form' = [form EXCEPT !.settings = Standard, !.dirty = TRUE]
      /\ UNCHANGED <<disk, analysis, creation, published>>
  BY DEF ResetSettings
<1>2. DiskInv' /\ CreationInv' /\ PublishedInv' /\ FormOffersWhatIsBuilt'
  BY <1>1 DEF FormInv, DiskInv, CreationInv, PublishedInv, FormOffersWhatIsBuilt, Present
<1>3. /\ form = [input |-> form.input, analyzed |-> form.analyzed, settings |-> form.settings,
                 dirty |-> form.dirty, support |-> form.support, seen |-> form.seen]
      /\ form.input # NoFile => Present(form.input)
  BY DEF FormInv, SelectionInv
<1>4. form' = [input |-> form.input, analyzed |-> form.analyzed, settings |-> Standard,
               dirty |-> TRUE, support |-> form.support, seen |-> form.seen]
  BY <1>1, <1>3
<1>5. form.seen # NoFile => Offered(form.seen, Standard)
  BY OptionsAreOffered DEF FormInv, SelectionInv, Offered
<1>6. Standard = [values |-> Standard.values, explicit |-> Standard.explicit]
  BY DEF Standard
<1>7. SelectionInv'
  BY <1>1, <1>3, <1>4, <1>5, <1>6 DEF FormInv, SelectionInv, Present
<1>8. AnalysisInv'
  BY <1>1, <1>4 DEF FormInv, AnalysisInv, Present
<1> QED BY <1>2, <1>7, <1>8 DEF FormInv

LEMMA CreateInv ==
  ASSUME FormInv, NEW p \in Paths, Create(p)
  PROVE  FormInv'
<1>1. /\ form.input # NoFile /\ form.support.boot /\ Honours(form.support, form.settings)
      /\ creation' = [state |-> "running", input |-> form.input, output |-> p,
                      settings |-> form.settings, seen |-> form.seen,
                      origin |-> NoFile, support |-> NoSupport, verdict |-> "none"]
      /\ UNCHANGED <<disk, form, analysis, published>>
  BY DEF Create
<1>2. DiskInv' /\ SelectionInv' /\ AnalysisInv' /\ PublishedInv'
  BY <1>1 DEF FormInv, DiskInv, SelectionInv, AnalysisInv, PublishedInv, Present
<1>3. /\ Present(form.input) /\ form.support = BootOptions(form.seen).support
      /\ Offered(form.seen, form.settings)
  BY <1>1, FormNames DEF FormInv, SelectionInv
<1>4. /\ IsRunning(creation') /\ creation'.input = form.input /\ creation'.output = p
      /\ creation'.settings = form.settings /\ creation'.seen = form.seen
      /\ creation'.verdict = "none"
  BY <1>1 DEF IsRunning
<1>5. CreationInv'
  BY <1>1, <1>3, <1>4 DEF CreationInv, Present
<1>6. FormOffersWhatIsBuilt'
  BY <1>4 DEF FormOffersWhatIsBuilt
<1> QED BY <1>2, <1>5, <1>6 DEF FormInv

LEMMA RunCreateInv ==
  ASSUME FormInv, RunCreate
  PROVE  FormInv'
<1> DEFINE o == disk[creation.input]
           result == Modified(o, creation.settings)
           path == creation.output
<1>1. /\ ~NoJob /\ creation.verdict = "none" /\ UNCHANGED <<form, analysis>>
      /\ \/ /\ result.verdict # "made" /\ creation' = Ended(result.verdict)
            /\ UNCHANGED <<disk, published>>
         \/ /\ result.verdict = "made" /\ creation' = Ended("storage")
            /\ UNCHANGED <<disk, published>>
         \/ /\ result.verdict = "made" /\ creation' \in {Ended("made"), Ended("storage")}
            /\ PublishImage(result)
  BY DEF RunCreate
<1>2. /\ IsRunning(creation) /\ Present(creation.input) /\ path \in Paths
      /\ Offered(creation.seen, creation.settings)
      /\ Honours(BootOptions(creation.seen).support, creation.settings)
  BY <1>1, FormNames DEF FormInv, CreationInv, NoJob
<1>3. IsFirmware(o)
  BY <1>2 DEF FormInv, DiskInv, Present
<1>4. ASSUME NEW verdict
      PROVE  LET job == Ended(verdict)
             IN /\ IsRunning(job) /\ job.input = creation.input /\ job.output = path
                /\ job.settings = creation.settings /\ job.seen = creation.seen
                /\ job.origin = o /\ job.verdict = verdict
  <2> HIDE DEF o
  <2>1. Ended(verdict) = [creation EXCEPT !.origin = o, !.verdict = verdict]
    BY DEF Ended, o
  <2>2. creation = [state |-> "running", input |-> creation.input, output |-> path,
                    settings |-> creation.settings, seen |-> creation.seen,
                    origin |-> creation.origin, support |-> creation.support,
                    verdict |-> creation.verdict]
    BY <1>2 DEF IsRunning
  <2>3. Ended(verdict) = [state |-> "running", input |-> creation.input, output |-> path,
                          settings |-> creation.settings, seen |-> creation.seen,
                          origin |-> o, support |-> creation.support, verdict |-> verdict]
    <3> DEFINE input == creation.input
               settings == creation.settings
               seen == creation.seen
               origin == creation.origin
               support == creation.support
               last == creation.verdict
    <3>1. creation = [state |-> "running", input |-> input, output |-> path,
                      settings |-> settings, seen |-> seen,
                      origin |-> origin, support |-> support, verdict |-> last]
      BY <2>2
    <3> HIDE DEF input, path, settings, seen, origin, support, last
    <3>2. Ended(verdict) = [state |-> "running", input |-> input, output |-> path,
                            settings |-> settings, seen |-> seen,
                            origin |-> o, support |-> support, verdict |-> verdict]
      BY <2>1, <3>1
    <3> QED BY <3>2 DEF input, path, settings, seen, support
  <2> QED BY <2>3 DEF IsRunning
<1>5. PICK verdict : /\ creation' = Ended(verdict)
                     /\ \/ result.verdict # "made" /\ verdict = result.verdict
                        \/ verdict \in {"made", "storage"}
  <2> HIDE DEF result
  <2> QED BY <1>1
<1> HIDE DEF o, result
<1>6. /\ IsRunning(creation') /\ creation'.input = creation.input /\ creation'.output = path
      /\ creation'.settings = creation.settings /\ creation'.seen = creation.seen
      /\ creation'.origin = o /\ creation'.verdict = verdict
  BY <1>4, <1>5
<1>7. FormOffersWhatIsBuilt'
  <2> SUFFICES ASSUME verdict \in {"refused", "noSpace"}, o = creation.seen
               PROVE  /\ verdict = "refused"
                      /\ \/ o.sort = "driveRead" /\ Record(o) # {}
                         \/ /\ creation.settings.explicit # {} /\ Record(o) = {}
                            /\ ModifyOnce(o, Standard).verdict = "noSpace"
    BY <1>6 DEF FormOffersWhatIsBuilt
  <2>1. result.verdict # "made" /\ verdict = result.verdict
    BY <1>5
  <2> QED BY <2>1, <1>2, JobFails DEF result
<1>8. CASE UNCHANGED <<disk, published>>
  <2>1. DiskInv' /\ SelectionInv' /\ AnalysisInv' /\ PublishedInv'
    BY <1>1, <1>8 DEF FormInv, DiskInv, SelectionInv, AnalysisInv, PublishedInv, Present
  <2>2. CreationInv'
    BY <1>2, <1>6, <1>8 DEF CreationInv, Present
  <2> QED BY <2>1, <2>2, <1>7 DEF FormInv
<1>9. CASE result.verdict = "made" /\ PublishImage(result)
  <2> DEFINE job == [Ended("made") EXCEPT !.support = result.support]
  <2>1. /\ IsFirmware(result.image) /\ IsReported(o, result.image, result.support, creation.settings)
        /\ Honours(result.support, creation.settings)
        /\ o = creation.seen => \A record \in Record(result.image) : RecordIsSound(result.image, record)
    BY <1>2, <1>3, <1>9, JobDelivers DEF result
  <2>2. /\ disk' = [disk EXCEPT ![path] = result.image]
        /\ published' = [published EXCEPT ![path] = job]
    BY <1>9 DEF PublishImage
  <2>3. /\ job.settings = creation.settings /\ job.seen = creation.seen /\ job.origin = o
        /\ job.support = result.support
    BY <1>4 DEF IsRunning
  <2>4. Reported(result.image, job)
    <3> HIDE DEF job
    <3> QED BY <2>1, <2>3 DEF Reported
  <2> HIDE DEF job
  <2>5. DOMAIN disk = Paths /\ DOMAIN published = Paths
    BY DEF FormInv, DiskInv
  <2>6. /\ disk'[path] = result.image /\ published'[path] = job
        /\ \A p \in Paths : p # path => disk'[p] = disk[p] /\ published'[p] = published[p]
    BY <2>2, <2>5, <1>2
  <2>7. DiskInv'
    <3>1. result.image \in FirmwareImage
      BY <2>1 DEF IsFirmware
    <3>2. disk' \in [Paths -> FirmwareImage \cup {NoFile}] /\ DOMAIN published' = Paths
      BY <2>2, <3>1 DEF FormInv, DiskInv
    <3>3. \A p \in Paths : disk'[p] # NoFile => IsFirmware(disk'[p])
      BY <2>1, <2>6 DEF FormInv, DiskInv
    <3> QED BY <3>2, <3>3 DEF DiskInv
  <2>8. PublishedInv'
    BY <2>4, <2>6 DEF FormInv, PublishedInv
  <2>9. \A p : Present(p) => p \in Paths /\ disk'[p] # NoFile
    BY <2>1, <2>6, FormNames DEF Present
  <2>10. SelectionInv' /\ AnalysisInv'
    BY <1>1, <2>9 DEF FormInv, SelectionInv, AnalysisInv, Present
  <2>11. CreationInv'
    BY <1>2, <1>6, <2>9 DEF CreationInv, Present
  <2> QED BY <2>7, <2>8, <2>10, <2>11, <1>7 DEF FormInv
<1> QED BY <1>1, <1>8, <1>9 DEF result

LEMMA PumpDoneInv ==
  ASSUME FormInv, PumpDone
  PROVE  FormInv'
<1>1. creation' = NoCreation /\ UNCHANGED <<disk, form, analysis, published>>
  BY DEF PumpDone
<1>2. DiskInv' /\ SelectionInv' /\ AnalysisInv' /\ PublishedInv'
  BY <1>1 DEF FormInv, DiskInv, SelectionInv, AnalysisInv, PublishedInv, Present
<1>3. CreationInv' /\ FormOffersWhatIsBuilt'
  BY <1>1 DEF CreationInv, FormOffersWhatIsBuilt, NoCreation
<1> QED BY <1>2, <1>3 DEF FormInv

LEMMA ReplaceFileInv ==
  ASSUME FormInv, NEW i \in OtherFiles, ReplaceFile(i)
  PROVE  FormInv'
<1>1. /\ disk' = [disk EXCEPT !["input"] = i]
      /\ published' = [published EXCEPT !["input"] = NoCreation]
      /\ UNCHANGED <<form, analysis, creation>>
  BY DEF ReplaceFile
<1>2. IsFirmware(i) /\ i \in FirmwareImage /\ i # NoFile
  BY FilesAssumption, FormNames DEF IsFirmware
<1>3. DOMAIN disk = Paths /\ DOMAIN published = Paths /\ "input" \in Paths
  BY FormNames DEF FormInv, DiskInv
<1>4. /\ disk'["input"] = i /\ published'["input"] = NoCreation
      /\ \A p \in Paths : p # "input" => disk'[p] = disk[p] /\ published'[p] = published[p]
  BY <1>1, <1>3
<1>5. DiskInv'
  <2>1. disk' \in [Paths -> FirmwareImage \cup {NoFile}] /\ DOMAIN published' = Paths
    BY <1>1, <1>2 DEF FormInv, DiskInv
  <2>2. \A p \in Paths : disk'[p] # NoFile => IsFirmware(disk'[p])
    BY <1>2, <1>4 DEF FormInv, DiskInv
  <2> QED BY <2>1, <2>2 DEF DiskInv
<1>6. PublishedInv'
  BY <1>4 DEF FormInv, PublishedInv, NoCreation
<1>7. \A p : Present(p) => p \in Paths /\ disk'[p] # NoFile
  BY <1>2, <1>4 DEF Present
<1>8. SelectionInv' /\ AnalysisInv' /\ CreationInv'
  BY <1>1, <1>7 DEF FormInv, SelectionInv, AnalysisInv, CreationInv, Present
<1>9. FormOffersWhatIsBuilt'
  BY <1>1 DEF FormInv, FormOffersWhatIsBuilt
<1> QED BY <1>5, <1>6, <1>8, <1>9 DEF FormInv

LEMMA FormStepInv ==
  ASSUME FormInv, [FormNext]_formVars
  PROVE  FormInv'
<1>1. CASE FormNext
  BY <1>1, SelectImageInv, StartPreviewInv, ReadPreviewInv, TakePreviewInv, ChooseInv,
     ResetSettingsInv, CreateInv, RunCreateInv, PumpDoneInv, ReplaceFileInv DEF FormNext
<1>2. CASE UNCHANGED formVars
  <2>1. UNCHANGED <<disk, form, analysis, creation, published>>
    BY <1>2 DEF formVars
  <2> QED BY <2>1 DEF FormInv, DiskInv, SelectionInv, AnalysisInv, CreationInv, PublishedInv,
                      FormOffersWhatIsBuilt, Present
<1> QED BY <1>1, <1>2

(* The invariant of the form holds of every behaviour.  *)
THEOREM FormInvariant == FormSpec => []FormInv
<1>1. FormInit => FormInv
  BY FormInitInv
<1>2. FormInv /\ [FormNext]_formVars => FormInv'
  BY FormStepInv
<1> QED BY <1>1, <1>2, PTL DEF FormSpec

(* Every image a job has published (api.rs 255-349, boot.rs 413-548) keeps  *)
(* the OEM's code, has hooks that the drive's updater authenticates, and    *)
(* reports the settings it starts with and can honour, however often images *)
(* made before were edited again or replaced under the form.                *)
THEOREM ImagesAreAsReported == FormSpec => []ImageIsAsReported
<1>1. FormInv => ImageIsAsReported
  BY PublishedIsAsReported DEF FormInv
<1> QED BY <1>1, FormInvariant, PTL

(* A job of the form fails for want of space or support only when the file  *)
(* was replaced, or in the two exceptions the property names (app.rs 345).  *)
THEOREM FormsOfferWhatIsBuilt == FormSpec => []FormOffersWhatIsBuilt
<1>1. FormInv => FormOffersWhatIsBuilt
  BY DEF FormInv
<1> QED BY <1>1, FormInvariant, PTL
=============================================================================
