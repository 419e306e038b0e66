----------------------------- MODULE Expansion -----------------------------
(***************************************************************************)
(* From the axes of a run request to its variants: mapAxes (api/runs.go),  *)
(* ParseTemplate and Render (variation/template.go) and Expand             *)
(* (variation/expand.go), loop by loop.                                    *)
(*                                                                         *)
(* Names and axis values are numbers.  Of a random value only which of the *)
(* strings of its length it is matters, and of a rendered URL only whether *)
(* it is too long.                                                         *)
(***************************************************************************)
EXTENDS GoInt, Sequences, FiniteSetsExt, Totals

CONSTANTS
  Names,             \* of placeholders and axes, a set of numbers
  Specs,             \* axes a request may have
  Limits,            \* configured values of maxVariants
  AlphabetSize,      \* len(randAlphabet)
  DefaultLength,     \* defaultRandomLength
  MaxRandomLength,
  AttemptsPerValue   \* the 32 of maxAttempts

\* What the request says of an axis (AxisSpec of the API); a kind gives it
\* the fields it needs.
Optional == MinInt .. MaxInt \cup {Nil}
AxisSpec == [kind : STRING, values : Seq(Int), from : Optional, to : Optional,
             count : Optional, length : Optional, unsafe : BOOLEAN]

ASSUME ExpansionAssumption ==
  /\ Specs \subseteq AxisSpec
  /\ Names \subseteq Nat /\ IsFiniteSet(Names) /\ Limits \subseteq Nat \ {0}
  /\ \A limit \in Limits : limit * AlphabetSize <= MaxInt   \* 128 * 36, by default
  /\ AlphabetSize \in Nat \ {0} /\ DefaultLength \in Nat \ {0}
  /\ MaxRandomLength \in Nat /\ MaxRandomLength >= DefaultLength
  /\ AttemptsPerValue \in Nat \ {0}

VARIABLES
  placeholders,  \* names in the template
  axes,          \* the request's axes, then the mapped ones
  maxVariants,
  step,
  total,         \* plannedCount, so far
  planned,       \* names it has multiplied
  values,        \* fixedAxisValues so far
  cells,         \* cells still to be visited; in cartesian, bases still to be extended
  combos,        \* randomCartesian: combinations still to be extended
  grown,         \* those with the current axis, of either product
  seen,          \* values drawn for the current base
  attempts,
  variants       \* result

expansionVars == <<placeholders, axes, maxVariants, step, total, planned, values, cells, combos, grown, seen, attempts, variants>>
drawing == <<combos, grown, seen, attempts>>
NothingDrawn == combos = <<>> /\ grown = <<>> /\ seen = {} /\ attempts = 0

Random == {n \in DOMAIN axes : axes[n].kind = "random"}
Fixed  == DOMAIN axes \ Random

\* The template is parsed: its placeholders are known.
ExpandInit ==
  /\ placeholders \in SUBSET Names /\ maxVariants \in Limits
  /\ \E D \in SUBSET Names : axes \in [D -> Specs]
  /\ placeholders = DOMAIN axes \/ \A n \in DOMAIN axes : axes[n] = CHOOSE spec \in Specs : TRUE
  /\ step = "map" /\ total = Nil /\ planned = {} /\ values = <<>> /\ cells = <<>> /\ variants = <<>>
  /\ NothingDrawn
ExpandIdle ==
  /\ placeholders = {} /\ maxVariants = 0 /\ axes = <<>>
  /\ step = "idle" /\ total = Nil /\ planned = {} /\ values = <<>> /\ cells = <<>> /\ variants = <<>>
  /\ NothingDrawn

-----------------------------------------------------------------------------
(* mapAxes.                                                                *)

OrZero(field) == IF field = Nil THEN 0 ELSE field
AxisRefused(spec) == \/ spec.unsafe
                     \/ spec.kind = "range" /\ (spec.from = Nil \/ spec.to = Nil)
MapAxis(spec) == [spec EXCEPT !.from = OrZero(@), !.to = OrZero(@), !.count = OrZero(@), !.length = OrZero(@)]

MapAxes ==
  /\ step = "map"
  /\ IF \E n \in DOMAIN axes : AxisRefused(axes[n])
     THEN step' = "error" /\ UNCHANGED axes
     ELSE step' = "match" /\ axes' = [n \in DOMAIN axes |-> MapAxis(axes[n])]
  /\ UNCHANGED <<placeholders, maxVariants, total, planned, values, cells, drawing, variants>>

\* Every placeholder has an axis and every axis a placeholder.
MatchNames ==
  /\ step = "match"
  /\ IF placeholders = DOMAIN axes THEN step' = "plan" /\ total' = 1 ELSE step' = "error" /\ UNCHANGED total
  /\ UNCHANGED <<placeholders, axes, maxVariants, planned, values, cells, drawing, variants>>

-----------------------------------------------------------------------------
(* plannedCount: 0 stands for an error.                                    *)

LengthOf(spec) == IF spec.length <= 0 THEN DefaultLength ELSE spec.length

\* The strings of a length.
Strings(length) == Product([i \in 1 .. length |-> AlphabetSize], 1 .. length)
\* The loop multiplies by AlphabetSize in every pass.  The product may wrap, but
\* only where the count is beyond every limit.
RandomSpace(length, count) == \E i \in 1 .. length : Wrap(Strings(i)) >= count

RangeSize(spec) ==
  LET width == Wrap(spec.to - spec.from)
  IN IF spec.from > spec.to \/ width < 0 \/ width >= maxVariants THEN 0 ELSE width + 1

RandomSize(spec) ==
  IF \/ spec.count < 1 \/ spec.length < 0 \/ spec.length > MaxRandomLength
     \/ ~RandomSpace(LengthOf(spec), spec.count)
  THEN 0 ELSE spec.count

AxisSize(spec) == CASE spec.kind = "list"   -> Len(spec.values)
                    [] spec.kind = "range"  -> RangeSize(spec)
                    [] spec.kind = "random" -> RandomSize(spec)
                    [] OTHER                -> 0

\* Mutant of Times: the product is compared with the limit.
TimesWrapping(count, size) ==
  IF count = 0 \/ size = 0 \/ Wrap(count * size) > maxVariants THEN 0 ELSE Wrap(count * size)
\* The limit is divided instead.
Times(count, size) ==
  IF count = 0 \/ size = 0 \/ size > maxVariants \/ count > maxVariants \div size THEN 0
  ELSE Wrap(count * size)

\* One placeholder, in the order of the template.
PlanAxis ==
  /\ step = "plan"
  /\ \E n \in placeholders \ planned :
       /\ total' = Times(total, AxisSize(axes[n])) /\ planned' = planned \cup {n}
       /\ step' = IF total' = 0 THEN "error" ELSE "plan"
  /\ UNCHANGED <<placeholders, axes, maxVariants, values, cells, drawing, variants>>

PlannedCount ==
  /\ step = "plan" /\ planned = placeholders
  /\ step' = IF total <= 0 THEN "error" ELSE "values"
  /\ values' = [n \in Fixed |-> [list |-> <<>>, closed |-> FALSE]]
  /\ UNCHANGED <<placeholders, axes, maxVariants, total, planned, cells, drawing, variants>>

-----------------------------------------------------------------------------
(* fixedAxisValues and cartesian.                                          *)

\* The range loop breaks after it has appended To.
LoopStops(n, spec) == n = spec.to

\* One pass of the loop of a range, or all of a list; axes in name order.
FixedAxisValue ==
  LET open == {n \in Fixed : ~values[n].closed}
      n    == Min(open)
      spec == axes[n]
      list == values[n].list
      at   == IF list = <<>> THEN spec.from ELSE Wrap(list[Len(list)] + 1)
  IN /\ step = "values" /\ open # {}
     /\ values' = [values EXCEPT ![n] =
          IF spec.kind = "list" THEN [list |-> spec.values, closed |-> TRUE]
          ELSE [list |-> Append(list, at), closed |-> LoopStops(at, spec)]]
     /\ UNCHANGED <<placeholders, axes, maxVariants, step, total, planned, cells, drawing, variants>>

\* A combination with one parameter more, and with each value of a list.
With(base, n, value) == [x \in DOMAIN base \cup {n} |-> IF x = n THEN value ELSE base[x]]
Extend(base, n, list) == [i \in 1 .. Len(list) |-> With(base, n, list[i])]
NoParams == [x \in {} |-> 0]

\* When the last base is extended, what has grown are the bases of the next axis.
Bases(bases, longer) == IF Len(bases) = 1 THEN longer ELSE Tail(bases)
Grown(bases, longer) == IF Len(bases) = 1 THEN <<>> ELSE longer

Cartesian ==
  /\ step = "values" /\ \A n \in Fixed : values[n].closed
  /\ cells' = <<NoParams>> /\ step' = "cross"
  /\ UNCHANGED <<placeholders, axes, maxVariants, total, planned, values, drawing, variants>>

\* The fixed axes that the bases do not have yet.  One base is extended by
\* every value of the first of them.
Uncrossed == Fixed \ DOMAIN cells[1]
Cross ==
  /\ step = "cross"
  /\ IF Uncrossed = {} THEN step' = "cell" /\ UNCHANGED <<cells, grown>>
     ELSE LET longer == grown \o Extend(Head(cells), Min(Uncrossed), values[Min(Uncrossed)].list)
          IN cells' = Bases(cells, longer) /\ grown' = Grown(cells, longer) /\ UNCHANGED step
  /\ UNCHANGED <<placeholders, axes, maxVariants, total, planned, values, combos, seen, attempts, variants>>

-----------------------------------------------------------------------------
(* Per cell: randomCartesian and drawDistinct, then the variants.          *)

NextCell ==
  /\ step = "cell"
  /\ IF cells = <<>> THEN step' = "done" /\ UNCHANGED combos
     ELSE step' = "draw" /\ combos' = <<Head(cells)>>
  /\ UNCHANGED <<placeholders, axes, maxVariants, total, planned, values, cells, grown, seen, attempts, variants>>

\* The random axes that the combinations do not have yet, and the next one.
Undrawn == Random \ DOMAIN combos[1]
Axis    == Min(Undrawn)
Space(spec) == 1 .. Strings(LengthOf(spec))

Duplicate(value) == value \in seen

\* One attempt of drawDistinct.  A new value extends the current base; after
\* the last one of a base it is the next base's turn.
Draw ==
  /\ step = "draw" /\ Undrawn # {}
  /\ \E value \in Space(axes[Axis]) :
       IF Duplicate(value)
       THEN /\ attempts' = attempts + 1
            /\ step' = IF attempts' = AttemptsPerValue * axes[Axis].count THEN "error" ELSE "draw"
            /\ UNCHANGED <<combos, grown, seen>>
       ELSE LET longer == Append(grown, With(Head(combos), Axis, value))
                full   == Cardinality(seen) + 1 = axes[Axis].count
            IN /\ attempts' = 0 /\ seen' = IF full THEN {} ELSE seen \cup {value}
               /\ combos' = IF full THEN Bases(combos, longer) ELSE combos
               /\ grown' = IF full THEN Grown(combos, longer) ELSE longer
               /\ step' = step
  /\ UNCHANGED <<placeholders, axes, maxVariants, total, planned, values, cells, variants>>

\* The source of randomness fails.
DrawFails ==
  /\ step = "draw" /\ Undrawn # {}
  /\ step' = "error"
  /\ UNCHANGED <<placeholders, axes, maxVariants, total, planned, values, cells, drawing, variants>>

\* The combinations are complete: every one is rendered, unless it is too long.
AppendVariants ==
  /\ step = "draw" /\ Undrawn = {}
  /\ \/ step' = "cell" /\ variants' = variants \o combos /\ cells' = Tail(cells)
     \/ step' = "error" /\ UNCHANGED <<variants, cells>>
  /\ combos' = <<>> /\ UNCHANGED <<grown, seen, attempts>>
  /\ UNCHANGED <<placeholders, axes, maxVariants, total, planned, values>>

Expand ==
  \/ MapAxes \/ MatchNames \/ PlanAxis \/ PlannedCount
  \/ FixedAxisValue \/ Cartesian \/ Cross
  \/ NextCell \/ Draw \/ DrawFails \/ AppendVariants

-----------------------------------------------------------------------------
(* Properties.                                                             *)

\* The number of values of an axis, with integers that do not wrap; 0 for an
\* axis no variant can be made of.
TrueSize(spec) ==
  CASE spec.kind = "list"   -> Len(spec.values)
    [] spec.kind = "range"  -> IF spec.from > spec.to THEN 0 ELSE spec.to - spec.from + 1
    [] spec.kind = "random" -> IF spec.count >= 1 /\ spec.length \in 0 .. MaxRandomLength
                                  /\ spec.count <= Strings(LengthOf(spec)) THEN spec.count ELSE 0
    [] OTHER                -> 0
Sizes == [n \in DOMAIN axes |-> TrueSize(axes[n])]
TrueProduct == Product(Sizes, placeholders)

\* plannedCount accepts the axes just when every axis has values and their
\* product is within the limit, and then returns the product, whatever the
\* endpoints and counts: no intermediate result overflows past the limit.
PlannedCountExact ==
  step # "plan" /\ total # Nil =>
    IF TrueProduct \in 1 .. maxVariants THEN total = TrueProduct ELSE total <= 0

\* An expansion that succeeds has the planned number of variants, spread
\* evenly over the cells, and no two of them are the same unless a list names
\* a value twice.
Distinct(s) == \A i, j \in DOMAIN s : s[i] = s[j] => i = j
ListsDistinct == \A n \in DOMAIN axes : axes[n].kind = "list" => Distinct(axes[n].values)
\* The variants of the same cell as variant x.
SameCell(x) == {y \in DOMAIN variants : \A n \in Fixed : variants[y][n] = variants[x][n]}
VariantsAsPlanned ==
  step = "done" =>
    /\ Len(variants) = total
    /\ ListsDistinct =>
         /\ Distinct(variants)
         /\ \A x, y \in DOMAIN variants : Cardinality(SameCell(x)) = Cardinality(SameCell(y))

\* The loops of the expansion never make more than was planned, and so end:
\* neither the one over a range that ends at the largest integer nor the
\* products outgrow the limit that was checked before.
LoopsBounded ==
  /\ \A n \in DOMAIN values : Len(values[n].list) <= TrueSize(axes[n])
  /\ total # Nil /\ total > 0 =>
       /\ Len(cells) <= total
       /\ Len(variants) + Len(combos) <= total /\ Len(variants) + Len(grown) <= total

\* A run request becomes exactly the variants its axes describe, or it is
\* refused (variation.Expand): the planned number is right whatever the
\* endpoints and counts are, the loops stay within it, and the variants differ.
ExpansionExact == PlannedCountExact /\ VariantsAsPlanned /\ LoopsBounded
=============================================================================
