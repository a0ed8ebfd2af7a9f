---------------------------- MODULE CoverageDiff ----------------------------
(***************************************************************************)
(* The comparison of two sets of CIDR prefixes for one service             *)
(* (diffService in internal/compare/compare.go): local minus live and live *)
(* minus local, each by sorting and merging the address ranges of both     *)
(* sides, subtracting them with one pass over the two sequences, and       *)
(* cutting what is left into CIDR blocks.  One action is one turn of one   *)
(* of the loops.                                                           *)
(***************************************************************************)
EXTENDS Naturals, Sequences, FiniteSets, Uint128

CONSTANT Inputs   \* the pairs of sets of prefixes to compare

\* Cidrs in normal form: no host bits (normalizeCIDR refuses others).
Cidrs ==
  {p \in [family : Families, addr : Uint128s, bits : 0 .. V6] :
     /\ p.bits <= p.family
     /\ AtMost(p.addr, MaxValue(p.family))
     /\ TrailingZeros(p.addr) >= p.family - p.bits}
Ranges == [family : Families, start : Uint128s, end : Uint128s]

\* Neither the lists nor the index yield a default route.
NonDefault == {p \in Cidrs : p.bits > 0}

ASSUME InputsAssumption ==
  \A pair \in Inputs : /\ pair.live \subseteq NonDefault
                       /\ pair.local \subseteq NonDefault
                       /\ IsFiniteSet(pair.live) /\ IsFiniteSet(pair.local)
                       /\ pair.invalid \in BOOLEAN

VARIABLES
  input,      \* the two sets, and whether a line of the live lists is bad
  side,       \* "local" while local minus live is computed, then "live"
  pc,
  queue,      \* ranges the current loop has yet to handle, in order
  merged,     \* the merged ranges so far
  left, right,\* the merged ranges of the minuend and of the subtrahend
  l,          \* index of the range of left being cut
  rightIndex, \* first range of right that is not before it
  i,          \* index of the range of right it is cut by
  cursor,     \* first address of left[l] not decided yet
  out,        \* the ranges of the difference
  current,    \* first address of Head(queue) not emitted yet
  prefixes,   \* blocks emitted
  result,     \* side -> the blocks only that side has
  status

mergeVars == <<queue, merged>>
scanVars == <<left, right, l, rightIndex, i, cursor, out>>
emitVars == <<current, prefixes>>
endVars == <<result, status>>
vars == <<input, side, pc, mergeVars, scanVars, emitVars, endVars>>

-----------------------------------------------------------------------------
(* Ranges *)

RangeOf(p) == [family |-> p.family, start |-> p.addr,
               end |-> AddBlockEnd(p.addr, p.family - p.bits, p.family)]

\* The order of sortRanges.
Precedes(a, b) ==
  \/ a.family < b.family
  \/ a.family = b.family /\ Less(a.start, b.start)
  \/ a.family = b.family /\ a.start = b.start /\ Less(a.end, b.end)

Elements(s) == {s[k] : k \in DOMAIN s}

Sorted(ranges) ==
  CHOOSE s \in [1 .. Cardinality(ranges) -> ranges] :
    \A j, k \in DOMAIN s : j < k => Precedes(s[j], s[k])

\* Faulty: adjacent ranges are not joined.
OverlapsOnly(a, b) == AtMost(b.start, a.end)

TouchesOrOverlaps(a, b) ==
  \/ AtMost(b.start, a.end)
  \/ a.end # MaxValue(a.family) /\ AtMost(b.start, Increment(a.end))

Before(a, b) ==
  IF a.family # b.family THEN a.family < b.family ELSE Less(a.end, b.start)

\* r starts after the end of range m: the scan of m is over.
Beyond(r, m) ==
  r.family > m.family \/ (r.family = m.family /\ Less(m.end, r.start))

Minuend == IF side = "local" THEN input.local ELSE input.live
Subtrahend == IF side = "local" THEN input.live ELSE input.local

-----------------------------------------------------------------------------

Init ==
  /\ input \in Inputs
  /\ side = "local" /\ pc = "mergeLeft"
  /\ queue = Sorted({RangeOf(p) : p \in input.local}) /\ merged = <<>>
  /\ left = <<>> /\ right = <<>> /\ out = <<>>
  /\ l = 1 /\ rightIndex = 1 /\ i = 1
  /\ cursor = Zero /\ current = Zero
  /\ prefixes = <<>>
  /\ result = [s \in {"local", "live"} |-> <<>>]
  /\ status = "none"

\* mergeRanges: the next range is joined to the last one or starts a new one.
MergeOne ==
  /\ pc \in {"mergeLeft", "mergeRight"} /\ queue # <<>>
  /\ queue' = Tail(queue)
  /\ LET r == Head(queue)
         n == Len(merged)
     IN  IF n > 0 /\ merged[n].family = r.family
                  /\ TouchesOrOverlaps(merged[n], r)
         THEN merged' = [merged EXCEPT ![n].end =
                           IF Less(@, r.end) THEN r.end ELSE @]
         ELSE merged' = Append(merged, r)
  /\ UNCHANGED <<input, side, pc, scanVars, emitVars, endVars>>

MergedLeft ==
  /\ pc = "mergeLeft" /\ queue = <<>>
  /\ pc' = "mergeRight"
  /\ left' = merged /\ merged' = <<>>
  /\ queue' = Sorted({RangeOf(p) : p \in Subtrahend})
  /\ UNCHANGED <<input, side, right, l, rightIndex, i, cursor, out, emitVars,
                 endVars>>

MergedRight ==
  /\ pc = "mergeRight" /\ queue = <<>>
  /\ pc' = "subtract"
  /\ right' = merged /\ merged' = <<>>
  /\ l' = 1 /\ rightIndex' = 1 /\ out' = <<>>
  /\ UNCHANGED <<input, side, queue, left, i, cursor, emitVars, endVars>>

\* Faulty: rightIndex is not advanced.
SkipRightStays ==
  /\ pc = "subtract" /\ l <= Len(left)
  /\ rightIndex <= Len(right) /\ Before(right[rightIndex], left[l])
  /\ UNCHANGED vars

\* subtractRanges: ranges of right before left[l] are left behind for good.
SkipRight ==
  /\ pc = "subtract" /\ l <= Len(left)
  /\ rightIndex <= Len(right) /\ Before(right[rightIndex], left[l])
  /\ rightIndex' = rightIndex + 1
  /\ UNCHANGED <<input, side, pc, mergeVars, left, right, l, i, cursor, out,
                 emitVars, endVars>>

BeginScan ==
  /\ pc = "subtract" /\ l <= Len(left)
  /\ rightIndex <= Len(right) => ~Before(right[rightIndex], left[l])
  /\ pc' = "scan"
  /\ cursor' = left[l].start /\ i' = rightIndex
  /\ UNCHANGED <<input, side, mergeVars, left, right, l, rightIndex, out,
                 emitVars, endVars>>

\* Faulty: the address that ends the cut is kept.
CutKeepsEnd ==
  /\ pc = "scan" /\ i <= Len(right) /\ ~Beyond(right[i], left[l])
  /\ LET r == right[i]
         m == left[l]
     IN  /\ out' = IF Less(cursor, r.start)
                   THEN Append(out, [family |-> m.family, start |-> cursor,
                                     end |-> r.start])
                   ELSE out
         /\ IF AtMost(m.end, r.end)
            THEN /\ l' = l + 1 /\ pc' = "subtract"
                 /\ UNCHANGED <<i, cursor>>
            ELSE /\ cursor' = Increment(r.end) /\ i' = i + 1
                 /\ UNCHANGED <<l, pc>>
  /\ UNCHANGED <<input, side, mergeVars, left, right, rightIndex, emitVars,
                 endVars>>

\* One range of right: it is passed over, or what lies before it is kept and
\* the scan goes on behind it, if left[l] reaches that far.
Cut ==
  /\ pc = "scan" /\ i <= Len(right) /\ ~Beyond(right[i], left[l])
  /\ LET r == right[i]
         m == left[l]
     IN  IF r.family < m.family \/ Less(r.end, cursor)
         THEN i' = i + 1 /\ UNCHANGED <<l, pc, cursor, out>>
         ELSE /\ out' = IF Less(cursor, r.start)
                        THEN Append(out, [family |-> m.family, start |-> cursor,
                                          end |-> Decrement(r.start)])
                        ELSE out
              /\ IF AtMost(m.end, r.end)
                 THEN /\ l' = l + 1 /\ pc' = "subtract"
                      /\ UNCHANGED <<i, cursor>>
                 ELSE /\ cursor' = Increment(r.end) /\ i' = i + 1
                      /\ UNCHANGED <<l, pc>>
  /\ UNCHANGED <<input, side, mergeVars, left, right, rightIndex, emitVars,
                 endVars>>

\* No range of right is left for left[l]: the rest of it is kept.
KeepRest ==
  /\ pc = "scan"
  /\ i <= Len(right) => Beyond(right[i], left[l])
  /\ out' = IF AtMost(cursor, left[l].end)
            THEN Append(out, [left[l] EXCEPT !.start = cursor]) ELSE out
  /\ l' = l + 1 /\ pc' = "subtract"
  /\ UNCHANGED <<input, side, mergeVars, left, right, rightIndex, i, cursor,
                 emitVars, endVars>>

Subtracted ==
  /\ pc = "subtract" /\ l = Len(left) + 1
  /\ pc' = "emit"
  /\ queue' = Sorted(Elements(out))
  /\ current' = IF out = <<>> THEN Zero ELSE Head(queue').start
  /\ prefixes' = <<>>
  /\ UNCHANGED <<input, side, merged, scanVars, endVars>>

\* Faulty: the mask is the number of host bits.
PrefixOfHostBits(family, start, hostBits) ==
  [family |-> family, addr |-> start, bits |-> hostBits]

PrefixOf(family, start, hostBits) ==
  [family |-> family, addr |-> start, bits |-> family - hostBits]

\* The block that ends here is the last of range r.
IsLastBlock(blockEnd, r) ==
  AtMost(r.end, blockEnd) \/ Less(r.end, Increment(blockEnd))

\* rangesToPrefixes: one block of the first range.
Emit ==
  /\ pc = "emit" /\ queue # <<>>
  /\ LET r == Head(queue)
         hostBits == LargestHostBits(current, r.end, r.family)
         blockEnd == AddBlockEnd(current, hostBits, r.family)
     IN  /\ prefixes' = Append(prefixes, PrefixOf(r.family, current, hostBits))
         /\ IF IsLastBlock(blockEnd, r)
            THEN /\ queue' = Tail(queue)
                 /\ current' = IF Len(queue) > 1 THEN queue[2].start ELSE Zero
            ELSE /\ current' = Increment(blockEnd)
                 /\ UNCHANGED queue
  /\ UNCHANGED <<input, side, pc, merged, scanVars, endVars>>

\* coverageDifference returns; the second call has the sides exchanged.
Emitted ==
  /\ pc = "emit" /\ queue = <<>>
  /\ result' = [result EXCEPT ![side] = prefixes]
  /\ IF side = "local"
     THEN /\ side' = "live" /\ pc' = "mergeLeft"
          /\ queue' = Sorted({RangeOf(p) : p \in input.live})
     ELSE pc' = "report" /\ UNCHANGED <<side, queue>>
  /\ UNCHANGED <<input, merged, scanVars, emitVars, status>>

\* Faulty: lists of the same length are equal.
StatusByCounts(liveCount, localCount, liveOnly, localOnly, invalid) ==
  CASE liveCount = localCount -> "equal"
    [] liveOnly > 0 -> "live_only_missing"
    [] OTHER -> "local_includes_live"

StatusForDiff(liveCount, localCount, liveOnly, localOnly, invalid) ==
  CASE liveOnly > 0 -> "live_only_missing"
    [] liveOnly = 0 /\ invalid -> "invalid_live_lines"
    [] liveOnly = 0 /\ ~invalid /\ liveCount = localCount /\ localOnly = 0 ->
         "equal"
    [] liveOnly = 0 /\ ~invalid /\ liveCount # localCount /\ localOnly = 0 ->
         IF liveCount > 0 /\ localCount > 0 THEN "equal_coverage" ELSE "empty"
    [] liveOnly = 0 /\ ~invalid /\ localOnly > 0 -> "local_includes_live"

Report ==
  /\ pc = "report"
  /\ pc' = "done"
  /\ status' = StatusForDiff(Cardinality(input.live), Cardinality(input.local),
                             Len(result.live), Len(result.local), input.invalid)
  /\ UNCHANGED <<input, side, mergeVars, scanVars, emitVars, result>>

Next ==
  \/ MergeOne
  \/ MergedLeft
  \/ MergedRight
  \/ SkipRight
  \/ BeginScan
  \/ Cut
  \/ KeepRest
  \/ Subtracted
  \/ Emit
  \/ Emitted
  \/ Report

\* The program is sequential: while a loop has a turn to take, it takes it.
Spec == Init /\ [][Next]_vars /\ WF_vars(Next)

-----------------------------------------------------------------------------
(* Reference definitions *)

Number(v) == v.hi * Word + v.lo

\* The addresses of a range, of a prefix and of many of them.
Between(family, a, b) == {family} \X (a .. b)
Addresses(r) == Between(r.family, Number(r.start), Number(r.end))
BlockOf(p) ==
  LET size == Pow2[p.family - p.bits]
  IN  Between(p.family, Number(p.addr), Number(p.addr) + size - 1)
Coverage(ps) == UNION {BlockOf(p) : p \in ps}
RangeCoverage(s) == UNION {Addresses(r) : r \in Elements(s)}

-----------------------------------------------------------------------------
(* Properties *)

\* Every variable has its type; all ranges are of addresses of their family.
TypeOK ==
  /\ input.live \cup input.local \subseteq Cidrs /\ side \in {"local", "live"}
  /\ pc \in {"mergeLeft", "mergeRight", "subtract", "scan", "emit", "report",
             "done"}
  /\ \A s \in {queue, merged, left, right, out} : s \in Seq(Ranges)
  /\ cursor \in Uint128s /\ current \in Uint128s
  /\ rightIndex \in 1 .. Len(right) + 1 /\ i \in Nat \ {0}
  /\ l \in Nat \ {0}
  /\ prefixes \in Seq(Cidrs)
  /\ result \in [{"local", "live"} -> Seq(Cidrs)]
  /\ status \in {"none", "live_only_missing", "invalid_live_lines", "equal",
                 "equal_coverage", "local_includes_live"}

\* While a range is scanned, what was decided below the cursor is exact, and
\* the cursor neither wraps nor leaves the range (compare.go 342-365).
ScannedExact ==
  pc = "scan" =>
    LET m == left[l]
        done == (UNION {Addresses(left[k]) : k \in 1 .. l - 1})
                \cup (Addresses(m) \ Between(m.family, Number(cursor),
                                             Number(m.end)))
    IN  /\ AtMost(m.start, cursor) /\ AtMost(cursor, m.end)
        /\ RangeCoverage(out) = done \ RangeCoverage(right)

\* The blocks reported for each side cover exactly the addresses that only
\* that side covers, up to the first and the last address (compare.go 281-293).
DifferenceExact ==
  pc = "done" =>
    /\ Coverage(Elements(result.local)) =
         Coverage(input.local) \ Coverage(input.live)
    /\ Coverage(Elements(result.live)) =
         Coverage(input.live) \ Coverage(input.local)

\* The blocks reported are the fewest possible, so that the counts by which
\* services are ranked do not depend on how the lists were cut: disjoint, and
\* no two of them are the halves of one block (compare.go 99, 370-404).
DifferenceMinimal ==
  pc = "done" =>
    \A s \in {"local", "live"} : \A j, k \in DOMAIN result[s] :
      LET p == result[s][j]
          q == result[s][k]
          both == BlockOf(p) \cup BlockOf(q)
      IN  j < k => /\ BlockOf(p) \cap BlockOf(q) = {}
                   /\ \A x \in Cidrs : BlockOf(x) # both

\* The status says what the coverages are: whether the local lists miss
\* anything, and when not, whether they add anything (compare.go 546-561).
StatusSound ==
  pc = "done" =>
    LET missing == ~(Coverage(input.live) \subseteq Coverage(input.local))
        same == Coverage(input.live) = Coverage(input.local)
    IN  /\ (status = "live_only_missing") = missing
        /\ (status = "invalid_live_lines") = (~missing /\ input.invalid)
        /\ (status \in {"equal", "equal_coverage"}) = (same /\ ~input.invalid)

\* Every comparison ends, although addresses wrap (compare.go 376-389).
Terminates == <>(pc = "done")
=============================================================================
