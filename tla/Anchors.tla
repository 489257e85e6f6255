------------------------------ MODULE Anchors ------------------------------
(***************************************************************************)
(* AnchorMapper: between a place in the source (a byte and how far into    *)
(* its region) and a height in a laid-out frame.  A frame is a sequence of *)
(* regions; fractions are hundredths, rounded down.                        *)
(***************************************************************************)
EXTENDS Integers, Sequences

Clamp(x, lo, hi) == IF x < lo THEN lo ELSE IF x > hi THEN hi ELSE x

Least(a, b) == IF a <= b THEN a ELSE b

Region == [begin : Nat, end : Nat, y : Nat, height : Nat,
           quality : {"exact", "approximate", "unavailable"}]

Anchor == [byte : Nat, fraction : 0 .. 99, quality : {"exact", "approximate", "unavailable"}]

\* SourceAnchor{}: the top of any document.
TopAnchor == [byte |-> 0, fraction |-> 0, quality |-> "exact"]

Usable(regions) == {i \in DOMAIN regions : regions[i].quality # "unavailable"}

\* How far x lies outside the half-open interval [lo, hi).
Outside(x, lo, hi) == IF x < lo THEN lo - x ELSE IF x >= hi THEN x - hi + 1 ELSE 0

Precedes(p, q) ==
    \E k \in DOMAIN p : p[k] < q[k] /\ \A j \in 1 .. k - 1 : p[j] = q[j]

\* The first region in order whose key is smallest.
Nearest(S, key) ==
    CHOOSE i \in S : \A j \in S : ~Precedes(key[j], key[i]) /\ (key[j] = key[i] => i <= j)

\* map: the region nearest to the byte, the shorter one when two are as near.
MapKey(a, regions, i) ==
    <<Outside(a.byte, regions[i].begin, regions[i].end), regions[i].end - regions[i].begin>>

\* Mutant of MapAnchor: among regions as near, the first one wins.
MapAnchorFirst(a, regions) ==
    IF Usable(regions) = {} THEN [y |-> 0, quality |-> "unavailable"]
    ELSE LET key == [i \in Usable(regions) |-> <<MapKey(a, regions, i)[1]>>]
             r == regions[Nearest(Usable(regions), key)]
         IN [y |-> r.y + (a.fraction * r.height) \div 100, quality |-> r.quality]

MapAnchor(a, regions) ==
    IF Usable(regions) = {} THEN [y |-> 0, quality |-> "unavailable"]
    ELSE LET key == [i \in Usable(regions) |-> MapKey(a, regions, i)]
             r == regions[Nearest(Usable(regions), key)]
         IN [y |-> r.y + (a.fraction * r.height) \div 100,
             quality |-> IF Outside(a.byte, r.begin, r.end) = 0 THEN r.quality ELSE "approximate"]

\* anchorAt: the region nearest to the height, then the lower one, then the
\* one that begins first.
RegionAt(y, regions) ==
    Nearest(Usable(regions), [i \in Usable(regions) |->
        <<Outside(y, regions[i].y, regions[i].y + regions[i].height),
          regions[i].height, regions[i].begin>>])

AnchorAt(y, regions) ==
    IF Usable(regions) = {} THEN [byte |-> 0, fraction |-> 0, quality |-> "unavailable"]
    ELSE LET r == regions[RegionAt(y, regions)] IN
         [byte |-> r.begin,
          fraction |-> Clamp(((y - r.y) * 100) \div (IF r.height < 1 THEN 1 ELSE r.height), 0, 99),
          quality |-> IF Outside(y, r.y, r.y + r.height) = 0 THEN r.quality ELSE "approximate"]

\* A height mapped to the source and back (AnchorMapper::anchorAt, then map).
\* It lands in a region at least as near to the noted byte as the one the
\* reader was in, and no longer if it is as near: on the line, never on the
\* block around it. Where the reader's own region is the first of the nearest
\* and shortest at its byte, as a line is that begins together with its block
\* and the first cell of a row, the height itself comes back, up to the
\* rounding of fractions.
RoundTrip(y, regions) ==
    LET a == AnchorAt(y, regions)
        back == MapAnchor(a, regions)
        here == RegionAt(y, regions)
        span(i) == regions[i].end - regions[i].begin
        off(i) == Outside(a.byte, regions[i].begin, regions[i].end)
        closer(i, j) == off(i) < off(j) \/ (off(i) = off(j) /\ span(i) < span(j))
        first == \A i \in Usable(regions) \ {here} :
                    closer(here, i) \/ (~closer(i, here) /\ here < i)
        inside == Outside(y, regions[here].y, regions[here].y + regions[here].height) = 0
    IN Usable(regions) # {} =>
          /\ \E i \in Usable(regions) :
                /\ ~closer(here, i)
                /\ regions[i].y <= back.y /\ back.y <= regions[i].y + regions[i].height
          /\ first /\ inside => back.y <= y /\ y - back.y <= 1 + regions[here].height \div 100
=============================================================================
