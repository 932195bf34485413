---------------------------- MODULE BackendProofs ----------------------------
(***************************************************************************)
(* Theorems about the storage backends and Restore: NoPartialObject for    *)
(* every race, and RestoreSound for any number of generations, segments    *)
(* and names on a page, as long as no generation is deleted while it is    *)
(* restored and none is left half deleted on a disk.                       *)
(***************************************************************************)
EXTENDS Backend, LeastNumber, FiniteSetTheorems

-----------------------------------------------------------------------------
(* The invariant *)

Writing == {"put", "mkdir", "create", "rename"}
Chosen  == {"snapshot", "segments", "apply"}     \* a generation is picked

Types ==
    /\ kind \in {"local", "s3"}
    /\ visible \subseteq (1..Gens) \X (0..Len(Layout))
    /\ dirs \subseteq 1..Gens
    /\ wpc \in {"idle", "prune", "list", "delete", "remove"} \cup Writing
    /\ wkey \in (0..Gens) \X (0..Len(Layout))
    /\ cur \in 0..Gens
    /\ shipped \in [1..Gens -> 0..Len(Layout)]
    /\ doomed \subseteq 0..Len(Layout)
    /\ rpc \in {"idle", "generations", "done", "failed"} \cup Chosen
    /\ ts \in 0..Gens /\ gen \in 0..Gens
    /\ rest \subseteq Segs /\ reading \subseteq Segs /\ walFile \subseteq Segs
    /\ file \in Int
    /\ start \in (0..Gens) \X (0..Len(Layout))
    /\ found \in [{"r", "w"} -> SUBSET Int]
    /\ token \in [{"r", "w"} -> Int]

\* What is stored is what was shipped; the current generation is there; and a
\* generation that has its snapshot has all of its segments, unless LocalBackend
\* is removing it at the moment.
StoreInv ==
    /\ whole = visible
    /\ \A k \in visible : /\ k[1] <= cur /\ k[2] <= shipped[k[1]]
                          /\ kind = "local" => k[1] \in dirs
    /\ cur > 0 => <<cur, 0>> \in visible
    /\ \A g \in 1..Gens : g > cur => shipped[g] = 0
    /\ \A g \in 1..Gens :
          <<g, 0>> \in visible /\ ~(wpc = "remove" /\ wkey[1] = g) =>
              \A i \in 1..shipped[g] : <<g, i>> \in visible

\* The engine's call: what it writes comes next, and what it deletes is older
\* than the current generation.  S3 deletes a snapshot before its segments.
CallInv ==
    /\ wpc \in Writing =>
          \/ cur < Gens /\ wkey = <<cur + 1, 0>>
          \/ cur > 0 /\ shipped[cur] < Len(Layout) /\ wkey = <<cur, shipped[cur] + 1>>
    /\ wpc \in {"put", "list", "delete"} => kind = "s3"
    /\ wpc \in {"mkdir", "create", "rename", "remove"} => kind = "local"
    /\ wpc \in {"create", "rename"} => wkey[1] \in dirs
    /\ wpc = "prune" => wkey[1] <= cur
    /\ Deleting => wkey[1] \in 1..Gens /\ wkey[1] < cur
    /\ wpc = "list" =>
          /\ found["w"] \subseteq 0..Len(Layout)
          /\ \/ token["w"] = -1
             \/ <<wkey[1], 0>> \in visible => 0 \in found["w"]
    /\ wpc = "delete" => (<<wkey[1], 0>> \in visible => 0 \in doomed)

\* While a generation is looked for: the one that could be restored at the start
\* is there, and in the listing or still ahead of it.
PickInv ==
    rpc = "generations" =>
        /\ gen = 0
        /\ found["r"] \subseteq 1..Gens
        /\ Deleting => ts = 0 /\ wkey[1] < start[1]
        /\ start[1] > 0 =>
              /\ ts = 0 \/ start[1] <= ts
              /\ <<start[1], 0>> \in visible
              /\ start[1] \in found["r"] \/ token["r"] < start[1]

\* The segments from the first one on have gone from the listing into rest, index
\* by index into reading, one by one into walFile, and from there into file.
Applied(f, a, b, n) ==
    /\ f <= a /\ a <= b /\ b <= n /\ n <= shipped[gen]
    /\ walFile = f + 1 .. a /\ reading = a + 1 .. b /\ rest = b + 1 .. n
    /\ gen = start[1] => start[2] <= n
    /\ b < n => Layout[b + 1].offset = 0

RestoreInv ==
    /\ rpc \in {"idle", "generations", "snapshot", "segments"} =>
          walFile = {} /\ reading = {}
    /\ rpc = "idle" => gen = 0
    /\ start[1] > 0 => start[2] <= shipped[start[1]]
    /\ rpc \in Chosen =>
          /\ gen \in 1..Gens /\ gen >= start[1]
          /\ Deleting => ts = 0 /\ wkey[1] < gen
    /\ rpc \in {"segments", "apply"} => <<gen, 0>> \in visible
    /\ rpc = "segments" =>
          /\ file = 0
          /\ \/ token["r"] = -1 /\ found["r"] = {}
             \/ /\ token["r"] \in 1..shipped[gen]
                /\ found["r"] = 1..token["r"]
    /\ rpc = "apply" =>
          file \in Nat /\ \E a, b, n \in Nat : Applied(file, a, b, n)
    /\ rpc = "done" => gen \in 1..Gens
    /\ RestoreSound

BInv == Types /\ StoreInv /\ CallInv /\ PickInv /\ RestoreInv

-----------------------------------------------------------------------------
(* Sets of numbers *)

LEMMA MaxIsGreatest ==
    ASSUME NEW b \in Int, NEW S \in SUBSET Int, \A x \in S : x <= b, S # {}
    PROVE  Max(S) \in S /\ \A x \in S : x <= Max(S)
<1>1. PICK m \in S : \A x \in S : x <= m
    BY GreatestInteger
<1>2. \A x \in S : x \in Int
    OBVIOUS
<1>3. \E y \in S : \A x \in S : y >= x
    BY <1>1, <1>2
<1>4. Max(S) \in S /\ \A x \in S : Max(S) >= x
    BY <1>3 DEF Max
<1> QED  BY <1>2, <1>4

LEMMA MinIsLeast ==
    ASSUME NEW a \in Int, NEW S \in SUBSET Int, \A x \in S : a <= x, S # {}
    PROVE  Min(S) \in S /\ \A x \in S : Min(S) <= x
<1>1. PICK m \in S : \A x \in S : m <= x
    BY LeastInteger
<1> QED  BY <1>1 DEF Min

LEMMA IntervalEnds ==
    ASSUME NEW a \in Int, NEW b \in Int, a <= b
    PROVE  Min(a..b) = a /\ Max(a..b) = b
<1>1. a..b \in SUBSET Int /\ a \in a..b /\ b \in a..b
    OBVIOUS
<1>2. \A x \in a..b : a <= x /\ x <= b
    OBVIOUS
<1>3. Min(a..b) \in a..b /\ \A x \in a..b : Min(a..b) <= x
    BY <1>1, <1>2, MinIsLeast
<1>4. Max(a..b) \in a..b /\ \A x \in a..b : x <= Max(a..b)
    BY <1>1, <1>2, MaxIsGreatest
<1>5. Min(a..b) \in Int /\ Min(a..b) <= a /\ a <= Min(a..b)
    BY <1>1, <1>2, <1>3
<1>6. Max(a..b) \in Int /\ Max(a..b) >= b /\ Max(a..b) <= b
    BY <1>1, <1>2, <1>4
<1> QED  BY <1>5, <1>6

-----------------------------------------------------------------------------
(* A listing, a page at a time *)

\* The names on the next page are the first ones that are left, and all of them if
\* it is the last page.
LEMMA PageIsFirst ==
    ASSUME NEW n \in Nat, NEW names \in SUBSET (0..n), NEW p, token[p] \in Int,
           kind \in {"local", "s3"}
    PROVE  LET left == {x \in names : x > token[p]}
           IN  /\ Page(names, p) \subseteq left
               /\ \A x \in Page(names, p) : \A y \in left : y < x => y \in Page(names, p)
               /\ \A x \in left : (\A y \in left : ~(y < x)) => x \in Page(names, p)
               /\ LastPage(names, p) => Page(names, p) = left
<1> DEFINE left == {x \in names : x > token[p]}
           Before(x) == {y \in left : y < x}
<1>1. PageLen \in Nat /\ PageLen > 0
    BY BackendAssumption
<1>2. /\ IsFiniteSet(left) /\ Cardinality(left) \in Nat
      /\ \A x \in left : x \in Int
    <2>1. IsFiniteSet(0..n)
        BY FS_Interval, SMT
    <2>2. left \in SUBSET (0..n)
        OBVIOUS
    <2> HIDE DEF left
    <2>3. IsFiniteSet(left)
        BY <2>1, <2>2, FS_Subset
    <2> QED  BY <2>2, <2>3, FS_CardinalityType
<1>3. \A x \in left : /\ IsFiniteSet(Before(x)) /\ Cardinality(Before(x)) \in Nat
                      /\ Cardinality(Before(x)) < Cardinality(left)
    <2> SUFFICES ASSUME NEW x \in left
                 PROVE  /\ IsFiniteSet(Before(x)) /\ Cardinality(Before(x)) \in Nat
                        /\ Cardinality(Before(x)) < Cardinality(left)
        OBVIOUS
    <2>1. Before(x) \in SUBSET left /\ x \notin Before(x)
        BY <1>2
    <2> HIDE DEF left, Before
    <2>2. /\ IsFiniteSet(Before(x))
          /\ Cardinality(Before(x)) <= Cardinality(left)
          /\ Cardinality(left) = Cardinality(Before(x)) => left = Before(x)
        BY <1>2, <2>1, FS_Subset
    <2>3. Cardinality(Before(x)) \in Nat
        BY <2>2, FS_CardinalityType
    <2> QED  BY <1>2, <2>1, <2>2, <2>3
<1>4. \A x, y \in left : y < x => Cardinality(Before(y)) <= Cardinality(Before(x))
    <2> SUFFICES ASSUME NEW x \in left, NEW y \in left, y < x
                 PROVE  Cardinality(Before(y)) <= Cardinality(Before(x))
        OBVIOUS
    <2>1. IsFiniteSet(Before(x))
        BY <1>3
    <2>2. x \in Int /\ y \in Int /\ left \subseteq Int
        BY <1>2
    <2> HIDE DEF left
    <2>3. \A z \in left : z < y => z < x
        BY <2>2
    <2>4. Before(y) \in SUBSET Before(x)
        BY <2>3
    <2> HIDE DEF Before
    <2> QED  BY <2>1, <2>4, FS_Subset
<1>5. /\ kind = "local" => Page(names, p) = left
      /\ kind # "local" => Page(names, p) = {x \in left : Cardinality(Before(x)) < PageLen}
      /\ LastPage(names, p) => kind = "local" \/ Cardinality(left) <= PageLen
    BY DEF Page, LastPage
<1>6. \A x \in left : (\A y \in left : ~(y < x)) => Cardinality(Before(x)) = 0
    <2> SUFFICES ASSUME NEW x \in left, \A y \in left : ~(y < x)
                 PROVE  Cardinality(Before(x)) = 0
        OBVIOUS
    <2>1. Before(x) = {}
        OBVIOUS
    <2> QED  BY <2>1, FS_EmptySet
<1> HIDE DEF left, Before
<1>7. Page(names, p) \subseteq left
    BY <1>5
<1>8. \A x \in Page(names, p) : \A y \in left : y < x => y \in Page(names, p)
    BY <1>1, <1>3, <1>4, <1>5
<1>9. \A x \in left : (\A y \in left : ~(y < x)) => x \in Page(names, p)
    BY <1>1, <1>5, <1>6
<1>10. LastPage(names, p) => Page(names, p) = left
    BY <1>1, <1>2, <1>3, <1>5
<1> QED  BY <1>7, <1>8, <1>9, <1>10 DEF left

\* A name that is in the listing or still ahead of it stays so; with the last page
\* it is in the listing.  Nothing else gets into it.
LEMMA NothingSkipped ==
    ASSUME NEW n \in Nat, NEW names \in SUBSET (0..n), NEW p \in {"r", "w"},
           Types, NextPage(names, p)
    PROVE  /\ found'[p] \subseteq found[p] \cup names
           /\ token'[p] \in Int
           /\ token'[p] = token[p] \/ (token'[p] \in names /\ token[p] < token'[p])
           /\ \A x \in names : x \in found[p] \/ token[p] < x =>
                 x \in found'[p] \/ token'[p] < x
           /\ LastPage(names, p) =>
                 \A x \in names : x \in found[p] \/ token[p] < x => x \in found'[p]
           /\ \A x \in names : token[p] < x /\ x <= token'[p] => x \in found'[p]
           /\ \A x \in found'[p] : x \in found[p] \/ (token[p] < x /\ x <= token'[p])
           /\ \A x \in names : token[p] < x /\ (\A y \in names : ~(y < x)) => x \in found'[p]
           /\ \A q \in {"r", "w"} \ {p} : found'[q] = found[q] /\ token'[q] = token[q]
<1> DEFINE page == Page(names, p)
           left == {x \in names : x > token[p]}
<1>1. /\ found' = [found EXCEPT ![p] = @ \cup page]
      /\ token' = [token EXCEPT ![p] = IF page = {} THEN @ ELSE Max(page)]
    BY DEF NextPage
<1>2. /\ found \in [{"r", "w"} -> SUBSET Int] /\ token \in [{"r", "w"} -> Int]
      /\ token[p] \in Int /\ kind \in {"local", "s3"}
    BY DEF Types
<1>3. /\ page \subseteq left
      /\ \A x \in page : \A y \in left : y < x => y \in page
      /\ \A x \in left : (\A y \in left : ~(y < x)) => x \in page
      /\ LastPage(names, p) => page = left
    BY <1>2, PageIsFirst
<1>4. left \subseteq names /\ \A x \in names : x \in Int /\ x <= n
    OBVIOUS
<1>5. page # {} => Max(page) \in page /\ \A x \in page : x <= Max(page)
    <2> SUFFICES ASSUME page # {}
                 PROVE  Max(page) \in page /\ \A x \in page : x <= Max(page)
        OBVIOUS
    <2> HIDE DEF page, left
    <2>1. page \in SUBSET Int /\ (\A x \in page : x <= n) /\ n \in Int
        BY <1>3, <1>4
    <2> QED  BY <2>1, MaxIsGreatest
<1>6. /\ found'[p] = found[p] \cup page
      /\ token'[p] = IF page = {} THEN token[p] ELSE Max(page)
      /\ \A q \in {"r", "w"} \ {p} : found'[q] = found[q] /\ token'[q] = token[q]
    <2> HIDE DEF page, left
    <2> QED  BY <1>1, <1>2
<1>7. \A x \in names : token[p] < x <=> x \in left
    BY <1>2, <1>4
<1> HIDE DEF page, left
<1>8. /\ token'[p] \in Int
      /\ token'[p] = token[p] \/ (token'[p] \in names /\ token[p] < token'[p])
    BY <1>2, <1>3, <1>4, <1>5, <1>6, <1>7
<1>9. \A x \in left : x <= token'[p] => x \in page
    <2> SUFFICES ASSUME NEW x \in left, x <= token'[p] PROVE x \in page
        OBVIOUS
    <2>1. x \in Int /\ token[p] < x
        BY <1>4, <1>7
    <2>2. page # {}
        <3> SUFFICES ASSUME page = {} PROVE FALSE
            OBVIOUS
        <3>1. token'[p] = token[p] /\ token[p] \in Int
            BY <1>2, <1>6
        <3>2. \A u, v \in Int : u <= v /\ v < u => FALSE
            OBVIOUS
        <3> QED  BY <2>1, <3>1, <3>2
    <2>3. PICK m \in page : m = token'[p]
        BY <1>5, <1>6, <2>2
    <2>4. x < m \/ x = m
        BY <1>3, <1>4, <2>1, <2>3
    <2> QED  BY <1>3, <2>3, <2>4
<1>10. \A x \in names : x \in found[p] \/ token[p] < x => x \in found'[p] \/ token'[p] < x
    BY <1>4, <1>6, <1>7, <1>8, <1>9
<1>11. LastPage(names, p) =>
          \A x \in names : x \in found[p] \/ token[p] < x => x \in found'[p]
    BY <1>3, <1>6, <1>7
<1>12. \A x \in names : token[p] < x /\ x <= token'[p] => x \in found'[p]
    BY <1>6, <1>7, <1>9
<1>13. \A x \in found'[p] : x \in found[p] \/ (token[p] < x /\ x <= token'[p])
    BY <1>3, <1>4, <1>5, <1>6, <1>7
<1>14. \A x \in names : token[p] < x /\ (\A y \in names : ~(y < x)) => x \in found'[p]
    BY <1>3, <1>4, <1>6, <1>7
<1> QED  BY <1>3, <1>4, <1>6, <1>8, <1>10, <1>11, <1>12, <1>13, <1>14

-----------------------------------------------------------------------------
(* The segments of an index *)

LEMMA LayoutTypes ==
    /\ Len(Layout) \in Nat
    /\ \A i \in Segs : Layout[i].index \in Nat /\ Layout[i].offset \in Nat
<1> DEFINE X == [index : Nat, offset : Nat]
<1>1. \A s \in Seq(X) : Len(s) \in Nat /\ \A i \in 1..Len(s) : s[i] \in X
    <2> HIDE DEF X
    <2> QED  OBVIOUS
<1>2. Len(Layout) \in Nat /\ \A i \in Segs : Layout[i] \in X
    BY <1>1, LayoutAssumption DEF Segs
<1> QED  BY <1>2

\* Of the segments from b + 1 to n, those of the lowest index come first, and they
\* are all applied if the first of them is at offset 0; the next one is, too.
LEMMA IndexRun ==
    ASSUME NEW b \in Nat, NEW n \in Nat, b < n, n <= Len(Layout),
           Layout[b + 1].offset = 0
    PROVE  LET S    == b + 1 .. n
               segs == {i \in S : Layout[i].index = Min({Layout[j].index : j \in S})}
           IN  \E e \in Nat : /\ b < e /\ e <= n
                              /\ segs = b + 1 .. e /\ S \ segs = e + 1 .. n
                              /\ Contiguous(segs) = segs
                              /\ e < n => Layout[e + 1].offset = 0
<1> DEFINE S == b + 1 .. n
           I == {Layout[j].index : j \in S}
           segs == {i \in S : Layout[i].index = Min(I)}
           e == Max(segs)
<1>1. /\ S \subseteq Segs /\ b + 1 \in S /\ S \subseteq Int
      /\ \A i \in S : b + 1 <= i /\ i <= n
      /\ \A i \in Segs : Layout[i].index \in Nat /\ Layout[i].offset \in Nat
    BY LayoutTypes DEF Segs
<1>2. \A i, j \in Segs : i < j =>
          \/ Layout[i].index < Layout[j].index
          \/ /\ Layout[i].index = Layout[j].index
             /\ Layout[j].offset = Layout[i].offset + (j - i)
    BY LayoutAssumption
<1>3. Min(I) = Layout[b + 1].index
    <2>1. I \in SUBSET Int /\ (\A x \in I : 0 <= x) /\ I # {} /\ 0 \in Int
        BY <1>1
    <2>2. Min(I) \in I /\ \A x \in I : Min(I) <= x
        <3> HIDE DEF I
        <3> QED  BY <2>1, MinIsLeast
    <2>3. PICK j \in S : Min(I) = Layout[j].index
        BY <2>2
    <2>4. Min(I) <= Layout[b + 1].index
        BY <1>1, <2>2
    <2>5. Layout[b + 1].index <= Layout[j].index
        <3>1. b + 1 = j \/ b + 1 < j
            BY <1>1
        <3> QED  BY <1>1, <1>2, <3>1
    <2>6. Layout[j].index \in Nat /\ Layout[b + 1].index \in Nat
        BY <1>1
    <2> QED  BY <2>3, <2>4, <2>5, <2>6
<1> HIDE DEF I
<1>4. segs = {i \in S : Layout[i].index = Layout[b + 1].index} /\ b + 1 \in segs
    BY <1>1, <1>3
<1>5. e \in segs /\ \A i \in segs : i <= e
    <2>1. segs \in SUBSET Int /\ \A i \in segs : i <= n
        BY <1>1
    <2>2. n \in Int /\ segs # {}
        BY <1>4
    <2> HIDE DEF segs
    <2> QED  BY <2>1, <2>2, MaxIsGreatest
<1> HIDE DEF e, segs
<1>6. e \in Nat /\ b < e /\ e <= n /\ e \in S
    BY <1>1, <1>4, <1>5
<1>7. segs = b + 1 .. e
    <2>1. ASSUME NEW i \in b + 1 .. e PROVE i \in segs
        <3>1. i \in S /\ i \in Segs /\ e \in Segs /\ b + 1 \in Segs
            BY <1>1, <1>6
        <3>2. Layout[e].index = Layout[b + 1].index
            BY <1>4, <1>5
        <3>3. i = b + 1 \/ Layout[b + 1].index <= Layout[i].index
            <4>1. i = b + 1 \/ b + 1 < i
                BY <3>1
            <4> QED  BY <1>1, <1>2, <3>1, <4>1
        <3>4. i = e \/ Layout[i].index <= Layout[e].index
            <4>1. i = e \/ i < e
                BY <1>6
            <4> QED  BY <1>1, <1>2, <3>1, <4>1
        <3>5. Layout[i].index \in Nat /\ Layout[e].index \in Nat
            BY <1>1, <3>1
        <3>6. Layout[i].index = Layout[b + 1].index
            BY <3>2, <3>3, <3>4, <3>5
        <3> QED  BY <1>4, <3>1, <3>6
    <2>2. \A i \in segs : i \in b + 1 .. e
        BY <1>1, <1>4, <1>5, <1>6
    <2> QED  BY <2>1, <2>2
<1>8. S \ segs = e + 1 .. n
    BY <1>6, <1>7
<1>9. \A i \in segs : i = b + 1 + Layout[i].offset
    <2> SUFFICES ASSUME NEW i \in segs PROVE i = b + 1 + Layout[i].offset
        OBVIOUS
    <2>1. i \in S /\ Layout[i].index = Layout[b + 1].index
        BY <1>4
    <2>2. i = b + 1 \/ b + 1 < i
        BY <1>1, <2>1
    <2>3. CASE i = b + 1
        BY <2>3
    <2>4. CASE b + 1 < i
        <3>1. b + 1 \in Segs /\ i \in Segs
            BY <1>1, <2>1
        <3>2. ~(Layout[b + 1].index < Layout[i].index)
            BY <1>1, <2>1, <3>1
        <3>3. Layout[i].offset = Layout[b + 1].offset + (i - (b + 1))
            BY <1>2, <2>4, <3>1, <3>2
        <3> QED  BY <1>1, <2>1, <3>3
    <2> QED  BY <2>2, <2>3, <2>4
<1>10. Contiguous(segs) = segs
    <2> SUFFICES ASSUME NEW i \in segs, NEW o \in 0..Layout[i].offset
                 PROVE  \E j \in segs : Layout[j].offset = o
        BY DEF Contiguous
    <2>1. Layout[i].offset \in Nat /\ i \in b + 1 .. e
        BY <1>1, <1>4, <1>7
    <2>2. PICK j \in Int : j = b + 1 + o
        OBVIOUS
    <2>3. j \in segs
        BY <1>6, <1>7, <1>9, <2>1, <2>2
    <2>4. Layout[j].offset \in Nat
        BY <1>1, <1>4, <2>3
    <2> QED  BY <1>9, <2>2, <2>3, <2>4
<1>11. e < n => Layout[e + 1].offset = 0
    <2> SUFFICES ASSUME e < n, Layout[e + 1].offset # 0 PROVE FALSE
        OBVIOUS
    <2>1. PICK k \in S : k = e + 1
        BY <1>1, <1>6
    <2>2. k \in Segs /\ Layout[k].offset > 0 /\ k - 1 = e
        BY <1>1, <1>6, <2>1
    <2>3. Layout[e].index = Layout[k].index
        BY <2>2, LayoutAssumption
    <2>4. e + 1 \in segs
        BY <1>4, <1>5, <2>1, <2>3
    <2> QED  BY <1>5, <1>6, <2>4
<1> QED  BY <1>6, <1>7, <1>8, <1>10, <1>11 DEF segs, I

\* The first segment of a generation is at offset 0.
LEMMA FirstSegment == Len(Layout) \in Nat /\ (Len(Layout) > 0 => Layout[1].offset = 0)
<1>1. Len(Layout) \in Nat /\ \A i \in Segs : Layout[i].offset \in Nat
    BY LayoutTypes
<1>2. Len(Layout) > 0 => 1 \in Segs
    BY <1>1 DEF Segs
<1>3. 1 \in Segs /\ Layout[1].offset > 0 => FALSE
    BY LayoutAssumption
<1> QED  BY <1>1, <1>2, <1>3

-----------------------------------------------------------------------------
(* NoPartialObject *)

WholeInv == whole = visible /\ NoPartialObject

LEMMA WholeStep == WholeInv /\ [Next]_vars => WholeInv'
<1> SUFFICES ASSUME WholeInv, [Next]_vars PROVE WholeInv'
    OBVIOUS
<1> USE DEF WholeInv, NoPartialObject
<1>1. CASE UNCHANGED vars
    BY <1>1 DEF vars, store, restore
<1>2. CASE UNCHANGED <<visible, whole, cause>>
    BY <1>2
<1>3. CASE \/ WriteSnapshot \/ WriteWALSegment \/ MkdirAll \/ Create \/ WriteFails
           \/ PruneEnds \/ (\E g \in 1..Gens : DeleteGeneration(g)) \/ ListDoomed
           \/ DeleteFails
    <2>1. UNCHANGED <<visible, whole, cause>>
        BY <1>3 DEF WriteSnapshot, WriteWALSegment, BeginWrite, MkdirAll, Create, WriteFails,
                    PruneEnds, DeleteGeneration, ListDoomed, DeleteFails, store, restore
    <2> QED  BY <2>1
<1>4. CASE Put \/ Rename \/ Delete \/ RemoveAll
    BY <1>4 DEF Put, Rename, Delete, RemoveAll, restore
<1>5. CASE (\E T \in 0..Gens : CallRestore(T)) \/ WALSegments \/ BeginIndex \/ Fold \/ Verify
    <2>1. UNCHANGED <<visible, whole, cause>>
        BY <1>5 DEF CallRestore, WALSegments, BeginIndex, Fold, Verify, store, restore
    <2> QED  BY <2>1
<1>6. CASE Generations
    BY <1>6 DEF Generations, Fail, store
<1>7. CASE ReadSnapshot
    BY <1>7 DEF ReadSnapshot, Fail, store
<1>8. CASE ReadWALSegment
    BY <1>8 DEF ReadWALSegment, Fail, store
<1>9. CASE RestoreFails \/ Return
    BY <1>9 DEF RestoreFails, Return, Fail, store
<1> QED  BY <1>1, <1>3, <1>4, <1>5, <1>6, <1>7, <1>8, <1>9 DEF Next, EngineNext, RestoreNext

\* Whatever races: no Restore ever opens an object that does not hold all of its
\* data, because atomicWrite's rename and a PUT make an object visible whole.
THEOREM NoObjectIsPartial == Spec => []NoPartialObject
<1>1. Init => WholeInv
    BY DEF Init, WholeInv, NoPartialObject
<1>2. WholeInv => NoPartialObject
    BY DEF WholeInv
<1> QED  BY <1>1, <1>2, WholeStep, PTL DEF Spec

-----------------------------------------------------------------------------
(* RestoreSound: the engine's steps *)

NoRaces == "prune" \notin Races /\ "halfDeleted" \notin Races

\* What the provers need to know of the types.
LEMMA TypeFacts ==
    ASSUME Types
    PROVE  /\ Gens \in Nat /\ Len(Layout) \in Nat
           /\ wkey = <<wkey[1], wkey[2]>> /\ wkey[1] \in 0..Gens /\ wkey[2] \in 0..Len(Layout)
           /\ cur \in 0..Gens /\ gen \in 0..Gens /\ ts \in 0..Gens
           /\ start = <<start[1], start[2]>> /\ start[1] \in 0..Gens
           /\ start[2] \in 0..Len(Layout)
           /\ \A k \in visible : /\ k = <<k[1], k[2]>> /\ k[1] \in 1..Gens
                                 /\ k[2] \in 0..Len(Layout)
           /\ \A g, i : <<g, i>> \in visible => g \in 1..Gens /\ i \in 0..Len(Layout)
           /\ \A g \in 1..Gens : shipped[g] \in 0..Len(Layout)
           /\ token["r"] \in Int /\ token["w"] \in Int
<1>1. \A X, Y : \A k \in X \X Y : k = <<k[1], k[2]>> /\ k[1] \in X /\ k[2] \in Y
    OBVIOUS
<1>2. \A X, Y, g, i : <<g, i>> \in X \X Y => g \in X /\ i \in Y
    OBVIOUS
<1>3. /\ wkey = <<wkey[1], wkey[2]>> /\ wkey[1] \in 0..Gens /\ wkey[2] \in 0..Len(Layout)
      /\ start = <<start[1], start[2]>> /\ start[1] \in 0..Gens
      /\ start[2] \in 0..Len(Layout)
    BY <1>1 DEF Types
<1>4. \A k \in visible : /\ k = <<k[1], k[2]>> /\ k[1] \in 1..Gens
                         /\ k[2] \in 0..Len(Layout)
    BY <1>1 DEF Types
<1>5. \A g, i : <<g, i>> \in visible => g \in 1..Gens /\ i \in 0..Len(Layout)
    BY <1>2 DEF Types
<1>6. /\ cur \in 0..Gens /\ gen \in 0..Gens /\ ts \in 0..Gens
      /\ \A g \in 1..Gens : shipped[g] \in 0..Len(Layout)
      /\ token["r"] \in Int /\ token["w"] \in Int
    BY DEF Types
<1> QED  BY <1>3, <1>4, <1>5, <1>6, BackendAssumption, LayoutTypes

\* A step of the engine keeps what concerns the restore if shipped only grows, no
\* snapshot goes but that of the generation it is deleting, and it begins to
\* delete only a generation older than the one that is restored.
LEMMA EngineKeepsRestore ==
    ASSUME BInv, Types', UNCHANGED <<kind, restore>>,
           found'["r"] = found["r"], token'["r"] = token["r"],
           \A g \in 1..Gens : shipped[g] <= shipped'[g],
           \A g \in 1..Gens : <<g, 0>> \in visible /\ ~(Deleting /\ wkey[1] = g)
                                 => <<g, 0>> \in visible',
           Deleting' => \/ Deleting /\ wkey'[1] = wkey[1]
                        \/ ~Restoring \/ (ts = 0 /\ gen > wkey'[1])
    PROVE  PickInv' /\ RestoreInv'
<1> USE TypeFacts DEF BInv
<1>1. /\ ts' = ts /\ gen' = gen /\ rpc' = rpc /\ start' = start /\ rest' = rest
      /\ reading' = reading /\ walFile' = walFile /\ file' = file /\ kind' = kind
    BY DEF restore, target
<1>2. wkey'[1] \in Nat /\ \A g \in 1..Gens : shipped'[g] \in Nat /\ shipped[g] \in Nat
    <2>1. \A X, Y : \A k \in X \X Y : k[1] \in X
        OBVIOUS
    <2>2. wkey'[1] \in 0..Gens /\ \A g \in 1..Gens : shipped'[g] \in 0..Len(Layout)
        BY <2>1 DEF Types
    <2> QED  BY <2>2
<1>3. PickInv'
    <2> SUFFICES ASSUME rpc = "generations" PROVE PickInv'
        BY <1>1 DEF PickInv
    <2>1. PickInv /\ gen = 0 /\ Restoring
        BY DEF PickInv, Restoring
    <2>2. Deleting' => Deleting /\ wkey'[1] = wkey[1]
        BY <1>2, <2>1
    <2>3. start[1] > 0 => <<start[1], 0>> \in visible'
        BY <2>1 DEF PickInv
    <2> QED  BY <1>1, <2>1, <2>2, <2>3 DEF PickInv
<1>4. RestoreInv'
    <2>1. start[1] > 0 => start[2] <= shipped'[start[1]]
        BY <1>2 DEF RestoreInv
    <2>2. rpc \in Chosen => (Deleting' => ts = 0 /\ wkey'[1] < gen)
        <3> SUFFICES ASSUME rpc \in Chosen, Deleting' PROVE ts = 0 /\ wkey'[1] < gen
            OBVIOUS
        <3>1. Restoring
            BY DEF Chosen, Restoring
        <3> QED  BY <1>2, <3>1 DEF RestoreInv
    <2>3. rpc \in {"segments", "apply"} => <<gen, 0>> \in visible'
        <3> SUFFICES ASSUME rpc \in {"segments", "apply"} PROVE <<gen, 0>> \in visible'
            OBVIOUS
        <3>1. <<gen, 0>> \in visible /\ gen \in 1..Gens /\ (Deleting => wkey[1] < gen)
            BY DEF RestoreInv, Chosen
        <3> QED  BY <3>1
    <2>4. rpc \in Chosen \/ rpc = "done" => gen \in 1..Gens /\ shipped[gen] <= shipped'[gen]
        BY DEF RestoreInv
    <2>5. ASSUME rpc = "segments", token["r"] \in 1..shipped[gen]
          PROVE  token["r"] \in 1..shipped'[gen]
        BY <1>2, <2>4, <2>5 DEF Chosen
    <2>6. ASSUME NEW a \in Nat, NEW b \in Nat, NEW n \in Nat, rpc = "apply",
                 Applied(file, a, b, n)
          PROVE  Applied(file, a, b, n)'
        <3>1. gen \in 1..Gens /\ shipped[gen] <= shipped'[gen]
            BY <2>4, <2>6 DEF Chosen
        <3>2. gen \in Nat /\ shipped[gen] \in Nat /\ shipped'[gen] \in Nat
            BY <1>2, <3>1
        <3>3. n <= shipped[gen]
            BY <2>6 DEF Applied
        <3> HIDE TypeFacts DEF BInv
        <3>4. n <= shipped'[gen]
            BY <3>1, <3>2, <3>3
        <3> QED  BY <1>1, <2>6, <3>4 DEF Applied
    <2>7. RestoreSound'
        <3>1. rpc = "done" => file \in Int /\ file <= shipped[gen]
            BY DEF RestoreInv, RestoreSound, Types
        <3> QED  BY <1>1, <1>2, <2>4, <3>1 DEF RestoreInv, RestoreSound
    <2>8. rpc = "apply" => file \in Nat /\ \E a, b, n \in Nat : Applied(file, a, b, n)'
        BY <2>6 DEF RestoreInv
    <2>9. rpc = "segments" =>
          /\ file = 0
          /\ \/ token["r"] = -1 /\ found["r"] = {}
             \/ /\ token["r"] \in 1..shipped'[gen]
                /\ found["r"] = 1..token["r"]
        BY <2>5 DEF RestoreInv
    <2> QED  BY <1>1, <2>1, <2>2, <2>3, <2>7, <2>8, <2>9 DEF RestoreInv
<1> QED  BY <1>3, <1>4

\* Steps that only go on with the call: nothing is stored and nothing deleted.
LEMMA CallGoesOn ==
    ASSUME BInv, Types', CallInv', UNCHANGED <<kind, visible, whole, cur, shipped, restore>>,
           dirs \subseteq dirs', found'["r"] = found["r"], token'["r"] = token["r"],
           wpc = "remove" => wpc' = "remove" /\ wkey'[1] = wkey[1],
           Deleting' => \/ Deleting /\ wkey'[1] = wkey[1]
                        \/ ~Restoring \/ (ts = 0 /\ gen > wkey'[1])
    PROVE  BInv'
<1>1. StoreInv'
    BY DEF BInv, StoreInv
<1>2. \A g \in 1..Gens : shipped[g] <= shipped'[g]
    BY TypeFacts DEF BInv
<1>3. PickInv' /\ RestoreInv'
    BY <1>2, EngineKeepsRestore
<1> QED  BY <1>1, <1>3 DEF BInv

LEMMA BeginWriteKeeps == BInv /\ (WriteSnapshot \/ WriteWALSegment) => BInv'
<1> SUFFICES ASSUME BInv, WriteSnapshot \/ WriteWALSegment PROVE BInv'
    OBVIOUS
<1> USE TypeFacts
<1>1. PICK key : /\ \/ cur < Gens /\ key = <<cur + 1, 0>>
                    \/ cur > 0 /\ shipped[cur] < Len(Layout) /\ key = <<cur, shipped[cur] + 1>>
                 /\ BeginWrite(key)
    BY DEF WriteSnapshot, WriteWALSegment
<1>2. /\ wpc = "idle" /\ wkey' = key
      /\ wpc' = IF kind = "local" THEN "mkdir" ELSE "put"
      /\ UNCHANGED <<kind, visible, whole, dirs, cur, shipped, doomed, restore, found, token>>
    BY <1>1 DEF BeginWrite, store, lists
<1>3. key \in (0..Gens) \X (0..Len(Layout))
    <2>1. cur + 1 \in 0..Gens \/ ~(cur < Gens)
        BY DEF BInv
    <2>2. cur > 0 /\ shipped[cur] < Len(Layout) => shipped[cur] + 1 \in 0..Len(Layout)
        <3>1. cur > 0 => cur \in 1..Gens
            BY DEF BInv
        <3> QED  BY <3>1 DEF BInv
    <2>3. 0 \in 0..Len(Layout) /\ cur \in 0..Gens
        BY DEF BInv
    <2> QED  BY <1>1, <2>1, <2>2, <2>3
<1>4. Types'
    BY <1>2, <1>3 DEF BInv, Types, Writing, restore, target
<1>5. CallInv'
    BY <1>1, <1>2 DEF BInv, Types, CallInv, Writing, Deleting
<1>6. ~Deleting'
    BY <1>2 DEF Deleting
<1> QED  BY <1>2, <1>4, <1>5, <1>6, CallGoesOn

LEMMA MkdirAllKeeps == BInv /\ MkdirAll => BInv'
<1> SUFFICES ASSUME BInv, MkdirAll PROVE BInv'
    OBVIOUS
<1> USE TypeFacts
<1>1. /\ wpc = "mkdir" /\ dirs' = dirs \cup {wkey[1]} /\ wpc' = "create"
      /\ UNCHANGED <<kind, visible, whole, wkey, cur, shipped, doomed, restore, found, token>>
    BY DEF MkdirAll, lists
<1>2. wkey[1] \in 1..Gens
    <2>1. \/ cur < Gens /\ wkey = <<cur + 1, 0>>
          \/ cur > 0 /\ wkey = <<cur, shipped[cur] + 1>>
        BY <1>1 DEF BInv, CallInv, Writing
    <2>2. wkey[1] = cur + 1 \/ (cur > 0 /\ wkey[1] = cur)
        BY <2>1
    <2> QED  BY <2>2 DEF BInv
<1>3. Types'
    BY <1>1, <1>2 DEF BInv, Types, Writing, restore, target
<1>4. CallInv'
    BY <1>1 DEF BInv, CallInv, Writing, Deleting
<1>5. ~Deleting'
    BY <1>1 DEF Deleting
<1> QED  BY <1>1, <1>3, <1>4, <1>5, CallGoesOn

LEMMA CallEndsKeeps == BInv /\ (Create \/ WriteFails \/ PruneEnds) => BInv'
<1> SUFFICES ASSUME BInv, Create \/ WriteFails \/ PruneEnds PROVE BInv'
    OBVIOUS
<1>1. /\ UNCHANGED <<kind, visible, whole, dirs, wkey, cur, shipped, doomed, restore, found,
                     token>>
      /\ (wpc = "create" /\ wpc' = "rename") \/ (wpc \in Writing \cup {"prune"} /\ wpc' = "idle")
    BY DEF Create, WriteFails, PruneEnds, store, lists, Writing
<1>2. Types'
    BY <1>1 DEF BInv, Types, Writing, restore, target
<1>3. CallInv'
    BY <1>1 DEF BInv, CallInv, Writing, Deleting
<1>4. ~Deleting' /\ wpc # "remove"
    BY <1>1 DEF Deleting, Writing
<1> QED  BY <1>1, <1>2, <1>3, <1>4, CallGoesOn

\* DeleteGeneration: not one that is restored.
LEMMA DeleteGenerationKeeps ==
    ASSUME NEW g \in 1..Gens, NoRaces, BInv, DeleteGeneration(g)
    PROVE  BInv'
<1> USE TypeFacts
<1>1. /\ wpc = "prune" /\ g < wkey[1] /\ wkey' = <<g, 0>>
      /\ ~Restoring \/ (ts = 0 /\ gen > g)
      /\ wpc' = IF kind = "local" THEN "remove" ELSE "list"
      /\ found' = [found EXCEPT !["w"] = {}]
      /\ token' = [token EXCEPT !["w"] = -1]
      /\ UNCHANGED <<kind, visible, whole, dirs, cur, shipped, doomed, restore>>
    BY DEF DeleteGeneration, NoRaces, BeginList, store
<1>2. /\ found'["r"] = found["r"] /\ token'["r"] = token["r"]
      /\ found'["w"] = {} /\ token'["w"] = -1
      /\ found' \in [{"r", "w"} -> SUBSET Int] /\ token' \in [{"r", "w"} -> Int]
    <2>1. found \in [{"r", "w"} -> SUBSET Int] /\ token \in [{"r", "w"} -> Int]
        BY DEF BInv, Types
    <2>2. {} \in SUBSET Int /\ -1 \in Int
        OBVIOUS
    <2>3. found' = [found EXCEPT !["w"] = {}] /\ token' = [token EXCEPT !["w"] = -1]
        BY <1>1
    <2> QED  BY <2>1, <2>2, <2>3
<1>3. wkey'[1] = g /\ wkey' \in (0..Gens) \X (0..Len(Layout)) /\ g < cur
    <2>1. wkey[1] <= cur
        BY <1>1 DEF BInv, CallInv
    <2> QED  BY <1>1, <2>1 DEF BInv
<1>4. Types'
    BY <1>1, <1>2, <1>3 DEF BInv, Types, Writing, restore, target
<1>5. CallInv'
    BY <1>1, <1>2, <1>3 DEF BInv, Types, CallInv, Writing, Deleting
<1> QED  BY <1>1, <1>2, <1>3, <1>4, <1>5, CallGoesOn

\* ListDoomed: the snapshot, which is the first name, is on the first page.
LEMMA ListDoomedKeeps == BInv /\ ListDoomed => BInv'
<1> SUFFICES ASSUME BInv, ListDoomed PROVE BInv'
    OBVIOUS
<1> USE TypeFacts
<1> DEFINE names == {i \in 0..Len(Layout) : <<wkey[1], i>> \in visible}
<1>1. /\ wpc = "list" /\ NextPage(names, "w")
      /\ \/ doomed' = found'["w"] /\ wpc' = "delete"
         \/ UNCHANGED <<doomed, wpc>>
      /\ UNCHANGED <<kind, visible, whole, dirs, wkey, cur, shipped, restore>>
    BY DEF ListDoomed, store
<1>2. Types /\ Len(Layout) \in Nat /\ names \in SUBSET (0..Len(Layout)) /\ "w" \in {"r", "w"}
    BY DEF BInv
<1>3. /\ found'["w"] \subseteq found["w"] \cup names
      /\ \A x \in names : x \in found["w"] \/ token["w"] < x => x \in found'["w"] \/ token'["w"] < x
      /\ \A x \in names : token["w"] < x /\ (\A y \in names : ~(y < x)) => x \in found'["w"]
      /\ found'["r"] = found["r"] /\ token'["r"] = token["r"]
    <2> HIDE DEF names
    <2>1. "r" \in {"r", "w"} \ {"w"}
        OBVIOUS
    <2> QED  BY <1>1, <1>2, <2>1, NothingSkipped
<1>4. <<wkey[1], 0>> \in visible => 0 \in found'["w"]
    <2> SUFFICES ASSUME <<wkey[1], 0>> \in visible PROVE 0 \in found'["w"]
        OBVIOUS
    <2>1. 0 \in names /\ \A y \in names : ~(y < 0)
        BY <1>2
    <2>2. token["w"] = -1 \/ 0 \in found["w"]
        BY <1>1 DEF BInv, CallInv
    <2>3. found["w"] \subseteq found'["w"]
        <3> HIDE DEF names
        <3>1. found'["w"] = found["w"] \cup Page(names, "w")
            BY <1>1, <1>2 DEF NextPage, Types
        <3> QED  BY <3>1
    <2>4. CASE token["w"] = -1
        BY <1>3, <2>1, <2>4
    <2>5. CASE 0 \in found["w"]
        BY <2>3, <2>5
    <2> QED  BY <2>2, <2>4, <2>5
<1>5. found'["w"] \subseteq 0..Len(Layout)
    BY <1>1, <1>3 DEF BInv, CallInv
<1>6. Types'
    <2>1. found' \in [{"r", "w"} -> SUBSET Int] /\ token' \in [{"r", "w"} -> Int]
        <3> HIDE DEF names
        <3>1. token'["w"] \in Int
            BY <1>1, <1>2, NothingSkipped
        <3>2. \E F, t : found' = [found EXCEPT !["w"] = F] /\ token' = [token EXCEPT !["w"] = t]
            BY <1>1 DEF NextPage
        <3> QED  BY <1>2, <1>5, <3>1, <3>2 DEF Types
    <2>2. doomed' \subseteq 0..Len(Layout)
        BY <1>1, <1>5 DEF BInv, Types
    <2> HIDE DEF names
    <2> QED  BY <1>1, <2>1, <2>2 DEF BInv, Types, Writing, restore, target
<1> HIDE DEF names
<1>7. CallInv'
    <2>1. wpc' \in {"list", "delete"}
        BY <1>1
    <2>2. kind = "s3" /\ wkey[1] \in 1..Gens /\ wkey[1] < cur
        BY <1>1 DEF BInv, CallInv, Deleting
    <2>3. wpc' = "delete" => doomed' = found'["w"]
        BY <1>1
    <2> QED  BY <1>1, <1>4, <1>5, <2>1, <2>2, <2>3 DEF CallInv, Writing, Deleting
<1>8. Deleting /\ wpc # "remove"
    BY <1>1 DEF Deleting
<1> QED  BY <1>1, <1>3, <1>6, <1>7, <1>8, CallGoesOn

\* DeleteFails: S3's, for under NoRaces LocalBackend's does not fail half way.
LEMMA DeleteFailsKeeps == NoRaces /\ BInv /\ DeleteFails => BInv'
<1> SUFFICES ASSUME NoRaces, BInv, DeleteFails PROVE BInv'
    OBVIOUS
<1> USE TypeFacts
<1>1. /\ wpc \in {"list", "delete"} /\ wpc' = "prune" /\ doomed' = {}
      /\ UNCHANGED <<kind, visible, whole, dirs, wkey, cur, shipped, restore, found, token>>
    BY DEF DeleteFails, NoRaces, store, lists
<1>2. Types'
    BY <1>1 DEF BInv, Types, Writing, restore, target
<1>3. CallInv'
    <2>1. wkey[1] < cur
        BY <1>1 DEF BInv, CallInv, Deleting
    <2> QED  BY <1>1, <2>1 DEF BInv, CallInv, Writing, Deleting
<1>4. ~Deleting'
    BY <1>1 DEF Deleting
<1> QED  BY <1>1, <1>2, <1>3, <1>4, CallGoesOn

\* Put and Rename: the object is the next one of its generation.
LEMMA WrittenKeeps == BInv /\ (Put \/ Rename) => BInv'
<1> SUFFICES ASSUME BInv, Put \/ Rename PROVE BInv'
    OBVIOUS
<1> USE TypeFacts
<1>1. /\ wpc \in {"put", "rename"} /\ visible' = visible \cup {wkey} /\ whole' = whole \cup {wkey}
      /\ Written
      /\ UNCHANGED <<kind, dirs, wkey, doomed, restore, found, token>>
    BY DEF Put, Rename, lists
<1>2. kind = "local" => wkey[1] \in dirs
    BY <1>1 DEF BInv, CallInv
<1>3. /\ Types /\ StoreInv /\ CallInv
      /\ Gens \in Nat /\ Len(Layout) \in Nat /\ cur \in 0..Gens
      /\ \A g \in 1..Gens : shipped[g] \in 0..Len(Layout)
    BY DEF BInv
<1>4. CASE cur < Gens /\ wkey = <<cur + 1, 0>>
    <2>1. cur' = cur + 1 /\ wpc' = "prune" /\ shipped' = shipped /\ wkey[1] = cur + 1
        BY <1>1, <1>4 DEF Written
    <2>2. cur + 1 \in 1..Gens /\ shipped[cur + 1] = 0 /\ wkey \in (1..Gens) \X (0..Len(Layout))
        <3>1. cur + 1 \in 1..Gens /\ cur + 1 > cur /\ 0 \in 0..Len(Layout)
            BY <1>3, <1>4
        <3>2. shipped[cur + 1] = 0
            BY <1>3, <3>1 DEF StoreInv
        <3> QED  BY <1>4, <3>1, <3>2
    <2>3. Types'
        BY <1>1, <1>3, <2>1, <2>2 DEF Types, Writing, restore, target
    <2>4. StoreInv'
        <3>1. \A k \in visible' : /\ k[1] <= cur' /\ k[2] <= shipped'[k[1]]
                                  /\ kind = "local" => k[1] \in dirs
            <4>1. \A k \in visible : /\ k[1] <= cur + 1 /\ k[2] <= shipped[k[1]]
                                     /\ kind = "local" => k[1] \in dirs
                BY <1>3 DEF StoreInv
            <4>2. wkey[1] <= cur + 1 /\ wkey[2] <= shipped[wkey[1]]
                BY <1>4, <2>2
            <4> QED  BY <1>1, <1>2, <2>1, <4>1, <4>2
        <3>2. <<cur', 0>> \in visible' /\ \A g \in 1..Gens : g > cur' => shipped'[g] = 0
            BY <1>1, <1>3, <1>4, <2>1 DEF StoreInv
        <3>3. ASSUME NEW g \in 1..Gens, <<g, 0>> \in visible', NEW i \in 1..shipped'[g]
              PROVE  <<g, i>> \in visible'
            <4>1. g # cur + 1
                BY <2>1, <2>2, <3>3
            <4>2. <<g, 0>> # wkey
                BY <1>4, <4>1
            <4>3. <<g, 0>> \in visible
                BY <1>1, <3>3, <4>2
            <4>4. wpc # "remove"
                BY <1>1
            <4> QED  BY <1>1, <1>3, <2>1, <3>3, <4>3, <4>4 DEF StoreInv
        <3> QED  BY <1>1, <1>3, <3>1, <3>2, <3>3 DEF StoreInv
    <2>5. CallInv'
        BY <1>1, <1>3, <2>1 DEF CallInv, Writing, Deleting
    <2>6. \A g \in 1..Gens : shipped[g] <= shipped'[g]
        BY <1>3, <2>1
    <2>7. ~Deleting'
        BY <2>1 DEF Deleting
    <2>8. PickInv' /\ RestoreInv'
        BY <1>1, <2>3, <2>6, <2>7, EngineKeepsRestore
    <2> QED  BY <2>3, <2>4, <2>5, <2>8 DEF BInv
<1>5. CASE cur > 0 /\ shipped[cur] < Len(Layout) /\ wkey = <<cur, shipped[cur] + 1>>
    <2>1. /\ cur' = cur /\ wpc' = "idle"
          /\ shipped' = [shipped EXCEPT ![cur] = shipped[cur] + 1]
          /\ wkey[1] = cur /\ wkey[2] = shipped[cur] + 1
        <3>1. wkey[1] = cur /\ wkey[2] = shipped[cur] + 1
            BY <1>5
        <3>2. wkey[2] # 0
            <4>1. cur \in 1..Gens
                BY <1>3, <1>5
            <4> QED  BY <1>3, <3>1, <4>1
        <3> QED  BY <1>1, <3>1, <3>2 DEF Written
    <2>2. /\ cur \in 1..Gens /\ shipped[cur] + 1 \in 0..Len(Layout)
          /\ shipped[cur] \in Nat /\ shipped'[cur] = shipped[cur] + 1
          /\ \A g \in 1..Gens : g # cur => shipped'[g] = shipped[g]
          /\ shipped' \in [1..Gens -> 0..Len(Layout)]
        <3>1. cur \in 1..Gens
            BY <1>3, <1>5
        <3>2. shipped[cur] + 1 \in 0..Len(Layout) /\ shipped[cur] \in Nat
            BY <1>3, <1>5, <3>1
        <3>3. shipped \in [1..Gens -> 0..Len(Layout)]
            BY <1>3 DEF Types
        <3> QED  BY <2>1, <3>1, <3>2, <3>3
    <2>3. Types'
        BY <1>1, <1>3, <1>5, <2>1, <2>2 DEF Types, Writing, restore, target
    <2>4. StoreInv'
        <3>1. \A k \in visible' : /\ k[1] <= cur' /\ k[2] <= shipped'[k[1]]
                                  /\ kind = "local" => k[1] \in dirs
            <4>1. ASSUME NEW k \in visible
                  PROVE  /\ k[1] <= cur /\ k[2] <= shipped'[k[1]]
                         /\ kind = "local" => k[1] \in dirs
                <5>1. /\ k[1] <= cur /\ k[2] <= shipped[k[1]] /\ k[1] \in 1..Gens
                      /\ k[2] \in 0..Len(Layout)
                      /\ kind = "local" => k[1] \in dirs
                    BY <1>3 DEF StoreInv
                <5> QED  BY <2>2, <5>1
            <4>2. wkey[1] <= cur /\ wkey[2] <= shipped'[wkey[1]]
                BY <2>1, <2>2
            <4> QED  BY <1>1, <1>2, <2>1, <4>1, <4>2
        <3>2. <<cur', 0>> \in visible' /\ \A g \in 1..Gens : g > cur' => shipped'[g] = 0
            BY <1>1, <1>3, <1>5, <2>1, <2>2 DEF StoreInv
        <3>3. ASSUME NEW g \in 1..Gens, <<g, 0>> \in visible', NEW i \in 1..shipped'[g]
              PROVE  <<g, i>> \in visible'
            <4>1. <<g, 0>> # wkey
                <5>1. wkey[2] # 0
                    BY <2>1, <2>2
                <5> QED  BY <1>5, <2>1, <2>2
            <4>2. <<g, 0>> \in visible /\ wpc # "remove"
                BY <1>1, <3>3, <4>1
            <4>3. \A j \in 1..shipped[g] : <<g, j>> \in visible
                BY <1>3, <4>2 DEF StoreInv
            <4>4. CASE g = cur
                <5>1. i \in 1..shipped[g] \/ i = shipped[g] + 1
                    BY <2>2, <3>3, <4>4
                <5> QED  BY <1>1, <1>5, <4>3, <4>4, <5>1
            <4>5. CASE g # cur
                BY <1>1, <2>2, <3>3, <4>3, <4>5
            <4> QED  BY <4>4, <4>5
        <3> QED  BY <1>1, <1>3, <3>1, <3>2, <3>3 DEF StoreInv
    <2>5. CallInv'
        BY <1>1, <1>3, <2>1 DEF CallInv, Writing, Deleting
    <2>6. \A g \in 1..Gens : shipped[g] <= shipped'[g]
        <3> SUFFICES ASSUME NEW g \in 1..Gens PROVE shipped[g] <= shipped'[g]
            OBVIOUS
        <3>1. shipped[g] \in Nat
            BY <1>3
        <3>2. shipped'[g] = shipped[g] \/ shipped'[g] = shipped[g] + 1
            BY <2>2
        <3> QED  BY <3>1, <3>2
    <2>7. ~Deleting'
        BY <2>1 DEF Deleting
    <2>8. PickInv' /\ RestoreInv'
        BY <1>1, <2>3, <2>6, <2>7, EngineKeepsRestore
    <2> QED  BY <2>3, <2>4, <2>5, <2>8 DEF BInv
<1> QED  BY <1>1, <1>3, <1>4, <1>5 DEF CallInv, Writing

\* Delete: a generation loses its snapshot first.
LEMMA DeleteKeeps == BInv /\ Delete => BInv'
<1> SUFFICES ASSUME BInv, Delete PROVE BInv'
    OBVIOUS
<1> USE TypeFacts
<1>1. /\ wpc = "delete"
      /\ UNCHANGED <<kind, dirs, wkey, cur, shipped, restore, found, token>>
    BY DEF Delete, lists
<1>2. /\ Types /\ StoreInv /\ CallInv /\ kind = "s3"
      /\ wkey[1] \in 1..Gens /\ wkey[1] < cur /\ cur \in 0..Gens
      /\ <<wkey[1], 0>> \in visible => 0 \in doomed
    BY <1>1 DEF BInv, CallInv, Deleting
<1>3. CASE doomed = {}
    <2>1. wpc' = "prune" /\ UNCHANGED <<doomed, visible, whole>>
        BY <1>3 DEF Delete
    <2>2. Types'
        BY <1>1, <1>2, <2>1 DEF Types, Writing, restore, target
    <2>3. CallInv'
        BY <1>1, <1>2, <2>1 DEF CallInv, Writing, Deleting
    <2>4. ~Deleting' /\ wpc # "remove"
        BY <1>1, <2>1 DEF Deleting
    <2> QED  BY <1>1, <2>1, <2>2, <2>3, <2>4, CallGoesOn
<1>4. CASE doomed # {}
    <2> DEFINE m == Min(doomed)
               key == <<wkey[1], m>>
    <2>1. /\ visible' = visible \ {key} /\ whole' = whole \ {key}
          /\ doomed' = doomed \ {m} /\ wpc' = wpc
        BY <1>4 DEF Delete
    <2>2. m \in doomed /\ \A x \in doomed : m <= x
        <3>1. doomed \in SUBSET Int /\ (\A x \in doomed : 0 <= x) /\ 0 \in Int
            BY <1>2 DEF Types
        <3> QED  BY <1>4, <3>1, MinIsLeast
    <2> HIDE DEF m
    <2>3. m \in Nat /\ (0 \in doomed => m = 0)
        BY <1>2, <2>2 DEF Types
    <2>4. Types'
        BY <1>1, <1>2, <2>1 DEF Types, Writing, restore, target
    <2>5. <<wkey[1], 0>> \notin visible'
        BY <1>2, <2>1, <2>3
    <2>6. CallInv'
        BY <1>1, <1>2, <2>1, <2>5 DEF CallInv, Writing, Deleting
    <2>7. StoreInv'
        <3>1. /\ whole' = visible'
              /\ \A k \in visible' : /\ k[1] <= cur /\ k[2] <= shipped[k[1]]
                                     /\ kind = "local" => k[1] \in dirs
            BY <1>2, <2>1 DEF StoreInv
        <3>2. cur > 0 => <<cur, 0>> \in visible'
            <4>1. cur # wkey[1]
                BY <1>2
            <4> QED  BY <1>2, <2>1, <4>1 DEF StoreInv
        <3>3. ASSUME NEW g \in 1..Gens, <<g, 0>> \in visible', NEW i \in 1..shipped[g]
              PROVE  <<g, i>> \in visible'
            <4>1. g # wkey[1]
                BY <2>5, <3>3
            <4>2. <<g, 0>> \in visible /\ wpc # "remove"
                BY <1>1, <2>1, <3>3
            <4> QED  BY <1>2, <2>1, <3>3, <4>1, <4>2 DEF StoreInv
        <3> QED  BY <1>1, <1>2, <2>1, <3>1, <3>2, <3>3 DEF StoreInv
    <2>8. \A g \in 1..Gens : shipped[g] <= shipped'[g]
        BY <1>1, <1>2
    <2>9. Deleting /\ wkey'[1] = wkey[1]
        BY <1>1 DEF Deleting
    <2>10. \A g \in 1..Gens : <<g, 0>> \in visible /\ ~(Deleting /\ wkey[1] = g)
                                 => <<g, 0>> \in visible'
        BY <2>1, <2>9
    <2>11. PickInv' /\ RestoreInv'
        BY <1>1, <2>4, <2>8, <2>9, <2>10, EngineKeepsRestore
    <2> QED  BY <2>4, <2>6, <2>7, <2>11 DEF BInv
<1> QED  BY <1>3, <1>4

\* RemoveAll: a generation without its snapshot may stay only until the next step.
LEMMA RemoveAllKeeps == BInv /\ RemoveAll => BInv'
<1> SUFFICES ASSUME BInv, RemoveAll PROVE BInv'
    OBVIOUS
<1> USE TypeFacts
<1> DEFINE left == {k \in visible : k[1] = wkey[1]}
<1>1. /\ wpc = "remove"
      /\ UNCHANGED <<kind, wkey, cur, shipped, doomed, restore, found, token>>
    BY DEF RemoveAll, lists
<1>2. /\ Types /\ StoreInv /\ CallInv /\ kind = "local"
      /\ wkey[1] \in 1..Gens /\ wkey[1] < cur /\ cur \in 0..Gens
    BY <1>1 DEF BInv, CallInv, Deleting
<1>3. \A g \in 1..Gens : shipped[g] <= shipped'[g]
    BY <1>1, <1>2
<1>4. Deleting
    BY <1>1 DEF Deleting
<1>5. CASE left = {}
    <2>1. dirs' = dirs \ {wkey[1]} /\ wpc' = "prune" /\ UNCHANGED <<visible, whole>>
        BY <1>5 DEF RemoveAll
    <2>2. Types'
        BY <1>1, <1>2, <2>1 DEF Types, Writing, restore, target
    <2>3. CallInv'
        BY <1>1, <1>2, <2>1 DEF CallInv, Writing, Deleting
    <2>4. StoreInv'
        <3>1. \A k \in visible : k[1] # wkey[1]
            BY <1>5
        <3>2. \A k \in visible : /\ k[1] <= cur /\ k[2] <= shipped[k[1]]
                                 /\ kind = "local" => k[1] \in dirs'
            BY <1>2, <2>1, <3>1 DEF StoreInv
        <3>3. \A i : <<wkey[1], i>> \notin visible
            BY <3>1
        <3> HIDE DEF left
        <3>4. \A g \in 1..Gens : <<g, 0>> \in visible => \A i \in 1..shipped[g] : <<g, i>> \in visible
            BY <1>2, <3>3 DEF StoreInv
        <3> QED  BY <1>1, <1>2, <2>1, <3>2, <3>4 DEF StoreInv
    <2>5. ~Deleting'
        BY <2>1 DEF Deleting
    <2>6. PickInv' /\ RestoreInv'
        BY <1>1, <1>3, <2>1, <2>2, <2>5, EngineKeepsRestore
    <2> QED  BY <2>2, <2>3, <2>4, <2>6 DEF BInv
<1>6. CASE left # {}
    <2>1. PICK k \in left : /\ visible' = visible \ {k} /\ whole' = whole \ {k}
                            /\ UNCHANGED <<dirs, wpc>>
        BY <1>6 DEF RemoveAll
    <2>2. k[1] = wkey[1] /\ \A g, i : <<g, i>> = k => g = wkey[1]
        <3>1. \A g, i : <<g, i>>[1] = g
            OBVIOUS
        <3> QED  BY <3>1
    <2> HIDE DEF left
    <2>3. Types'
        BY <1>1, <1>2, <2>1 DEF Types, Writing, restore, target
    <2>4. CallInv'
        BY <1>1, <1>2, <2>1 DEF CallInv, Writing, Deleting
    <2>5. StoreInv'
        <3>1. /\ whole' = visible'
              /\ \A o \in visible' : /\ o[1] <= cur /\ o[2] <= shipped[o[1]]
                                     /\ kind = "local" => o[1] \in dirs
            BY <1>2, <2>1 DEF StoreInv
        <3>2. cur > 0 => <<cur, 0>> \in visible'
            <4>1. cur # wkey[1]
                BY <1>2
            <4>2. <<cur, 0>> # k
                BY <2>2, <4>1
            <4> QED  BY <1>2, <2>1, <4>2 DEF StoreInv
        <3>3. ASSUME NEW g \in 1..Gens, <<g, 0>> \in visible', g # wkey[1],
                     NEW i \in 1..shipped[g]
              PROVE  <<g, i>> \in visible'
            <4>1. <<g, 0>> \in visible
                BY <2>1, <3>3
            <4>2. <<g, i>> \in visible
                BY <1>2, <3>3, <4>1 DEF StoreInv
            <4> QED  BY <2>1, <2>2, <3>3, <4>2
        <3> QED  BY <1>1, <1>2, <2>1, <3>1, <3>2, <3>3 DEF StoreInv
    <2>6. \A g \in 1..Gens : <<g, 0>> \in visible /\ ~(Deleting /\ wkey[1] = g)
                                => <<g, 0>> \in visible'
        BY <1>4, <2>1, <2>2
    <2>7. wkey'[1] = wkey[1]
        BY <1>1
    <2>8. PickInv' /\ RestoreInv'
        BY <1>1, <1>3, <1>4, <2>3, <2>6, <2>7, EngineKeepsRestore
    <2> QED  BY <2>3, <2>4, <2>5, <2>8 DEF BInv
<1> QED  BY <1>5, <1>6

-----------------------------------------------------------------------------
(* RestoreSound: the steps of Restore *)

\* They leave the store, the engine and its listing alone.
LEMMA RestoreKeepsEngine ==
    ASSUME BInv, UNCHANGED <<kind, store, engine>>,
           found'["w"] = found["w"], token'["w"] = token["w"]
    PROVE  StoreInv' /\ CallInv'
<1>1. UNCHANGED <<kind, visible, whole, dirs, wpc, wkey, cur, shipped, doomed>>
    BY DEF store, engine
<1> QED  BY <1>1 DEF BInv, StoreInv, CallInv, Deleting

\* A generation that has a snapshot is one of those that are listed.
LEMMA ListedGenerations ==
    ASSUME BInv
    PROVE  /\ GenerationsOf \subseteq 1..Gens
           /\ \A g \in 1..Gens : <<g, 0>> \in visible => g \in GenerationsOf
<1> USE TypeFacts DEF BInv
<1>1. \A g \in 1..Gens : <<g, 0>>[1] = g
    OBVIOUS
<1>2. CASE kind = "local"
    BY <1>1, <1>2 DEF GenerationsOf, StoreInv, Types
<1>3. CASE kind # "local"
    BY <1>1, <1>3 DEF GenerationsOf
<1> QED  BY <1>2, <1>3

LEMMA CallRestoreKeeps ==
    ASSUME NEW T \in 0..Gens, NoRaces, BInv, CallRestore(T)
    PROVE  BInv'
<1>0. /\ Types /\ StoreInv /\ CallInv /\ RestoreInv /\ Gens \in Nat
      /\ wkey[1] \in 0..Gens /\ cur \in 0..Gens
      /\ \A g \in 1..Gens : shipped[g] \in 0..Len(Layout)
      /\ Len(Layout) \in Nat
    BY TypeFacts DEF BInv
<1> DEFINE gens == {g \in 1..Gens : <<g, 0>> \in whole /\ (T = 0 \/ g <= T)}
<1>1. /\ rpc = "idle" /\ (T = 0 \/ ~Deleting)
      /\ ts' = T /\ rpc' = "generations" /\ start' = Restorable(T)
      /\ found' = [found EXCEPT !["r"] = {}]
      /\ token' = [token EXCEPT !["r"] = -1]
      /\ UNCHANGED <<kind, store, engine, gen, rest, reading, walFile, file, cause>>
    BY DEF CallRestore, NoRaces, BeginList, target
<1>2. /\ found'["w"] = found["w"] /\ token'["w"] = token["w"]
      /\ found'["r"] = {} /\ token'["r"] = -1
      /\ found' \in [{"r", "w"} -> SUBSET Int] /\ token' \in [{"r", "w"} -> Int]
    <2>1. found \in [{"r", "w"} -> SUBSET Int] /\ token \in [{"r", "w"} -> Int]
        BY <1>0 DEF Types
    <2>2. {} \in SUBSET Int /\ -1 \in Int
        OBVIOUS
    <2>3. found' = [found EXCEPT !["r"] = {}] /\ token' = [token EXCEPT !["r"] = -1]
        BY <1>1
    <2> QED  BY <2>1, <2>2, <2>3
<1>3. StoreInv' /\ CallInv'
    BY <1>1, <1>2, RestoreKeepsEngine
<1>4. gens # {} => Max(gens) \in gens /\ \A g \in gens : g <= Max(gens)
    <2> HIDE DEF gens
    <2> SUFFICES ASSUME gens # {} PROVE Max(gens) \in gens /\ \A g \in gens : g <= Max(gens)
        OBVIOUS
    <2>1. gens \in SUBSET Int /\ (\A g \in gens : g <= Gens) /\ Gens \in Int /\ gens # {}
        BY <1>0 DEF gens
    <2> QED  BY <2>1, MaxIsGreatest
<1>5. /\ gens = {} => start' = <<0, 0>>
      /\ gens # {} => start' = <<Max(gens), shipped[Max(gens)]>>
    BY <1>1 DEF Restorable
<1>6. start' \in (0..Gens) \X (0..Len(Layout))
    <2>1. 0 \in 0..Gens /\ 0 \in 0..Len(Layout)
        BY <1>0
    <2>2. gens \subseteq 1..Gens
        OBVIOUS
    <2> HIDE DEF gens
    <2>3. gens # {} => Max(gens) \in 0..Gens /\ shipped[Max(gens)] \in 0..Len(Layout)
        <3> SUFFICES ASSUME gens # {}
                     PROVE  Max(gens) \in 0..Gens /\ shipped[Max(gens)] \in 0..Len(Layout)
            OBVIOUS
        <3> DEFINE m == Max(gens)
        <3>1. m \in 1..Gens
            BY <1>4, <2>2
        <3> HIDE DEF m
        <3>2. m \in 0..Gens /\ shipped[m] \in 0..Len(Layout)
            BY <1>0, <3>1
        <3> QED  BY <3>2 DEF m
    <2> QED  BY <1>5, <2>1, <2>3
<1>7. start'[1] > 0 =>
          /\ T = 0 \/ start'[1] <= T
          /\ <<start'[1], 0>> \in visible
          /\ start'[2] <= shipped[start'[1]]
    <2>1. CASE gens = {}
        <3>1. start'[1] = 0
            BY <1>5, <2>1
        <3> QED  BY <3>1
    <2>2. CASE gens # {}
        <3>1. start'[1] = Max(gens) /\ start'[2] = shipped[Max(gens)]
            BY <1>5, <2>2
        <3>2. Max(gens) \in 1..Gens /\ <<Max(gens), 0>> \in visible /\ (T = 0 \/ Max(gens) <= T)
            BY <1>0, <1>4, <2>2 DEF StoreInv
        <3> HIDE DEF gens
        <3>3. shipped[Max(gens)] \in 0..Len(Layout)
            BY <1>0, <3>2
        <3>4. start'[2] <= shipped[Max(gens)]
            BY <3>1, <3>3
        <3> QED  BY <3>1, <3>2, <3>4
    <2> QED  BY <2>1, <2>2
<1>8. Deleting => T = 0 /\ wkey[1] < start'[1]
    <2> SUFFICES ASSUME Deleting PROVE T = 0 /\ wkey[1] < start'[1]
        OBVIOUS
    <2>1. T = 0 /\ wkey[1] < cur /\ wkey[1] \in 1..Gens
        BY <1>0, <1>1 DEF CallInv
    <2>2. cur \in gens
        BY <1>0, <2>1 DEF StoreInv
    <2>3. start'[1] = Max(gens) /\ cur <= Max(gens) /\ Max(gens) \in 1..Gens
        BY <1>4, <1>5, <2>2
    <2> HIDE DEF gens
    <2> QED  BY <1>0, <2>1, <2>3
<1> HIDE DEF gens
<1>9. Types'
    BY <1>0, <1>1, <1>2, <1>6 DEF Types, Chosen, store, engine
<1>10. PickInv'
    <2>1. gen = 0
        BY <1>0, <1>1 DEF RestoreInv
    <2>2. UNCHANGED <<visible, wkey, wpc>>
        BY <1>1 DEF store, engine
    <2>3. start'[1] \in Int
        <3>1. \A X, Y : \A k \in X \X Y : k[1] \in X
            OBVIOUS
        <3> QED  BY <1>0, <1>6, <3>1
    <2> QED  BY <1>1, <1>2, <1>7, <1>8, <2>1, <2>2, <2>3 DEF PickInv, Deleting
<1>11. RestoreInv'
    <2>1. walFile = {} /\ reading = {} /\ UNCHANGED <<walFile, reading, shipped>>
        BY <1>0, <1>1 DEF RestoreInv, engine
    <2> QED  BY <1>1, <1>7, <2>1 DEF RestoreInv, RestoreSound, Chosen
<1> QED  BY <1>3, <1>9, <1>10, <1>11 DEF BInv

\* Generations: the one that could be restored at the start has not been skipped.
LEMMA GenerationsKeeps == BInv /\ Generations => BInv'
<1> SUFFICES ASSUME BInv, Generations PROVE BInv'
    OBVIOUS
<1> USE TypeFacts
<1> DEFINE fit == {g \in found'["r"] : ts = 0 \/ g <= ts}
<1>1. /\ rpc = "generations" /\ NextPage(GenerationsOf, "r")
      /\ IF ~LastPage(GenerationsOf, "r")
         THEN UNCHANGED <<rpc, gen>>
         ELSE IF fit = {} THEN rpc' = "failed" /\ UNCHANGED gen
                          ELSE rpc' = "snapshot" /\ gen' = Max(fit)
      /\ UNCHANGED <<kind, store, engine, ts, rest, reading, walFile, file, start>>
    BY DEF Generations, Fail, target
<1>2. /\ Types /\ StoreInv /\ CallInv /\ PickInv /\ RestoreInv /\ Gens \in Nat
      /\ GenerationsOf \in SUBSET (0..Gens) /\ GenerationsOf \subseteq 1..Gens
      /\ "r" \in {"r", "w"} /\ "w" \in {"r", "w"} \ {"r"}
      /\ start[1] \in 0..Gens /\ gen = 0 /\ found["r"] \subseteq 1..Gens
    BY <1>1, ListedGenerations DEF BInv, PickInv
<1>3. /\ found'["r"] \subseteq found["r"] \cup GenerationsOf
      /\ token'["r"] \in Int
      /\ \A x \in GenerationsOf : x \in found["r"] \/ token["r"] < x =>
            x \in found'["r"] \/ token'["r"] < x
      /\ LastPage(GenerationsOf, "r") =>
            \A x \in GenerationsOf : x \in found["r"] \/ token["r"] < x => x \in found'["r"]
      /\ found'["w"] = found["w"] /\ token'["w"] = token["w"]
    BY <1>1, <1>2, NothingSkipped
<1>4. StoreInv' /\ CallInv'
    BY <1>1, <1>3, RestoreKeepsEngine
<1>5. found'["r"] \subseteq 1..Gens
    BY <1>2, <1>3
<1>6. fit # {} => Max(fit) \in fit /\ \A g \in fit : g <= Max(fit)
    <2> SUFFICES ASSUME fit # {} PROVE Max(fit) \in fit /\ \A g \in fit : g <= Max(fit)
        OBVIOUS
    <2>1. fit \in SUBSET Int /\ (\A g \in fit : g <= Gens) /\ Gens \in Int
        BY <1>2, <1>5
    <2> HIDE DEF fit
    <2> QED  BY <2>1, MaxIsGreatest
<1>7. fit # {} => Max(fit) \in 1..Gens
    BY <1>5, <1>6
<1>8. Types'
    <2>1. found' \in [{"r", "w"} -> SUBSET Int] /\ token' \in [{"r", "w"} -> Int]
        <3>1. \E F, t : found' = [found EXCEPT !["r"] = F] /\ token' = [token EXCEPT !["r"] = t]
            BY <1>1 DEF NextPage
        <3>2. found'["r"] \in SUBSET Int
            BY <1>2, <1>5
        <3>3. found \in [{"r", "w"} -> SUBSET Int] /\ token \in [{"r", "w"} -> Int]
            BY <1>2 DEF Types
        <3> QED  BY <1>3, <3>1, <3>2, <3>3
    <2>2. gen' \in 0..Gens /\ rpc' \in {"generations", "failed", "snapshot"}
        BY <1>1, <1>2, <1>7
    <2> HIDE DEF fit
    <2> QED  BY <1>1, <1>2, <2>1, <2>2 DEF Types, Chosen, store, engine
<1>9. start[1] > 0 => start[1] \in GenerationsOf
    BY <1>1, <1>2, ListedGenerations DEF BInv, PickInv
<1> HIDE DEF fit
<1>10. UNCHANGED <<visible, wkey, wpc, shipped>>
    BY <1>1 DEF store, engine
<1>11. PickInv'
    <2> SUFFICES ASSUME rpc' = "generations" PROVE PickInv'
        BY DEF PickInv
    <2>1. gen' = 0
        BY <1>1, <1>2
    <2>2. start[1] > 0 => start[1] \in found'["r"] \/ token'["r"] < start[1]
        BY <1>1, <1>2, <1>3, <1>9 DEF PickInv
    <2> QED  BY <1>1, <1>2, <1>5, <1>10, <2>1, <2>2 DEF PickInv, Deleting
<1>12. RestoreInv'
    <2>1. walFile = {} /\ reading = {}
        BY <1>1, <1>2 DEF RestoreInv
    <2>2. CASE rpc' \in {"generations", "failed"}
        BY <1>1, <1>2, <1>10, <2>1, <2>2 DEF RestoreInv, RestoreSound, Chosen
    <2>3. CASE rpc' = "snapshot"
        <3>1. fit # {} /\ gen' = Max(fit) /\ LastPage(GenerationsOf, "r")
            BY <1>1, <2>3
        <3>2. start[1] > 0 => start[1] \in fit
            BY <1>1, <1>2, <1>3, <1>9, <3>1 DEF PickInv, fit
        <3>3. gen' \in 1..Gens /\ gen' >= start[1]
            BY <1>2, <1>6, <1>7, <3>1, <3>2
        <3>4. Deleting => ts = 0 /\ wkey[1] < start[1]
            BY <1>1, <1>2 DEF PickInv
        <3>5. wkey[1] \in Int
            BY <1>2
        <3>6. Deleting' => ts' = 0 /\ wkey'[1] < gen'
            BY <1>1, <1>2, <1>10, <3>3, <3>4, <3>5 DEF Deleting
        <3> QED  BY <1>1, <1>2, <1>10, <2>1, <2>3, <3>3, <3>6 DEF RestoreInv, RestoreSound, Chosen
    <2> QED  BY <1>1, <2>2, <2>3
<1> QED  BY <1>4, <1>8, <1>11, <1>12 DEF BInv

\* ReadSnapshot and WALSegments: all that had been shipped at the start is listed,
\* and nothing between.
LEMMA ReadSnapshotKeeps == BInv /\ ReadSnapshot => BInv'
<1> SUFFICES ASSUME BInv, ReadSnapshot PROVE BInv'
    OBVIOUS
<1>1. /\ rpc = "snapshot"
      /\ UNCHANGED <<kind, store, engine, ts, gen, rest, reading, walFile, start>>
    BY DEF ReadSnapshot
<1>2. /\ Types /\ RestoreInv /\ StoreInv
      /\ walFile = {} /\ reading = {} /\ gen \in 1..Gens /\ gen >= start[1]
      /\ Deleting => ts = 0 /\ wkey[1] < gen
      /\ start[1] > 0 => start[2] <= shipped[start[1]]
    BY <1>1 DEF BInv, RestoreInv, Chosen
<1>3. UNCHANGED <<visible, wkey, wpc, shipped>>
    BY <1>1 DEF store, engine
<1>4. CASE <<gen, 0>> \in whole
    <2>1. /\ file' = 0 /\ rpc' = "segments"
          /\ found' = [found EXCEPT !["r"] = {}]
          /\ token' = [token EXCEPT !["r"] = -1]
        BY <1>4 DEF ReadSnapshot, BeginList
    <2>2. /\ found'["w"] = found["w"] /\ token'["w"] = token["w"]
          /\ found'["r"] = {} /\ token'["r"] = -1
          /\ found' \in [{"r", "w"} -> SUBSET Int] /\ token' \in [{"r", "w"} -> Int]
        <3>1. found \in [{"r", "w"} -> SUBSET Int] /\ token \in [{"r", "w"} -> Int]
            BY DEF BInv, Types
        <3>2. {} \in SUBSET Int /\ -1 \in Int
            OBVIOUS
        <3> QED  BY <2>1, <3>1, <3>2
    <2>3. StoreInv' /\ CallInv'
        BY <1>1, <2>2, RestoreKeepsEngine
    <2>4. Types'
        BY <1>1, <1>2, <2>1, <2>2 DEF Types, Chosen, store, engine
    <2>5. PickInv'
        BY <2>1 DEF PickInv
    <2>6. <<gen, 0>> \in visible
        BY <1>2, <1>4 DEF StoreInv
    <2>7. RestoreInv'
        BY <1>1, <1>2, <1>3, <2>1, <2>2, <2>6 DEF RestoreInv, RestoreSound, Chosen, Deleting
    <2> QED  BY <2>3, <2>4, <2>5, <2>7 DEF BInv
<1>5. CASE <<gen, 0>> \notin whole
    <2>1. rpc' = "failed" /\ file' = NoFile /\ UNCHANGED lists
        BY <1>5 DEF ReadSnapshot, Fail
    <2>2. UNCHANGED <<found, token>>
        BY <2>1 DEF lists
    <2>3. StoreInv' /\ CallInv'
        BY <1>1, <2>2, RestoreKeepsEngine
    <2>4. Types'
        BY <1>1, <1>2, <2>1, <2>2 DEF Types, Chosen, store, engine, NoFile
    <2>5. PickInv' /\ RestoreInv'
        BY <1>1, <1>2, <1>3, <2>1 DEF PickInv, RestoreInv, RestoreSound, Chosen
    <2> QED  BY <2>3, <2>4, <2>5 DEF BInv
<1> QED  BY <1>4, <1>5

LEMMA WALSegmentsKeeps == BInv /\ WALSegments => BInv'
<1> SUFFICES ASSUME BInv, WALSegments PROVE BInv'
    OBVIOUS
<1> USE TypeFacts
<1> DEFINE names == SegmentsOf(gen)
           n == shipped[gen]
<1>1. /\ rpc = "segments" /\ NextPage(names, "r")
      /\ IF LastPage(names, "r") THEN rpc' = "apply" /\ rest' = found'["r"]
                                 ELSE UNCHANGED <<rpc, rest>>
      /\ UNCHANGED <<kind, store, engine, ts, gen, reading, walFile, file, start>>
    BY DEF WALSegments
<1>2. /\ Types /\ RestoreInv /\ StoreInv /\ CallInv /\ Gens \in Nat /\ Len(Layout) \in Nat
      /\ walFile = {} /\ reading = {} /\ gen \in 1..Gens /\ gen >= start[1]
      /\ Deleting => ts = 0 /\ wkey[1] < gen
      /\ start[1] > 0 => start[2] <= shipped[start[1]]
      /\ start[1] \in 0..Gens /\ start[2] \in 0..Len(Layout)
      /\ file = 0 /\ <<gen, 0>> \in visible
      /\ (token["r"] = -1 /\ found["r"] = {}) \/ (token["r"] \in 1..n /\ found["r"] = 1..token["r"])
      /\ n \in 0..Len(Layout)
    BY <1>1 DEF BInv, RestoreInv, Chosen
\* The generation is not the one that is being deleted.
<1>3. names = 1..n
    <2>1. ~(wpc = "remove" /\ wkey[1] = gen)
        BY <1>2 DEF BInv, Deleting
    <2>2. \A i \in 1..n : <<gen, i>> \in visible /\ i \in Segs
        BY <1>2, <2>1 DEF StoreInv, Segs
    <2>3. ASSUME NEW i \in Segs, <<gen, i>> \in visible PROVE i \in 1..n
        <3>1. <<gen, i>>[1] = gen /\ <<gen, i>>[2] = i
            OBVIOUS
        <3>2. i <= shipped[gen]
            BY <1>2, <2>3, <3>1 DEF StoreInv
        <3> QED  BY <1>2, <3>2 DEF Segs
    <2> QED  BY <2>2, <2>3 DEF SegmentsOf
<1> HIDE DEF names, n
<1>4. n \in Nat /\ names \in SUBSET (0..n) /\ "r" \in {"r", "w"} /\ "w" \in {"r", "w"} \ {"r"}
    BY <1>2, <1>3
<1>5. /\ token'["r"] \in Int
      /\ token'["r"] = token["r"] \/ (token'["r"] \in names /\ token["r"] < token'["r"])
      /\ LastPage(names, "r") =>
            \A x \in names : x \in found["r"] \/ token["r"] < x => x \in found'["r"]
      /\ \A x \in names : token["r"] < x /\ x <= token'["r"] => x \in found'["r"]
      /\ \A x \in found'["r"] : x \in found["r"] \/ (token["r"] < x /\ x <= token'["r"])
      /\ found'["r"] \subseteq found["r"] \cup names
      /\ found'["w"] = found["w"] /\ token'["w"] = token["w"]
    BY <1>1, <1>2, <1>4, NothingSkipped
<1>6. found["r"] \subseteq found'["r"]
    <2>1. found'["r"] = found["r"] \cup Page(names, "r")
        BY <1>1, <1>2 DEF NextPage, Types
    <2> QED  BY <2>1
<1>7. token["r"] \in Int /\ (token["r"] = -1 \/ token["r"] >= 1)
    BY <1>2
<1>8. \/ token'["r"] = -1 /\ found'["r"] = {}
      \/ token'["r"] \in 1..n /\ found'["r"] = 1..token'["r"]
    <2>1. CASE token'["r"] = token["r"]
        <3>1. \A x \in found'["r"] : ~(token["r"] < x /\ x <= token'["r"])
            <4>1. \A u, v \in Int : ~(u < v /\ v <= u)
                OBVIOUS
            <4>2. \A x \in found'["r"] : x \in Int
                BY <1>2, <1>3, <1>4, <1>5
            <4> QED  BY <1>7, <2>1, <4>1, <4>2
        <3>2. found'["r"] = found["r"]
            BY <1>5, <1>6, <3>1
        <3> QED  BY <1>2, <2>1, <3>2 DEF n
    <2>2. CASE token'["r"] \in names /\ token["r"] < token'["r"]
        <3>1. token'["r"] \in 1..n
            BY <1>3, <2>2
        <3>2. \A x \in found["r"] : x \in 1..token["r"]
            BY <1>2
        <3>3. ASSUME NEW x \in found'["r"] PROVE x \in 1..token'["r"]
            <4>1. CASE x \in found["r"]
                BY <1>5, <1>7, <2>2, <3>2, <4>1
            <4>2. CASE x \notin found["r"]
                BY <1>3, <1>5, <3>3, <4>2
            <4> QED  BY <4>1, <4>2
        <3>4. ASSUME NEW x \in 1..token'["r"] PROVE x \in found'["r"]
            <4>1. x \in names
                BY <1>3, <1>4, <3>1
            <4>2. CASE token["r"] < x
                BY <1>5, <4>1, <4>2
            <4>3. CASE ~(token["r"] < x)
                BY <1>2, <1>6, <1>7, <4>3
            <4> QED  BY <4>2, <4>3
        <3> QED  BY <3>1, <3>3, <3>4
    <2> QED  BY <1>5, <2>1, <2>2
<1>9. LastPage(names, "r") => found'["r"] = 1..n
    <2> SUFFICES ASSUME LastPage(names, "r") PROVE found'["r"] = 1..n
        OBVIOUS
    <2>1. ASSUME NEW x \in 1..n PROVE x \in found'["r"]
        <3>1. x \in found["r"] \/ token["r"] < x
            BY <1>2, <1>4, <1>7
        <3> QED  BY <1>3, <1>5, <3>1
    <2>2. \A x \in found'["r"] : x \in 1..n
        BY <1>4, <1>8
    <2> QED  BY <2>1, <2>2
<1>10. UNCHANGED <<visible, wkey, wpc, shipped>>
    BY <1>1 DEF store, engine
<1>11. StoreInv' /\ CallInv'
    BY <1>1, <1>5, RestoreKeepsEngine
<1>12. Types'
    <2>1. found' \in [{"r", "w"} -> SUBSET Int] /\ token' \in [{"r", "w"} -> Int]
        <3>1. \E F, t : found' = [found EXCEPT !["r"] = F] /\ token' = [token EXCEPT !["r"] = t]
            BY <1>1 DEF NextPage
        <3>2. found'["r"] \in SUBSET Int
            BY <1>4, <1>8
        <3>3. found \in [{"r", "w"} -> SUBSET Int] /\ token \in [{"r", "w"} -> Int]
            BY <1>2 DEF Types
        <3> QED  BY <1>5, <3>1, <3>2, <3>3
    <2>2. rpc' \in {"segments", "apply"} /\ rest' \subseteq Segs
        <3>1. 1..n \subseteq Segs /\ rest \subseteq Segs
            BY <1>2 DEF n, Segs, Types
        <3> QED  BY <1>1, <1>9, <3>1
    <2> QED  BY <1>1, <1>2, <2>1, <2>2 DEF Types, Chosen, store, engine
<1>13. PickInv'
    BY <1>1 DEF PickInv
<1>14. ASSUME NEW m \in Nat, m = n, rpc' = "apply" PROVE Applied(0, 0, 0, m)'
    <2>1. rest' = 1..n
        BY <1>1, <1>9, <1>14
    <2>2. walFile' = 0 + 1 .. 0 /\ reading' = 0 + 1 .. 0 /\ rest' = 0 + 1 .. n
        BY <1>1, <1>2, <2>1
    <2>3. gen = start[1] => start[2] <= n
        BY <1>2 DEF n
    <2>4. 0 < n => Layout[0 + 1].offset = 0
        BY <1>2, FirstSegment DEF n
    <2>5. n <= shipped'[gen'] /\ gen' = gen /\ start' = start
        BY <1>1, <1>2, <1>10 DEF n
    <2> QED  BY <1>4, <1>14, <2>2, <2>3, <2>4, <2>5 DEF Applied
<1>15. RestoreInv'
    <2>1. Deleting' => ts' = 0 /\ wkey'[1] < gen'
        BY <1>1, <1>2, <1>10 DEF Deleting
    <2>2. rpc' = "apply" => file' \in Nat /\ \E a, b, m \in Nat : Applied(file, a, b, m)'
        BY <1>1, <1>2, <1>4, <1>14
    <2>3. shipped'[gen'] = n
        BY <1>1, <1>10 DEF n
    <2> QED  BY <1>1, <1>2, <1>8, <1>10, <2>1, <2>2, <2>3 DEF RestoreInv, RestoreSound, Chosen
<1> QED  BY <1>11, <1>12, <1>13, <1>15 DEF BInv

\* BeginIndex, ReadWALSegment and Fold: the segments are applied in their order.
LEMMA ApplyKeeps == BInv /\ (BeginIndex \/ ReadWALSegment \/ Fold \/ Verify) => BInv'
<1> SUFFICES ASSUME BInv, BeginIndex \/ ReadWALSegment \/ Fold \/ Verify PROVE BInv'
    OBVIOUS
<1>1. /\ rpc = "apply"
      /\ UNCHANGED <<kind, store, engine, ts, gen, start, lists>>
    BY DEF BeginIndex, ReadWALSegment, Fold, Verify, target
<1>2. /\ Types /\ RestoreInv /\ StoreInv /\ Len(Layout) \in Nat
      /\ gen \in 1..Gens /\ gen >= start[1] /\ file \in Nat
      /\ Deleting => ts = 0 /\ wkey[1] < gen
      /\ start[1] > 0 => start[2] <= shipped[start[1]]
      /\ <<gen, 0>> \in visible /\ shipped[gen] \in 0..Len(Layout)
    BY <1>1, TypeFacts DEF BInv, RestoreInv, Chosen
<1>3. PICK a, b, n \in Nat : Applied(file, a, b, n)
    BY <1>1 DEF BInv, RestoreInv
<1>4. /\ file <= a /\ a <= b /\ b <= n /\ n <= shipped[gen] /\ n <= Len(Layout)
      /\ walFile = file + 1 .. a /\ reading = a + 1 .. b /\ rest = b + 1 .. n
      /\ gen = start[1] => start[2] <= n
      /\ b < n => Layout[b + 1].offset = 0
    BY <1>2, <1>3 DEF Applied
<1>5. UNCHANGED <<visible, whole, wkey, wpc, shipped, found, token>>
    BY <1>1 DEF store, engine, lists
<1>6. StoreInv' /\ CallInv'
    BY <1>1, <1>5, RestoreKeepsEngine
<1>7. Deleting' => ts' = 0 /\ wkey'[1] < gen'
    BY <1>1, <1>2, <1>5 DEF Deleting
\* It is enough that the segments go on from one to the next, or that it fails.
<1>8. ASSUME NEW f \in Nat, NEW c \in Nat, NEW d \in Nat, rpc' = "apply", file' = f,
             f <= c, c <= d, d <= n, walFile' = f + 1 .. c, reading' = c + 1 .. d,
             rest' = d + 1 .. n, d < n => Layout[d + 1].offset = 0
      PROVE  BInv'
    <2>1. Applied(f, c, d, n)'
        BY <1>1, <1>4, <1>5, <1>8 DEF Applied
    <2>2. Types'
        <3>1. walFile' \subseteq Segs /\ reading' \subseteq Segs /\ rest' \subseteq Segs
            BY <1>2, <1>4, <1>8 DEF Segs
        <3>2. UNCHANGED <<kind, visible, whole, dirs, wpc, wkey, cur, shipped, doomed, ts, gen,
                          start, found, token>>
            BY <1>1 DEF store, engine, lists
        <3>3. file' \in Int /\ rpc' \in Chosen
            BY <1>8 DEF Chosen
        <3>4. Types
            BY <1>2
        <3> QED  BY <3>1, <3>2, <3>3, <3>4 DEF Types
    <2>3. PickInv' /\ RestoreSound'
        BY <1>8 DEF PickInv, RestoreSound
    <2>4. rpc' = "apply" => file' \in Nat /\ \E x, y, z \in Nat : Applied(file, x, y, z)'
        <3>1. Applied(file, c, d, n)'
            BY <1>8, <2>1 DEF Applied
        <3> QED  BY <1>8, <3>1
    <2>5. RestoreInv'
        BY <1>1, <1>2, <1>5, <1>7, <1>8, <2>3, <2>4 DEF RestoreInv, Chosen
    <2> QED  BY <1>6, <2>2, <2>3, <2>5 DEF BInv
<1>9. CASE BeginIndex
    <2> DEFINE First(S) == {i \in S : Layout[i].index = Min({Layout[j].index : j \in S})}
               segs     == First(rest)
    <2>1. /\ reading = {} /\ walFile = {} /\ rest # {}
          /\ rest' = rest \ segs /\ reading' = Contiguous(segs)
          /\ UNCHANGED <<rpc, walFile, file>>
        BY <1>9 DEF BeginIndex
    <2>2. file = a /\ a = b /\ b < n
        <3>1. ~(a + 1 <= b) /\ ~(file + 1 <= a) /\ b + 1 <= n
            <4>1. a + 1 \notin reading /\ file + 1 \notin walFile
                BY <2>1
            <4>2. PICK x \in rest : TRUE
                BY <2>1
            <4> QED  BY <1>2, <1>4, <4>1, <4>2
        <3> QED  BY <1>2, <1>4, <3>1
    <2>3. PICK e \in Nat : /\ b < e /\ e <= n
                           /\ segs = b + 1 .. e /\ rest \ segs = e + 1 .. n
                           /\ Contiguous(segs) = segs
                           /\ e < n => Layout[e + 1].offset = 0
        <3>1. LET S == b + 1 .. n
              IN  \E e \in Nat : /\ b < e /\ e <= n
                                 /\ First(S) = b + 1 .. e /\ S \ First(S) = e + 1 .. n
                                 /\ Contiguous(First(S)) = First(S)
                                 /\ e < n => Layout[e + 1].offset = 0
            BY <1>4, <2>2, IndexRun
        <3>2. rest = b + 1 .. n
            BY <1>4
        <3> HIDE DEF First
        <3> QED  BY <3>1, <3>2
    <2> HIDE DEF segs
    <2>4. /\ rpc' = "apply" /\ file' = file /\ walFile' = file + 1 .. a
          /\ reading' = a + 1 .. e /\ rest' = e + 1 .. n /\ a <= e
        BY <1>1, <1>4, <2>1, <2>2, <2>3
    <2> QED  BY <1>2, <1>4, <1>8, <2>3, <2>4
<1>10. CASE ReadWALSegment
    <2>1. /\ reading # {}
          /\ IF <<gen, Min(reading)>> \in whole
             THEN /\ walFile' = walFile \cup {Min(reading)}
                  /\ reading' = reading \ {Min(reading)}
                  /\ UNCHANGED rpc
             ELSE rpc' = "failed" /\ UNCHANGED <<walFile, reading>>
          /\ UNCHANGED <<rest, file>>
        BY <1>10 DEF ReadWALSegment, Fail
    <2>2. a < b
        <3>1. PICK x \in reading : TRUE
            BY <2>1
        <3> QED  BY <1>4, <3>1
    <2>3. Min(reading) = a + 1
        BY <1>4, <2>2, IntervalEnds
    <2>4. <<gen, a + 1>> \in whole
        <3>1. ~(wpc = "remove" /\ wkey[1] = gen)
            <4>1. wkey[1] \in Int
                BY TypeFacts DEF BInv
            <4> QED  BY <1>2, <4>1 DEF Deleting
        <3>2. \A i \in 1..shipped[gen] : <<gen, i>> \in visible
            BY <1>2, <3>1 DEF StoreInv
        <3>3. a + 1 \in 1..shipped[gen]
            BY <1>2, <1>4, <2>2
        <3> QED  BY <1>2, <3>2, <3>3 DEF StoreInv
    <2>5. /\ rpc' = "apply" /\ file' = file /\ walFile' = walFile \cup {a + 1}
          /\ reading' = reading \ {a + 1} /\ rest' = b + 1 .. n
        BY <1>1, <1>4, <2>1, <2>3, <2>4
    <2>6. walFile' = file + 1 .. a + 1 /\ reading' = a + 1 + 1 .. b
        BY <1>2, <1>4, <2>2, <2>5
    <2>7. file <= a + 1 /\ a + 1 <= b /\ a + 1 \in Nat
        BY <1>2, <1>4, <2>2
    <2> QED  BY <1>2, <1>4, <1>8, <2>5, <2>6, <2>7
<1>11. CASE Fold
    <2>1. /\ reading = {} /\ walFile # {} /\ walFile' = {}
          /\ file' = IF file # Torn /\ Min(walFile) <= file + 1 THEN Max(walFile) ELSE Torn
          /\ UNCHANGED <<rpc, rest, reading>>
        BY <1>11 DEF Fold
    <2>2. file < a
        <3>1. PICK x \in walFile : TRUE
            BY <2>1
        <3> QED  BY <1>2, <1>4, <3>1
    <2>3. Min(walFile) = file + 1 /\ Max(walFile) = a
        BY <1>2, <1>4, <2>2, IntervalEnds
    <2>4. file' = a
        BY <1>2, <2>1, <2>3 DEF Torn
    <2>5. walFile' = a + 1 .. a
        BY <2>1
    <2>6. /\ rpc' = "apply" /\ reading' = a + 1 .. b /\ rest' = b + 1 .. n /\ a <= a
        BY <1>1, <1>4, <2>1
    <2> QED  BY <1>4, <1>8, <2>4, <2>5, <2>6
<1>12. CASE Verify
    <2>1. /\ reading = {} /\ walFile = {} /\ rest = {} /\ rpc' = "done"
          /\ UNCHANGED <<rest, reading, walFile, file>>
        BY <1>12 DEF Verify, target
    <2>2. file = n
        <3>1. a + 1 \notin reading /\ file + 1 \notin walFile /\ b + 1 \notin rest
            BY <2>1
        <3>2. ~(a + 1 <= b) /\ ~(file + 1 <= a) /\ ~(b + 1 <= n)
            BY <1>2, <1>4, <3>1
        <3> QED  BY <1>2, <1>4, <3>2
    <2>3. RestoreSound'
        BY <1>1, <1>2, <1>4, <1>5, <2>1, <2>2 DEF RestoreSound, Torn
    <2>4. Types' /\ PickInv'
        BY <1>1, <1>2, <1>5, <2>1 DEF Types, PickInv, store, engine, lists
    <2>5. RestoreInv'
        BY <1>1, <1>2, <1>5, <2>1, <2>3 DEF RestoreInv, Chosen
    <2> QED  BY <1>6, <2>4, <2>5 DEF BInv
<1> QED  BY <1>9, <1>10, <1>11, <1>12

\* A Restore that fails or returns leaves nothing behind for the next one.
LEMMA ReturnKeeps == BInv /\ (RestoreFails \/ Return) => BInv'
<1> SUFFICES ASSUME BInv, RestoreFails \/ Return PROVE BInv'
    OBVIOUS
<1>1. UNCHANGED <<kind, store, engine, lists>>
    BY DEF RestoreFails, Return
<1>2. UNCHANGED <<visible, whole, wkey, wpc, shipped, found, token>>
    BY <1>1 DEF store, engine, lists
<1>3. StoreInv' /\ CallInv'
    BY <1>1, <1>2, RestoreKeepsEngine
<1>4. Types /\ RestoreInv /\ Gens \in Nat /\ Len(Layout) \in Nat
    BY TypeFacts DEF BInv
<1>5. CASE RestoreFails
    <2>1. /\ rpc' = "failed" /\ file' \in {NoFile, Torn, file}
          /\ UNCHANGED <<ts, gen, rest, reading, walFile, start>>
        BY <1>5 DEF RestoreFails, Fail
    <2>2. file' \in Int
        BY <1>4, <2>1 DEF Types, NoFile, Torn
    <2>3. Types'
        BY <1>1, <1>2, <1>4, <2>1, <2>2 DEF Types, store, engine
    <2>4. PickInv' /\ RestoreInv'
        BY <1>2, <1>4, <2>1 DEF PickInv, RestoreInv, RestoreSound, Chosen
    <2> QED  BY <1>3, <2>3, <2>4 DEF BInv
<1>6. CASE Return
    <2>1. /\ rpc' = "idle" /\ gen' = 0 /\ ts' = 0 /\ start' = <<0, 0>>
          /\ rest' = {} /\ reading' = {} /\ walFile' = {} /\ file' = NoFile
        BY <1>6 DEF Return
    <2>2. Types'
        <3>1. start' \in (0..Gens) \X (0..Len(Layout)) /\ 0 \in 0..Gens /\ NoFile \in Int
            BY <1>4, <2>1 DEF NoFile
        <3> QED  BY <1>1, <1>2, <1>4, <2>1, <3>1 DEF Types, store, engine
    <2>3. PickInv' /\ RestoreInv'
        BY <1>2, <1>4, <2>1 DEF PickInv, RestoreInv, RestoreSound, Chosen
    <2> QED  BY <1>3, <2>2, <2>3 DEF BInv
<1> QED  BY <1>5, <1>6

-----------------------------------------------------------------------------
LEMMA InitBInv == Init => BInv
<1> SUFFICES ASSUME Init PROVE BInv
    OBVIOUS
<1>1. /\ kind \in {"local", "s3"} /\ visible = {} /\ whole = {} /\ dirs = {}
      /\ wpc = "idle" /\ wkey = <<0, 0>> /\ cur = 0 /\ doomed = {}
      /\ shipped = [g \in 1..Gens |-> 0]
      /\ rpc = "idle" /\ ts = 0 /\ gen = 0 /\ start = <<0, 0>>
      /\ rest = {} /\ reading = {} /\ walFile = {} /\ file = NoFile
      /\ found = [p \in {"r", "w"} |-> {}] /\ token = [p \in {"r", "w"} |-> -1]
    BY BackendAssumption DEF Init
<1>2. Gens \in Nat /\ Len(Layout) \in Nat
    BY BackendAssumption, LayoutTypes
<1>3. Types
    <2>1. 0 \in 0..Gens /\ 0 \in 0..Len(Layout) /\ -1 \in Int /\ NoFile \in Int
        BY <1>2 DEF NoFile
    <2>2. shipped \in [1..Gens -> 0..Len(Layout)]
        BY <1>1, <2>1
    <2>3. found \in [{"r", "w"} -> SUBSET Int] /\ token \in [{"r", "w"} -> Int]
        BY <1>1, <2>1
    <2> QED  BY <1>1, <2>1, <2>2, <2>3 DEF Types
<1>4. StoreInv /\ CallInv
    BY <1>1 DEF StoreInv, CallInv, Writing, Deleting
<1>5. PickInv /\ RestoreInv
    BY <1>1 DEF PickInv, RestoreInv, RestoreSound, Chosen
<1> QED  BY <1>3, <1>4, <1>5 DEF BInv

LEMMA NextBInv == NoRaces /\ BInv /\ [Next]_vars => BInv'
<1> SUFFICES ASSUME NoRaces, BInv, [Next]_vars PROVE BInv'
    OBVIOUS
<1>1. CASE UNCHANGED vars
    <2>1. UNCHANGED <<kind, visible, whole, dirs, wpc, wkey, cur, shipped, doomed, rpc, ts, gen,
                      rest, reading, walFile, file, start, found, token>>
        BY <1>1 DEF vars, store, engine, restore, target, lists
    <2>2. /\ Types'
          /\ StoreInv'
          /\ CallInv'
          /\ PickInv'
        <3>0. Types /\ StoreInv /\ CallInv /\ PickInv
            BY DEF BInv
        <3>1. Types'
            BY <2>1, <3>0 DEF Types
        <3>2. StoreInv'
            BY <2>1, <3>0 DEF StoreInv
        <3>3. CallInv'
            BY <2>1, <3>0 DEF CallInv, Deleting
        <3>4. PickInv'
            BY <2>1, <3>0 DEF PickInv, Deleting
        <3> QED  BY <3>1, <3>2, <3>3, <3>4
    <2>3. \A f, a, b, n : Applied(f, a, b, n)' <=> Applied(f, a, b, n)
        BY <2>1 DEF Applied
    <2>4. RestoreInv'
        BY <2>1, <2>3 DEF BInv, RestoreInv, RestoreSound, Deleting
    <2> QED  BY <2>2, <2>4 DEF BInv
<1>2. CASE EngineNext
    BY <1>2, BeginWriteKeeps, WrittenKeeps, MkdirAllKeeps, CallEndsKeeps, DeleteGenerationKeeps,
       ListDoomedKeeps, DeleteKeeps, RemoveAllKeeps, DeleteFailsKeeps DEF EngineNext
<1>3. CASE RestoreNext
    BY <1>3, CallRestoreKeeps, GenerationsKeeps, ReadSnapshotKeeps, WALSegmentsKeeps, ApplyKeeps,
       ReturnKeeps DEF RestoreNext
<1> QED  BY <1>1, <1>2, <1>3 DEF Next

\* For both backends, any number of generations and segments and any length of a
\* page, while a node goes on writing, failing and pruning: a Restore that succeeds
\* gives a generation no older than the one that could be restored when it began,
\* without a gap, and from that generation no less than had been shipped then.  The
\* hypothesis leaves out the two races README names: a generation deleted while it
\* is restored, and one left half deleted on a disk.
THEOREM RestoreIsSound == NoRaces /\ Spec => []RestoreSound
<1> SUFFICES ASSUME NoRaces PROVE Spec => []RestoreSound
    OBVIOUS
<1>1. BInv => RestoreSound
    BY DEF BInv, RestoreInv
<1>2. BInv /\ [Next]_vars => BInv'
    BY NextBInv
<1> QED  BY InitBInv, <1>1, <1>2, PTL DEF Spec

=============================================================================
