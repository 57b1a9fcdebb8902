--------------------------- MODULE MCDesksProofs ----------------------------
(***************************************************************************)
(* Proofs about the price list and the server that answers its calls,      *)
(* about streaks and badges, and about the desks together: that the        *)
(* theorems on each of them hold of the behaviours that MCDesks checks.    *)
(***************************************************************************)
EXTENDS MCDesks, DesksProofs

-----------------------------------------------------------------------------
(* Folds over sequences, from the first element to the last.               *)

LEMMA MaxOfInterval ==
    ASSUME NEW n \in Nat
    PROVE  Max(1 .. n + 1) = n + 1 /\ (1 .. n + 1) \ {n + 1} = 1 .. n
BY DEF Max

\* Of the numbers up to n + 1 those with n + 1 among them have it as the last.
LEMMA MaxWithLast ==
    ASSUME NEW n \in Nat, NEW T \in SUBSET (1 .. n + 1), T \notin SUBSET (1 .. n)
    PROVE  n + 1 \in T /\ Max(T) = n + 1 /\ T \ {n + 1} \in SUBSET (1 .. n)
<1>1. n + 1 \in T
  OBVIOUS
<1>2. \A x \in T : x \in Int /\ x <= n + 1
  OBVIOUS
<1>3. \A x \in T : (\A y \in T : x >= y) => x = n + 1
  BY <1>1, <1>2
<1>4. \A y \in T : n + 1 >= y
  BY <1>2
<1>5. Max(T) = n + 1
  BY <1>1, <1>3, <1>4 DEF Max
<1> QED BY <1>1, <1>5

-----------------------------------------------------------------------------
(* A file is read row by row.                                              *)

SeedStart(vs, ps, ids) ==
    [t |-> [vendors |-> vs, prices |-> ps, rowids |-> ids], last |-> 0,
     cache |-> [v \in Vendors |-> 0], lost |-> {}]

SeedStep(file, s, n) ==
    IF Len(file.layout) < 9 THEN s ELSE SeedRow(s, file.layout, file.rows[n])

SayStep(file, m, n) ==
    [m EXCEPT ![<<file.rows[n].vendor, file.rows[n].sku>>] = file.rows[n].list]

ParseStep(recs, kept, n) == IF Valid(recs[n]) THEN Append(kept, recs[n]) ELSE kept

\* One element of a file that is seeded or told, or of an import that is parsed.
Step(kind, given, x, n) ==
    IF kind = "seed" THEN SeedStep(given, x, n)
    ELSE IF kind = "say" THEN SayStep(given, x, n) ELSE ParseStep(given, x, n)

\* f[1 .. m] is what the first m steps make of base.
Steps(f, kind, given, base, n) ==
    f = [T \in SUBSET (1 .. n) |->
           IF T = {} THEN base ELSE Step(kind, given, f[T \ {Max(T)}], Max(T))]

LEMMA StepsExist ==
    ASSUME NEW kind, NEW given, NEW base, NEW n \in Nat
    PROVE  \E f : Steps(f, kind, given, base, n)
<1> DEFINE Good == {m \in Nat : \E f : Steps(f, kind, given, base, m)}
<1>1. 0 \in Good
  <2>1. SUBSET (1 .. 0) = {{}}
    OBVIOUS
  <2>2. PICK f : f = [T \in SUBSET (1 .. 0) |-> base]
    OBVIOUS
  <2>3. Steps(f, kind, given, base, 0)
    BY <2>1, <2>2 DEF Steps
  <2> QED BY <2>3
<1>2. ASSUME NEW m \in Nat, m \in Good PROVE m + 1 \in Good
  <2>1. PICK f : Steps(f, kind, given, base, m)
    BY <1>2
  <2>2. PICK g : g = [T \in SUBSET (1 .. m + 1) |->
                        IF T \in SUBSET (1 .. m) THEN f[T]
                        ELSE Step(kind, given, f[T \ {m + 1}], m + 1)]
    OBVIOUS
  <2>3. SUBSET (1 .. m) \subseteq SUBSET (1 .. m + 1)
    OBVIOUS
  <2>4. \A T \in SUBSET (1 .. m) : g[T] = f[T]
    BY <2>2, <2>3
  <2>5. ASSUME NEW T \in SUBSET (1 .. m + 1)
        PROVE  g[T] = IF T = {} THEN base ELSE Step(kind, given, g[T \ {Max(T)}], Max(T))
    <3>1. CASE T \in SUBSET (1 .. m)
      <4>1. f[T] = IF T = {} THEN base ELSE Step(kind, given, f[T \ {Max(T)}], Max(T))
        BY <2>1, <3>1 DEF Steps
      <4>2. T \ {Max(T)} \in SUBSET (1 .. m)
        BY <3>1
      <4> QED BY <2>4, <3>1, <4>1, <4>2
    <3>2. CASE T \notin SUBSET (1 .. m)
      <4>1. Max(T) = m + 1 /\ T \ {m + 1} \in SUBSET (1 .. m) /\ T # {}
        BY <3>2, MaxWithLast
      <4>2. g[T] = Step(kind, given, f[T \ {m + 1}], m + 1)
        BY <2>2, <3>2
      <4> QED BY <2>4, <4>1, <4>2
    <3> QED BY <3>1, <3>2
  <2>6. g = [T \in SUBSET (1 .. m + 1) |-> g[T]]
    BY <2>2
  <2>7. Steps(g, kind, given, base, m + 1)
    BY <2>5, <2>6 DEF Steps
  <2> QED BY <2>7
<1>3. n \in Good
  BY <1>1, <1>2, AllNumbers
<1> QED BY <1>3

\* Steps, by the number of rows done.
InOrder(f, kind, given, base, n) ==
    /\ f[1 .. 0] = base
    /\ \A m \in 0 .. n - 1 : f[1 .. m + 1] = Step(kind, given, f[1 .. m], m + 1)

LEMMA StepsInOrder ==
    ASSUME NEW kind, NEW given, NEW base, NEW n \in Nat, NEW f, Steps(f, kind, given, base, n)
    PROVE  InOrder(f, kind, given, base, n)
<1>1. 1 .. 0 = {} /\ {} \in SUBSET (1 .. n)
  OBVIOUS
<1>2. f[1 .. 0] = base
  BY <1>1 DEF Steps
<1>3. ASSUME NEW m \in 0 .. n - 1
      PROVE  f[1 .. m + 1] = Step(kind, given, f[1 .. m], m + 1)
  <2>1. m \in Nat /\ 1 .. m + 1 \in SUBSET (1 .. n) /\ 1 .. m + 1 # {}
    OBVIOUS
  <2>2. Max(1 .. m + 1) = m + 1 /\ (1 .. m + 1) \ {m + 1} = 1 .. m
    BY <2>1, MaxOfInterval
  <2>3. f[1 .. m + 1] = Step(kind, given, f[(1 .. m + 1) \ {Max(1 .. m + 1)}], Max(1 .. m + 1))
    BY <2>1 DEF Steps
  <2> QED BY <2>2, <2>3
<1> QED BY ONLY <1>2, <1>3, Zenon DEF InOrder

LEMMA SeedRowsSteps ==
    ASSUME NEW file, NEW n \in Nat, DOMAIN file.rows = 1 .. n
    PROVE  \E f : Steps(f, "seed", file, SeedStart(vendors, prices, rowids), n) /\ SeedRows(file) = f[1 .. n]
<1> DEFINE Read(f) ==
        [T \in SUBSET DOMAIN file.rows |->
           IF T = {}
           THEN [t |-> [vendors |-> vendors, prices |-> prices, rowids |-> rowids],
                 last |-> 0, cache |-> [v \in Vendors |-> 0], lost |-> {}]
           ELSE IF Len(file.layout) < 9 THEN f[T \ {Max(T)}]
                ELSE SeedRow(f[T \ {Max(T)}], file.layout, file.rows[Max(T)])]
<1>a. \A x, m : Step("seed", file, x, m) = SeedStep(file, x, m)
  BY DEF Step
<1>b. \A f : Read(f) = [T \in SUBSET DOMAIN file.rows |->
                          IF T = {} THEN SeedStart(vendors, prices, rowids)
                          ELSE SeedStep(file, f[T \ {Max(T)}], Max(T))]
  BY DEF SeedStep, SeedStart
<1>1. \A f : Steps(f, "seed", file, SeedStart(vendors, prices, rowids), n) <=> f = Read(f)
  <2> HIDE DEF Read
  <2> QED BY <1>a, <1>b DEF Steps
<1>2. SeedRows(file) = (CHOOSE f : f = Read(f))[DOMAIN file.rows]
  BY DEF SeedRows, Tables, FoldLeft, MapThenFoldSet
<1>3. \E f : f = Read(f)
  BY <1>1, StepsExist
<1> HIDE DEF Read
<1>4. PICK g : g = CHOOSE f : f = Read(f)
  OBVIOUS
<1>5. g = Read(g)
  BY <1>3, <1>4
<1> QED BY <1>1, <1>2, <1>4, <1>5

LEMMA SaidBySteps ==
    ASSUME NEW file, NEW n \in Nat, DOMAIN file.rows = 1 .. n
    PROVE  \E f : Steps(f, "say", file, meant, n) /\ SaidBy(file) = f[1 .. n]
<1> DEFINE Read(f) ==
        [T \in SUBSET DOMAIN file.rows |->
           IF T = {}
           THEN meant
           ELSE [f[T \ {Max(T)}] EXCEPT
                  ![<<file.rows[Max(T)].vendor, file.rows[Max(T)].sku>>] =
                      file.rows[Max(T)].list]]
<1>a. \A x, m : Step("say", file, x, m) = SayStep(file, x, m)
  BY DEF Step
<1>b. \A f : Read(f) = [T \in SUBSET DOMAIN file.rows |->
                          IF T = {} THEN meant
                          ELSE SayStep(file, f[T \ {Max(T)}], Max(T))]
  BY DEF SayStep
<1>1. \A f : Steps(f, "say", file, meant, n) <=> f = Read(f)
  <2> HIDE DEF Read
  <2> QED BY <1>a, <1>b DEF Steps
<1>2. SaidBy(file) = (CHOOSE f : f = Read(f))[DOMAIN file.rows]
  BY DEF SaidBy, FoldLeft, MapThenFoldSet
<1>3. \E f : f = Read(f)
  BY <1>1, StepsExist
<1> HIDE DEF Read
<1>4. PICK g : g = CHOOSE f : f = Read(f)
  OBVIOUS
<1>5. g = Read(g)
  BY <1>3, <1>4
<1> QED BY <1>1, <1>2, <1>4, <1>5

LEMMA ParsedSteps ==
    ASSUME NEW recs, NEW n \in Nat, DOMAIN recs = 1 .. n
    PROVE  \E f : Steps(f, "parse", recs, <<>>, n) /\ Parsed(recs) = f[1 .. n]
<1> DEFINE Read(f) ==
        [T \in SUBSET DOMAIN recs |->
           IF T = {}
           THEN <<>>
           ELSE IF Valid(recs[Max(T)]) THEN Append(f[T \ {Max(T)}], recs[Max(T)])
                ELSE f[T \ {Max(T)}]]
<1>a. \A x, m : Step("parse", recs, x, m) = ParseStep(recs, x, m)
  BY DEF Step
<1>1. \A f : Steps(f, "parse", recs, <<>>, n) <=> f = Read(f)
  BY Zenon, <1>a DEF Steps, ParseStep
<1>2. Parsed(recs) = (CHOOSE f : f = Read(f))[DOMAIN recs]
  BY DEF Parsed, FoldLeft, MapThenFoldSet
<1>3. \E f : f = Read(f)
  BY <1>1, StepsExist
<1> HIDE DEF Read
<1>4. PICK g : g = CHOOSE f : f = Read(f)
  OBVIOUS
<1>5. g = Read(g)
  BY <1>3, <1>4
<1> QED BY <1>1, <1>2, <1>4, <1>5
-----------------------------------------------------------------------------
(* The price list says what was written.                                   *)

TableRec == [vendors : [Vendors -> Nat], prices : SUBSET PriceRow,
             rowids : [{"vendors", "prices"} -> Nat]]

\* No two vendors have one id, and the next id is nobody's.
TypedTables(t) ==
    /\ t \in TableRec
    /\ \A v \in Vendors : t.vendors[v] <= t.rowids["vendors"]
    /\ \A v, w \in Vendors : t.vendors[v] = t.vendors[w] /\ t.vendors[v] # 0 => v = w

\* The rows are of vendors, one for each SKU, and hold the prices m.
Agreeing(t, m) ==
    /\ \A p \in t.prices : \E v \in Vendors : t.vendors[v] = p.vendor /\ p.vendor # 0
    /\ \A p, q \in t.prices : p.vendor = q.vendor /\ p.sku = q.sku => p = q
    /\ \A p \in t.prices, v \in Vendors : p.vendor = t.vendors[v] => p.list = m[<<v, p.sku>>]
    /\ \A v \in Vendors, k \in Skus :
          (\A p \in t.prices : ~ (p.vendor = t.vendors[v] /\ p.sku = k)) => m[<<v, k>>] = 0

LEMMA VendorInserted ==
    ASSUME NEW t, TypedTables(t), NEW v \in Vendors, NEW u, u = InsertVendor(t, v)
    PROVE  /\ TypedTables(u) /\ u.vendors[v] # 0 /\ u.prices = t.prices
           /\ \A w \in Vendors : t.vendors[w] # 0 => u.vendors[w] = t.vendors[w]
           /\ \A m : Agreeing(t, m) => Agreeing(u, m)
<1>1. PICK id : id = t.rowids["vendors"] + 1
  OBVIOUS
<1>2. id \in Nat /\ id # 0 /\ \A w \in Vendors : t.vendors[w] < id /\ t.vendors[w] \in Nat
  BY <1>1 DEF TypedTables, TableRec
<1>3. u = [t EXCEPT !.rowids["vendors"] = id,
                    !.vendors[v] = IF @ = 0 THEN id ELSE @]
  BY <1>1 DEF InsertVendor
<1>4. /\ u.prices = t.prices /\ u.rowids = [t.rowids EXCEPT !["vendors"] = id]
      /\ u.vendors = [t.vendors EXCEPT ![v] = IF t.vendors[v] = 0 THEN id ELSE t.vendors[v]]
  BY <1>3 DEF TypedTables, TableRec
<1>5. u \in TableRec
  <2>1. u = [vendors |-> u.vendors, prices |-> u.prices, rowids |-> u.rowids]
    BY <1>3 DEF TypedTables, TableRec
  <2>2. u.vendors \in [Vendors -> Nat] /\ u.rowids \in [{"vendors", "prices"} -> Nat]
    BY <1>2, <1>4 DEF TypedTables, TableRec
  <2>3. u.prices \in SUBSET PriceRow
    BY <1>4 DEF TypedTables, TableRec
  <2> QED BY <2>1, <2>2, <2>3 DEF TableRec
<1>6. /\ u.vendors[v] = IF t.vendors[v] = 0 THEN id ELSE t.vendors[v]
      /\ \A w \in Vendors \ {v} : u.vendors[w] = t.vendors[w]
      /\ u.rowids["vendors"] = id
  BY <1>4 DEF TypedTables, TableRec
<1>7. TypedTables(u)
  <2>1. \A w \in Vendors : u.vendors[w] <= id
    BY <1>2, <1>6
  <2>2. \A w, x \in Vendors : u.vendors[w] = u.vendors[x] /\ u.vendors[w] # 0 => w = x
    BY <1>2, <1>6 DEF TypedTables
  <2> QED BY <1>5, <1>6, <2>1, <2>2 DEF TypedTables
<1>8. \A w \in Vendors : t.vendors[w] # 0 => u.vendors[w] = t.vendors[w]
  BY <1>6
<1>9. ASSUME NEW m, Agreeing(t, m) PROVE Agreeing(u, m)
  <2>1. \A p \in t.prices : \E w \in Vendors : t.vendors[w] = p.vendor /\ p.vendor # 0
    BY <1>9 DEF Agreeing
  <2>2. \A p \in t.prices, w \in Vendors : p.vendor = u.vendors[w] <=> p.vendor = t.vendors[w]
    BY <1>2, <1>6, <2>1
  <2>3. \A p \in t.prices : \E w \in Vendors : u.vendors[w] = p.vendor /\ p.vendor # 0
    BY <1>8, <2>1
  <2> QED BY <1>4, <1>9, <2>2, <2>3 DEF Agreeing
<1>10. u.vendors[v] # 0
  BY <1>2, <1>6
<1> QED BY <1>4, <1>7, <1>8, <1>9, <1>10

LEMMA PriceUpserted ==
    ASSUME NEW t, TypedTables(t), NEW vendor \in Nat, NEW sku \in Skus, NEW list \in Int,
           NEW typical \in Int, NEW u, u = UpsertPrice(t, vendor, sku, list, typical)
    PROVE  /\ TypedTables(u) /\ u.vendors = t.vendors
           /\ \A v \in Vendors, m \in [Vendors \X Skus -> Int] :
                 vendor = t.vendors[v] /\ vendor # 0 /\ Agreeing(t, m)
                    => Agreeing(u, [m EXCEPT ![<<v, sku>>] = list])
<1> DEFINE old == {p \in t.prices : p.vendor = vendor /\ p.sku = sku}
           id == t.rowids["prices"] + 1
<1>1. PICK kept : kept = IF old = {} THEN id ELSE (CHOOSE p \in old : TRUE).id
  OBVIOUS
<1>2. PICK row : row = [id |-> kept, vendor |-> vendor, sku |-> sku, list |-> list,
                        typical |-> typical]
  OBVIOUS
<1>3. u = [t EXCEPT !.rowids["prices"] = id, !.prices = (@ \ old) \cup {row}]
  BY <1>1, <1>2 DEF UpsertPrice
<1>4. kept \in Nat
  <2>1. id \in Nat
    BY DEF TypedTables, TableRec
  <2>2. ASSUME old # {} PROVE (CHOOSE p \in old : TRUE).id \in Nat
    <3>1. (CHOOSE p \in old : TRUE) \in PriceRow
      BY <2>2 DEF TypedTables, TableRec
    <3> QED BY <3>1 DEF PriceRow
  <2> QED BY <1>1, <2>1, <2>2
<1>5. row \in PriceRow /\ row.vendor = vendor /\ row.sku = sku /\ row.list = list
  BY <1>2, <1>4 DEF PriceRow
<1>6. /\ u.vendors = t.vendors /\ u.prices = (t.prices \ old) \cup {row}
      /\ u.rowids = [t.rowids EXCEPT !["prices"] = id]
  BY <1>3 DEF TypedTables, TableRec
<1>7. TypedTables(u)
  <2>1. id \in Nat
    BY DEF TypedTables, TableRec
  <2>2. u \in TableRec
    <3>1. u = [vendors |-> u.vendors, prices |-> u.prices, rowids |-> u.rowids]
      BY <1>3 DEF TypedTables, TableRec
    <3>2. u.vendors \in [Vendors -> Nat] /\ u.rowids \in [{"vendors", "prices"} -> Nat]
      BY <1>6, <2>1 DEF TypedTables, TableRec
    <3>3. u.prices \in SUBSET PriceRow
      BY <1>5, <1>6 DEF TypedTables, TableRec
    <3> QED BY <3>1, <3>2, <3>3 DEF TableRec
  <2>3. u.rowids["vendors"] = t.rowids["vendors"]
    BY <1>6 DEF TypedTables, TableRec
  <2> QED BY <1>6, <2>2, <2>3 DEF TypedTables
<1>8. ASSUME NEW v \in Vendors, NEW m \in [Vendors \X Skus -> Int],
             vendor = t.vendors[v], vendor # 0, Agreeing(t, m)
      PROVE  Agreeing(u, [m EXCEPT ![<<v, sku>>] = list])
  <2>1. PICK n : n = [m EXCEPT ![<<v, sku>>] = list]
    OBVIOUS
  <2>2. n[<<v, sku>>] = list
    BY <2>1
  <2>3. \A w \in Vendors, k \in Skus : w # v \/ k # sku => n[<<w, k>>] = m[<<w, k>>]
    BY <2>1
  <2>4. \A p \in u.prices : p = row \/ (p \in t.prices /\ ~ (p.vendor = vendor /\ p.sku = sku))
    BY <1>6
  <2>5. \A w \in Vendors : t.vendors[w] = vendor => w = v
    BY <1>8 DEF TypedTables
  <2>6. \A p \in u.prices : p.sku \in Skus
    BY <1>7 DEF TypedTables, TableRec, PriceRow
  <2>7. \A p \in u.prices : \E w \in Vendors : u.vendors[w] = p.vendor /\ p.vendor # 0
    BY <1>5, <1>6, <1>8, <2>4 DEF Agreeing
  <2>8. \A p, q \in u.prices : p.vendor = q.vendor /\ p.sku = q.sku => p = q
    BY <1>5, <1>8, <2>4 DEF Agreeing
  <2>9. \A p \in u.prices, w \in Vendors :
           p.vendor = u.vendors[w] => p.list = n[<<w, p.sku>>]
    BY <1>5, <1>6, <1>8, <2>2, <2>3, <2>4, <2>5, <2>6 DEF Agreeing
  <2>10. \A w \in Vendors, k \in Skus :
           (\A p \in u.prices : ~ (p.vendor = u.vendors[w] /\ p.sku = k)) => n[<<w, k>>] = 0
    <3>1. SUFFICES ASSUME NEW w \in Vendors, NEW k \in Skus,
                          \A p \in u.prices : ~ (p.vendor = u.vendors[w] /\ p.sku = k)
                   PROVE  n[<<w, k>>] = 0
      OBVIOUS
    <3>2. w # v \/ k # sku
      BY <1>5, <1>6, <1>8, <3>1
    <3>3. \A p \in t.prices : ~ (p.vendor = t.vendors[w] /\ p.sku = k)
      BY <1>6, <3>1, <3>2, <2>5
    <3> QED BY <1>8, <2>3, <3>2, <3>3 DEF Agreeing
  <2> QED BY <2>1, <2>7, <2>8, <2>9, <2>10 DEF Agreeing
<1> QED BY <1>6, <1>7, <1>8

SeedState(s) == TypedTables(s.t) /\ s.last \in Nat /\ s.cache \in [Vendors -> Nat]

\* What SeedRow does with what it has read.
SeedPrice(s, v, sku, list, typical) ==
    LET found == IF s.cache[v] = 0 THEN InsertVendor(s.t, v) ELSE s.t
        last  == IF found.vendors # s.t.vendors THEN found.vendors[v] ELSE s.last
        id    == IF s.cache[v] # 0 THEN s.cache[v]
                 ELSE IF last # 0 THEN last ELSE found.vendors[v]
        priced == UpsertPrice(found, id, sku, list, typical)
        new   == {p \in priced.prices : \A q \in found.prices : q.id # p.id}
    IN  [t |-> priced,
         last |-> IF new = {} THEN last ELSE (CHOOSE p \in new : TRUE).id,
         cache |-> [s.cache EXCEPT ![v] = id],
         lost |-> IF id # found.vendors[v] THEN s.lost \cup {v} ELSE s.lost]

LEMMA SeedRowIsSeedPrice ==
    ASSUME NEW s, NEW layout, NEW row
    PROVE  SeedRow(s, layout, row)
              = SeedPrice(s, row[layout[1]], row[layout[3]], Amount(row, layout[5]),
                          Amount(row, layout[8]))
BY DEF SeedRow, SeedPrice

\* A row goes to its vendor, unless that was lost.
LEMMA RowSeeded ==
    ASSUME NEW s, SeedState(s), NEW layout, NEW row, NEW r, r = SeedRow(s, layout, row),
           NEW v \in Vendors, v = row[layout[1]], NEW sku \in Skus, sku = row[layout[3]],
           NEW list \in Int, list = Amount(row, layout[5]), Amount(row, layout[8]) \in Int
    PROVE  /\ SeedState(r) /\ (s.lost # {} => r.lost # {})
           /\ \A m \in [Vendors \X Skus -> Int] :
                 Agreeing(s.t, m) /\ r.lost = {} => Agreeing(r.t, [m EXCEPT ![<<v, sku>>] = list])
<1>1. PICK typical \in Int : typical = Amount(row, layout[8])
  OBVIOUS
<1>a. r = SeedPrice(s, v, sku, list, typical)
  BY <1>1, SeedRowIsSeedPrice
<1> DEFINE
      found == IF s.cache[v] = 0 THEN InsertVendor(s.t, v) ELSE s.t
      last == IF found.vendors # s.t.vendors THEN found.vendors[v] ELSE s.last
      id == IF s.cache[v] # 0 THEN s.cache[v]
            ELSE IF last # 0 THEN last ELSE found.vendors[v]
      priced == UpsertPrice(found, id, sku, list, typical)
      new == {p \in priced.prices : \A q \in found.prices : q.id # p.id}
<1>7. r = [t |-> priced,
           last |-> IF new = {} THEN last ELSE (CHOOSE p \in new : TRUE).id,
           cache |-> [s.cache EXCEPT ![v] = id],
           lost |-> IF id # found.vendors[v] THEN s.lost \cup {v} ELSE s.lost]
  BY <1>a DEF SeedPrice
<1>2. found = IF s.cache[v] = 0 THEN InsertVendor(s.t, v) ELSE s.t
  OBVIOUS
<1> HIDE DEF found
<1>3. last = IF found.vendors # s.t.vendors THEN found.vendors[v] ELSE s.last
  OBVIOUS
<1> HIDE DEF last
<1>4. id = IF s.cache[v] # 0 THEN s.cache[v] ELSE IF last # 0 THEN last ELSE found.vendors[v]
  OBVIOUS
<1> HIDE DEF id
<1>5. priced = UpsertPrice(found, id, sku, list, typical)
  OBVIOUS
<1> HIDE DEF priced
<1>6. new = {p \in priced.prices : \A q \in found.prices : q.id # p.id}
  OBVIOUS
<1> HIDE DEF new
<1>8. /\ TypedTables(found) /\ (s.cache[v] = 0 => found.vendors[v] # 0)
      /\ \A m : Agreeing(s.t, m) => Agreeing(found, m)
  BY <1>2, VendorInserted DEF SeedState
<1>9. found.vendors[v] \in Nat /\ s.cache[v] \in Nat
  BY <1>8 DEF TypedTables, TableRec, SeedState
<1>10. last \in Nat
  BY <1>3, <1>9 DEF SeedState
<1>11. id \in Nat /\ (id = found.vendors[v] => id # 0)
  BY <1>4, <1>8, <1>9, <1>10
<1>12. /\ TypedTables(priced)
       /\ \A m \in [Vendors \X Skus -> Int] :
             id = found.vendors[v] /\ id # 0 /\ Agreeing(found, m)
                => Agreeing(priced, [m EXCEPT ![<<v, sku>>] = list])
  BY <1>5, <1>8, <1>11, PriceUpserted
<1>13. ASSUME new # {} PROVE (CHOOSE p \in new : TRUE).id \in Nat
  <2>1. (CHOOSE p \in new : TRUE) \in PriceRow
    BY <1>6, <1>12, <1>13 DEF TypedTables, TableRec
  <2> QED BY <2>1 DEF PriceRow
<1>14. /\ r.t = priced /\ r.last \in Nat /\ r.cache = [s.cache EXCEPT ![v] = id]
       /\ r.lost = IF id # found.vendors[v] THEN s.lost \cup {v} ELSE s.lost
  BY <1>7, <1>10, <1>13
<1>15. r.cache \in [Vendors -> Nat]
  BY <1>11, <1>14 DEF SeedState
<1>16. SeedState(r)
  BY <1>12, <1>14, <1>15 DEF SeedState
<1>17. (s.lost # {} => r.lost # {}) /\ (r.lost = {} => id = found.vendors[v])
  BY <1>14
<1> QED BY <1>8, <1>11, <1>12, <1>14, <1>16, <1>17

\* What is read from a row in the columns of a layout of nine.
LEMMA RowRead ==
    ASSUME NEW file \in Files, Len(file.layout) >= 9, NEW n \in DOMAIN file.rows,
           NEW row, row = file.rows[n], NEW layout, layout = file.layout
    PROVE  /\ row[layout[1]] \in Vendors /\ row[layout[3]] \in Skus
           /\ Amount(row, layout[5]) \in Int /\ Amount(row, layout[8]) \in Int
           /\ row.vendor \in Vendors /\ row.sku \in Skus /\ row.list \in Int
           /\ layout = Documented => /\ row[layout[1]] = row.vendor
                                     /\ row[layout[3]] = row.sku
                                     /\ Amount(row, layout[5]) = row.list
<1>1. /\ file.layout \in {Documented, Shipped, Dated} /\ file.rows \in Seq(FileRow)
  BY PriceAssumption
<1>2. row \in FileRow
  BY <1>1, OneOf
<1>3. Len(Dated) = 5 /\ layout # Dated
  <2>1. Len(Dated) = 5
    BY DEF Dated
  <2>2. ASSUME layout = Dated PROVE FALSE
    <3>1. Len(file.layout) = 5
      BY <2>1, <2>2
    <3> QED BY <3>1
  <2> QED BY <2>1, <2>2
<1>4. layout = Documented \/ layout = Shipped
  BY <1>1, <1>3
<1>5. /\ row.vendor \in Vendors /\ row.sku \in Skus /\ row.description \in Skus
      /\ row.list \in Int /\ row.min \in Int /\ row.max \in Int
      /\ row.typical \in Int /\ row.price \in Int
  BY <1>2 DEF FileRow
<1>6. \A column : Amount(row, column) \in Int
  <2>1. SUFFICES ASSUME NEW column,
                        column \in {"list", "min", "max", "typical", "price"}
                 PROVE  row[column] \in Int
    BY DEF Amount
  <2> QED BY <1>5, <2>1
<1>7. CASE layout = Documented
  <2>1. layout[1] = "vendor" /\ layout[3] = "sku" /\ layout[5] = "list"
    BY <1>7 DEF Documented
  <2>2. Amount(row, "list") = row.list
    BY DEF Amount
  <2> QED BY <1>5, <1>6, <2>1, <2>2
<1>8. CASE layout = Shipped
  <2>1. layout[1] = "vendor" /\ layout[3] = "description"
    BY <1>8 DEF Shipped
  <2>2. Shipped # Documented
    <3>1. Shipped[2] = "sku" /\ Documented[2] = "category"
      BY DEF Shipped, Documented
    <3> QED BY <3>1
  <2> QED BY <1>5, <1>6, <1>8, <2>1, <2>2
<1> QED BY <1>4, <1>7, <1>8

MeantSet == [Vendors \X Skus -> Int]

PriceInv ==
    /\ TypedTables(Tables) /\ meant \in MeantSet /\ guessed \in BOOLEAN
    /\ ~ guessed => Agreeing(Tables, meant)

\* What reading a part of a file has made of the tables, and the part says m.
FileAt(file, s, m) ==
    /\ SeedState(s) /\ m \in MeantSet
    /\ Len(file.layout) < 9 => s.t = Tables
    /\ /\ ~ guessed /\ Len(file.layout) >= 9 /\ file.layout = Documented /\ s.lost = {}
          => Agreeing(s.t, m)

\* A file that is read in its own columns is written, row by row.
LEMMA FileSeeded ==
    ASSUME PriceInv, NEW file \in Files
    PROVE  FileAt(file, SeedRows(file), SaidBy(file))
<1>1. file.rows \in Seq(FileRow)
  BY PriceAssumption
<1>2. PICK n \in Nat : DOMAIN file.rows = 1 .. n
  BY <1>1
<1>3. PICK f : /\ Steps(f, "seed", file, SeedStart(vendors, prices, rowids), n)
               /\ SeedRows(file) = f[1 .. n]
  BY <1>2, SeedRowsSteps
<1>4. PICK g : Steps(g, "say", file, meant, n) /\ SaidBy(file) = g[1 .. n]
  BY <1>2, SaidBySteps
<1>5. /\ f[1 .. 0] = SeedStart(vendors, prices, rowids)
      /\ \A k \in 0 .. n - 1 : f[1 .. k + 1] = SeedStep(file, f[1 .. k], k + 1)
  <2>1. \A x, k : Step("seed", file, x, k) = SeedStep(file, x, k)
    BY DEF Step
  <2>2. InOrder(f, "seed", file, SeedStart(vendors, prices, rowids), n)
    BY ONLY <1>3, n \in Nat, StepsInOrder, Zenon
  <2> QED BY ONLY <2>1, <2>2, Zenon DEF InOrder
<1>a. \A x, k : Step("say", file, x, k) = SayStep(file, x, k)
  BY DEF Step
<1>6. /\ g[1 .. 0] = meant
      /\ \A k \in 0 .. n - 1 : g[1 .. k + 1] = SayStep(file, g[1 .. k], k + 1)
  <2>1. /\ g[1 .. 0] = meant
        /\ \A k \in 0 .. n - 1 : g[1 .. k + 1] = Step("say", file, g[1 .. k], k + 1)
    <3>1. InOrder(g, "say", file, meant, n)
      BY ONLY <1>4, n \in Nat, StepsInOrder, Zenon
    <3> QED BY ONLY <3>1, Zenon DEF InOrder
  <2> QED BY ONLY <1>a, <2>1, Zenon
<1> DEFINE Here(k) == FileAt(file, f[1 .. k], g[1 .. k])
           Good == {k \in Nat : k <= n => Here(k)}
<1>7. Here(0)
  <2>1. PICK start : start = SeedStart(vendors, prices, rowids)
    OBVIOUS
  <2>2. start.t = Tables /\ start.last = 0 /\ start.cache = [v \in Vendors |-> 0]
    BY <2>1 DEF SeedStart, Tables
  <2>3. SeedState(start)
    BY <2>2 DEF SeedState, PriceInv
  <2>4. f[1 .. 0] = start /\ g[1 .. 0] = meant
    BY <1>5, <1>6, <2>1
  <2>5. FileAt(file, start, meant)
    BY <2>2, <2>3 DEF FileAt, PriceInv
  <2> QED BY <2>4, <2>5
<1>8. ASSUME NEW k \in Nat, k \in Good PROVE k + 1 \in Good
  <2>1. SUFFICES ASSUME k + 1 <= n PROVE Here(k + 1)
    OBVIOUS
  <2>2. k \in 0 .. n - 1 /\ k + 1 \in DOMAIN file.rows /\ k <= n
    BY <1>2, <2>1
  <2>3. Here(k)
    BY <1>8, <2>2
  <2>4. PICK s, r, m, w : s = f[1 .. k] /\ r = f[1 .. k + 1] /\ m = g[1 .. k] /\ w = g[1 .. k + 1]
    OBVIOUS
  <2>5. PICK row : row = file.rows[k + 1]
    OBVIOUS
  <2>6. row \in FileRow
    BY <1>1, <2>2, <2>5, OneOf
  <2>7. row.vendor \in Vendors /\ row.sku \in Skus /\ row.list \in Int
    BY <2>6 DEF FileRow
  <2>8. w = [m EXCEPT ![<<row.vendor, row.sku>>] = row.list]
    BY <1>6, <2>2, <2>4, <2>5 DEF SayStep
  <2>9. m \in MeantSet /\ w \in MeantSet
    BY <2>3, <2>4, <2>7, <2>8 DEF MeantSet, FileAt
  <2>10. CASE Len(file.layout) < 9
    <3>1. r = s
      BY <1>5, <2>2, <2>4, <2>10 DEF SeedStep
    <3>2. ~ (Len(file.layout) >= 9)
      <4>1. Len(file.layout) \in Int
        <5>1. file.layout \in {Documented, Shipped, Dated}
          BY PriceAssumption
        <5> QED BY <5>1 DEF Documented, Shipped, Dated
      <4> QED BY <2>10, <4>1
    <3> QED BY <2>3, <2>4, <2>9, <2>10, <3>1, <3>2 DEF FileAt
  <2>11. CASE ~ (Len(file.layout) < 9)
    <3>a. Len(file.layout) >= 9
      <4>1. Len(file.layout) \in Int
        <5>1. file.layout \in {Documented, Shipped, Dated}
          BY PriceAssumption
        <5> QED BY <5>1 DEF Documented, Shipped, Dated
      <4> QED BY <2>11, <4>1
    <3>1. r = SeedRow(s, file.layout, row)
      BY <1>5, <2>2, <2>4, <2>5, <2>11 DEF SeedStep
    <3>2. PICK layout : layout = file.layout
      OBVIOUS
    <3>3. /\ row[layout[1]] \in Vendors /\ row[layout[3]] \in Skus
          /\ Amount(row, layout[5]) \in Int /\ Amount(row, layout[8]) \in Int
          /\ layout = Documented => /\ row[layout[1]] = row.vendor
                                    /\ row[layout[3]] = row.sku
                                    /\ Amount(row, layout[5]) = row.list
      BY <2>2, <2>5, <3>a, <3>2, RowRead
    <3>4. PICK v \in Vendors, sku \in Skus, list \in Int :
             v = row[layout[1]] /\ sku = row[layout[3]] /\ list = Amount(row, layout[5])
      BY <3>3
    <3>5. SeedState(s)
      BY <2>3, <2>4 DEF FileAt
    <3>6. r = SeedRow(s, layout, row)
      BY <3>1, <3>2
    <3>7. /\ SeedState(r) /\ (s.lost # {} => r.lost # {})
          /\ \A q \in [Vendors \X Skus -> Int] :
                Agreeing(s.t, q) /\ r.lost = {}
                   => Agreeing(r.t, [q EXCEPT ![<<v, sku>>] = list])
      BY <3>3, <3>4, <3>5, <3>6, RowSeeded
    <3>8. ASSUME ~ guessed, file.layout = Documented, r.lost = {}
          PROVE  Agreeing(r.t, w)
      <4>1. v = row.vendor /\ sku = row.sku /\ list = row.list
        BY <3>2, <3>3, <3>4, <3>8
      <4>2. Agreeing(s.t, m)
        BY <2>3, <2>4, <3>a, <3>7, <3>8 DEF FileAt
      <4>3. Agreeing(r.t, [m EXCEPT ![<<v, sku>>] = list])
        BY <2>9, <3>7, <3>8, <4>2 DEF MeantSet
      <4> QED BY <2>8, <4>1, <4>3
    <3> QED BY <2>4, <2>9, <2>11, <3>7, <3>8 DEF FileAt
  <2> QED BY <2>10, <2>11
<1> HIDE DEF Here
<1>9. n \in Good
  BY <1>7, <1>8, AllNumbers
<1>10. Here(n)
  BY <1>9
<1> QED BY <1>3, <1>4, <1>10 DEF Here

LEMMA NoPrices == PriceInit => PriceInv
<1> SUFFICES ASSUME PriceInit PROVE PriceInv
  OBVIOUS
<1>1. /\ Tables.vendors = [v \in Vendors |-> 0] /\ Tables.prices = {}
      /\ Tables.rowids = [t \in {"vendors", "prices"} |-> 0]
  BY DEF PriceInit, Tables
<1>2. Tables \in TableRec
  BY DEF PriceInit, Tables, TableRec
<1>3. TypedTables(Tables)
  BY <1>1, <1>2 DEF TypedTables
<1>4. meant \in MeantSet /\ guessed = FALSE
  BY DEF PriceInit, MeantSet
<1>5. Agreeing(Tables, meant)
  BY <1>1 DEF Agreeing, PriceInit
<1> QED BY <1>3, <1>4, <1>5 DEF PriceInv

LEMMA SeedingStep ==
    ASSUME PriceInv, NEW file \in Files, SeedFromCSV(file)
    PROVE  PriceInv'
<1>1. PICK s, m : s = SeedRows(file) /\ m = SaidBy(file)
  OBVIOUS
<1>2. /\ SeedState(s) /\ m \in MeantSet
      /\ Len(file.layout) < 9 => s.t = Tables
      /\ /\ ~ guessed /\ Len(file.layout) >= 9 /\ file.layout = Documented /\ s.lost = {}
            => Agreeing(s.t, m)
  BY <1>1, FileSeeded DEF FileAt
<1>3. /\ vendors' = s.t.vendors /\ prices' = s.t.prices /\ rowids' = s.t.rowids
      /\ meant' = IF Len(file.layout) < 9 THEN meant ELSE m
      /\ guessed' = (\/ guessed \/ s.lost # {}
                     \/ Len(file.layout) >= 9 /\ file.layout # Documented)
  BY <1>1 DEF SeedFromCSV
<1>4. s.t = [vendors |-> s.t.vendors, prices |-> s.t.prices, rowids |-> s.t.rowids]
  BY <1>2 DEF SeedState, TypedTables, TableRec
<1>5. Tables' = s.t
  BY <1>3, <1>4 DEF Tables
<1>6. TypedTables(Tables')
  BY <1>2, <1>5 DEF SeedState
<1>7. meant' \in MeantSet
  BY <1>2, <1>3 DEF PriceInv
<1>8. guessed' \in BOOLEAN
  BY <1>3
<1>9. ASSUME ~ guessed' PROVE Agreeing(Tables', meant')
  <2>1. ~ guessed /\ s.lost = {} /\ (Len(file.layout) >= 9 => file.layout = Documented)
    BY <1>3, <1>9
  <2>2. CASE Len(file.layout) < 9
    BY <1>2, <1>3, <1>5, <2>1, <2>2 DEF PriceInv
  <2>3. CASE ~ (Len(file.layout) < 9)
    <3>1. Len(file.layout) >= 9
      <4>1. Len(file.layout) \in Int
        <5>1. file.layout \in {Documented, Shipped, Dated}
          BY PriceAssumption
        <5> QED BY <5>1 DEF Documented, Shipped, Dated
      <4> QED BY <2>3, <4>1
    <3> QED BY <1>2, <1>3, <1>5, <2>1, <2>3, <3>1
  <2> QED BY <2>2, <2>3
<1> QED BY <1>6, <1>7, <1>8, <1>9 DEF PriceInv, MeantSet, TypedTables, Agreeing, TableRec, PriceRow

LEMMA PricesStay == ASSUME PriceInv, UNCHANGED priceVars PROVE PriceInv'
BY DEF PriceInv, priceVars, Tables, TypedTables, Agreeing, MeantSet, TableRec, PriceRow

LEMMA AddVendorStep ==
    ASSUME PriceInv, NEW v \in Vendors, AddVendor(v)
    PROVE  /\ PriceInv' /\ vendors'[v] # 0
           /\ \A w \in Vendors : vendors[w] # 0 => vendors'[w] = vendors[w]
<1>1. PICK t, u : t = Tables /\ u = InsertVendor(t, v)
  OBVIOUS
<1>2. /\ vendors' = u.vendors /\ rowids' = u.rowids
      /\ prices' = prices /\ meant' = meant /\ guessed' = guessed
  BY <1>1 DEF AddVendor
<1>3. t.vendors = vendors /\ t.prices = prices /\ TypedTables(t)
  BY <1>1 DEF Tables, PriceInv
<1>4. /\ TypedTables(u) /\ u.vendors[v] # 0 /\ u.prices = t.prices
      /\ \A w \in Vendors : t.vendors[w] # 0 => u.vendors[w] = t.vendors[w]
      /\ \A m : Agreeing(t, m) => Agreeing(u, m)
  BY <1>1, <1>3, VendorInserted
<1>5. Tables' = u
  BY <1>2, <1>3, <1>4 DEF Tables, TypedTables, TableRec
<1>6. TypedTables(Tables')
  BY <1>4, <1>5
<1>7. ~ guessed' => Agreeing(Tables', meant')
  BY <1>1, <1>2, <1>4, <1>5 DEF PriceInv
<1>8. meant' \in MeantSet /\ guessed' \in BOOLEAN
  BY <1>2 DEF PriceInv
<1>9. PriceInv'
  BY <1>6, <1>7, <1>8 DEF PriceInv, MeantSet, TypedTables, Agreeing, TableRec, PriceRow
<1> QED BY <1>2, <1>3, <1>4, <1>9

LEMMA ImportPriceStep ==
    ASSUME PriceInv, NEW rec \in ImportRecord, NEW id, id = vendors[rec.vendor], id # 0,
           ImportPrice(id, rec)
    PROVE  PriceInv'
<1>1. PICK t, u : t = Tables /\ u = UpsertPrice(t, id, rec.sku, rec.list, 0)
  OBVIOUS
<1>2. PICK v \in Vendors, sku \in Skus, list \in Int :
         v = rec.vendor /\ sku = rec.sku /\ list = rec.list
  BY DEF ImportRecord
<1>3. /\ vendors' = vendors /\ prices' = u.prices /\ rowids' = u.rowids
      /\ meant' = [meant EXCEPT ![<<v, sku>>] = list] /\ guessed' = guessed
  BY <1>1, <1>2 DEF ImportPrice
<1>4. t.vendors = vendors /\ TypedTables(t) /\ meant \in [Vendors \X Skus -> Int]
  BY <1>1 DEF Tables, PriceInv, MeantSet
<1>5. id \in Nat
  BY <1>2, <1>4 DEF TypedTables, TableRec
<1>a. PICK typical \in Int : typical = 0
  OBVIOUS
<1>6. u = UpsertPrice(t, id, sku, list, typical)
  BY <1>1, <1>2, <1>a
<1>7. /\ TypedTables(u) /\ u.vendors = t.vendors
      /\ \A m \in [Vendors \X Skus -> Int] :
            id = t.vendors[v] /\ id # 0 /\ Agreeing(t, m)
               => Agreeing(u, [m EXCEPT ![<<v, sku>>] = list])
  <2>1. TypedTables(t) /\ id \in Nat /\ sku \in Skus /\ list \in Int /\ typical \in Int
    BY <1>2, <1>a, <1>4, <1>5
  <2>2. TypedTables(u) /\ u.vendors = t.vendors
    BY <2>1, <1>6, PriceUpserted
  <2> QED BY <2>1, <2>2, <1>2, <1>6, PriceUpserted
<1>8. Tables' = u
  BY <1>3, <1>4, <1>7 DEF Tables, TypedTables, TableRec
<1>9. ~ guessed' => Agreeing(Tables', meant')
  BY <1>1, <1>2, <1>3, <1>4, <1>7, <1>8 DEF PriceInv
<1>10. meant' \in MeantSet /\ guessed' \in BOOLEAN
  BY <1>3, <1>4 DEF PriceInv, MeantSet
<1> QED BY <1>7, <1>8, <1>9, <1>10 DEF PriceInv, MeantSet, TypedTables, Agreeing, TableRec, PriceRow

LEMMA PricesTyped == PriceInv => PriceTypeOK
<1> SUFFICES ASSUME PriceInv PROVE PriceTypeOK
  OBVIOUS
<1>1. Tables \in TableRec
  BY DEF PriceInv, TypedTables
<1>2. Tables.vendors = vendors /\ Tables.prices = prices /\ Tables.rowids = rowids
  BY DEF Tables
<1> QED BY <1>1, <1>2 DEF PriceTypeOK, PriceInv, TableRec, MeantSet

\* What a vendor's id finds is the price meant.
LEMMA FoundAsMeant ==
    ASSUME PriceInv, ~ guessed, NEW v \in Vendors, NEW sku \in Skus
    PROVE  /\ \A p \in PricesOf(Tables, vendors[v], sku) : p.list = meant[<<v, sku>>]
           /\ Quoted(v, sku) = meant[<<v, sku>>]
<1>1. Agreeing(Tables, meant) /\ Tables.vendors = vendors /\ Tables.prices = prices
  BY DEF PriceInv, Tables
<1>2. PICK found : found = PricesOf(Tables, vendors[v], sku)
  OBVIOUS
<1>3. found = {p \in prices : p.vendor = vendors[v] /\ p.sku = sku}
  BY <1>1, <1>2 DEF PricesOf
<1>4. \A p \in found : p.list = meant[<<v, sku>>]
  BY <1>1, <1>3 DEF Agreeing
<1>5. CASE vendors[v] = 0 \/ found = {}
  <2>1. \A p \in prices : ~ (p.vendor = vendors[v] /\ p.sku = sku)
    BY <1>1, <1>3, <1>5 DEF Agreeing
  <2>2. meant[<<v, sku>>] = 0
    BY <1>1, <2>1 DEF Agreeing
  <2>3. Quoted(v, sku) = 0
    BY <1>2, <1>5 DEF Quoted
  <2> QED BY <1>2, <1>4, <2>2, <2>3
<1>6. CASE vendors[v] # 0 /\ found # {}
  <2>1. Quoted(v, sku) = (CHOOSE p \in found : TRUE).list
    BY <1>2, <1>6 DEF Quoted
  <2>2. (CHOOSE p \in found : TRUE) \in found
    BY <1>6
  <2> QED BY <1>2, <1>4, <2>1, <2>2
<1> QED BY <1>5, <1>6

-----------------------------------------------------------------------------
(* A server's calls.                                                       *)

Stops == {"down", "open", "seed", "core", "snapshots", "services", "operators", "build",
          "serving"}
Places == {"idle", "lookup", "addVendor", "lookAgain", "upsert", "fetch", "ping",
           "select", "close", "panic"}
Answers == {"none", "ok", "error", "not found", "healthy", "degraded"}
OpNames == Ops \cup {"none"}
Query == [vendor : Vendors, sku : Skus]

CallRec == [op : OpNames, at : Places, todo : Seq(ImportRecord) \cup Seq(Query), id : Nat,
            done : Nat, skipped : Nat, answer : Answers, marks : SUBSET {"late", "wrong"}]

\* Where a call stands and what it has in hand.
Standing(k) ==
    /\ k.op = "import" => k.todo \in Seq(ImportRecord)
    /\ k.op = "query" => k.todo \in Seq(Query) /\ Len(k.todo) = 1
    /\ k.at = "lookup" => k.op \in {"query", "import"}
    /\ k.at \in {"addVendor", "lookAgain", "upsert"} => k.op = "import" /\ k.todo # <<>>
    /\ k.at = "fetch" => k.op = "query"
    /\ k.at \in {"ping", "select"} => k.op = "health"
    /\ k.at = "close" => k.op = "shutdown"
    /\ k.at = "panic" => k.op \in {"docs", "config"}

\* What a call holds of the database: ids of vendors on record.
Holding(k) ==
    /\ k.at = "lookAgain" => vendors[k.todo[1].vendor] # 0
    /\ k.at \in {"upsert", "fetch"} => k.id = vendors[k.todo[1].vendor] /\ k.id # 0

\* What a call has answered so far, or may still answer.
Honest(k) ==
    /\ "wrong" \notin k.marks
    /\ "late" \in k.marks => /\ ~ dbOpen /\ k.done = 0
                             /\ \/ k.op \in {"shutdown", "import"}
                                \/ k.answer \in {"none", "error", "degraded"}
    /\ k.answer = "degraded" => ~ dbOpen
    /\ k.skipped > 0 => ~ dbOpen

CallsInv ==
    /\ call \in [Callers -> CallRec]
    /\ \A c \in Callers : Standing(call[c]) /\ Holding(call[c]) /\ Honest(call[c])
    /\ pc # "serving" => \A c \in Callers : call[c] = Idle

MainInv ==
    /\ pc \in Stops /\ seedFile \in Files \cup {NoFile}
    /\ dbOpen \in BOOLEAN /\ told \in BOOLEAN
    /\ nilStores \subseteq Unchecked /\ snapshots \in Nat
    /\ starts \in 0 .. MaxStarts /\ calls \in 0 .. MaxCalls
    /\ dbOpen => pc # "down"
    /\ told => ~ dbOpen /\ pc \in {"serving", "down"}

LifeInv == PriceInv /\ MainInv /\ CallsInv

LEMMA IdleStands == Idle \in CallRec /\ Standing(Idle) /\ Holding(Idle) /\ Honest(Idle)
BY DEF Idle, CallRec, Standing, Holding, Honest, OpNames, Places, Answers

LEMMA AllIdle == call = [c \in Callers |-> Idle] => CallsInv
BY IdleStands DEF CallsInv

LEMMA LifeInitInv == LifeInit => LifeInv
<1> SUFFICES ASSUME LifeInit PROVE LifeInv
  OBVIOUS
<1>1. PriceInv /\ CallsInv
  BY NoPrices, AllIdle DEF LifeInit
<1>2. MainInv
  <2>1. pc = "down" /\ pc \in Stops
    BY DEF LifeInit, Stops
  <2>2. /\ seedFile \in Files \cup {NoFile} /\ nilStores \subseteq Unchecked /\ snapshots \in Nat
        /\ starts \in 0 .. MaxStarts /\ calls \in 0 .. MaxCalls
    BY LifeAssumption DEF LifeInit
  <2>3. dbOpen = FALSE /\ told = FALSE
    BY DEF LifeInit
  <2> QED BY <2>1, <2>2, <2>3 DEF MainInv
<1> QED BY <1>1, <1>2 DEF LifeInv

\* The first of the records still to be imported.
LEMMA FirstRecord ==
    ASSUME NEW k, Standing(k), k.op = "import", k.todo # <<>>
    PROVE  k.todo[1] \in ImportRecord /\ k.todo[1].vendor \in Vendors
           /\ Tail(k.todo) \in Seq(ImportRecord)
<1>1. k.todo \in Seq(ImportRecord)
  BY DEF Standing
<1>2. k.todo[1] \in ImportRecord /\ Tail(k.todo) \in Seq(ImportRecord)
  BY <1>1
<1> QED BY <1>2 DEF ImportRecord

LEMMA QueriedVendor ==
    ASSUME NEW k, Standing(k), k.op = "query"
    PROVE  k.todo[1].vendor \in Vendors /\ k.todo[1].sku \in Skus
<1>1. k.todo \in Seq(Query) /\ Len(k.todo) = 1
  BY DEF Standing
<1>2. k.todo[1] \in Query
  BY <1>1
<1> QED BY <1>2 DEF Query

\* Vendors keep their ids, and the database stays as it is or is closed.
Goes == /\ pc = "serving" /\ pc' = pc /\ (dbOpen' => dbOpen)
        /\ \A v \in Vendors : vendors[v] # 0 => vendors'[v] = vendors[v]

LEMMA CallStands ==
    ASSUME Goes, NEW k, Standing(k), Holding(k), Honest(k)
    PROVE  (Standing(k) /\ Holding(k) /\ Honest(k))'
<1>1. Standing(k)'
  BY DEF Standing
<1>2. Honest(k)'
  BY DEF Goes, Honest
<1>3. ASSUME k.at \in {"lookAgain", "upsert"}
      PROVE  k.todo[1].vendor \in Vendors
  BY <1>3, FirstRecord DEF Standing
<1>4. ASSUME k.at = "fetch"
      PROVE  k.todo[1].vendor \in Vendors
  BY <1>4, QueriedVendor DEF Standing
<1>5. Holding(k)'
  BY <1>3, <1>4 DEF Goes, Holding
<1> QED BY <1>1, <1>2, <1>5

LEMMA CallsMove ==
    ASSUME CallsInv, Goes, NEW c \in Callers, NEW new, new \in CallRec,
           (Standing(new) /\ Holding(new) /\ Honest(new))', call' = [call EXCEPT ![c] = new]
    PROVE  CallsInv'
<1>1. call' \in [Callers -> CallRec]
  BY DEF CallsInv
<1>2. ASSUME NEW o \in Callers
      PROVE  (Standing(call[o]) /\ Holding(call[o]) /\ Honest(call[o]))'
  <2>1. PICK k : k = call[o]
    OBVIOUS
  <2>2. (Standing(k) /\ Holding(k) /\ Honest(k))'
    BY <2>1, CallStands DEF CallsInv
  <2>3. call'[o] = new \/ call'[o] = k
    BY <2>1 DEF CallsInv
  <2> QED BY <2>2, <2>3 DEF Standing, Holding, Honest
<1>3. pc' = "serving"
  BY DEF Goes
<1> QED BY <1>1, <1>2, <1>3 DEF CallsInv

-----------------------------------------------------------------------------
(* From start to serving, and the end.                                     *)

LEMMA StopNames ==
    /\ "down" \in Stops /\ "open" \in Stops /\ "seed" \in Stops /\ "core" \in Stops
    /\ "snapshots" \in Stops /\ "services" \in Stops /\ "operators" \in Stops
    /\ "build" \in Stops /\ "serving" \in Stops
BY DEF Stops

LEMMA Waiting == ASSUME CallsInv, pc # "serving" PROVE call = [c \in Callers |-> Idle]
BY DEF CallsInv

LEMMA NoCalls ==
    ASSUME call' = [c \in Callers |-> Idle]
    PROVE  CallsInv'
<1>1. (call = [c \in Callers |-> Idle] => CallsInv)'
  BY AllIdle, PTL
<1> QED BY <1>1

\* A step of main before it serves that moves on with the database as it is.
LEMMA MainMoves ==
    ASSUME LifeInv, PriceInv', pc \notin {"serving", "down"}, pc' \in Stops, pc' # "down",
           UNCHANGED <<seedFile, dbOpen, call, told, starts, calls>>,
           nilStores' \subseteq Unchecked, snapshots' \in Nat
    PROVE  LifeInv'
<1>1. ~ told
  BY DEF LifeInv, MainInv
<1>2. CallsInv'
  BY Waiting, NoCalls DEF LifeInv
<1>3. MainInv'
  BY <1>1 DEF LifeInv, MainInv
<1> QED BY <1>2, <1>3 DEF LifeInv

LEMMA DieStep == ASSUME LifeInv, Die PROVE LifeInv'
<1>1. PriceInv'
  BY PricesStay DEF LifeInv, Die
<1>2. CallsInv'
  BY NoCalls DEF Die
<1>3. /\ pc' = "down" /\ pc' \in Stops /\ dbOpen' = FALSE
      /\ UNCHANGED <<seedFile, nilStores, snapshots, told, starts, calls>>
  BY StopNames DEF Die
<1>4. MainInv'
  BY <1>3 DEF LifeInv, MainInv
<1> QED BY <1>1, <1>2, <1>4 DEF LifeInv

LEMMA StartStep ==
    ASSUME LifeInv, NEW file \in Files \cup {NoFile}, Start(file) PROVE LifeInv'
<1>1. PriceInv'
  BY PricesStay DEF LifeInv, Start
<1>2. CallsInv'
  BY Waiting, NoCalls DEF LifeInv, Start
<1>3. /\ pc' = "open" /\ pc' \in Stops /\ seedFile' = file /\ starts' = starts + 1
      /\ starts < MaxStarts /\ nilStores' = {} /\ told' = FALSE
      /\ UNCHANGED <<dbOpen, snapshots, calls>>
  BY StopNames DEF Start
<1>4. starts' \in 0 .. MaxStarts
  BY <1>3, LifeAssumption DEF LifeInv, MainInv
<1>5. MainInv'
  BY <1>3, <1>4 DEF LifeInv, MainInv
<1> QED BY <1>1, <1>2, <1>5 DEF LifeInv

LEMMA OpenDatabaseStep == ASSUME LifeInv, OpenDatabase PROVE LifeInv'
<1>1. CASE Die
  BY <1>1, DieStep
<1>2. CASE ~ Die
  <2>1. /\ pc = "open" /\ pc' = "seed" /\ pc' \in Stops /\ dbOpen' = TRUE
        /\ UNCHANGED <<seedFile, nilStores, snapshots, told, starts, calls>>
        /\ UNCHANGED priceVars /\ UNCHANGED call
    BY <1>2, StopNames DEF OpenDatabase
  <2>2. PriceInv'
    BY <2>1, PricesStay DEF LifeInv
  <2>3. CallsInv'
    BY <2>1, Waiting, NoCalls DEF LifeInv
  <2>4. ~ told
    BY <2>1 DEF LifeInv, MainInv
  <2>5. MainInv'
    BY <2>1, <2>4 DEF LifeInv, MainInv
  <2> QED BY <2>2, <2>3, <2>5 DEF LifeInv
<1> QED BY <1>1, <1>2

LEMMA SeedingMain == ASSUME LifeInv, Seed PROVE LifeInv'
<1>1. CASE Die
  BY <1>1, DieStep
<1>2. CASE ~ Die
  <2>1. /\ pc = "seed" /\ pc' = "core" /\ pc' \in Stops
        /\ IF seedFile = NoFile THEN UNCHANGED priceVars ELSE SeedFromCSV(seedFile)
        /\ UNCHANGED <<seedFile, dbOpen, nilStores, snapshots, call, told, starts, calls>>
    BY <1>2, StopNames DEF Seed
  <2>2. PriceInv'
    BY <2>1, PricesStay, SeedingStep DEF LifeInv, MainInv
  <2> QED BY <2>1, <2>2, MainMoves DEF LifeInv, MainInv
<1> QED BY <1>1, <1>2

LEMMA OpenStoresStep ==
    ASSUME LifeInv, NEW from, NEW to, OpenStores(from, to),
           from \notin {"serving", "down"}, to \in Stops, to # "down"
    PROVE  LifeInv'
<1>1. CASE Die
  BY <1>1, DieStep
<1>2. CASE ~ Die
  <2>1. /\ pc = from /\ pc' = to /\ UNCHANGED priceVars
        /\ UNCHANGED <<seedFile, dbOpen, nilStores, snapshots, call, told, starts, calls>>
    BY <1>2 DEF OpenStores
  <2>2. PriceInv'
    BY <2>1, PricesStay DEF LifeInv
  <2> QED BY <2>1, <2>2, MainMoves DEF LifeInv, MainInv
<1> QED BY <1>1, <1>2

LEMMA SeedSnapshotsStep == ASSUME LifeInv, SeedSnapshots PROVE LifeInv'
<1>1. /\ pc = "snapshots" /\ pc' = "services" /\ pc' \in Stops /\ UNCHANGED priceVars
      /\ UNCHANGED <<seedFile, dbOpen, nilStores, call, told, starts, calls>>
  BY StopNames DEF SeedSnapshots
<1>2. PICK n \in {0, IF seedFile = NoFile THEN 0 ELSE SnapshotsOf(seedFile)} :
         snapshots' = snapshots + n
  BY DEF SeedSnapshots
<1>3. n \in Nat
  <2>1. ASSUME seedFile # NoFile PROVE SnapshotsOf(seedFile) \in Nat
    <3>1. seedFile \in Files
      BY <2>1 DEF LifeInv, MainInv
    <3>2. seedFile.rows \in Seq(FileRow)
      BY <3>1, PriceAssumption
    <3>3. Len(seedFile.rows) \in Nat
      BY <3>2
    <3> QED BY <3>3 DEF SnapshotsOf
  <2> QED BY <1>2, <2>1
<1>4. snapshots' \in Nat
  BY <1>2, <1>3 DEF LifeInv, MainInv
<1>5. PriceInv'
  BY <1>1, PricesStay DEF LifeInv
<1> QED BY <1>1, <1>4, <1>5, MainMoves DEF LifeInv, MainInv

LEMMA OpenOperatorStoresStep == ASSUME LifeInv, OpenOperatorStores PROVE LifeInv'
<1>1. CASE Die
  BY <1>1, DieStep
<1>2. CASE ~ Die
  <2>1. /\ pc = "operators" /\ pc' = "build" /\ pc' \in Stops /\ UNCHANGED priceVars
        /\ nilStores' \subseteq Unchecked
        /\ UNCHANGED <<seedFile, dbOpen, snapshots, call, told, starts, calls>>
    BY <1>2, StopNames DEF OpenOperatorStores
  <2>2. PriceInv'
    BY <2>1, PricesStay DEF LifeInv
  <2> QED BY <2>1, <2>2, MainMoves DEF LifeInv, MainInv
<1> QED BY <1>1, <1>2

LEMMA BuildStep == ASSUME LifeInv, Build PROVE LifeInv'
<1>1. CASE Die
  BY <1>1, DieStep
<1>2. CASE ~ Die
  <2>1. /\ pc = "build" /\ pc' = "serving" /\ pc' \in Stops /\ UNCHANGED priceVars
        /\ UNCHANGED <<seedFile, dbOpen, nilStores, snapshots, call, told, starts, calls>>
    BY <1>2, StopNames DEF Build
  <2>2. PriceInv'
    BY <2>1, PricesStay DEF LifeInv
  <2> QED BY <2>1, <2>2, MainMoves DEF LifeInv, MainInv
<1> QED BY <1>1, <1>2

-----------------------------------------------------------------------------
(* Calls begin, go on and are answered.                                    *)

Fits(k) == k \in CallRec /\ Standing(k) /\ Holding(k) /\ Honest(k)

LEMMA CallFits == ASSUME LifeInv, NEW c \in Callers PROVE Fits(call[c])
BY DEF LifeInv, CallsInv, Fits

\* Only a server that serves has calls under way.
LEMMA BusyServing == ASSUME LifeInv, NEW c \in Callers, call[c].at # "idle" PROVE pc = "serving"
BY DEF LifeInv, CallsInv, Idle

\* A call goes on without anything else.
LEMMA Altered ==
    ASSUME LifeInv, NEW c \in Callers, call[c].at # "idle", NEW new, Fits(new),
           Alter(c, new), UNCHANGED priceVars
    PROVE  LifeInv'
<1>1. /\ call' = [call EXCEPT ![c] = new]
      /\ UNCHANGED <<pc, seedFile, dbOpen, nilStores, snapshots, told, starts, calls>>
  BY DEF Alter
<1>2. PriceInv'
  BY PricesStay DEF LifeInv
<1>3. Goes
  BY <1>1, BusyServing DEF Goes, priceVars
<1>4. (Standing(new) /\ Holding(new) /\ Honest(new))'
  BY <1>3, CallStands DEF Fits
<1>5. CallsInv'
  BY <1>1, <1>3, <1>4, CallsMove DEF LifeInv, Fits
<1>6. MainInv'
  BY <1>1 DEF LifeInv, MainInv
<1> QED BY <1>2, <1>5, <1>6 DEF LifeInv

\* An answer that the state of the database bears out.
LEMMA AnswerFits ==
    ASSUME NEW k, Fits(k), NEW a \in Answers, NEW new,
           new = [k EXCEPT !.at = "idle", !.answer = a],
           a = "degraded" => ~ dbOpen,
           "late" \in k.marks => k.op \in {"shutdown", "import"} \/ a \in {"error", "degraded"}
    PROVE  Fits(new)
<1>1. k \in CallRec /\ "idle" \in Places
  BY DEF Fits, Places
<1>2. new \in CallRec
  BY <1>1 DEF CallRec
<1>3. /\ new.op = k.op /\ new.at = "idle" /\ new.todo = k.todo /\ new.done = k.done
      /\ new.skipped = k.skipped /\ new.marks = k.marks /\ new.answer = a
  BY <1>1 DEF CallRec
<1>4. Standing(new) /\ Holding(new)
  BY <1>3 DEF Fits, Standing, Holding
<1>5. Honest(new)
  BY <1>3 DEF Fits, Honest
<1> QED BY <1>2, <1>4, <1>5 DEF Fits

LEMMA AnswerNames ==
    /\ "ok" \in Answers /\ "error" \in Answers /\ "not found" \in Answers
    /\ "healthy" \in Answers /\ "degraded" \in Answers /\ "none" \in Answers
BY DEF Answers

LEMMA PlaceNames ==
    /\ "idle" \in Places /\ "lookup" \in Places /\ "addVendor" \in Places
    /\ "lookAgain" \in Places /\ "upsert" \in Places /\ "fetch" \in Places
    /\ "ping" \in Places /\ "select" \in Places /\ "close" \in Places /\ "panic" \in Places
BY DEF Places

LEMMA Answering ==
    ASSUME LifeInv, NEW c \in Callers, call[c].at # "idle", NEW a \in Answers, Answer(c, a),
           a = "degraded" => ~ dbOpen,
           "late" \in call[c].marks =>
               call[c].op \in {"shutdown", "import"} \/ a \in {"error", "degraded"},
           UNCHANGED priceVars
    PROVE  LifeInv'
<1>1. PICK new : new = [call[c] EXCEPT !.at = "idle", !.answer = a]
  OBVIOUS
<1>2. Fits(new)
  <2>1. PICK k : k = call[c]
    OBVIOUS
  <2>2. Fits(k) /\ new = [k EXCEPT !.at = "idle", !.answer = a]
    BY <1>1, <2>1, CallFits
  <2> QED BY <2>1, <2>2, AnswerFits
<1>3. Alter(c, new)
  BY <1>1 DEF Answer
<1> QED BY <1>2, <1>3, Altered

LEMMA QueryLookupStep ==
    ASSUME LifeInv, NEW c \in Callers, QueryLookup(c) PROVE LifeInv'
<1>1. PICK k : k = call[c]
  OBVIOUS
<1>2. Fits(k) /\ k.op = "query" /\ k.at = "lookup" /\ UNCHANGED priceVars
  BY <1>1, CallFits DEF QueryLookup
<1>3. CASE ~ dbOpen
  BY <1>1, <1>2, <1>3, Answering, AnswerNames DEF QueryLookup
<1>4. CASE dbOpen /\ vendors[k.todo[1].vendor] = 0
  <2>1. "late" \notin k.marks
    BY <1>2, <1>4 DEF Fits, Honest
  <2>2. Answer(c, "not found")
    BY <1>1, <1>4 DEF QueryLookup
  <2> QED BY <1>1, <1>2, <2>1, <2>2, Answering, AnswerNames
<1>5. CASE dbOpen /\ vendors[k.todo[1].vendor] # 0
  <2>1. PICK new : new = [k EXCEPT !.at = "fetch", !.id = vendors[k.todo[1].vendor]]
    OBVIOUS
  <2>2. Alter(c, new)
    BY <1>1, <1>5, <2>1 DEF QueryLookup
  <2>3. vendors[k.todo[1].vendor] \in Nat
    <3>1. k.todo[1].vendor \in Vendors
      BY <1>2, QueriedVendor DEF Fits
    <3>2. vendors \in [Vendors -> Nat]
      BY PricesTyped DEF LifeInv, PriceTypeOK
    <3> QED BY <3>1, <3>2
  <2>4. k \in CallRec
    BY <1>2 DEF Fits
  <2>5. new \in CallRec
    BY <2>1, <2>3, <2>4, PlaceNames DEF CallRec
  <2>6. /\ new.op = k.op /\ new.at = "fetch" /\ new.todo = k.todo /\ new.done = k.done
        /\ new.skipped = k.skipped /\ new.marks = k.marks /\ new.answer = k.answer
        /\ new.id = vendors[k.todo[1].vendor]
    BY <2>1, <2>4 DEF CallRec
  <2>7. Standing(new) /\ Holding(new)
    BY <1>2, <1>5, <2>6 DEF Fits, Standing, Holding
  <2>8. Honest(new)
    BY <1>2, <2>6 DEF Fits, Honest
  <2>9. Fits(new)
    BY <2>5, <2>7, <2>8 DEF Fits
  <2> QED BY <1>1, <1>2, <2>2, <2>9, Altered
<1> QED BY <1>3, <1>4, <1>5

LEMMA QueryFetchStep ==
    ASSUME LifeInv, NEW c \in Callers, QueryFetch(c) PROVE LifeInv'
<1>1. PICK k : k = call[c]
  OBVIOUS
<1>2. Fits(k) /\ k.at = "fetch" /\ UNCHANGED priceVars
  BY <1>1, CallFits DEF QueryFetch
<1>3. PICK v, sku : v = k.todo[1].vendor /\ sku = k.todo[1].sku
  OBVIOUS
<1>4. v \in Vendors /\ sku \in Skus /\ k.op = "query" /\ k.id = vendors[v]
  BY <1>2, <1>3, QueriedVendor DEF Fits, Standing, Holding
<1>5. CASE ~ dbOpen
  BY <1>1, <1>2, <1>5, Answering, AnswerNames DEF QueryFetch
<1>6. CASE dbOpen
  <2>1. PICK found : found = PricesOf(Tables, k.id, sku)
    OBVIOUS
  <2>2. "late" \notin k.marks
    BY <1>2, <1>6 DEF Fits, Honest
  <2>3. CASE found = {}
    <3>1. Answer(c, "not found")
      BY <1>1, <1>3, <1>6, <2>1, <2>3 DEF QueryFetch
    <3> QED BY <1>1, <1>2, <2>2, <3>1, Answering, AnswerNames
  <2>4. CASE found # {}
    <3>1. guessed \/ \A p \in found : p.list = meant[<<v, sku>>]
      BY <1>4, <2>1, FoundAsMeant DEF LifeInv
    <3>2. PICK new : new = [k EXCEPT !.at = "idle", !.answer = "ok"]
      OBVIOUS
    <3>3. PICK other : other = [k EXCEPT !.at = "idle", !.answer = "ok",
                                   !.marks = IF guessed \/ \A p \in found :
                                                               p.list = meant[<<v, sku>>]
                                             THEN @ ELSE @ \cup {"wrong"}]
      OBVIOUS
    <3>4. Alter(c, other)
      BY <1>1, <1>3, <1>6, <2>1, <2>4, <3>3 DEF QueryFetch
    <3>5. other = new
      <4>1. other = [k EXCEPT !.at = "idle", !.answer = "ok", !.marks = @]
        BY <3>1, <3>3
      <4>2. k \in CallRec
        BY <1>2 DEF Fits
      <4> QED BY <3>2, <4>1, <4>2 DEF CallRec
    <3>6. Fits(new)
      BY <1>2, <2>2, <3>2, AnswerFits, AnswerNames
    <3> QED BY <1>1, <1>2, <3>4, <3>5, <3>6, Altered
  <2> QED BY <2>3, <2>4
<1> QED BY <1>5, <1>6

\* A record is passed over only while the database is closed.
LEMMA SkipStep ==
    ASSUME LifeInv, NEW c \in Callers, call[c].at \in {"addVendor", "lookAgain", "upsert"},
           ~ dbOpen, Skip(c), UNCHANGED priceVars
    PROVE  LifeInv'
<1>1. PICK k : k = call[c]
  OBVIOUS
<1>2. Fits(k) /\ k.at \in {"addVendor", "lookAgain", "upsert"}
  BY <1>1, CallFits
<1>3. k \in CallRec /\ k.op = "import" /\ k.todo # <<>>
  BY <1>2 DEF Fits, Standing
<1>4. PICK new : new = [k EXCEPT !.at = "lookup", !.todo = Tail(@), !.skipped = @ + 1]
  OBVIOUS
<1>5. Tail(k.todo) \in Seq(ImportRecord)
  BY <1>2, <1>3, FirstRecord DEF Fits
<1>6. new \in CallRec
  <2>1. PICK n \in Nat : n = k.skipped + 1
    BY <1>3 DEF CallRec
  <2>2. PICK rest \in Seq(ImportRecord) \cup Seq(Query) : rest = Tail(k.todo)
    BY <1>5
  <2>3. new = [k EXCEPT !.at = "lookup", !.todo = rest, !.skipped = n]
    BY <1>4, <2>1, <2>2
  <2> QED BY <1>3, <2>3, PlaceNames DEF CallRec
<1>7. /\ new.op = k.op /\ new.at = "lookup" /\ new.todo = Tail(k.todo) /\ new.done = k.done
      /\ new.marks = k.marks /\ new.answer = k.answer
  BY <1>3, <1>4 DEF CallRec
<1>8. Standing(new) /\ Holding(new) /\ Honest(new)
  BY <1>2, <1>3, <1>5, <1>7 DEF Fits, Standing, Holding, Honest
<1>9. Alter(c, new)
  BY <1>1, <1>4 DEF Skip
<1> QED BY <1>1, <1>2, <1>6, <1>8, <1>9, Altered DEF Fits

LEMMA ImportLookupStep ==
    ASSUME LifeInv, NEW c \in Callers, ImportLookup(c) PROVE LifeInv'
<1>1. PICK k : k = call[c]
  OBVIOUS
<1>2. /\ Fits(k) /\ k.op = "import" /\ k.at \in {"lookup", "lookAgain"} /\ k.todo # <<>>
      /\ UNCHANGED priceVars
  BY <1>1, CallFits DEF ImportLookup
<1>3. k \in CallRec
  BY <1>2 DEF Fits
<1>4. PICK v : v = k.todo[1].vendor
  OBVIOUS
<1>5. v \in Vendors /\ k.todo \in Seq(ImportRecord)
  BY <1>2, <1>4, FirstRecord DEF Fits, Standing
<1>6. vendors[v] \in Nat
  BY <1>5, PricesTyped DEF LifeInv, PriceTypeOK
<1>7. CASE dbOpen /\ vendors[v] # 0
  <2>1. PICK new : new = [k EXCEPT !.at = "upsert", !.id = vendors[v]]
    OBVIOUS
  <2>2. Alter(c, new)
    BY <1>1, <1>4, <1>7, <2>1 DEF ImportLookup
  <2>3. new \in CallRec
    BY <1>3, <1>6, <2>1, PlaceNames DEF CallRec
  <2>4. /\ new.op = k.op /\ new.at = "upsert" /\ new.todo = k.todo /\ new.done = k.done
        /\ new.skipped = k.skipped /\ new.marks = k.marks /\ new.answer = k.answer
        /\ new.id = vendors[v]
    BY <1>3, <2>1 DEF CallRec
  <2>5. Standing(new) /\ Holding(new) /\ Honest(new)
    BY <1>2, <1>4, <1>5, <1>7, <2>4 DEF Fits, Standing, Holding, Honest
  <2> QED BY <1>1, <1>2, <2>2, <2>3, <2>5, Altered DEF Fits
<1>8. CASE ~ (dbOpen /\ vendors[v] # 0) /\ k.at = "lookup"
  <2>1. PICK new : new = [k EXCEPT !.at = "addVendor"]
    OBVIOUS
  <2>2. Alter(c, new)
    BY <1>1, <1>4, <1>8, <2>1 DEF ImportLookup
  <2>3. new \in CallRec
    BY <1>3, <2>1, PlaceNames DEF CallRec
  <2>4. /\ new.op = k.op /\ new.at = "addVendor" /\ new.todo = k.todo /\ new.done = k.done
        /\ new.skipped = k.skipped /\ new.marks = k.marks /\ new.answer = k.answer
    BY <1>3, <2>1 DEF CallRec
  <2>5. Standing(new) /\ Holding(new) /\ Honest(new)
    BY <1>2, <1>5, <2>4 DEF Fits, Standing, Holding, Honest
  <2> QED BY <1>1, <1>2, <2>2, <2>3, <2>5, Altered DEF Fits
<1>9. CASE ~ (dbOpen /\ vendors[v] # 0) /\ k.at # "lookup"
  <2>1. k.at = "lookAgain" /\ Skip(c)
    BY <1>1, <1>2, <1>4, <1>9 DEF ImportLookup
  <2>2. vendors[v] # 0
    BY <1>2, <1>4, <2>1 DEF Fits, Holding
  <2> QED BY <1>1, <1>2, <1>9, <2>1, <2>2, SkipStep
<1> QED BY <1>7, <1>8, <1>9

LEMMA ImportVendorStep ==
    ASSUME LifeInv, NEW c \in Callers, ImportVendor(c) PROVE LifeInv'
<1>1. PICK k : k = call[c]
  OBVIOUS
<1>2. Fits(k) /\ k.at = "addVendor"
  BY <1>1, CallFits DEF ImportVendor
<1>3. k \in CallRec /\ k.op = "import" /\ k.todo # <<>>
  BY <1>2 DEF Fits, Standing
<1>4. CASE ~ dbOpen
  <2>1. Skip(c) /\ UNCHANGED priceVars
    BY <1>4 DEF ImportVendor
  <2> QED BY <1>1, <1>2, <1>4, <2>1, SkipStep
<1>5. CASE dbOpen
  <2>1. PICK v : v = k.todo[1].vendor
    OBVIOUS
  <2>2. v \in Vendors /\ k.todo \in Seq(ImportRecord)
    BY <1>2, <1>3, <2>1, FirstRecord DEF Fits, Standing
  <2>3. PICK new : new = [k EXCEPT !.at = "lookAgain"]
    OBVIOUS
  <2>4. AddVendor(v) /\ Alter(c, new)
    BY <1>1, <1>5, <2>1, <2>3 DEF ImportVendor
  <2>5. /\ PriceInv' /\ vendors'[v] # 0
        /\ \A w \in Vendors : vendors[w] # 0 => vendors'[w] = vendors[w]
    BY <2>2, <2>4, AddVendorStep DEF LifeInv
  <2>6. /\ call' = [call EXCEPT ![c] = new]
        /\ UNCHANGED <<pc, seedFile, dbOpen, nilStores, snapshots, told, starts, calls>>
    BY <2>4 DEF Alter
  <2>7. Goes
    BY <1>1, <1>2, <2>5, <2>6, BusyServing DEF Goes
  <2>8. new \in CallRec
    BY <1>3, <2>3, PlaceNames DEF CallRec
  <2>9. /\ new.op = k.op /\ new.at = "lookAgain" /\ new.todo = k.todo /\ new.done = k.done
        /\ new.skipped = k.skipped /\ new.marks = k.marks /\ new.answer = k.answer
    BY <1>3, <2>3 DEF CallRec
  <2>10. Standing(new)'
    BY <1>3, <2>2, <2>9 DEF Standing
  <2>11. Holding(new)'
    BY <2>1, <2>5, <2>9 DEF Holding
  <2>12. Honest(new)'
    BY <1>2, <2>6, <2>9 DEF Fits, Honest
  <2>13. CallsInv'
    BY <2>6, <2>7, <2>8, <2>10, <2>11, <2>12, CallsMove DEF LifeInv
  <2>14. MainInv'
    BY <2>6 DEF LifeInv, MainInv
  <2> QED BY <2>5, <2>13, <2>14 DEF LifeInv
<1> QED BY <1>4, <1>5

LEMMA ImportUpsertStep ==
    ASSUME LifeInv, NEW c \in Callers, ImportUpsert(c) PROVE LifeInv'
<1>1. PICK k : k = call[c]
  OBVIOUS
<1>2. Fits(k) /\ k.at = "upsert"
  BY <1>1, CallFits DEF ImportUpsert
<1>3. k \in CallRec /\ k.op = "import" /\ k.todo # <<>>
  BY <1>2 DEF Fits, Standing
<1>4. CASE ~ dbOpen
  <2>1. Skip(c) /\ UNCHANGED priceVars
    BY <1>4 DEF ImportUpsert
  <2> QED BY <1>1, <1>2, <1>4, <2>1, SkipStep
<1>5. CASE dbOpen
  <2>1. PICK rec : rec = k.todo[1]
    OBVIOUS
  <2>2. rec \in ImportRecord /\ Tail(k.todo) \in Seq(ImportRecord)
    BY <1>2, <1>3, <2>1, FirstRecord DEF Fits
  <2>3. PICK new : new = [k EXCEPT !.at = "lookup", !.todo = Tail(@), !.done = @ + 1]
    OBVIOUS
  <2>4. ImportPrice(k.id, rec) /\ Alter(c, new)
    BY <1>1, <1>5, <2>1, <2>3 DEF ImportUpsert
  <2>5. PriceInv' /\ vendors' = vendors
    <3>1. k.id = vendors[rec.vendor] /\ k.id # 0
      BY <1>2, <2>1 DEF Fits, Holding
    <3>2. PriceInv'
      BY <2>2, <2>4, <3>1, ImportPriceStep DEF LifeInv
    <3> QED BY <2>4, <3>2 DEF ImportPrice
  <2>6. /\ call' = [call EXCEPT ![c] = new]
        /\ UNCHANGED <<pc, seedFile, dbOpen, nilStores, snapshots, told, starts, calls>>
    BY <2>4 DEF Alter
  <2>7. Goes
    BY <1>1, <1>2, <2>5, <2>6, BusyServing DEF Goes
  <2>8. new \in CallRec
    <3>1. PICK n \in Nat : n = k.done + 1
      BY <1>3 DEF CallRec
    <3>2. PICK rest \in Seq(ImportRecord) \cup Seq(Query) : rest = Tail(k.todo)
      BY <2>2
    <3>3. new = [k EXCEPT !.at = "lookup", !.todo = rest, !.done = n]
      BY <2>3, <3>1, <3>2
    <3> QED BY <1>3, <3>3, PlaceNames DEF CallRec
  <2>9. /\ new.op = k.op /\ new.at = "lookup" /\ new.todo = Tail(k.todo)
        /\ new.skipped = k.skipped /\ new.marks = k.marks /\ new.answer = k.answer
    BY <1>3, <2>3 DEF CallRec
  <2>10. "late" \notin k.marks
    BY <1>2, <1>5 DEF Fits, Honest
  <2>11. Standing(new)'
    BY <1>3, <2>2, <2>9 DEF Standing
  <2>12. Holding(new)'
    BY <2>9 DEF Holding
  <2>13. Honest(new)'
    BY <1>2, <2>6, <2>9, <2>10 DEF Fits, Honest
  <2>14. CallsInv'
    BY <2>6, <2>7, <2>8, <2>11, <2>12, <2>13, CallsMove DEF LifeInv
  <2>15. MainInv'
    BY <2>6 DEF LifeInv, MainInv
  <2> QED BY <2>5, <2>14, <2>15 DEF LifeInv
<1> QED BY <1>4, <1>5

LEMMA ImportDoneStep ==
    ASSUME LifeInv, NEW c \in Callers, ImportDone(c) PROVE LifeInv'
BY Answering, AnswerNames DEF ImportDone

LEMMA HealthPingStep ==
    ASSUME LifeInv, NEW c \in Callers, HealthPing(c) PROVE LifeInv'
<1>1. PICK k : k = call[c]
  OBVIOUS
<1>2. Fits(k) /\ k.at = "ping" /\ UNCHANGED priceVars
  BY <1>1, CallFits DEF HealthPing
<1>3. CASE ~ dbOpen
  BY <1>1, <1>2, <1>3, Answering, AnswerNames DEF HealthPing
<1>4. CASE dbOpen
  <2>1. PICK new : new = [k EXCEPT !.at = "select"]
    OBVIOUS
  <2>2. Alter(c, new)
    BY <1>1, <1>4, <2>1 DEF HealthPing
  <2>3. k \in CallRec
    BY <1>2 DEF Fits
  <2>4. new \in CallRec
    BY <2>1, <2>3, PlaceNames DEF CallRec
  <2>5. /\ new.op = k.op /\ new.at = "select" /\ new.todo = k.todo /\ new.done = k.done
        /\ new.skipped = k.skipped /\ new.marks = k.marks /\ new.answer = k.answer
    BY <2>1, <2>3 DEF CallRec
  <2>6. Standing(new) /\ Holding(new) /\ Honest(new)
    BY <1>2, <2>5 DEF Fits, Standing, Holding, Honest
  <2> QED BY <1>1, <1>2, <2>2, <2>4, <2>6, Altered DEF Fits
<1> QED BY <1>3, <1>4

LEMMA HealthSelectStep ==
    ASSUME LifeInv, NEW c \in Callers, HealthSelect(c) PROVE LifeInv'
<1>1. PICK k : k = call[c]
  OBVIOUS
<1>2. Fits(k) /\ k.at = "select" /\ UNCHANGED priceVars
  BY <1>1, CallFits DEF HealthSelect
<1>3. CASE ~ dbOpen
  <2>1. Answer(c, "degraded")
    BY <1>3 DEF HealthSelect
  <2> QED BY <1>1, <1>2, <1>3, <2>1, Answering, AnswerNames
<1>4. CASE dbOpen
  <2>1. Answer(c, "healthy")
    BY <1>4 DEF HealthSelect
  <2>2. "late" \notin k.marks
    BY <1>2, <1>4 DEF Fits, Honest
  <2> QED BY <1>1, <1>2, <2>1, <2>2, Answering, AnswerNames
<1> QED BY <1>3, <1>4

LEMMA PanicStep == ASSUME LifeInv, NEW c \in Callers, Panic(c) PROVE LifeInv'
<1>1. PICK k : k = call[c]
  OBVIOUS
<1>2. Fits(k) /\ k.at = "panic"
  BY <1>1, CallFits DEF Panic
<1>3. CASE k.op = "docs" \/ nilStores # {}
  BY <1>1, <1>3, DieStep DEF Panic
<1>4. CASE ~ (k.op = "docs" \/ nilStores # {}) /\ ~ dbOpen
  <2>1. Answer(c, "error") /\ UNCHANGED priceVars
    BY <1>1, <1>4 DEF Panic
  <2> QED BY <1>1, <1>2, <2>1, Answering, AnswerNames
<1>5. CASE ~ (k.op = "docs" \/ nilStores # {}) /\ dbOpen
  <2>1. Answer(c, "ok") /\ UNCHANGED priceVars
    BY <1>1, <1>5 DEF Panic
  <2>2. "late" \notin k.marks
    BY <1>2, <1>5 DEF Fits, Honest
  <2> QED BY <1>1, <1>2, <2>1, <2>2, Answering, AnswerNames
<1> QED BY <1>3, <1>4, <1>5

LEMMA ShutdownCloseStep ==
    ASSUME LifeInv, NEW c \in Callers, ShutdownClose(c) PROVE LifeInv'
<1>1. PICK k : k = call[c]
  OBVIOUS
<1>2. Fits(k) /\ k.at = "close" /\ k.op = "shutdown" /\ pc = "serving"
  BY <1>1, CallFits, BusyServing DEF ShutdownClose, Fits, Standing
<1>3. PICK new : new = [k EXCEPT !.at = "idle", !.answer = "ok"]
  OBVIOUS
<1>4. Fits(new)
  BY <1>2, <1>3, AnswerFits, AnswerNames
<1>5. call' = [call EXCEPT ![c] = new]
  <2>1. call' = [call EXCEPT ![c].at = "idle", ![c].answer = "ok"]
    BY DEF ShutdownClose
  <2> QED BY <1>1, <1>3, <2>1 DEF LifeInv, CallsInv
<1>6. /\ dbOpen' = FALSE /\ told' = TRUE /\ UNCHANGED priceVars
      /\ UNCHANGED <<pc, seedFile, nilStores, snapshots, starts, calls>>
  BY DEF ShutdownClose
<1>7. PriceInv'
  BY <1>6, PricesStay DEF LifeInv
<1>8. Goes
  BY <1>2, <1>6 DEF Goes, priceVars
<1>9. (Standing(new) /\ Holding(new) /\ Honest(new))'
  BY <1>4, <1>8, CallStands DEF Fits
<1>10. CallsInv'
  BY <1>4, <1>5, <1>8, <1>9, CallsMove DEF LifeInv, Fits
<1>11. MainInv'
  BY <1>2, <1>6 DEF LifeInv, MainInv
<1> QED BY <1>7, <1>10, <1>11 DEF LifeInv

\* What an import is given is parsed into records.
LEMMA ParsedRecords ==
    ASSUME NEW recs \in Imports
    PROVE  Parsed(recs) \in Seq(ImportRecord)
<1>1. recs \in Seq(ImportRecord)
  BY LifeAssumption
<1>2. PICK n \in Nat : DOMAIN recs = 1 .. n
  BY <1>1
<1>3. PICK f : Steps(f, "parse", recs, <<>>, n) /\ Parsed(recs) = f[1 .. n]
  BY <1>2, ParsedSteps
<1>4. \A x, k : Step("parse", recs, x, k) = ParseStep(recs, x, k)
  BY DEF Step
<1>5. /\ f[1 .. 0] = <<>>
      /\ \A k \in 0 .. n - 1 : f[1 .. k + 1] = ParseStep(recs, f[1 .. k], k + 1)
  <2>1. /\ f[1 .. 0] = <<>>
        /\ \A k \in 0 .. n - 1 : f[1 .. k + 1] = Step("parse", recs, f[1 .. k], k + 1)
    <3>1. InOrder(f, "parse", recs, <<>>, n)
      BY ONLY <1>3, n \in Nat, StepsInOrder, Zenon
    <3> QED BY ONLY <3>1, Zenon DEF InOrder
  <2> QED BY ONLY <1>4, <2>1, Zenon
<1> DEFINE Good == {k \in Nat : k <= n => f[1 .. k] \in Seq(ImportRecord)}
<1>6. 0 \in Good
  <2>1. PICK none \in Seq(ImportRecord) : none = <<>>
    <3>1. <<>> \in Seq(ImportRecord)
      OBVIOUS
    <3> QED BY Zenon, <3>1
  <2>2. f[1 .. 0] = none
    BY <1>5, <2>1
  <2> QED BY <2>2
<1>7. ASSUME NEW k \in Nat, k \in Good PROVE k + 1 \in Good
  <2>1. SUFFICES ASSUME k + 1 <= n PROVE f[1 .. k + 1] \in Seq(ImportRecord)
    OBVIOUS
  <2>2. k \in 0 .. n - 1 /\ k + 1 \in DOMAIN recs /\ k <= n
    BY <1>2, <2>1
  <2>3. f[1 .. k] \in Seq(ImportRecord)
    BY <1>7, <2>2
  <2>4. recs[k + 1] \in ImportRecord
    BY <1>1, <2>2, OneOf
  <2>5. f[1 .. k + 1] = IF Valid(recs[k + 1]) THEN Append(f[1 .. k], recs[k + 1])
                        ELSE f[1 .. k]
    BY <1>5, <2>2 DEF ParseStep
  <2> QED BY <2>3, <2>4, <2>5
<1>8. n \in Good
  BY <1>6, <1>7, AllNumbers
<1> QED BY <1>3, <1>8

\* A call that begins holds nothing yet; one that begins late finds a closed database.
LEMMA BeginCallStep ==
    ASSUME LifeInv, NEW c \in Callers, NEW op \in OpNames, NEW at \in Places,
           NEW todo \in Seq(ImportRecord) \cup Seq(Query), BeginCall(c, op, todo, at),
           op = "import" => todo \in Seq(ImportRecord),
           op = "query" => todo \in Seq(Query) /\ Len(todo) = 1,
           at = "lookup" => op \in {"query", "import"},
           at = "ping" => op = "health", at = "close" => op = "shutdown",
           at = "panic" => op \in {"docs", "config"},
           at \notin {"addVendor", "lookAgain", "upsert", "fetch", "select"}
    PROVE  LifeInv'
<1>1. PICK marks \in SUBSET {"late", "wrong"} : marks = IF told THEN {"late"} ELSE {}
  OBVIOUS
<1>2. PICK new : new = [Idle EXCEPT !.op = op, !.todo = todo, !.at = at, !.marks = marks]
  OBVIOUS
<1>3. /\ pc = "serving" /\ calls < MaxCalls /\ calls' = calls + 1
      /\ call' = [call EXCEPT ![c] = new] /\ UNCHANGED priceVars
      /\ UNCHANGED <<pc, seedFile, dbOpen, nilStores, snapshots, told, starts>>
  BY <1>1, <1>2 DEF BeginCall
<1>4. new = [op |-> op, at |-> at, todo |-> todo, id |-> 0, done |-> 0, skipped |-> 0,
             answer |-> "none", marks |-> marks]
  BY <1>2 DEF Idle
<1>5. new \in CallRec
  BY <1>4, AnswerNames DEF CallRec
<1>6. Standing(new) /\ Holding(new)
  BY <1>4 DEF Standing, Holding
<1>7. Honest(new)
  <2>1. "wrong" \notin marks /\ ("late" \in marks => ~ dbOpen)
    BY <1>1 DEF LifeInv, MainInv
  <2> QED BY <1>4, <2>1 DEF Honest
<1>8. PriceInv'
  BY <1>3, PricesStay DEF LifeInv
<1>9. Goes
  BY <1>3 DEF Goes, priceVars
<1>10. (Standing(new) /\ Holding(new) /\ Honest(new))'
  BY <1>6, <1>7, <1>9, CallStands
<1>11. CallsInv'
  BY <1>3, <1>5, <1>9, <1>10, CallsMove DEF LifeInv
<1>12. calls' \in 0 .. MaxCalls
  BY <1>3, LifeAssumption DEF LifeInv, MainInv
<1>13. MainInv'
  BY <1>3, <1>12 DEF LifeInv, MainInv
<1> QED BY <1>8, <1>11, <1>13 DEF LifeInv

LEMMA OperationNames ==
    /\ "query" \in OpNames /\ "import" \in OpNames /\ "health" \in OpNames
    /\ "docs" \in OpNames /\ "config" \in OpNames /\ "shutdown" \in OpNames
BY DEF OpNames, Ops

LEMMA BeginAnyStep == ASSUME LifeInv, NEW c \in Callers, BeginAny(c) PROVE LifeInv'
<1>1. ASSUME NEW v \in Vendors, NEW s \in Skus,
             BeginCall(c, "query", <<[vendor |-> v, sku |-> s]>>, "lookup")
      PROVE  LifeInv'
  <2>1. PICK q \in Query : q = [vendor |-> v, sku |-> s]
    BY DEF Query
  <2>2. <<q>> \in Seq(Query) /\ Len(<<q>>) = 1
    OBVIOUS
  <2>3. PICK todo \in Seq(Query) : todo = <<q>> /\ Len(todo) = 1
    BY <2>2
  <2>4. BeginCall(c, "query", todo, "lookup")
    BY <1>1, <2>1, <2>3
  <2> QED BY <2>3, <2>4, BeginCallStep, OperationNames, PlaceNames
<1>2. ASSUME NEW recs \in Imports, BeginCall(c, "import", Parsed(recs), "lookup")
      PROVE  LifeInv'
  <2>1. PICK todo \in Seq(ImportRecord) : todo = Parsed(recs)
    BY ParsedRecords
  <2>2. BeginCall(c, "import", todo, "lookup")
    BY <1>2, <2>1
  <2> QED BY <2>2, BeginCallStep, OperationNames, PlaceNames
<1>3. PICK none \in Seq(Query) : none = <<>>
  <2>1. <<>> \in Seq(Query)
    OBVIOUS
  <2> QED BY Zenon, <2>1
<1>4. ASSUME BeginCall(c, "health", none, "ping") PROVE LifeInv'
  BY <1>4, BeginCallStep, OperationNames, PlaceNames
<1>5. ASSUME BeginCall(c, "docs", none, "panic") PROVE LifeInv'
  BY <1>5, BeginCallStep, OperationNames, PlaceNames
<1>6. ASSUME BeginCall(c, "config", none, "panic") PROVE LifeInv'
  BY <1>6, BeginCallStep, OperationNames, PlaceNames
<1>7. ASSUME BeginCall(c, "shutdown", none, "close") PROVE LifeInv'
  BY <1>7, BeginCallStep, OperationNames, PlaceNames
<1> QED BY Zenon, <1>1, <1>2, <1>3, <1>4, <1>5, <1>6, <1>7 DEF BeginAny

LEMMA StoresOpenStep ==
    ASSUME LifeInv, OpenCoreStores \/ OpenServiceStores PROVE LifeInv'
<1>1. CASE OpenCoreStores
  <2>1. OpenStores("core", "snapshots")
    BY <1>1 DEF OpenCoreStores
  <2> QED BY <2>1, OpenStoresStep, StopNames
<1>2. CASE OpenServiceStores
  <2>1. OpenStores("services", "operators")
    BY <1>2 DEF OpenServiceStores
  <2> QED BY <2>1, OpenStoresStep, StopNames
<1> QED BY <1>1, <1>2

LEMMA LifeStay == ASSUME LifeInv, UNCHANGED lifeVars PROVE LifeInv'
<1>1. UNCHANGED priceVars /\ UNCHANGED call /\ UNCHANGED vendors /\ UNCHANGED dbOpen
      /\ UNCHANGED <<pc, seedFile, nilStores, snapshots, told, starts, calls>>
  BY DEF lifeVars, priceVars
<1>2. PriceInv'
  BY <1>1, PricesStay DEF LifeInv
<1>3. CallsInv'
  BY <1>1 DEF LifeInv, CallsInv, Standing, Holding, Honest
<1>4. MainInv'
  BY <1>1 DEF LifeInv, MainInv
<1> QED BY <1>2, <1>3, <1>4 DEF LifeInv

LEMMA LifeStep == LifeInv /\ [LifeNext]_lifeVars => LifeInv'
<1> SUFFICES ASSUME LifeInv, [LifeNext]_lifeVars PROVE LifeInv'
  OBVIOUS
<1>1. ASSUME NEW file \in Files \cup {NoFile}, Start(file) PROVE LifeInv'
  BY <1>1, StartStep
<1>2. CASE OpenDatabase
  BY <1>2, OpenDatabaseStep
<1>3. CASE Seed
  BY <1>3, SeedingMain
<1>4. CASE OpenCoreStores \/ OpenServiceStores
  BY <1>4, StoresOpenStep
<1>5. CASE SeedSnapshots
  BY <1>5, SeedSnapshotsStep
<1>6. CASE OpenOperatorStores
  BY <1>6, OpenOperatorStoresStep
<1>7. CASE Build
  BY <1>7, BuildStep
<1>8. CASE StdinCloses
  BY <1>8, DieStep DEF StdinCloses
<1>9. ASSUME NEW c \in Callers, BeginAny(c) PROVE LifeInv'
  BY <1>9, BeginAnyStep
<1>10. ASSUME NEW c \in Callers, QueryLookup(c) \/ QueryFetch(c) PROVE LifeInv'
  BY <1>10, QueryLookupStep, QueryFetchStep
<1>11. ASSUME NEW c \in Callers,
              \/ ImportLookup(c) \/ ImportVendor(c) \/ ImportUpsert(c) \/ ImportDone(c)
       PROVE  LifeInv'
  BY <1>11, ImportLookupStep, ImportVendorStep, ImportUpsertStep, ImportDoneStep
<1>12. ASSUME NEW c \in Callers,
              \/ HealthPing(c) \/ HealthSelect(c) \/ ShutdownClose(c) \/ Panic(c)
       PROVE  LifeInv'
  BY <1>12, HealthPingStep, HealthSelectStep, ShutdownCloseStep, PanicStep
<1>13. CASE UNCHANGED lifeVars
  BY <1>13, LifeStay
<1> QED BY Zenon, <1>1, <1>2, <1>3, <1>4, <1>5, <1>6, <1>7, <1>8, <1>9, <1>10, <1>11, <1>12, <1>13
        DEF LifeNext

LEMMA LifeAlways == LifeSpec => []LifeInv
BY LifeInitInv, LifeStep, PTL DEF LifeSpec

LEMMA LifeTyped == LifeInv => LifeTypeOK
<1> SUFFICES ASSUME LifeInv PROVE LifeTypeOK
  OBVIOUS
<1>1. PriceTypeOK /\ MainInv
  BY PricesTyped DEF LifeInv
<1>2. pc \in {"down", "open", "seed", "core", "snapshots", "services",
              "operators", "build", "serving"}
  BY <1>1 DEF MainInv, Stops
<1>3. ASSUME NEW c \in Callers
      PROVE  /\ call[c].op \in Ops \cup {"none"}
             /\ call[c].at \in {"idle", "lookup", "addVendor", "lookAgain", "upsert",
                                "fetch", "ping", "select", "close", "panic"}
             /\ call[c].answer \in {"none", "ok", "error", "not found", "healthy",
                                    "degraded"}
  <2>1. call[c].op \in OpNames /\ call[c].at \in Places /\ call[c].answer \in Answers
    BY DEF LifeInv, CallsInv, CallRec
  <2> QED BY Zenon, <2>1 DEF OpNames, Places, Answers
<1> QED BY <1>1, <1>2, <1>3 DEF LifeTypeOK, MainInv

LEMMA AnswersBorneOut == LifeInv => AnswersAreTrue
<1> SUFFICES ASSUME LifeInv, NEW c \in Callers
             PROVE  /\ "late" \in call[c].marks /\ call[c].op # "shutdown" =>
                          \/ call[c].answer \in {"none", "error", "degraded"}
                          \/ call[c].op = "import" /\ call[c].done = 0
                    /\ call[c].answer = "degraded" => ~dbOpen
                    /\ call[c].op = "import" /\ call[c].answer = "ok" =>
                          (dbOpen /\ call[c].todo = <<>> => call[c].skipped = 0)
  BY DEF AnswersAreTrue
<1>1. Honest(call[c]) /\ call[c].skipped \in Nat
  BY DEF LifeInv, CallsInv, CallRec
<1> QED BY <1>1 DEF Honest

LEMMA QuotesAsWritten == LifeInv => PricesAsWritten
<1> SUFFICES ASSUME LifeInv PROVE PricesAsWritten
  OBVIOUS
<1>1. QuotedAsWritten
  BY FoundAsMeant DEF QuotedAsWritten, LifeInv
<1>2. \A c \in Callers : "wrong" \notin call[c].marks
  BY DEF LifeInv, CallsInv, Honest
<1> QED BY <1>1, <1>2 DEF PricesAsWritten

\* A price is quoted as it was last written for the vendor's SKU, in the tables
\* between two calls and in every answered quote, whatever calls, restarts and
\* files follow each other, as long as no file was read in columns it was not
\* written in and no vendor of one got the id of another row (pricing.Store,
\* importPricing and handleQueryPrice).
THEOREM PricesAsWrittenAlways == LifeSpec => []PricesAsWritten
<1>1. LifeSpec => []LifeInv
  BY LifeAlways
<1>2. LifeInv => PricesAsWritten
  BY QuotesAsWritten
<1> QED BY <1>1, <1>2, PTL

\* What a server answers about itself is so: after the shutdown tool no call
\* that begins succeeds, "degraded" is said of closed databases only and no
\* record of an import is passed over while the database is open (main,
\* handleShutdown, healthcheck.Check and importPricing).
THEOREM AnswersAreTrueAlways == LifeSpec => [](LifeTypeOK /\ AnswersAreTrue)
<1>1. LifeSpec => []LifeInv
  BY LifeAlways
<1>2. LifeInv => LifeTypeOK /\ AnswersAreTrue
  BY LifeTyped, AnswersBorneOut
<1> QED BY <1>1, <1>2, PTL

-----------------------------------------------------------------------------
(* Badges: deserved, and none forgotten.                                   *)

AtPlay == {"read", "write", "again", "earned", "award"}
PlayerRow == [pc : AtPlay \cup {"idle"}, fan : Fans \cup {NoFan}, gain : Nat,
              seen : StreakRow, due : SUBSET AllBadges]

\* The deals of a user that are counted and not yet in its row, and their savings.
Owing(u) == {p \in Players : player[p].fan = u /\ player[p].pc \in {"read", "write"}}
Late(u) == Cardinality(Owing(u))
Worth(u) == SumOver([p \in Players |-> player[p].gain], Owing(u))

\* A row of u that was in the table at some time: what it lacks is at least what
\* is owed, and if it lacks no other deal it lacks no other savings.
Behind(row, u) ==
    /\ row.deals + Late(u) <= credited[u].deals
    /\ row.current + Late(u) <= credited[u].current
    /\ row.savings + Worth(u) <= credited[u].savings
    /\ row.deals + Late(u) = credited[u].deals
          => row.savings + Worth(u) = credited[u].savings

\* A row no better than the deals of u.
Below(row, u) ==
    /\ row.deals <= credited[u].deals /\ row.current <= credited[u].current
    /\ row.savings <= credited[u].savings

TableInv ==
    /\ userStreaks \in [Fans -> StreakRow] /\ credited \in [Fans -> StreakRow]
    /\ userBadges \subseteq Fans \X AllBadges
    /\ games \in 0 .. MaxGames /\ slighted \subseteq Fans

PlayerInv ==
    /\ player \in [Players -> PlayerRow]
    /\ \A p \in Players :
          \/ player[p] = AtRest
          \/ /\ player[p].pc \in AtPlay /\ player[p].fan \in Fans
             /\ player[p].gain \in Gains
             /\ player[p].due # {} => player[p].pc = "award"

\* What a goroutine has read is no better than what its user has earned.
ReadInv(p) ==
    /\ player[p].pc = "write" => Behind(player[p].seen, player[p].fan)
    /\ player[p].pc = "earned" => Below(player[p].seen, player[p].fan)
    /\ player[p].pc = "award" =>
          player[p].due \subseteq Conditions(credited[player[p].fan])

RowsInv ==
    /\ \A u \in Fans : Behind(userStreaks[u], u)
    /\ \A p \in Players : ReadInv(p)

DeservedInv ==
    \A u \in Fans, b \in AllBadges : <<u, b>> \in userBadges =>
        b \in Conditions(credited[u]) \/ (b = "streak_5" /\ Earlier[u].longest >= 5)

\* A goroutine that has still to look at the row of u, or to give it the badge b.
WillGive(p, u, b) ==
    /\ player[p].fan = u
    /\ \/ player[p].pc = "again"
       \/ player[p].pc = "earned" /\ b \in Conditions(player[p].seen)
       \/ player[p].pc = "award" /\ b \in player[p].due

GivenInv ==
    \A u \in Fans \ slighted, b \in AllBadges : b \in Conditions(userStreaks[u]) =>
        <<u, b>> \in userBadges \/ \E p \in Players : WillGive(p, u, b)

BadgeInv == TableInv /\ PlayerInv /\ RowsInv /\ DeservedInv /\ GivenInv

-----------------------------------------------------------------------------

LEMMA RestingRow ==
    /\ NoStreakRow \in StreakRow /\ AtRest \in PlayerRow /\ AtRest.pc = "idle"
    /\ AtRest.fan = NoFan /\ NoFan \notin Fans /\ AtRest.pc \notin AtPlay /\ AtRest.due = {}
BY BadgesAssumption DEF NoStreakRow, StreakRow, AtRest, PlayerRow, AtPlay

\* More deals, a longer streak and more savings lose no badge.
LEMMA ConditionsGrow ==
    ASSUME NEW r \in StreakRow, NEW s \in StreakRow, r.deals <= s.deals,
           r.current <= s.current, r.savings <= s.savings
    PROVE  Conditions(r) \subseteq Conditions(s)
BY DEF Conditions, StreakRow

LEMMA OwingFinite ==
    ASSUME PlayerInv, NEW u
    PROVE  /\ IsFiniteSet(Owing(u)) /\ Late(u) \in Nat /\ Worth(u) \in Nat
           /\ Owing(u) = {} => Late(u) = 0 /\ Worth(u) = 0
<1>1. IsFiniteSet(Players) /\ Owing(u) \in SUBSET Players
  BY BadgesAssumption DEF Owing
<1>2. IsFiniteSet(Owing(u))
  BY <1>1, FS_Subset
<1>3. Late(u) \in Nat
  BY <1>2, FS_CardinalityType DEF Late
<1>4. PICK gained : gained = [p \in Players |-> player[p].gain]
  OBVIOUS
<1>5. \A p \in Players : gained[p] \in Nat
  BY <1>4 DEF PlayerInv, PlayerRow
<1>6. Worth(u) \in Nat
  BY <1>1, <1>4, <1>5, SumOfPart DEF Worth
<1>7. Owing(u) = {} => Late(u) = 0 /\ Worth(u) = 0
  BY FS_EmptySet, SumEmpty DEF Late, Worth
<1> QED BY <1>2, <1>3, <1>6, <1>7

LEMMA OwedNumbers == PlayerInv => \A u \in Fans : Late(u) \in Nat /\ Worth(u) \in Nat
BY OwingFinite

LEMMA OwedNumbersNext ==
    (PlayerInv => \A u \in Fans : Late(u) \in Nat /\ Worth(u) \in Nat)'
BY OwedNumbers, PTL

\* What is owed to u gets less, or one deal more is owed and credited.
Fewer(u) ==
    /\ credited'[u] = credited[u] /\ Late(u)' <= Late(u) /\ Worth(u)' <= Worth(u)
    /\ Late(u)' = Late(u) => Worth(u)' = Worth(u)

OneDealMore(u, gain) ==
    /\ Late(u)' = Late(u) + 1 /\ Worth(u)' = Worth(u) + gain
    /\ credited'[u].deals = credited[u].deals + 1
    /\ credited'[u].current = credited[u].current + 1
    /\ credited'[u].savings = credited[u].savings + gain

Moves(u) == Fewer(u) \/ \E gain \in Nat : OneDealMore(u, gain)

LEMMA BehindStays ==
    ASSUME TableInv, TableInv', PlayerInv, PlayerInv', NEW u \in Fans, NEW row \in StreakRow,
           Moves(u)
    PROVE  /\ Behind(row, u) => Behind(row, u)'
           /\ Below(row, u) => Below(row, u)'
           /\ Conditions(credited[u]) \subseteq Conditions(credited'[u])
<1>1. /\ row.deals \in Nat /\ row.current \in Nat /\ row.savings \in Nat
      /\ credited[u] \in StreakRow /\ credited'[u] \in StreakRow
  BY DEF TableInv, StreakRow
<1>2. /\ credited[u].deals \in Nat /\ credited[u].current \in Nat /\ credited[u].savings \in Nat
      /\ credited'[u].deals \in Nat /\ credited'[u].current \in Nat
      /\ credited'[u].savings \in Nat
  BY <1>1 DEF StreakRow
<1>3. Late(u) \in Nat /\ Worth(u) \in Nat
  BY OwedNumbers
<1>4. Late(u)' \in Nat /\ Worth(u)' \in Nat
  BY OwedNumbersNext
<1> HIDE DEF Late, Worth
<1>5. CASE Fewer(u)
  BY <1>1, <1>2, <1>3, <1>4, <1>5 DEF Fewer, Behind, Below
<1>6. ASSUME NEW gain \in Nat, OneDealMore(u, gain)
      PROVE  /\ Behind(row, u) => Behind(row, u)'
             /\ Below(row, u) => Below(row, u)'
             /\ Conditions(credited[u]) \subseteq Conditions(credited'[u])
  <2>1. /\ Behind(row, u) => Behind(row, u)'
        /\ Below(row, u) => Below(row, u)'
    BY <1>1, <1>2, <1>3, <1>4, <1>6 DEF OneDealMore, Behind, Below
  <2>2. Conditions(credited[u]) \subseteq Conditions(credited'[u])
    BY <1>1, <1>2, <1>6, ConditionsGrow DEF OneDealMore
  <2> QED BY <2>1, <2>2
<1> QED BY <1>5, <1>6 DEF Moves

LEMMA BehindIsBelow ==
    ASSUME TableInv, PlayerInv, NEW u \in Fans, NEW row \in StreakRow, Behind(row, u)
    PROVE  Below(row, u)
<1>1. /\ row.deals \in Nat /\ row.current \in Nat /\ row.savings \in Nat
      /\ credited[u].deals \in Nat /\ credited[u].current \in Nat
      /\ credited[u].savings \in Nat
  BY DEF TableInv, StreakRow
<1>2. Late(u) \in Nat /\ Worth(u) \in Nat
  BY OwedNumbers
<1> QED BY <1>1, <1>2 DEF Behind, Below

-----------------------------------------------------------------------------
(* What is owed, step by step.                                             *)

LEMMA Gained ==
    ASSUME PlayerInv, NEW gained, gained = [p \in Players |-> player[p].gain]
    PROVE  \A p \in Players : gained[p] = player[p].gain /\ gained[p] \in Nat
BY DEF PlayerInv, PlayerRow

LEMMA OwedLess ==
    ASSUME PlayerInv, PlayerInv', NEW u, Owing(u)' \subseteq Owing(u),
           \A p \in Owing(u)' : player'[p].gain = player[p].gain,
           credited'[u] = credited[u]
    PROVE  Fewer(u)
<1>1. PICK O, P : O = Owing(u) /\ P = Owing(u)'
  OBVIOUS
<1>2. PICK f : f = [p \in Players |-> player[p].gain]
  OBVIOUS
<1>3. PICK g : g = [p \in Players |-> player'[p].gain]
  OBVIOUS
<1>4. O \in SUBSET Players /\ P \in SUBSET O /\ IsFiniteSet(O) /\ IsFiniteSet(P)
  <2>1. O \in SUBSET Players /\ P \in SUBSET O
    BY <1>1 DEF Owing
  <2> QED BY <2>1, BadgesAssumption, FS_Subset
<1>5. \A p \in O : f[p] \in Nat
  BY <1>2, <1>4, Gained
<1>6. \A p \in P : f[p] \in Int /\ f[p] = g[p]
  <2>1. \A p \in P : p \in Players /\ p \in O /\ player'[p].gain = player[p].gain
    BY <1>1, <1>4
  <2>2. \A p \in P : f[p] = player[p].gain /\ g[p] = player'[p].gain
    BY <1>2, <1>3, <2>1
  <2> QED BY <1>5, <2>1, <2>2
<1>7. /\ Late(u) = Cardinality(O) /\ Worth(u) = SumOver(f, O)
      /\ Late(u)' = Cardinality(P) /\ Worth(u)' = SumOver(g, P)
  BY <1>1, <1>2, <1>3 DEF Late, Worth
<1>8. SumOver(f, P) = SumOver(g, P)
  BY <1>4, <1>6, SumSame
<1>9. SumOver(f, P) <= SumOver(f, O)
  BY <1>4, <1>5, SumOfPart
<1>10. Cardinality(P) <= Cardinality(O) /\ (Cardinality(O) = Cardinality(P) => O = P)
  BY <1>4, FS_Subset
<1> QED BY <1>7, <1>8, <1>9, <1>10 DEF Fewer

LEMMA OwedJoins ==
    ASSUME PlayerInv, PlayerInv', NEW u, NEW q \in Players, q \notin Owing(u),
           Owing(u)' = Owing(u) \cup {q},
           \A p \in Owing(u) : player'[p].gain = player[p].gain
    PROVE  Late(u)' = Late(u) + 1 /\ Worth(u)' = Worth(u) + player'[q].gain
<1>1. PICK O, P : O = Owing(u) /\ P = Owing(u)'
  OBVIOUS
<1>2. PICK f : f = [p \in Players |-> player[p].gain]
  OBVIOUS
<1>3. PICK g : g = [p \in Players |-> player'[p].gain]
  OBVIOUS
<1>4. O \in SUBSET Players /\ IsFiniteSet(O) /\ P = O \cup {q} /\ q \notin O
  <2>1. O \in SUBSET Players
    BY <1>1 DEF Owing
  <2> QED BY <1>1, <2>1, BadgesAssumption, FS_Subset
<1>5. \A p \in O : f[p] \in Int /\ f[p] = g[p]
  BY <1>1, <1>2, <1>3, <1>4, Gained
<1>6. g[q] = player'[q].gain /\ g[q] \in Int
  BY <1>3 DEF PlayerInv, PlayerRow
<1>7. /\ Late(u) = Cardinality(O) /\ Worth(u) = SumOver(f, O)
      /\ Late(u)' = Cardinality(P) /\ Worth(u)' = SumOver(g, P)
  BY <1>1, <1>2, <1>3 DEF Late, Worth
<1>8. SumOver(f, O) = SumOver(g, O)
  BY <1>4, <1>5, SumSame
<1>9. SumOver(g, P) = SumOver(g, O) + g[q]
  BY <1>4, <1>5, <1>6, SumMore
<1>10. Cardinality(P) = Cardinality(O) + 1
  BY <1>4, FS_AddElement
<1> QED BY <1>6, <1>7, <1>8, <1>9, <1>10

LEMMA OwedLeaves ==
    ASSUME PlayerInv, NEW u, NEW q \in Owing(u),
           Owing(u)' = Owing(u) \ {q},
           \A p \in Owing(u)' : player'[p].gain = player[p].gain
    PROVE  /\ Late(u) = Late(u)' + 1 /\ Worth(u) = Worth(u)' + player[q].gain
           /\ Late(u)' \in Nat /\ Worth(u)' \in Nat
<1>1. PICK O, P : O = Owing(u) /\ P = Owing(u)'
  OBVIOUS
<1>2. PICK f : f = [p \in Players |-> player[p].gain]
  OBVIOUS
<1>3. PICK g : g = [p \in Players |-> player'[p].gain]
  OBVIOUS
<1>4. O \in SUBSET Players /\ P \in SUBSET O /\ IsFiniteSet(O) /\ IsFiniteSet(P) /\ P = O \ {q}
      /\ q \in O /\ q \in Players
  <2>1. O \in SUBSET Players
    BY <1>1 DEF Owing
  <2> QED BY <1>1, <2>1, BadgesAssumption, FS_Subset
<1>5. \A p \in O : f[p] \in Nat
  BY <1>2, <1>4, Gained
<1>6. \A p \in P : f[p] \in Int /\ f[p] = g[p]
  <2>1. \A p \in P : p \in Players /\ p \in O /\ player'[p].gain = player[p].gain
    BY <1>1, <1>4
  <2>2. \A p \in P : f[p] = player[p].gain /\ g[p] = player'[p].gain
    BY <1>2, <1>3, <2>1
  <2> QED BY <1>5, <2>1, <2>2
<1>7. /\ Late(u) = Cardinality(O) /\ Worth(u) = SumOver(f, O)
      /\ Late(u)' = Cardinality(P) /\ Worth(u)' = SumOver(g, P)
  BY <1>1, <1>2, <1>3 DEF Late, Worth
<1>8. SumOver(f, P) = SumOver(g, P) /\ SumOver(f, P) \in Nat
  BY <1>4, <1>5, <1>6, SumSame, SumOfPart
<1>9. SumOver(f, O) = f[q] + SumOver(f, P) /\ f[q] = player[q].gain /\ f[q] \in Nat
  <2>1. f[q] = player[q].gain /\ f[q] \in Nat /\ \A p \in O : f[p] \in Int
    BY <1>2, <1>4, <1>5
  <2>2. SumOver(f, O) = f[q] + SumOver(f, O \ {q})
    BY <1>4, <2>1, SumTake
  <2> QED BY <1>4, <2>1, <2>2
<1>10. Cardinality(P) = Cardinality(O) - 1 /\ Cardinality(P) \in Nat /\ Cardinality(O) \in Nat
  BY <1>4, FS_RemoveElement, FS_CardinalityType
<1> QED BY <1>7, <1>8, <1>9, <1>10

-----------------------------------------------------------------------------
(* What stays when the deals of each user get more or fewer.               *)

LEMMA RowsStay ==
    ASSUME TableInv, TableInv', PlayerInv, PlayerInv', RowsInv,
           \A u \in Fans : Moves(u),
           \A u \in Fans : userStreaks'[u] = userStreaks[u] \/ Behind(userStreaks[u], u)',
           \A p \in Players : player'[p] = player[p] \/ ReadInv(p)'
    PROVE  RowsInv'
<1>1. \A u \in Fans : Behind(userStreaks[u], u)'
  <2> SUFFICES ASSUME NEW u \in Fans, userStreaks'[u] = userStreaks[u]
               PROVE  Behind(userStreaks[u], u)'
    OBVIOUS
  <2>1. PICK row \in StreakRow : row = userStreaks[u]
    BY DEF TableInv
  <2>2. Behind(row, u)
    BY <2>1 DEF RowsInv
  <2>3. Behind(row, u)'
    BY <2>2, BehindStays
  <2> QED BY <2>1, <2>3
<1>2. ASSUME NEW p \in Players, player'[p] = player[p]
      PROVE  ReadInv(p)'
  <2>1. PICK k \in PlayerRow : k = player[p]
    BY DEF PlayerInv
  <2>2. player'[p] = k /\ k.seen \in StreakRow
    BY <1>2, <2>1 DEF PlayerRow
  <2>3. ASSUME k.pc \in AtPlay PROVE k.fan \in Fans
    BY <2>1, <2>3, RestingRow DEF PlayerInv
  <2>4. ASSUME k.pc = "write" PROVE Behind(k.seen, k.fan)'
    <3>1. k.fan \in Fans
      BY <2>3, <2>4 DEF AtPlay
    <3>2. Behind(k.seen, k.fan)
      BY <2>1, <2>4 DEF RowsInv, ReadInv
    <3> QED BY <2>2, <3>1, <3>2, BehindStays
  <2>5. ASSUME k.pc = "earned" PROVE Below(k.seen, k.fan)'
    <3>1. k.fan \in Fans
      BY <2>3, <2>5 DEF AtPlay
    <3>2. Below(k.seen, k.fan)
      BY <2>1, <2>5 DEF RowsInv, ReadInv
    <3> QED BY <2>2, <3>1, <3>2, BehindStays
  <2>6. ASSUME k.pc = "award" PROVE k.due \subseteq Conditions(credited'[k.fan])
    <3>1. k.fan \in Fans
      BY <2>3, <2>6 DEF AtPlay
    <3>2. k.due \subseteq Conditions(credited[k.fan])
      BY <2>1, <2>6 DEF RowsInv, ReadInv
    <3>3. Conditions(credited[k.fan]) \subseteq Conditions(credited'[k.fan])
      BY <2>2, <3>1, BehindStays
    <3> QED BY <3>2, <3>3
  <2> QED BY <2>2, <2>4, <2>5, <2>6 DEF ReadInv
<1> QED BY <1>1, <1>2 DEF RowsInv

LEMMA DeservedStays ==
    ASSUME TableInv, TableInv', PlayerInv, PlayerInv', DeservedInv,
           \A u \in Fans : Moves(u),
           \A u \in Fans, b \in AllBadges : <<u, b>> \in userBadges' =>
              <<u, b>> \in userBadges \/ b \in Conditions(credited'[u])
    PROVE  DeservedInv'
<1>1. NoStreakRow \in StreakRow
  BY RestingRow
<1>2. \A u \in Fans : Conditions(credited[u]) \subseteq Conditions(credited'[u])
  BY <1>1, BehindStays
<1> QED BY <1>2 DEF DeservedInv

\* Nothing is owed to anyone that was not owed before.
LEMMA NoneJoins ==
    ASSUME PlayerInv, PlayerInv', credited' = credited,
           \A p \in Players : player'[p].pc \in {"read", "write"} =>
              /\ player[p].pc \in {"read", "write"}
              /\ player'[p].fan = player[p].fan /\ player'[p].gain = player[p].gain
    PROVE  \A u \in Fans : Moves(u)
<1> SUFFICES ASSUME NEW u \in Fans PROVE Fewer(u)
  BY DEF Moves
<1>1. \A p \in Owing(u)' : p \in Owing(u) /\ player'[p].gain = player[p].gain
  BY DEF Owing
<1> QED BY <1>1, OwedLess

LEMMA BadgesInit == BadgeInit => BadgeInv
<1> SUFFICES ASSUME BadgeInit PROVE BadgeInv
  OBVIOUS
<1>1. TableInv
  BY BadgesAssumption DEF BadgeInit, TableInv
<1>2. PlayerInv
  BY RestingRow DEF BadgeInit, PlayerInv
<1>3. \A p \in Players : player[p] = AtRest
  BY DEF BadgeInit
<1>4. \A u \in Fans : Owing(u) = {}
  BY <1>3, RestingRow DEF Owing
<1>5. RowsInv
  <2>1. ASSUME NEW u \in Fans PROVE Behind(userStreaks[u], u)
    <3>1. Late(u) = 0 /\ Worth(u) = 0
      BY <1>2, <1>4, OwingFinite
    <3>2. PICK row \in StreakRow : row = userStreaks[u] /\ credited[u] = row
      BY BadgesAssumption DEF BadgeInit
    <3>3. row.deals \in Nat /\ row.current \in Nat /\ row.savings \in Nat
      BY <3>2 DEF StreakRow
    <3> QED BY <3>1, <3>2, <3>3 DEF Behind
  <2>2. \A p \in Players : ReadInv(p)
    BY <1>3, RestingRow DEF ReadInv, AtPlay
  <2> QED BY <2>1, <2>2 DEF RowsInv
<1>6. ASSUME NEW u \in Fans, NEW b \in AllBadges
      PROVE  /\ <<u, b>> \in userBadges =>
                   b \in Conditions(credited[u]) \/ (b = "streak_5" /\ Earlier[u].longest >= 5)
             /\ b \in Conditions(userStreaks[u]) => <<u, b>> \in userBadges
  <2>1. PICK row \in StreakRow : row = Earlier[u] /\ row.current <= row.longest
    BY BadgesAssumption
  <2>2. PICK best : best = [row EXCEPT !.current = row.longest]
    OBVIOUS
  <2>3. /\ best.current = row.longest /\ best.deals = row.deals
        /\ best.savings = row.savings /\ best \in StreakRow
    BY <2>2 DEF StreakRow
  <2>4. <<u, b>> \in userBadges <=> b \in Conditions(best)
    BY <2>1, <2>2 DEF BadgeInit
  <2>5. credited[u] = row /\ userStreaks[u] = row
    BY <2>1 DEF BadgeInit
  <2>6. row.current \in Nat /\ row.longest \in Nat
    BY DEF StreakRow
  <2>7. b \in Conditions(best) => b \in Conditions(row) \/ (b = "streak_5" /\ row.longest >= 5)
    BY <2>3 DEF Conditions
  <2>8. b \in Conditions(row) => b \in Conditions(best)
    BY <2>1, <2>3, <2>6 DEF Conditions
  <2> QED BY <2>1, <2>4, <2>5, <2>7, <2>8
<1>7. DeservedInv
  BY <1>6 DEF DeservedInv
<1>8. GivenInv
  BY <1>6 DEF GivenInv
<1> QED BY <1>1, <1>2, <1>5, <1>7, <1>8 DEF BadgeInv

LEMMA GivenStays ==
    ASSUME GivenInv, slighted \subseteq slighted', userBadges \subseteq userBadges',
           \A u \in Fans \ slighted' :
              \/ userStreaks'[u] = userStreaks[u]
              \/ \E p \in Players : \A b \in AllBadges : WillGive(p, u, b)',
           \A p \in Players, u \in Fans \ slighted', b \in AllBadges :
              WillGive(p, u, b) => WillGive(p, u, b)' \/ <<u, b>> \in userBadges'
    PROVE  GivenInv'
<1> HIDE DEF WillGive
<1> SUFFICES ASSUME NEW u \in Fans \ slighted', NEW b \in AllBadges,
                    b \in Conditions(userStreaks'[u])
             PROVE  <<u, b>> \in userBadges' \/ \E p \in Players : WillGive(p, u, b)'
  BY DEF GivenInv
<1>1. CASE userStreaks'[u] = userStreaks[u]
  BY <1>1 DEF GivenInv
<1>2. CASE \E p \in Players : \A c \in AllBadges : WillGive(p, u, c)'
  BY <1>2
<1> QED BY <1>1, <1>2

-----------------------------------------------------------------------------
(* One lemma for each action.                                              *)

LEMMA ReadsStreak ==
    ASSUME BadgeInv, NEW p \in Players, GetStreak(p)
    PROVE  BadgeInv'
<1>1. PICK k \in PlayerRow : k = player[p]
  BY DEF BadgeInv, PlayerInv
<1>2. /\ k.pc = "read" /\ k.fan \in Fans /\ k.due = {} /\ k.gain \in Gains
      /\ k # AtRest
  BY <1>1, RestingRow DEF BadgeInv, PlayerInv, GetStreak, PlaysAt, AtPlay
<1>3. PICK row \in StreakRow : row = userStreaks[k.fan]
  BY <1>2 DEF BadgeInv, TableInv
<1>4. PICK new : new = [k EXCEPT !.pc = "write", !.seen = row]
  OBVIOUS
<1>5. /\ new \in PlayerRow /\ new.pc = "write" /\ new.seen = row
      /\ new.fan = k.fan /\ new.gain = k.gain /\ new.due = {}
  BY <1>2, <1>4 DEF PlayerRow, AtPlay
<1>6. player' = [player EXCEPT ![p] = new]
  BY <1>1, <1>3, <1>4 DEF GetStreak
<1>7. \A q \in Players : player'[q] = IF q = p THEN new ELSE player[q]
  BY <1>6 DEF BadgeInv, PlayerInv
<1>8. /\ userStreaks' = userStreaks /\ userBadges' = userBadges /\ games' = games
      /\ credited' = credited /\ slighted' = slighted
  BY DEF GetStreak
<1>9. TableInv'
  BY <1>8 DEF BadgeInv, TableInv
<1>10. PlayerInv'
  BY <1>2, <1>5, <1>6, <1>7 DEF BadgeInv, PlayerInv, AtPlay
<1>11. \A u \in Fans : Moves(u)
  BY <1>1, <1>2, <1>5, <1>7, <1>8, <1>10, NoneJoins DEF BadgeInv
<1>12. Behind(row, k.fan)'
  BY <1>2, <1>3, <1>9, <1>10, <1>11, BehindStays DEF BadgeInv, RowsInv
<1>13. ReadInv(p)'
  BY <1>5, <1>7, <1>12 DEF ReadInv
<1>14. RowsInv'
  BY <1>7, <1>8, <1>9, <1>10, <1>11, <1>13, RowsStay DEF BadgeInv
<1>15. DeservedInv'
  BY <1>8, <1>9, <1>10, <1>11, DeservedStays DEF BadgeInv
<1>16. \A q \in Players, u \in Fans, b \in AllBadges :
          WillGive(q, u, b) => WillGive(q, u, b)'
  BY <1>1, <1>2, <1>7 DEF WillGive
<1>17. GivenInv'
  BY <1>8, <1>16, GivenStays DEF BadgeInv
<1> QED BY <1>9, <1>10, <1>14, <1>15, <1>17 DEF BadgeInv

LEMMA ReadsAgain ==
    ASSUME BadgeInv, NEW p \in Players, GetStreakAgain(p)
    PROVE  BadgeInv'
<1>1. PICK k \in PlayerRow : k = player[p]
  BY DEF BadgeInv, PlayerInv
<1>2. /\ k.pc = "again" /\ k.fan \in Fans /\ k.due = {} /\ k.gain \in Gains
      /\ k # AtRest
  BY <1>1, RestingRow DEF BadgeInv, PlayerInv, GetStreakAgain, PlaysAt, AtPlay
<1>3. PICK row \in StreakRow : row = userStreaks[k.fan]
  BY <1>2 DEF BadgeInv, TableInv
<1>4. PICK new : new = [k EXCEPT !.pc = "earned", !.seen = row]
  OBVIOUS
<1>5. /\ new \in PlayerRow /\ new.pc = "earned" /\ new.seen = row
      /\ new.fan = k.fan /\ new.gain = k.gain /\ new.due = {}
  BY <1>2, <1>4 DEF PlayerRow, AtPlay
<1>6. player' = [player EXCEPT ![p] = new]
  BY <1>1, <1>3, <1>4 DEF GetStreakAgain
<1>7. \A q \in Players : player'[q] = IF q = p THEN new ELSE player[q]
  BY <1>6 DEF BadgeInv, PlayerInv
<1>8. /\ userStreaks' = userStreaks /\ userBadges' = userBadges /\ games' = games
      /\ credited' = credited /\ slighted' = slighted
  BY DEF GetStreakAgain
<1>9. TableInv'
  BY <1>8 DEF BadgeInv, TableInv
<1>10. PlayerInv'
  BY <1>2, <1>5, <1>6, <1>7 DEF BadgeInv, PlayerInv, AtPlay
<1>11. \A u \in Fans : Moves(u)
  BY <1>1, <1>2, <1>5, <1>7, <1>8, <1>10, NoneJoins DEF BadgeInv
<1>12. Below(row, k.fan)'
  <2>1. Below(row, k.fan)
    BY <1>2, <1>3, BehindIsBelow DEF BadgeInv, RowsInv
  <2> QED BY <1>2, <1>9, <1>10, <1>11, <2>1, BehindStays DEF BadgeInv
<1>13. ReadInv(p)'
  BY <1>5, <1>7, <1>12 DEF ReadInv
<1>14. RowsInv'
  BY <1>7, <1>8, <1>9, <1>10, <1>11, <1>13, RowsStay DEF BadgeInv
<1>15. DeservedInv'
  BY <1>8, <1>9, <1>10, <1>11, DeservedStays DEF BadgeInv
<1>16. GivenInv'
  <2> SUFFICES ASSUME NEW u \in Fans \ slighted, NEW b \in AllBadges,
                      b \in Conditions(userStreaks[u]), <<u, b>> \notin userBadges
               PROVE  \E q \in Players : WillGive(q, u, b)'
    BY <1>8 DEF GivenInv
  <2>1. PICK q \in Players : WillGive(q, u, b)
    BY DEF BadgeInv, GivenInv
  <2>2. WillGive(q, u, b)'
    BY <1>1, <1>2, <1>3, <1>5, <1>7, <2>1 DEF WillGive
  <2> QED BY <2>2
<1> QED BY <1>9, <1>10, <1>14, <1>15, <1>16 DEF BadgeInv

LEMMA LooksAtBadges ==
    ASSUME BadgeInv, NEW p \in Players, GetUserBadges(p)
    PROVE  BadgeInv'
<1>1. PICK k \in PlayerRow : k = player[p]
  BY DEF BadgeInv, PlayerInv
<1>2. /\ k.pc = "earned" /\ k.fan \in Fans /\ k.gain \in Gains
      /\ k # AtRest /\ k.seen \in StreakRow
  BY <1>1, RestingRow DEF BadgeInv, PlayerInv, GetUserBadges, PlaysAt, AtPlay, PlayerRow
<1>3. PICK due \in SUBSET AllBadges : due = Conditions(k.seen) \ GetBadges(k.fan)
  BY DEF Conditions
<1>4. PICK new : new = [k EXCEPT !.pc = "award", !.due = due]
  OBVIOUS
<1>5. /\ new \in PlayerRow /\ new.pc = "award" /\ new.due = due
      /\ new.fan = k.fan /\ new.gain = k.gain
  BY <1>2, <1>4 DEF PlayerRow, AtPlay
<1>6. player' = [player EXCEPT ![p] = new]
  BY <1>1, <1>3, <1>4 DEF GetUserBadges
<1>7. \A q \in Players : player'[q] = IF q = p THEN new ELSE player[q]
  BY <1>6 DEF BadgeInv, PlayerInv
<1>8. /\ userStreaks' = userStreaks /\ userBadges' = userBadges /\ games' = games
      /\ credited' = credited /\ slighted' = slighted
  BY DEF GetUserBadges
<1>9. TableInv'
  BY <1>8 DEF BadgeInv, TableInv
<1>10. PlayerInv'
  BY <1>2, <1>5, <1>6, <1>7 DEF BadgeInv, PlayerInv, AtPlay
<1>11. \A u \in Fans : Moves(u)
  BY <1>1, <1>2, <1>5, <1>7, <1>8, <1>10, NoneJoins DEF BadgeInv
<1>12. due \subseteq Conditions(credited[k.fan])
  <2>1. Below(k.seen, k.fan)
    BY <1>1, <1>2 DEF BadgeInv, RowsInv, ReadInv
  <2>2. credited[k.fan] \in StreakRow
    BY <1>2 DEF BadgeInv, TableInv
  <2>3. Conditions(k.seen) \subseteq Conditions(credited[k.fan])
    BY <1>2, <2>1, <2>2, ConditionsGrow DEF Below
  <2> QED BY <1>3, <2>3
<1>13. ReadInv(p)'
  BY <1>5, <1>7, <1>8, <1>12 DEF ReadInv
<1>14. RowsInv'
  BY <1>7, <1>8, <1>9, <1>10, <1>11, <1>13, RowsStay DEF BadgeInv
<1>15. DeservedInv'
  BY <1>8, <1>9, <1>10, <1>11, DeservedStays DEF BadgeInv
<1>16. \A q \in Players, u \in Fans, b \in AllBadges :
          WillGive(q, u, b) => WillGive(q, u, b)' \/ <<u, b>> \in userBadges
  BY <1>1, <1>2, <1>3, <1>5, <1>7 DEF WillGive, GetBadges
<1>17. GivenInv'
  BY <1>8, <1>16, GivenStays DEF BadgeInv
<1> QED BY <1>9, <1>10, <1>14, <1>15, <1>17 DEF BadgeInv

LEMMA DoneAwarding ==
    ASSUME BadgeInv, NEW p \in Players, BadgesDone(p)
    PROVE  BadgeInv'
<1>1. player[p].pc = "award" /\ player[p].due = {} /\ player' = [player EXCEPT ![p] = AtRest]
  BY DEF BadgesDone, PlaysAt, GoIdle
<1>2. \A q \in Players : player'[q] = IF q = p THEN AtRest ELSE player[q]
  BY <1>1 DEF BadgeInv, PlayerInv
<1>3. /\ userStreaks' = userStreaks /\ userBadges' = userBadges /\ games' = games
      /\ credited' = credited /\ slighted' = slighted
  BY DEF BadgesDone
<1>4. TableInv'
  BY <1>3 DEF BadgeInv, TableInv
<1>5. PlayerInv'
  BY <1>1, <1>2, RestingRow DEF BadgeInv, PlayerInv
<1>6. \A u \in Fans : Moves(u)
  BY <1>2, <1>3, <1>5, RestingRow, NoneJoins DEF BadgeInv, AtPlay
<1>7. ReadInv(p)'
  BY <1>2, RestingRow DEF ReadInv, AtPlay
<1>8. RowsInv'
  BY <1>2, <1>3, <1>4, <1>5, <1>6, <1>7, RowsStay DEF BadgeInv
<1>9. DeservedInv'
  BY <1>3, <1>4, <1>5, <1>6, DeservedStays DEF BadgeInv
<1>10. \A q \in Players, u \in Fans, b \in AllBadges : WillGive(q, u, b) => WillGive(q, u, b)'
  BY <1>1, <1>2 DEF WillGive
<1>11. GivenInv'
  BY <1>3, <1>10, GivenStays DEF BadgeInv
<1> QED BY <1>4, <1>5, <1>8, <1>9, <1>11 DEF BadgeInv

LEMMA FailsToRecord ==
    ASSUME BadgeInv, NEW p \in Players, RecordingFails(p)
    PROVE  BadgeInv'
<1>1. PICK k \in PlayerRow : k = player[p]
  BY DEF BadgeInv, PlayerInv
<1>2. k.pc \in {"read", "write", "earned"} /\ k.fan \in Fans
  BY <1>1, RestingRow DEF BadgeInv, PlayerInv, RecordingFails, AtPlay
<1>3. player' = [player EXCEPT ![p] = AtRest]
  BY DEF RecordingFails, GoIdle
<1>4. \A q \in Players : player'[q] = IF q = p THEN AtRest ELSE player[q]
  BY <1>3 DEF BadgeInv, PlayerInv
<1>5. /\ userStreaks' = userStreaks /\ userBadges' = userBadges /\ games' = games
      /\ credited' = credited
      /\ slighted' = IF k.pc = "earned" THEN slighted \cup {k.fan} ELSE slighted
  BY <1>1 DEF RecordingFails, PlaysAt
<1>6. TableInv' /\ slighted \subseteq slighted'
  BY <1>2, <1>5 DEF BadgeInv, TableInv
<1>7. PlayerInv'
  BY <1>3, <1>4, RestingRow DEF BadgeInv, PlayerInv
<1>8. \A u \in Fans : Moves(u)
  BY <1>4, <1>5, <1>7, RestingRow, NoneJoins DEF BadgeInv, AtPlay
<1>9. ReadInv(p)'
  BY <1>4, RestingRow DEF ReadInv, AtPlay
<1>10. RowsInv'
  BY <1>4, <1>5, <1>6, <1>7, <1>8, <1>9, RowsStay DEF BadgeInv
<1>11. DeservedInv'
  BY <1>5, <1>6, <1>7, <1>8, DeservedStays DEF BadgeInv
<1>12. \A q \in Players, u \in Fans \ slighted', b \in AllBadges :
          WillGive(q, u, b) => WillGive(q, u, b)'
  <2> SUFFICES ASSUME NEW q \in Players, NEW u \in Fans \ slighted', NEW b \in AllBadges,
                      WillGive(q, u, b)
               PROVE  q # p
    BY <1>4 DEF WillGive
  <2>1. k.fan = u => k.pc # "earned"
    BY <1>5
  <2> QED BY <1>1, <1>2, <2>1 DEF WillGive
<1>13. GivenInv'
  BY <1>5, <1>6, <1>12, GivenStays DEF BadgeInv
<1> QED BY <1>6, <1>7, <1>10, <1>11, <1>13 DEF BadgeInv

LEMMA Panics ==
    ASSUME BadgeInv, NEW p \in Players, CheckPanics(p)
    PROVE  BadgeInv'
<1>1. player' = [q \in Players |-> AtRest]
  BY DEF CheckPanics
<1>2. \A q \in Players : player'[q] = AtRest
  BY <1>1
<1>3. /\ userStreaks' = userStreaks /\ userBadges' = userBadges /\ games' = games
      /\ credited' = credited
      /\ slighted' = slighted \cup ({player[q].fan : q \in Players} \ {NoFan})
  BY DEF CheckPanics
<1>4. \A q \in Players : player[q].fan \in Fans \cup {NoFan}
  BY DEF BadgeInv, PlayerInv, PlayerRow
<1>5. TableInv' /\ slighted \subseteq slighted'
  BY <1>3, <1>4 DEF BadgeInv, TableInv
<1>6. PlayerInv'
  BY <1>1, <1>2, RestingRow DEF PlayerInv
<1>7. \A u \in Fans : Moves(u)
  BY <1>2, <1>3, <1>6, RestingRow, NoneJoins DEF BadgeInv, AtPlay
<1>8. \A q \in Players : ReadInv(q)'
  BY <1>2, RestingRow DEF ReadInv, AtPlay
<1>9. RowsInv'
  BY <1>3, <1>5, <1>6, <1>7, <1>8, RowsStay DEF BadgeInv
<1>10. DeservedInv'
  BY <1>3, <1>5, <1>6, <1>7, DeservedStays DEF BadgeInv
<1>11. \A q \in Players, u \in Fans \ slighted', b \in AllBadges : ~WillGive(q, u, b)
  BY <1>3, RestingRow DEF WillGive
<1>12. GivenInv'
  BY <1>3, <1>5, <1>11, GivenStays DEF BadgeInv
<1> QED BY <1>5, <1>6, <1>9, <1>10, <1>12 DEF BadgeInv

\* The badge that is given is one of those that are due.
LEMMA NextIsDue ==
    ASSUME NEW due \in SUBSET AllBadges, due # {}
    PROVE  NextBadge(due) \in due
<1> DEFINE First(i) == BadgeIds[i] \in due /\ \A j \in 1 .. i - 1 : BadgeIds[j] \notin due
<1>1. PICK i \in 1..6 : BadgeIds[i] \in due
  BY DEF AllBadges
<1>2. \E k \in 1..6 : First(k)
  <2> HIDE DEF First
  <2> DEFINE In(k) == BadgeIds[k] \in due
  <2>1. In(1) => First(1)
    BY DEF First
  <2>2. In(2) /\ ~In(1) => First(2)
    BY DEF First
  <2>3. In(3) /\ ~In(1) /\ ~In(2) => First(3)
    BY DEF First
  <2>4. In(4) /\ ~In(1) /\ ~In(2) /\ ~In(3) => First(4)
    BY DEF First
  <2>5. In(5) /\ ~In(1) /\ ~In(2) /\ ~In(3) /\ ~In(4) => First(5)
    BY DEF First
  <2>6. In(6) /\ ~In(1) /\ ~In(2) /\ ~In(3) /\ ~In(4) /\ ~In(5) => First(6)
    BY DEF First
  <2>7. In(1) \/ In(2) \/ In(3) \/ In(4) \/ In(5) \/ In(6)
    BY <1>1
  <2> HIDE DEF In
  <2> QED BY <2>1, <2>2, <2>3, <2>4, <2>5, <2>6, <2>7
<1>3. First(CHOOSE k \in 1..6 : First(k))
  BY <1>2
<1> QED BY <1>3 DEF NextBadge

LEMMA Awards ==
    ASSUME BadgeInv, NEW p \in Players, AwardBadge(p)
    PROVE  BadgeInv'
<1>1. PICK k \in PlayerRow : k = player[p]
  BY DEF BadgeInv, PlayerInv
<1>2. /\ k.pc = "award" /\ k.fan \in Fans /\ k.gain \in Gains /\ k.due # {}
      /\ k # AtRest /\ k.due \in SUBSET AllBadges
  BY <1>1, RestingRow DEF BadgeInv, PlayerInv, AwardBadge, PlaysAt, AtPlay, PlayerRow
<1>3. PICK next : next = NextBadge(k.due)
  OBVIOUS
<1>4. next \in k.due
  BY <1>2, <1>3, NextIsDue
<1>5. PICK new : new = [k EXCEPT !.due = k.due \ {next}]
  OBVIOUS
<1>6. /\ new \in PlayerRow /\ new.pc = "award" /\ new.due = k.due \ {next}
      /\ new.fan = k.fan /\ new.gain = k.gain
  BY <1>2, <1>5 DEF PlayerRow
<1>7. /\ player' = [player EXCEPT ![p] = new]
      /\ \/ userBadges' = userBadges \cup {<<k.fan, next>>} /\ slighted' = slighted
         \/ slighted' = slighted \cup {k.fan} /\ userBadges' = userBadges
      /\ userStreaks' = userStreaks /\ games' = games /\ credited' = credited
  BY <1>1, <1>3, <1>5 DEF AwardBadge
<1>8. \A q \in Players : player'[q] = IF q = p THEN new ELSE player[q]
  BY <1>7 DEF BadgeInv, PlayerInv
<1>9. TableInv' /\ slighted \subseteq slighted' /\ userBadges \subseteq userBadges'
  BY <1>2, <1>4, <1>7 DEF BadgeInv, TableInv
<1>10. PlayerInv'
  BY <1>2, <1>6, <1>7, <1>8 DEF BadgeInv, PlayerInv, AtPlay
<1>11. \A u \in Fans : Moves(u)
  BY <1>1, <1>2, <1>6, <1>7, <1>8, <1>10, NoneJoins DEF BadgeInv
<1>12. k.due \subseteq Conditions(credited[k.fan])
  BY <1>1, <1>2 DEF BadgeInv, RowsInv, ReadInv
<1>13. ReadInv(p)'
  BY <1>6, <1>7, <1>8, <1>12 DEF ReadInv
<1>14. RowsInv'
  BY <1>7, <1>8, <1>9, <1>10, <1>11, <1>13, RowsStay DEF BadgeInv
<1>15. DeservedInv'
  <2>1. \A u \in Fans, b \in AllBadges : <<u, b>> \in userBadges' =>
           <<u, b>> \in userBadges \/ b \in Conditions(credited'[u])
    BY <1>4, <1>7, <1>12
  <2> QED BY <1>9, <1>10, <1>11, <2>1, DeservedStays DEF BadgeInv
<1>16. \A q \in Players, u \in Fans \ slighted', b \in AllBadges :
          WillGive(q, u, b) => WillGive(q, u, b)' \/ <<u, b>> \in userBadges'
  <2> SUFFICES ASSUME NEW u \in Fans \ slighted', NEW b \in AllBadges, WillGive(p, u, b)
               PROVE  WillGive(p, u, b)' \/ <<u, b>> \in userBadges'
    BY <1>8 DEF WillGive
  <2>1. u = k.fan /\ b \in k.due
    BY <1>1, <1>2 DEF WillGive
  <2>2. userBadges' = userBadges \cup {<<k.fan, next>>}
    BY <1>7, <2>1
  <2>3. b # next => WillGive(p, u, b)'
    BY <1>6, <1>8, <2>1 DEF WillGive
  <2> QED BY <2>1, <2>2, <2>3
<1>17. GivenInv'
  BY <1>7, <1>9, <1>16, GivenStays DEF BadgeInv
<1> QED BY <1>9, <1>10, <1>14, <1>15, <1>17 DEF BadgeInv

LEMMA DealRow ==
    ASSUME NEW row \in StreakRow, NEW gain \in Nat, NEW gap \in BOOLEAN
    PROVE  /\ WithDeal(row, gain, gap) \in StreakRow
           /\ WithDeal(row, gain, gap).deals = row.deals + 1
           /\ WithDeal(row, gain, gap).savings = row.savings + gain
           /\ WithDeal(row, gain, gap).current = IF gap THEN 1 ELSE row.current + 1
BY DEF WithDeal, StreakRow

LEMMA RecordsDeal ==
    ASSUME BadgeInv, NEW p \in Players, RecordNegotiation(p)
    PROVE  BadgeInv'
<1>1. PICK u \in Fans, gain \in Gains :
         /\ player' = [player EXCEPT ![p] =
                          [AtRest EXCEPT !.pc = "read", !.fan = u, !.gain = gain]]
         /\ credited' = [credited EXCEPT ![u] = WithDeal(@, gain, FALSE)]
  BY DEF RecordNegotiation
<1>2. gain \in Nat
  BY BadgesAssumption
<1>3. PICK new : new = [AtRest EXCEPT !.pc = "read", !.fan = u, !.gain = gain]
  OBVIOUS
<1>4. /\ new \in PlayerRow /\ new.pc = "read" /\ new.fan = u /\ new.gain = gain
      /\ new.due = {}
  BY <1>2, <1>3, RestingRow DEF AtRest, PlayerRow, AtPlay
<1>5. \A q \in Players : player'[q] = IF q = p THEN new ELSE player[q]
  BY <1>1, <1>3 DEF BadgeInv, PlayerInv
<1>6. player[p] = AtRest
  BY DEF RecordNegotiation, PlaysAt, BadgeInv, PlayerInv, AtPlay
<1>7. /\ userStreaks' = userStreaks /\ userBadges' = userBadges /\ slighted' = slighted
      /\ games' = games + 1 /\ games < MaxGames
  BY DEF RecordNegotiation
<1>8. PICK row \in StreakRow : row = credited[u]
  BY DEF BadgeInv, TableInv
<1>9. PICK more \in StreakRow :
         /\ more = WithDeal(row, gain, FALSE)
         /\ more.deals = row.deals + 1 /\ more.savings = row.savings + gain
         /\ more.current = row.current + 1
  BY <1>2, DealRow
<1>10. credited' = [credited EXCEPT ![u] = more]
  BY <1>1, <1>8, <1>9
<1>11. TableInv'
  BY <1>7, <1>10, BadgesAssumption DEF BadgeInv, TableInv
<1>12. PlayerInv'
  BY <1>1, <1>3, <1>4, <1>5 DEF BadgeInv, PlayerInv, AtPlay
<1>13. OneDealMore(u, gain)
  <2>1. p \notin Owing(u) /\ Owing(u)' = Owing(u) \cup {p}
    BY <1>4, <1>5, <1>6, RestingRow DEF Owing, AtPlay
  <2>2. \A q \in Owing(u) : player'[q].gain = player[q].gain
    BY <1>5, <2>1 DEF Owing
  <2>3. Late(u)' = Late(u) + 1 /\ Worth(u)' = Worth(u) + player'[p].gain
    BY <1>12, <2>1, <2>2, OwedJoins DEF BadgeInv
  <2>4. player'[p].gain = gain /\ credited'[u] = more
    BY <1>4, <1>5, <1>10 DEF BadgeInv, TableInv
  <2> HIDE DEF Late, Worth
  <2> QED BY <1>8, <1>9, <2>3, <2>4 DEF OneDealMore
<1>14. \A w \in Fans : Moves(w)
  <2> SUFFICES ASSUME NEW w \in Fans, w # u PROVE Fewer(w)
    BY <1>2, <1>13 DEF Moves
  <2>1. Owing(w)' \subseteq Owing(w) /\ \A q \in Owing(w)' : player'[q].gain = player[q].gain
    BY <1>4, <1>5 DEF Owing
  <2>2. credited'[w] = credited[w]
    BY <1>10 DEF BadgeInv, TableInv
  <2> QED BY <1>12, <2>1, <2>2, OwedLess DEF BadgeInv
<1>15. ReadInv(p)'
  BY <1>4, <1>5 DEF ReadInv
<1>16. RowsInv'
  BY <1>5, <1>7, <1>11, <1>12, <1>14, <1>15, RowsStay DEF BadgeInv
<1>17. DeservedInv'
  BY <1>7, <1>11, <1>12, <1>14, DeservedStays DEF BadgeInv
<1>18. \A q \in Players, w \in Fans, b \in AllBadges : WillGive(q, w, b) => WillGive(q, w, b)'
  BY <1>5, <1>6, RestingRow DEF WillGive, AtPlay
<1>19. GivenInv'
  BY <1>7, <1>18, GivenStays DEF BadgeInv
<1> QED BY <1>11, <1>12, <1>16, <1>17, <1>19 DEF BadgeInv

LEMMA WritesRow ==
    ASSUME BadgeInv, NEW p \in Players, WriteStreak(p)
    PROVE  BadgeInv'
<1>1. PICK k \in PlayerRow : k = player[p]
  BY DEF BadgeInv, PlayerInv
<1>2. /\ k.pc = "write" /\ k.fan \in Fans /\ k.due = {} /\ k.gain \in Gains
      /\ k # AtRest /\ k.seen \in StreakRow /\ k.gain \in Nat
  BY <1>1, RestingRow DEF BadgeInv, PlayerInv, WriteStreak, PlaysAt, AtPlay, PlayerRow
<1>3. PICK gap \in BOOLEAN :
         userStreaks' = [userStreaks EXCEPT ![k.fan] = WithDeal(k.seen, k.gain, gap)]
  BY <1>1 DEF WriteStreak
<1>4. PICK row \in StreakRow : row = k.seen
  BY <1>2
<1>5. PICK gain \in Nat : gain = k.gain
  BY <1>2
<1>6. PICK more \in StreakRow :
         /\ more = WithDeal(row, gain, gap)
         /\ more.deals = row.deals + 1 /\ more.savings = row.savings + gain
         /\ more.current = IF gap THEN 1 ELSE row.current + 1
  BY DealRow
<1>7. userStreaks' = [userStreaks EXCEPT ![k.fan] = more]
  BY <1>3, <1>4, <1>5, <1>6
<1>8. PICK new : new = [k EXCEPT !.pc = "again", !.seen = NoStreakRow]
  OBVIOUS
<1>9. /\ new \in PlayerRow /\ new.pc = "again"
      /\ new.fan = k.fan /\ new.gain = k.gain /\ new.due = {}
  BY <1>2, <1>8, RestingRow DEF PlayerRow, AtPlay
<1>10. player' = [player EXCEPT ![p] = new]
  BY <1>1, <1>8 DEF WriteStreak
<1>11. \A q \in Players : player'[q] = IF q = p THEN new ELSE player[q]
  BY <1>10 DEF BadgeInv, PlayerInv
<1>12. /\ userBadges' = userBadges /\ games' = games
       /\ credited' = credited /\ slighted' = slighted
  BY DEF WriteStreak
<1>13. TableInv'
  BY <1>2, <1>7, <1>12 DEF BadgeInv, TableInv
<1>14. PlayerInv'
  BY <1>2, <1>9, <1>10, <1>11 DEF BadgeInv, PlayerInv, AtPlay
<1>15. \A u \in Fans : Moves(u)
  BY <1>9, <1>11, <1>12, <1>14, NoneJoins DEF BadgeInv
<1>16. Behind(more, k.fan)'
  <2>1. PICK u \in Fans : u = k.fan
    BY <1>2
  <2>2. p \in Owing(u) /\ Owing(u)' = Owing(u) \ {p}
    BY <1>1, <1>2, <1>9, <1>11, <2>1 DEF Owing
  <2>3. \A q \in Owing(u)' : player'[q].gain = player[q].gain
    BY <1>9, <1>11 DEF Owing
  <2>4. /\ Late(u) = Late(u)' + 1 /\ Worth(u) = Worth(u)' + gain
        /\ Late(u)' \in Nat /\ Worth(u)' \in Nat
    BY <1>1, <1>5, <2>2, <2>3, OwedLeaves DEF BadgeInv
  <2>5. Behind(row, u)
    BY <1>1, <1>2, <1>4, <2>1 DEF BadgeInv, RowsInv, ReadInv
  <2>6. /\ row.deals \in Nat /\ row.savings \in Nat /\ row.current \in Nat
        /\ credited[u].deals \in Nat /\ credited[u].current \in Nat
        /\ credited[u].savings \in Nat
    BY DEF BadgeInv, TableInv, StreakRow
  <2>7. /\ more.deals = row.deals + 1 /\ more.savings = row.savings + gain
        /\ more.current <= row.current + 1 /\ more.current \in Nat
    BY <1>6, <2>6
  <2> HIDE DEF Late, Worth
  <2>8. PICK l \in Nat, w \in Nat : l = Late(u)' /\ w = Worth(u)'
    BY <2>4
  <2>9. PICK c \in StreakRow : c = credited[u] /\ c = credited'[u]
    BY <1>12 DEF BadgeInv, TableInv
  <2>10. Late(u) = l + 1 /\ Worth(u) = w + gain
    BY <2>4, <2>8
  <2>11. /\ row.deals + (l + 1) <= c.deals /\ row.current + (l + 1) <= c.current
         /\ row.savings + (w + gain) <= c.savings
         /\ row.deals + (l + 1) = c.deals => row.savings + (w + gain) = c.savings
    BY <2>5, <2>9, <2>10 DEF Behind
  <2>12. /\ more.deals + l <= c.deals /\ more.current + l <= c.current
         /\ more.savings + w <= c.savings
         /\ more.deals + l = c.deals => more.savings + w = c.savings
    BY <2>6, <2>7, <2>9, <2>11
  <2>13. Behind(more, u)'
    BY <2>8, <2>9, <2>12 DEF Behind
  <2> QED BY <2>1, <2>13
<1>17. ReadInv(p)'
  BY <1>9, <1>11 DEF ReadInv
<1>18. \A u \in Fans : userStreaks'[u] = userStreaks[u] \/ Behind(userStreaks[u], u)'
  BY <1>2, <1>7, <1>16 DEF BadgeInv, TableInv
<1>19. RowsInv'
  BY <1>11, <1>13, <1>14, <1>15, <1>17, <1>18, RowsStay DEF BadgeInv
<1>20. DeservedInv'
  BY <1>12, <1>13, <1>14, <1>15, DeservedStays DEF BadgeInv
<1>21. \A q \in Players, w \in Fans, b \in AllBadges : WillGive(q, w, b) => WillGive(q, w, b)'
  BY <1>1, <1>2, <1>11 DEF WillGive
<1>22. \A b \in AllBadges : WillGive(p, k.fan, b)'
  BY <1>9, <1>11 DEF WillGive
<1>23. \A u \in Fans \ slighted' :
          \/ userStreaks'[u] = userStreaks[u]
          \/ \E q \in Players : \A b \in AllBadges : WillGive(q, u, b)'
  BY <1>7, <1>22 DEF BadgeInv, TableInv
<1>24. GivenInv'
  BY <1>12, <1>21, <1>23, GivenStays DEF BadgeInv
<1> QED BY <1>13, <1>14, <1>19, <1>20, <1>24 DEF BadgeInv

LEMMA BadgeStep == BadgeInv /\ [BadgeNext]_badgeVars => BadgeInv'
<1> SUFFICES ASSUME BadgeInv, [BadgeNext]_badgeVars PROVE BadgeInv'
  OBVIOUS
<1>1. CASE UNCHANGED badgeVars
  <2>1. /\ userStreaks' = userStreaks /\ userBadges' = userBadges /\ player' = player
        /\ games' = games /\ credited' = credited /\ slighted' = slighted
    BY <1>1 DEF badgeVars
  <2>2. TableInv' /\ PlayerInv' /\ DeservedInv'
    BY <2>1 DEF BadgeInv, TableInv, PlayerInv, DeservedInv
  <2>3. RowsInv'
    BY <2>1 DEF BadgeInv, RowsInv, ReadInv, Behind, Below, Late, Worth, Owing
  <2>4. GivenInv'
    BY <2>1 DEF BadgeInv, GivenInv, WillGive
  <2> QED BY <2>2, <2>3, <2>4 DEF BadgeInv
<1>2. ASSUME NEW p \in Players,
             \/ RecordNegotiation(p) \/ GetStreak(p) \/ WriteStreak(p)
             \/ GetStreakAgain(p) \/ GetUserBadges(p) \/ AwardBadge(p) \/ BadgesDone(p)
             \/ RecordingFails(p) \/ CheckPanics(p)
      PROVE  BadgeInv'
  BY <1>2, RecordsDeal, ReadsStreak, WritesRow, ReadsAgain, LooksAtBadges, Awards,
     DoneAwarding, FailsToRecord, Panics
<1> QED BY <1>1, <1>2 DEF BadgeNext

\* A settled user whose row lacks no deal has all its savings in it.
LEMMA RowIsWhole ==
    ASSUME BadgeInv, NEW u \in Fans, Settled(u), userStreaks[u].deals = credited[u].deals
    PROVE  userStreaks[u].savings = credited[u].savings
<1>1. Owing(u) = {}
  BY DEF Settled, Owing
<1>2. Late(u) = 0 /\ Worth(u) = 0
  BY <1>1, OwingFinite DEF BadgeInv
<1>3. PICK row \in StreakRow : row = userStreaks[u]
  BY DEF BadgeInv, TableInv
<1>4. Behind(row, u) /\ row.deals \in Nat /\ row.savings \in Nat
  BY <1>3 DEF BadgeInv, RowsInv, StreakRow
<1>5. row.deals = credited[u].deals
  BY <1>3
<1> QED BY <1>2, <1>3, <1>4, <1>5 DEF Behind

LEMMA AllGiven ==
    ASSUME BadgeInv, NEW u \in Fans, Settled(u)
    PROVE  Conditions(userStreaks[u]) \subseteq GetBadges(u)
<1>1. \A b \in AllBadges, p \in Players : ~WillGive(p, u, b)
  BY DEF Settled, WillGive
<1>2. Conditions(userStreaks[u]) \subseteq AllBadges /\ u \in Fans \ slighted
  BY DEF Conditions, Settled
<1> QED BY <1>1, <1>2 DEF BadgeInv, GivenInv, GetBadges

LEMMA BadgesHold == BadgeInv => BadgeTypeOK /\ BadgesAreEarned
<1> SUFFICES ASSUME BadgeInv PROVE BadgeTypeOK /\ BadgesAreEarned
  OBVIOUS
<1>1. BadgeTypeOK
  BY DEF BadgeInv, TableInv, PlayerInv, BadgeTypeOK, PlaysAt, AtPlay
<1>2. \A u \in Fans : \A b \in GetBadges(u) :
         b \in Conditions(credited[u]) \/ (b = "streak_5" /\ Earlier[u].longest >= 5)
  BY DEF BadgeInv, DeservedInv, GetBadges
<1>3. ASSUME \A u \in Fans : Settled(u) /\ userStreaks[u].deals = credited[u].deals,
             NEW board \in handleSavingsLeaderboard(1), NEW o \in Fans, NEW leader \in Fans,
             leader \in board, "thousand_club" \in GetBadges(o)
      PROVE  "thousand_club" \in GetBadges(leader)
  <2>1. \A u \in Fans : userStreaks[u].savings = credited[u].savings
    BY <1>3, RowIsWhole
  <2>2. /\ credited[o].savings >= 1000 /\ "thousand_club" \in AllBadges
        /\ credited[o].savings \in Nat
    BY <1>2, <1>3 DEF Conditions, BadgeInv, TableInv, StreakRow
  <2>3. userStreaks[o].savings >= 1000 /\ userStreaks[o] \in StreakRow
        /\ userStreaks[leader] \in StreakRow
    BY <2>1, <2>2 DEF BadgeInv, TableInv
  <2>4. userStreaks[o] # NoStreakRow
    BY <2>3 DEF NoStreakRow
  <2>5. PICK ranked : ranked = {u \in Fans : userStreaks[u] # NoStreakRow}
    OBVIOUS
  <2>6. /\ board \subseteq ranked /\ Cardinality(board) <= 1
        /\ \A u \in board, w \in ranked \ board : userStreaks[u].savings >= userStreaks[w].savings
    BY <1>3, <2>5 DEF handleSavingsLeaderboard, GetLeaderboard
  <2>7. o \in board => o = leader
    <3>1. IsFiniteSet(board)
      BY <2>5, <2>6, BadgesAssumption, FS_Subset
    <3>2. ~({leader, o} \subseteq board /\ leader # o)
      <4> SUFFICES ASSUME {leader, o} \subseteq board, leader # o PROVE FALSE
        OBVIOUS
      <4>1. Cardinality({leader, o}) <= Cardinality(board) /\ IsFiniteSet({leader, o})
        BY <3>1, FS_Subset
      <4>2. Cardinality({leader}) = 1 /\ IsFiniteSet({leader})
        BY FS_Singleton
      <4>3. Cardinality({leader} \cup {o}) = 2
        BY <4>2, FS_AddElement
      <4>4. {leader} \cup {o} = {leader, o} /\ Cardinality(board) \in Nat
        BY <3>1, FS_CardinalityType
      <4>5. Cardinality({leader, o}) = 2
        BY <4>3, <4>4
      <4>6. Cardinality(board) <= 1
        BY <2>6
      <4> QED BY <4>1, <4>4, <4>5, <4>6
    <3> QED BY <1>3, <3>2
  <2>8. userStreaks[leader].savings >= 1000
    <3>1. o \in ranked
      BY <2>4, <2>5
    <3>2. userStreaks[leader].savings \in Nat /\ userStreaks[o].savings \in Nat
      BY <2>3 DEF StreakRow
    <3>3. userStreaks[leader].savings >= userStreaks[o].savings
      BY <1>3, <2>6, <2>7, <3>1, <3>2
    <3> QED BY <2>3, <3>2, <3>3
  <2>9. "thousand_club" \in Conditions(userStreaks[leader])
    BY <2>2, <2>8 DEF Conditions
  <2> QED BY <1>3, <2>9, AllGiven
<1> QED BY <1>1, <1>2, <1>3, AllGiven DEF BadgesAreEarned

(***************************************************************************)
(* BadgesAreEarned is an invariant: a badge stands for deals that were     *)
(* recorded, a user whose calls have gone through has every badge of its   *)
(* row, and the leader of the board has the badges for savings of all.     *)
(* internal/gamification/engine.go, for all users, goroutines and gains.   *)
(***************************************************************************)
THEOREM BadgesAreEarnedAlways == BadgeSpec => [](BadgeTypeOK /\ BadgesAreEarned)
<1>1. BadgeInit => BadgeInv
  BY BadgesInit
<1>2. BadgeInv /\ [BadgeNext]_badgeVars => BadgeInv'
  BY BadgeStep
<1>3. BadgeInv => BadgeTypeOK /\ BadgesAreEarned
  BY BadgesHold
<1> QED BY <1>1, <1>2, <1>3, PTL DEF BadgeSpec

-----------------------------------------------------------------------------
(* The desks together.                                                     *)

\* A behaviour of the desks starts as one of each of them.
LEMMA EachStarts ==
    MCInit => /\ MarketInit /\ SellInit /\ RenewalInit /\ ClaimInit /\ ApprovalInit
              /\ StrategyInit /\ GroupInit /\ LifeInit /\ CliInit /\ OperatorInit
              /\ HealthInit /\ BadgeInit /\ LearningInit
BY DEF MCInit

LEMMA MarketStepOfDesks == [MCNext]_mcVars => [MarketNext]_marketVars
<1>1. MCNext /\ desk = "seats" => MarketNext
  BY DEF MCNext
<1>2. MCNext /\ desk # "seats" => UNCHANGED marketVars
  BY DEF MCNext, OnlyAt
<1>3. UNCHANGED mcVars => UNCHANGED marketVars
  BY DEF mcVars
<1> QED BY <1>1, <1>2, <1>3

LEMMA SellStepOfDesks == [MCNext]_mcVars => [SellNext]_sellVars
<1>1. MCNext /\ desk = "items" => SellNext
  BY DEF MCNext
<1>2. MCNext /\ desk # "items" => UNCHANGED sellVars
  BY DEF MCNext, OnlyAt
<1>3. UNCHANGED mcVars => UNCHANGED sellVars
  BY DEF mcVars
<1> QED BY <1>1, <1>2, <1>3

LEMMA RenewalStepOfDesks == [MCNext]_mcVars => [RenewalNext]_renewalVars
<1>1. MCNext /\ desk = "renewals" => RenewalNext
  BY DEF MCNext
<1>2. MCNext /\ desk # "renewals" => UNCHANGED renewalVars
  BY DEF MCNext, OnlyAt
<1>3. UNCHANGED mcVars => UNCHANGED renewalVars
  BY DEF mcVars
<1> QED BY <1>1, <1>2, <1>3

LEMMA ClaimStepOfDesks == [MCNext]_mcVars => [ClaimNext]_claimVars
<1>1. MCNext /\ desk = "claims" => ClaimNext
  BY DEF MCNext
<1>2. MCNext /\ desk # "claims" => UNCHANGED claimVars
  BY DEF MCNext, OnlyAt
<1>3. UNCHANGED mcVars => UNCHANGED claimVars
  BY DEF mcVars
<1> QED BY <1>1, <1>2, <1>3

LEMMA ApprovalStepOfDesks == [MCNext]_mcVars => [ApprovalNext]_approvalVars
<1>1. MCNext /\ desk = "approvals" => ApprovalNext
  BY DEF MCNext
<1>2. MCNext /\ desk # "approvals" => UNCHANGED approvalVars
  BY DEF MCNext, OnlyAt
<1>3. UNCHANGED mcVars => UNCHANGED approvalVars
  BY DEF mcVars
<1> QED BY <1>1, <1>2, <1>3

LEMMA StrategyStepOfDesks == [MCNext]_mcVars => [StrategyNext]_stratVars
<1>1. MCNext /\ desk = "strategies" => StrategyNext
  BY DEF MCNext
<1>2. MCNext /\ desk # "strategies" => UNCHANGED stratVars
  BY DEF MCNext, OnlyAt
<1>3. UNCHANGED mcVars => UNCHANGED stratVars
  BY DEF mcVars
<1> QED BY <1>1, <1>2, <1>3

LEMMA GroupStepOfDesks == [MCNext]_mcVars => [GroupNext]_groupVars
<1>1. MCNext /\ desk = "groups" => GroupNext
  BY DEF MCNext
<1>2. MCNext /\ desk # "groups" => UNCHANGED groupVars
  BY DEF MCNext, OnlyAt
<1>3. UNCHANGED mcVars => UNCHANGED groupVars
  BY DEF mcVars
<1> QED BY <1>1, <1>2, <1>3

LEMMA LifeStepOfDesks == [MCNext]_mcVars => [LifeNext]_lifeVars
<1>1. MCNext /\ desk = "server" => LifeNext
  BY DEF MCNext
<1>2. MCNext /\ desk # "server" => UNCHANGED lifeVars
  BY DEF MCNext, OnlyAt
<1>3. UNCHANGED mcVars => UNCHANGED lifeVars
  BY DEF mcVars
<1> QED BY <1>1, <1>2, <1>3

LEMMA CliStepOfDesks == [MCNext]_mcVars => [CliNext]_cliVars
<1>1. MCNext /\ desk = "commands" => CliNext
  BY DEF MCNext
<1>2. MCNext /\ desk # "commands" => UNCHANGED cliVars
  BY DEF MCNext, OnlyAt
<1>3. UNCHANGED mcVars => UNCHANGED cliVars
  BY DEF mcVars
<1> QED BY <1>1, <1>2, <1>3

LEMMA HealthStepOfDesks == [MCNext]_mcVars => [HealthNext]_healthVars
<1>1. MCNext /\ desk = "health" => HealthNext
  BY DEF MCNext
<1>2. MCNext /\ desk # "health" => UNCHANGED healthVars
  BY DEF MCNext, OnlyAt
<1>3. UNCHANGED mcVars => UNCHANGED healthVars
  BY DEF mcVars
<1> QED BY <1>1, <1>2, <1>3

LEMMA BadgeStepOfDesks == [MCNext]_mcVars => [BadgeNext]_badgeVars
<1>1. MCNext /\ desk = "badges" => BadgeNext
  BY DEF MCNext
<1>2. MCNext /\ desk # "badges" => UNCHANGED badgeVars
  BY DEF MCNext, OnlyAt
<1>3. UNCHANGED mcVars => UNCHANGED badgeVars
  BY DEF mcVars
<1> QED BY <1>1, <1>2, <1>3

LEMMA LearningStepOfDesks == [MCNext]_mcVars => [LearningNext]_learningVars
<1>1. MCNext /\ desk = "learning" => LearningNext
  BY DEF MCNext
<1>2. MCNext /\ desk # "learning" => UNCHANGED learningVars
  BY DEF MCNext, OnlyAt
<1>3. UNCHANGED mcVars => UNCHANGED learningVars
  BY DEF mcVars
<1> QED BY <1>1, <1>2, <1>3

LEMMA OperatorStepOfDesks == [MCNext]_mcVars => [OperatorNext]_operatorVars
<1>1. MCNext /\ desk = "keys" => OperatorNext
  BY DEF MCNext, OperatorNext
<1>2. MCNext /\ desk = "addresses" => OperatorNext
  BY DEF MCNext, OperatorNext
<1>3. MCNext /\ desk = "config" => OperatorNext
  BY DEF MCNext, OperatorNext
<1>4. MCNext /\ desk \notin {"keys", "addresses", "config"} => UNCHANGED operatorVars
  BY DEF MCNext
<1>5. UNCHANGED mcVars => UNCHANGED operatorVars
  BY DEF mcVars
<1> QED BY <1>1, <1>2, <1>3, <1>4, <1>5

(***************************************************************************)
(* MCTypeOK is an invariant of the desks together: the tables of all of    *)
(* them keep their types, and so do the calls, whichever desk a behaviour  *)
(* is about, for any number of rows, goroutines and calls.                 *)
(***************************************************************************)
THEOREM DesksTypeCorrect == MCSpec => []MCTypeOK
<1>1. MCSpec => [](MarketTypeOK /\ SellTypeOK)
  BY EachStarts, MarketStepOfDesks, SellStepOfDesks, MarketplaceTypeCorrect,
     SellListingsTypeCorrect, PTL DEF MCSpec, MarketSpec, SellSpec
<1>2. MCSpec => [](RenewalTypeOK /\ ClaimTypeOK /\ ApprovalTypeOK)
  BY EachStarts, RenewalStepOfDesks, ClaimStepOfDesks, ApprovalStepOfDesks,
     RenewalsTypeCorrect, ClaimsTypeCorrect, ApprovalsTypeCorrect, PTL
     DEF MCSpec, RenewalSpec, ClaimSpec, ApprovalSpec
<1>3. MCSpec => [](StrategyTypeOK /\ GroupTypeOK /\ HealthTypeOK)
  BY EachStarts, StrategyStepOfDesks, GroupStepOfDesks, HealthStepOfDesks,
     StrategiesTypeCorrect, GroupsTypeCorrect, HealthTypeCorrect, PTL
     DEF MCSpec, StrategySpec, GroupSpec, HealthSpec
<1>4. MCSpec => [](LifeTypeOK /\ CliTypeOK /\ OperatorTypeOK)
  BY EachStarts, LifeStepOfDesks, CliStepOfDesks, OperatorStepOfDesks,
     AnswersAreTrueAlways, CliHonestAlways, OperatorHonestAlways, PTL
     DEF MCSpec, LifeSpec, CliSpec, OperatorSpec
<1>5. MCSpec => [](BadgeTypeOK /\ LearningTypeOK)
  BY EachStarts, BadgeStepOfDesks, LearningStepOfDesks, BadgesAreEarnedAlways,
     AdviceIsDrawnFromDealsAlways, PTL DEF MCSpec, BadgeSpec, LearningSpec
<1> QED BY <1>1, <1>2, <1>3, <1>4, <1>5, PTL DEF MCTypeOK

(***************************************************************************)
(* RepliesAreHonest is an invariant of the desks together: what a call, a  *)
(* command or a tool answered is so, from the start of a server to its     *)
(* end and the next start, whatever failed in between.                     *)
(***************************************************************************)
THEOREM RepliesAreHonestAlways == MCSpec => []RepliesAreHonest
<1>1. MCSpec => [](AnswersAreTrue /\ ExitIsHonest)
  BY EachStarts, LifeStepOfDesks, CliStepOfDesks, AnswersAreTrueAlways, CliHonestAlways,
     PTL DEF MCSpec, LifeSpec, CliSpec
<1>2. MCSpec => [](OneActiveKey /\ AllowedAsAnswered /\ ImportedAsAnswered)
  BY EachStarts, OperatorStepOfDesks, OperatorHonestAlways, PTL DEF MCSpec, OperatorSpec
<1>3. MCSpec => [](BadgesAreEarned /\ AdviceIsDrawnFromDeals)
  BY EachStarts, BadgeStepOfDesks, LearningStepOfDesks, BadgesAreEarnedAlways,
     AdviceIsDrawnFromDealsAlways, PTL DEF MCSpec, BadgeSpec, LearningSpec
<1> QED BY <1>1, <1>2, <1>3, PTL DEF RepliesAreHonest

(***************************************************************************)
(* Every other invariant of the run MCDesks holds of its specification,    *)
(* since it holds of the desk it speaks about: sales, renewals, payouts,   *)
(* verdicts, votes, buying groups, the price list and the health scores.   *)
(***************************************************************************)
THEOREM DesksKeepTheirPromises ==
    MCSpec => [](/\ ExtraSalesAreRetries /\ StatusIsBacked /\ SaleIsAgreed
                 /\ CompletedExactlyWhenSold
                 /\ SoldOnceForGood /\ SoldToABid /\ AuctionIsHonoured
                 /\ RenewedOnce /\ RemindersAgree /\ PaidOnce /\ ReportCoversPayouts
                 /\ VerdictStands /\ EveryVoteCounts /\ TogetherIsCheaper
                 /\ PricesAsWritten /\ ScoreIsCurrent)
<1>1. MCSpec => [](/\ ExtraSalesAreRetries /\ StatusIsBacked /\ SaleIsAgreed
                   /\ CompletedExactlyWhenSold)
  BY EachStarts, MarketStepOfDesks, ExtraSalesAreRetriesAlways, StatusIsBackedAlways,
     SaleIsAgreedAlways, CompletedExactlyWhenSoldAlways, PTL DEF MCSpec, MarketSpec
<1>2. MCSpec => [](SoldOnceForGood /\ SoldToABid /\ AuctionIsHonoured)
  BY EachStarts, SellStepOfDesks, SoldOnceForGoodAlways, SoldToABidAlways,
     AuctionIsHonouredAlways, PTL DEF MCSpec, SellSpec
<1>3. MCSpec => [](RenewedOnce /\ RemindersAgree)
  BY EachStarts, RenewalStepOfDesks, RenewedOnceAlways, RemindersAgreeAlways, PTL
     DEF MCSpec, RenewalSpec
<1>4. MCSpec => [](PaidOnce /\ ReportCoversPayouts)
  BY EachStarts, ClaimStepOfDesks, PaidOnceAlways, ReportCoversPayoutsAlways, PTL
     DEF MCSpec, ClaimSpec
<1>5. MCSpec => [](VerdictStands /\ EveryVoteCounts)
  BY EachStarts, ApprovalStepOfDesks, StrategyStepOfDesks, VerdictStandsAlways,
     EveryVoteCountsAlways, PTL DEF MCSpec, ApprovalSpec, StrategySpec
<1>6. MCSpec => [](TogetherIsCheaper /\ PricesAsWritten /\ ScoreIsCurrent)
  BY EachStarts, GroupStepOfDesks, LifeStepOfDesks, HealthStepOfDesks,
     TogetherIsCheaperAlways, PricesAsWrittenAlways, ScoreIsCurrentAlways, PTL
     DEF MCSpec, GroupSpec, LifeSpec, HealthSpec
<1> QED BY <1>1, <1>2, <1>3, <1>4, <1>5, <1>6, PTL
=============================================================================
