----------------------------- MODULE PriceList ------------------------------
(***************************************************************************)
(* The price list (internal/pricing/db.go): a table of vendors, known by   *)
(* rowids that SQLite hands out, and a table of prices that point at them. *)
(* It is filled by a CSV file read at start-up and by import_data, and     *)
(* read by every quote and every new session.                              *)
(*                                                                         *)
(* A file is a sequence of rows that its author wrote under the columns of *)
(* a layout; a row is a record with one field for each column.             *)
(***************************************************************************)
EXTENDS Integers, FiniteSets, SequencesExt

CONSTANTS Vendors,       \* vendor names
          Skus,          \* texts found in the sku and description columns
          Files          \* the CSV files: records with a layout and rows

VARIABLES
    vendors,   \* the id of each vendor, 0 before it has a row
    prices,    \* the rows of pricing_snapshot
    rowids,    \* the last id AUTOINCREMENT gave out, in each of the tables
    meant,     \* history: the list price last written for a vendor's SKU, 0 if none
    guessed    \* history: a file was read in columns it was not written in, or
               \* a vendor in it was given the id of another row

priceVars == <<vendors, prices, rowids, meant, guessed>>

\* The columns that SeedFromCSV reads, those of the file the repository ships,
\* and those of the file of dated prices that seedSnapshotsFromCSV reads.
Documented == <<"vendor", "category", "sku", "description", "list", "min",
                "max", "typical", "unit">>
Shipped    == <<"vendor", "sku", "description", "list", "min", "max",
                "typical", "unit", "category">>
Dated      == <<"vendor", "sku", "price", "list", "date">>

\* What the author of a file writes into a row.
FileRow == [vendor : Vendors, category : STRING, sku : Skus, description : Skus,
            list : Int, min : Int, max : Int, typical : Int, price : Int,
            unit : STRING, date : STRING]

ASSUME PriceAssumption ==
    Files \subseteq [layout : {Documented, Shipped, Dated}, rows : Seq(FileRow)]

\* strconv.ParseFloat with its error ignored: what is no number reads as 0.
Amount(row, column) ==
    IF column \in {"list", "min", "max", "typical", "price"} THEN row[column] ELSE 0

PriceRow == [id : Nat, vendor : Nat, sku : Skus, list : Int, typical : Int]

PriceTypeOK ==
    /\ vendors \in [Vendors -> Nat]
    /\ prices \subseteq PriceRow
    /\ rowids \in [{"vendors", "prices"} -> Nat]
    /\ meant \in [Vendors \X Skus -> Int]
    /\ guessed \in BOOLEAN

PriceInit ==
    /\ vendors = [v \in Vendors |-> 0]
    /\ prices = {}
    /\ rowids = [t \in {"vendors", "prices"} |-> 0]
    /\ meant = [p \in Vendors \X Skus |-> 0]
    /\ guessed = FALSE

-----------------------------------------------------------------------------
(***************************************************************************)
(* The statements.  `t' is the state of the tables.                        *)
(***************************************************************************)

Tables == [vendors |-> vendors, prices |-> prices, rowids |-> rowids]

\* INSERT OR IGNORE INTO vendors: an insert that is ignored uses up an id too.
InsertVendor(t, v) ==
    LET id == t.rowids["vendors"] + 1
    IN  [t EXCEPT !.rowids["vendors"] = id,
                  !.vendors[v] = IF @ = 0 THEN id ELSE @]

\* INSERT ... ON CONFLICT(vendor_id, sku) DO UPDATE.
UpsertPrice(t, vendor, sku, list, typical) ==
    LET id   == t.rowids["prices"] + 1
        old  == {p \in t.prices : p.vendor = vendor /\ p.sku = sku}
        row  == [id |-> IF old = {} THEN id ELSE (CHOOSE p \in old : TRUE).id,
                 vendor |-> vendor, sku |-> sku, list |-> list, typical |-> typical]
    IN  [t EXCEPT !.rowids["prices"] = id, !.prices = (@ \ old) \cup {row}]

\* The rows of the SELECT of GetPricingByVendorSKU, for a query with a SKU.
PricesOf(t, vendor, sku) ==
    {p \in t.prices : /\ p.vendor = vendor /\ p.sku = sku
                      /\ \E v \in Vendors : t.vendors[v] = vendor}

-----------------------------------------------------------------------------
(***************************************************************************)
(* Store.SeedFromCSV: one transaction on a connection that has inserted    *)
(* nothing yet.  LastInsertId is the connection's last successful insert   *)
(* into any table; only where it is 0 is the vendor looked up.             *)
(***************************************************************************)

\* One row of the file.  `last' is what LastInsertId returns, `cache' the
\* vendorCache, `lost' the vendors that got the id of another row.
SeedRow(s, layout, row) ==
    LET v     == row[layout[1]]
        sku   == row[layout[3]]
        found == IF s.cache[v] = 0 THEN InsertVendor(s.t, v) ELSE s.t
        last  == IF found.vendors # s.t.vendors THEN found.vendors[v] ELSE s.last
        id    == IF s.cache[v] # 0 THEN s.cache[v]
                 ELSE IF last # 0 THEN last ELSE found.vendors[v]
        priced == UpsertPrice(found, id, sku, Amount(row, layout[5]),
                              Amount(row, layout[8]))
        new   == {p \in priced.prices : \A q \in found.prices : q.id # p.id}
    IN  [t |-> priced,
         last |-> IF new = {} THEN last ELSE (CHOOSE p \in new : TRUE).id,
         cache |-> [s.cache EXCEPT ![v] = id],
         lost |-> IF id # found.vendors[v] THEN s.lost \cup {v} ELSE s.lost]

\* Rows of fewer than nine fields are skipped.
SeedRows(file) ==
    FoldLeft(LAMBDA s, row : IF Len(file.layout) < 9 THEN s
                             ELSE SeedRow(s, file.layout, row),
             [t |-> Tables, last |-> 0, cache |-> [v \in Vendors |-> 0], lost |-> {}],
             file.rows)

\* What the rows of a file say, to one who reads the names of its columns.
SaidBy(file) ==
    FoldLeft(LAMBDA m, row : [m EXCEPT ![<<row.vendor, row.sku>>] = row.list],
             meant, file.rows)

SeedFromCSV(file) ==
    LET s == SeedRows(file)
    IN  /\ vendors' = s.t.vendors
        /\ prices' = s.t.prices
        /\ rowids' = s.t.rowids
        /\ meant' = IF Len(file.layout) < 9 THEN meant ELSE SaidBy(file)
        /\ guessed' = (\/ guessed \/ s.lost # {}
                       \/ Len(file.layout) >= 9 /\ file.layout # Documented)

\* seedSnapshotsFromCSV: the rows whose fifth field is a date go to
\* price_snapshots, at every start.
SnapshotsOf(file) == IF file.layout[5] = "date" THEN Len(file.rows) ELSE 0

-----------------------------------------------------------------------------
(***************************************************************************)
(* The two statements of importPricing for one record: the second one when *)
(* GetVendorID found nothing, the upsert with the id that was found.       *)
(***************************************************************************)

AddVendor(v) ==
    LET t == InsertVendor(Tables, v)
    IN  /\ vendors' = t.vendors /\ rowids' = t.rowids
        /\ UNCHANGED <<prices, meant, guessed>>

ImportPrice(id, rec) ==
    LET t == UpsertPrice(Tables, id, rec.sku, rec.list, 0)
    IN  /\ prices' = t.prices /\ rowids' = t.rowids
        /\ meant' = [meant EXCEPT ![<<rec.vendor, rec.sku>>] = rec.list]
        /\ UNCHANGED <<vendors, guessed>>

\* parsePricingJSON: the records it lets through.
Valid(rec) == rec.list > 0

Parsed(recs) ==
    FoldLeft(LAMBDA kept, rec : IF Valid(rec) THEN Append(kept, rec) ELSE kept, <<>>, recs)

-----------------------------------------------------------------------------

\* The list price quoted for a vendor's SKU, 0 where there is none.
Quoted(v, sku) ==
    LET found == PricesOf(Tables, vendors[v], sku)
    IN  IF vendors[v] = 0 \/ found = {} THEN 0 ELSE (CHOOSE p \in found : TRUE).list

\* Through ids, cache and upserts the two tables are one price list: whoever
\* wrote a price last, in whatever order new vendors and prices were written,
\* a quote for the vendor and the SKU is that price and no other vendor's.  It
\* fails where the code itself guesses (see `guessed').
QuotedAsWritten ==
    guessed \/ \A v \in Vendors, sku \in Skus : Quoted(v, sku) = meant[<<v, sku>>]
=============================================================================
