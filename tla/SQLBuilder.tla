----------------------------- MODULE SQLBuilder -----------------------------
(***************************************************************************)
(* What the statements of go/sql/builder.go mean to the server: the range  *)
(* of keys a chunk is, the end of the next chunk, and the rows the DELETE, *)
(* INSERT and UPDATE made of a binlog event hit and write.                 *)
(*                                                                         *)
(* A row is a function from column names to values, a table a set of rows. *)
(* The values are small integers; what an integer stands for depends on the *)
(* column's type, and the conversions between types are modelled by what   *)
(* they do to it.  Names, quoting and the text of the statements are left  *)
(* out.                                                                    *)
(***************************************************************************)
EXTENDS TableShape

CONSTANT TimeZone   \* ApplierTimeZone, as hours ahead of UTC

ASSUME TimeZoneAssumption == TimeZone \in Int

KeyOf(row, columns) == [i \in DOMAIN columns |-> row[columns[i]]]

-----------------------------------------------------------------------------
(* Values.                                                                 *)

\* Two bits of an unsigned integer: its row image has them as a signed one.
Modulus == 4
Signed(v) == IF 2 * v >= Modulus THEN v - Modulus ELSE v

\* The members of the two ENUM types, in their order.
Members(type) == IF type = "enum" THEN <<2, 1, 3>> ELSE <<1, 2, 3>>
IsEnum(type) == type \in {"enum", "enum reordered"}
IndexOf(type, v) == CHOOSE i \in 1..3 : Members(type)[i] = v

\* Byte strings of at most two bytes, as their digits to the base 3: no byte, a zero,
\* a one.  BINARY(2) stores two bytes, and its row image is without trailing zeros.
Clipped(v) == CASE v = 4 -> 0 [] v = 7 -> 6 [] OTHER -> v
Padded(v) == CASE v \in {0, 3} -> 4 [] v = 6 -> 7 [] OTHER -> v

\* Texts, and their bytes in a character set: the only character that is not ASCII is
\* another byte in latin1 than in UTF-8, where the one of latin1 is no character.
NonASCII == 3
Garbled == -1
Encoded(charset, v) == IF charset = "utf8mb4" /\ v = NonASCII THEN 7 ELSE v
Decoded(charset, bytes) ==
    CASE charset = "utf8mb4" /\ bytes = 7 -> NonASCII
      [] charset = "utf8mb4" /\ bytes = NonASCII -> Garbled
      [] OTHER -> bytes

\* A stored value as the row image of an event has it.
Binlogged(type, v) ==
    CASE type = "unsigned" -> Signed(v)
      [] IsEnum(type) -> IndexOf(type, v)
      [] type = "binary" -> Clipped(v)
      [] type = "json" -> Encoded("utf8mb4", v)
      [] OTHER -> Encoded(Charset(type), v)

\* An argument of a statement: a number, bytes, or a text in the character set of the
\* connection, UTF-8.
Arg(kind, v) == [kind |-> kind, value |-> v]

\* Mutant: BINARY is sent as the row image has it.
ConvertArgUnpadded(type, charsetConversion, arg) ==
    CASE HasCharset(type) /\ ~IsEnum(type) ->
           IF ~charsetConversion \/ type = "long text" THEN Arg("bytes", arg)
             ELSE Arg("text", Decoded(Charset(type), arg))
      [] type \in {"binary", "varbinary", "json"} -> Arg("bytes", arg)
      [] type = "unsigned" /\ arg < 0 -> Arg("number", arg + Modulus)
      [] OTHER -> Arg("number", arg)

\* Column.convertArg.  Of the character sets here charsetEncodingMap has latin1; without
\* one, VARCHAR is sent as the string that the image has, and TEXT as the bytes.  BINARY
\* gets back the zeros up to the length it has in the original table.
ConvertArg(type, charsetConversion, arg) ==
    CASE HasCharset(type) /\ ~IsEnum(type) ->
           IF ~charsetConversion \/ type = "long text" THEN Arg("bytes", arg)
             ELSE Arg("text", Decoded(Charset(type), arg))
      [] type = "binary" -> Arg("bytes", Padded(arg))
      [] type \in {"varbinary", "json"} -> Arg("bytes", arg)
      [] type = "unsigned" /\ arg < 0 -> Arg("number", arg + Modulus)
      [] OTHER -> Arg("number", arg)

\* INSERT ... SELECT from a column of one type into one of another, in a session
\* with the applier's time zone.
Copied(from, to, v) ==
    CASE from = "datetime" /\ to = "timestamp" -> v - TimeZone
      [] from = "timestamp" /\ to = "datetime" -> v + TimeZone
      [] to = "binary" -> Padded(v)
      [] OTHER -> v

\* An argument, stored in a session in UTC: a number stands for a member of an ENUM by
\* its index, bytes are taken as they are, and are no JSON value.
Stored(from, to, arg) ==
    CASE arg.kind = "bytes" /\ to = "binary" -> Padded(arg.value)
      [] arg.kind = "bytes" /\ to = "json" -> Garbled
      [] arg.kind = "bytes" /\ to \notin {"binary", "json"} -> Decoded(Charset(to), arg.value)
      [] arg.kind = "number" /\ IsEnum(from) /\ IsEnum(to) -> Members(to)[arg.value]
      [] OTHER -> arg.value

\* convert(? using utf8mb4)
Converted(arg) ==
    IF arg.kind = "bytes" THEN Arg("text", Decoded("utf8mb4", arg.value)) ELSE arg

\* What the value token of a shared column makes of its argument
\* (buildColumnsPreparedValues, BuildSetPreparedClause): convert_tz for a DATETIME
\* that becomes a TIMESTAMP, ELT for an ENUM that becomes a text or an ENUM, convert
\* for JSON.  A column that is renamed as well gets none of the former two
\* (inspectOriginalAndGhostTables).
Written(column, mapped, from, to, arg) ==
    CASE column = mapped /\ from = "datetime" /\ to = "timestamp" -> arg.value - TimeZone
      [] column = mapped /\ IsEnum(from) /\ HasCharset(to) -> Members(from)[arg.value]
      [] to = "json" -> Stored(from, to, Converted(arg))
      [] OTHER -> Stored(from, to, arg)

-----------------------------------------------------------------------------
(* Ranges of keys.  A chunk's bounds are read from the table, so that they *)
(* compare with the columns as the columns do with one another: an ENUM, as *)
(* text.                                                                   *)

\* What a column compares by: without regard to case, 2n and 2n + 1 are equal.
Weight(type, v) == IF type = "text ci" THEN v \div 2 ELSE v
\* column = ?  Bytes are compared with bytes, whatever the collation.
Equals(type, v, arg) ==
    CASE arg.kind = "bytes" -> Encoded(Charset(type), v) = arg.value
      [] arg.kind # "bytes" /\ IsEnum(type) -> IndexOf(type, v) = arg.value
      [] OTHER -> v = arg.value

Weights(types, key) == [i \in DOMAIN key |-> Weight(types[i], key[i])]

\* BuildRangeComparison with < and with >, on weights; the other two signs add the
\* equality of all columns.
LessThan(x, y) == \E i \in DOMAIN x : x[i] < y[i] /\ \A j \in 1..(i - 1) : x[j] = y[j]
GreaterThan(x, y) == \E i \in DOMAIN x : x[i] > y[i] /\ \A j \in 1..(i - 1) : x[j] = y[j]

AfterStart(x, start, include) == GreaterThan(x, start) \/ (include /\ x = start)
UpToEnd(x, end) == LessThan(x, end) \/ x = end

\* sameFirstColumnValue: as they are printed.
SameFirstColumnValue(start, end) == start[1] = end[1]

SecondAfter(y, start, include) == y > start \/ (include /\ y = start)

\* Mutant: the part between the two first columns goes up to the last one.
TwoColumnPartsOverlap(x, s, e, same, include) ==
    IF same
      THEN << x[1] = s[1] /\ SecondAfter(x[2], s[2], include) /\ x[2] <= e[2] >>
      ELSE << x[1] = s[1] /\ SecondAfter(x[2], s[2], include),
              x[1] > s[1] /\ x[1] <= e[1],
              x[1] = e[1] /\ x[2] <= e[2] >>

\* buildTwoColumnUnionParts, and the query without UNION when the first column is
\* the same.
TwoColumnParts(x, s, e, same, include) ==
    IF same
      THEN << x[1] = s[1] /\ SecondAfter(x[2], s[2], include) /\ x[2] <= e[2] >>
      ELSE << x[1] = s[1] /\ SecondAfter(x[2], s[2], include),
              x[1] > s[1] /\ x[1] < e[1],
              x[1] = e[1] /\ x[2] <= e[2] >>

\* The parts of the range's UNION ALL that key belongs to.
RangeParts(types, key, start, end, include) ==
    LET x == Weights(types, key)
        s == Weights(types, start)
        e == Weights(types, end)
    IN  IF Len(types) = 2
          THEN TwoColumnParts(x, s, e, SameFirstColumnValue(start, end), include)
          ELSE << AfterStart(x, s, include) /\ UpToEnd(x, e) >>

\* BuildRangeInsertQuery: the keys it selects.
InRange(types, key, start, end, include) ==
    \E i \in DOMAIN RangeParts(types, key, start, end, include) :
        RangeParts(types, key, start, end, include)[i]

\* ORDER BY concat(enum): as text, like the comparisons.
OrderedBefore(types, x, y) == LessThan(Weights(types, x), Weights(types, y))

\* A part's ORDER BY ... LIMIT.
Limited(types, keys, limit) ==
    {x \in keys : Cardinality({y \in keys : OrderedBefore(types, y, x)}) < limit}

\* The n-th entry of the parts taken together.
Nth(types, parts, n) ==
    LET Count(Op(_)) == FoldFunction(LAMBDA part, sum :
                                         sum + Cardinality({y \in part : Op(y)}), 0, parts)
    IN  {x \in UNION Range(parts) :
            /\ Count(LAMBDA y : OrderedBefore(types, y, x)) < n
            /\ n <= Count(LAMBDA y : ~OrderedBefore(types, x, y))}

SelectedParts(types, keys, start, end, include, limit) ==
    LET Part(i) == {x \in keys : RangeParts(types, x, start, end, include)[i]}
    IN  IF Len(types) = 2
          THEN [i \in 1..(IF SameFirstColumnValue(start, end) THEN 1 ELSE 3) |->
                    Limited(types, Part(i), limit)]
          ELSE << Part(1) >>

\* BuildUniqueKeyRangeEndPreparedQueryViaOffset: the row at offset chunkSize - 1.
RangeEndViaOffset(types, keys, start, end, chunkSize, include) ==
    Nth(types, SelectedParts(types, keys, start, end, include, chunkSize), chunkSize)

\* BuildUniqueKeyRangeEndPreparedQueryViaTemptable: the last of chunkSize rows.
RangeEndViaTemptable(types, keys, start, end, chunkSize, include) ==
    LET parts == SelectedParts(types, keys, start, end, include, chunkSize)
        total == FoldFunction(LAMBDA part, sum : sum + Cardinality(part), 0, parts)
    IN  Nth(types, parts, IF total < chunkSize THEN total ELSE chunkSize)

\* buildUniqueKeyMinMaxValuesPreparedQuery.
MinValues(types, keys) == {x \in keys : \A y \in keys : ~OrderedBefore(types, y, x)}
MaxValues(types, keys) == {x \in keys : \A y \in keys : ~OrderedBefore(types, x, y)}

-----------------------------------------------------------------------------
(* The statements made of an event.  m is what the inspection found out:   *)
(* the two tables, the key's columns, and the shared and mapped columns.   *)

\* The row image of an event: the values in the order of the table's columns.
RowImage(table, row) ==
    [i \in DOMAIN table.columns |->
        Binlogged(table.columns[i].type, row[table.columns[i].name])]

Ordinal(table, name) == CHOOSE i \in DOMAIN table.columns : table.columns[i].name = name

ArgOf(m, image, name, charsetConversion) ==
    ConvertArg(TypeOf(m.original, name), charsetConversion, image[Ordinal(m.original, name)])

\* WHERE: the unique key's columns, by their names in the original table.  Their
\* arguments are not converted: charsetConversion is set for shared columns only.
Hits(m, row, image) ==
    \A n \in Range(m.key.columns) :
        Equals(TypeOf(m.ghost, n), row[n], ArgOf(m, image, n, FALSE))

\* A column that is generated, or gets its default.
Generated(row) == 3 - row["a"]
Completed(m, values) ==
    [n \in NameSet(m.ghost) |->
        CASE TypeOf(m.ghost, n) = "virtual" -> Generated(values)
          [] TypeOf(m.ghost, n) # "virtual" /\ n \in DOMAIN values -> values[n]
          [] OTHER -> 0]

\* The values of the shared columns, under their names in the ghost table.
SharedValues(m, Value(_)) ==
    [n \in Range(m.mapped) |->
        Value(CHOOSE i \in DOMAIN m.mapped : m.mapped[i] = n)]

\* inspectOriginalAndGhostTables: the shared columns with a charsetConversion.
CharsetConversion(m, i) ==
    /\ m.shared[i] = m.mapped[i]
    /\ Charset(TypeOf(m.original, m.shared[i])) # Charset(TypeOf(m.ghost, m.mapped[i]))

WrittenRow(m, image) ==
    SharedValues(m, LAMBDA i :
        Written(m.shared[i], m.mapped[i], TypeOf(m.original, m.shared[i]),
                TypeOf(m.ghost, m.mapped[i]),
                ArgOf(m, image, m.shared[i], CharsetConversion(m, i))))

CopiedRow(m, row) ==
    Completed(m, SharedValues(m, LAMBDA i :
        Copied(TypeOf(m.original, m.shared[i]), TypeOf(m.ghost, m.mapped[i]),
               row[m.shared[i]])))

Duplicate(table, x, y) ==
    \E k \in Range(table.keys) : \A n \in Range(k.columns) :
        Weight(TypeOf(table, n), x[n]) = Weight(TypeOf(table, n), y[n])

InsertIgnore(m, rows, row) ==
    IF \E r \in rows : Duplicate(m.ghost, r, row) THEN rows ELSE rows \cup {row}

\* DMLDeleteQueryBuilder, DMLInsertQueryBuilder and DMLUpdateQueryBuilder.
DMLDelete(m, rows, where) == {r \in rows : ~Hits(m, r, where)}

DMLInsert(m, rows, new) == InsertIgnore(m, rows, Completed(m, WrittenRow(m, new)))

DMLUpdate(m, rows, where, new) ==
    LET values == WrittenRow(m, new)
        Updated(r) == Completed(m, [n \in DOMAIN r |->
                                       IF n \in DOMAIN values THEN values[n] ELSE r[n]])
    IN  {IF Hits(m, r, where) THEN Updated(r) ELSE r : r \in rows}

\* updateModifiesUniqueKeyColumns: by the row images of the key's columns.
ModifiesUniqueKey(m, where, new) ==
    \E n \in Range(m.key.columns) :
        where[Ordinal(m.original, n)] # new[Ordinal(m.original, n)]

=============================================================================
