----------------------------- MODULE TableShape -----------------------------
(***************************************************************************)
(* What gh-ost makes of an ALTER statement and of the two tables: the      *)
(* parser of ALTER statements (AlterTableParser), the unique key the       *)
(* migration iterates over and the columns it writes (getCandidateUniqueKeys, *)
(* getSharedUniqueKeys, getSharedColumns).                                 *)
(*                                                                         *)
(* A table is its columns, in order, and its unique keys.  A column has a  *)
(* name and a type; a key has a name and its columns, in order.  An ALTER  *)
(* is a sequence of clauses: the text of a clause, and how it is cut out of *)
(* the statement, is left out.                                             *)
(***************************************************************************)
EXTENDS Integers, Sequences, FiniteSetsExt

\* The types told apart: numbers "int", "unsigned" and "float"; "datetime" and
\* "timestamp"; "enum" and "enum reordered"; "text" and "text ci", whose collation
\* ignores the case, "long text" (TEXT rather than VARCHAR) and "latin1"; "binary" and
\* "varbinary"; "json"; and "virtual", a generated column.
Charset(type) ==
    CASE type \in {"enum", "enum reordered", "text", "text ci", "long text"} -> "utf8mb4"
      [] type = "latin1" -> "latin1"
      [] OTHER -> "none"
HasCharset(type) == Charset(type) # "none"

Column(name, type, nullable) ==
    [name |-> name, type |-> type, nullable |-> nullable]
Key(name, columns) == [name |-> name, columns |-> columns]

Names(table) == [i \in DOMAIN table.columns |-> table.columns[i].name]
NameSet(table) == Range(Names(table))
GetColumn(table, name) ==
    table.columns[CHOOSE i \in DOMAIN table.columns : table.columns[i].name = name]
TypeOf(table, name) == GetColumn(table, name).type
VirtualColumns(table) == {n \in NameSet(table) : TypeOf(table, n) = "virtual"}

-----------------------------------------------------------------------------
(* ALTER statements.                                                       *)

Change(from, to, type) == [op |-> "change", from |-> from, to |-> to, type |-> type]
Drop(column) == [op |-> "drop", from |-> column]
Add(column, type) == [op |-> "add", to |-> column, type |-> type]
DropKey(key) == [op |-> "drop key", key |-> key]
AddKey(key, columns) == [op |-> "add key", key |-> key, columns |-> columns]
RenameTable == [op |-> "rename table"]

Clauses(alter, op) == {alter[i] : i \in {j \in DOMAIN alter : alter[j].op = op}}

\* parseAlterToken: CHANGE [COLUMN] and DROP [COLUMN] are all it knows of columns.
\* A later CHANGE of the same column would win; no ALTER has two.
ColumnRenames(alter) ==
    [n \in {c.from : c \in Clauses(alter, "change")} |->
        (CHOOSE c \in Clauses(alter, "change") : c.from = n).to]
DroppedColumns(alter) == {c.from : c \in Clauses(alter, "drop")}
IsRenameTable(alter) == Clauses(alter, "rename table") # {}

GetNonTrivialRenames(alter) ==
    LET renames == ColumnRenames(alter)
    IN  [n \in {m \in DOMAIN renames : renames[m] # m} |-> renames[n]]

NoRenames == [n \in {} |-> n]

\* The server's ALTER TABLE.  A key follows its columns, and loses the dropped ones.
AlterTable(table, alter) ==
    LET dropped == DroppedColumns(alter)
        renames == ColumnRenames(alter)
        New(n) == IF n \in DOMAIN renames THEN renames[n] ELSE n
        NewColumn(c) ==
            IF c.name \in DOMAIN renames
              THEN Column(New(c.name),
                          (CHOOSE t \in Clauses(alter, "change") : t.from = c.name).type,
                          c.nullable)
              ELSE c
        kept == SelectSeq(table.columns, LAMBDA c : c.name \notin dropped)
        adds == SelectSeq(alter, LAMBDA c : c.op = "add")
        added == [i \in DOMAIN adds |-> Column(adds[i].to, adds[i].type, FALSE)]
        NewKey(k) ==
            LET left == SelectSeq(k.columns, LAMBDA n : n \notin dropped)
            IN  Key(k.name, [i \in DOMAIN left |-> New(left[i])])
        keys == SelectSeq([i \in DOMAIN table.keys |-> NewKey(table.keys[i])],
                          LAMBDA k : /\ k.columns # << >>
                                     /\ k.name \notin {c.key : c \in Clauses(alter, "drop key")})
        addKeys == SelectSeq(alter, LAMBDA c : c.op = "add key")
        newKeys == [i \in DOMAIN addKeys |-> Key(addKeys[i].key, addKeys[i].columns)]
    IN  [columns |-> [i \in DOMAIN kept |-> NewColumn(kept[i])] \o added,
         keys |-> keys \o newKeys]

-----------------------------------------------------------------------------
(* The inspection of the two tables.                                       *)

HasNullable(table, key) ==
    \E n \in Range(key.columns) : GetColumn(table, n).nullable

\* The ORDER BY of getCandidateUniqueKeys, the type and character set being those of
\* the key's first column.
TypeRank(type) ==
    CASE type \in {"int", "unsigned"} -> 2
      [] OTHER -> 100

CandidateRank(table, key) ==
    LET first == TypeOf(table, key.columns[1])
    IN  << IF key.name = "PRIMARY" THEN 0 ELSE 1,
           IF HasNullable(table, key) THEN 1 ELSE 0,
           IF HasCharset(first) THEN 1 ELSE 0,
           TypeRank(first),
           Len(key.columns) >>

Before(r, s) ==
    \E i \in DOMAIN r : r[i] < s[i] /\ \A j \in 1..(i - 1) : r[j] = s[j]

\* The orders the server may return: the keys sorted, equals in any order.
GetCandidateUniqueKeys(table) ==
    {keys \in Bijection(1..Len(table.keys), Range(table.keys)) :
        \A i, j \in DOMAIN keys :
            i < j => ~Before(CandidateRank(table, keys[j]), CandidateRank(table, keys[i]))}

IsSubsetOf(key, ghostKey) == Range(key.columns) \subseteq Range(ghostKey.columns)

GetSharedUniqueKeys(originalKeys, ghostKeys) ==
    SelectSeq(originalKeys,
              LAMBDA k : \E g \in Range(ghostKeys) : IsSubsetOf(k, g))

\* The shared keys without a FLOAT or JSON column; the first of them is chosen.
ChosenKeys(table, shared) ==
    SelectSeq(shared, LAMBDA k :
                  \A n \in Range(k.columns) : TypeOf(table, n) \notin {"float", "json"})

\* Mutant: a column that is dropped and added anew is taken for the same.
GetSharedColumnsIgnoringDrops(original, ghost, dropped, renames) ==
    SelectSeq(Names(original),
              LAMBDA n : /\ \/ n \in NameSet(ghost)
                            \/ n \in DOMAIN renames /\ renames[n] \in NameSet(ghost)
                         /\ n \notin VirtualColumns(original) \cup VirtualColumns(ghost))

\* The columns of the original table that have their like in the ghost table.
GetSharedColumns(original, ghost, dropped, renames) ==
    SelectSeq(Names(original),
              LAMBDA n : /\ \/ n \in NameSet(ghost)
                            \/ n \in DOMAIN renames /\ renames[n] \in NameSet(ghost)
                         /\ n \notin dropped
                         /\ n \notin VirtualColumns(original) \cup VirtualColumns(ghost))

MapSharedColumns(shared, renames) ==
    [i \in DOMAIN shared |->
        IF shared[i] \in DOMAIN renames THEN renames[shared[i]] ELSE shared[i]]

=============================================================================
