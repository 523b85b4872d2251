-------------------------------- MODULE Output --------------------------------
(*****************************************************************************)
(* What the library makes of the options for text output, and what the       *)
(* runner writes once the tables are filled: the binary file of every table, *)
(* then the parts of tables the options ask for.  The options have the types *)
(* the library reads them with; that main() declares --tables with another   *)
(* type is in Assigner.                                                      *)
(*****************************************************************************)
EXTENDS Ranges, FiniteSets, FiniteSetsExt, Functions

CONSTANTS
    Circuits,      \* zkevm_circuits_map: the tables an option may name
    Options,       \* what the library is called with: records of Option
    Assignments,   \* what has been assigned: table -> number of its kind -> sizes of columns
    Width,         \* bits of uint32_t
    Asserts        \* whether assert() is compiled in

\* The order of col2idx, and of the sections of a file.
Kinds == <<"witness", "public_input", "constant", "selector">>

Option == [tables : Seq(STRING), rows : Seq(Token),
           columns : Seq([type : STRING, text : Seq(Token)])]

Pow2[n \in 0..Width] == IF n = 0 THEN 1 ELSE 2 * Pow2[n - 1]

\* uint32_t holds the least padding, and every int.
ASSUME OutputAssumption ==
    /\ Width \in Nat /\ Width >= 4 /\ Asserts \in BOOLEAN
    /\ IntMax < Pow2[Width]

ASSUME OptionsAssumption == Options \subseteq Option

\* No table has more columns of a kind, or more rows, than an int can count.
ASSUME AssignmentsAssumption ==
    \A a \in Assignments : \A name \in DOMAIN a :
        /\ a[name] \in [1..4 -> Seq(0..IntMax)]
        /\ \A k \in 1..4 : Len(a[name][k]) <= IntMax

VARIABLES
    vm,            \* the options
    assignments,
    pc,
    artifacts,     \* the OutputArtifacts
    completed,     \* the types of column parsed so far
    arg,           \* the column option that is parsed
    queue,         \* tables whose file is not yet opened
    table,         \* the table written
    col,           \* the columns of it written, as <<number of the kind, how many>>
    files,         \* the binary files: table -> contents
    full,          \* the disk is full: what is written gets lost
    shown,         \* how many of the tables asked for are printed
    exported       \* what export_table was called with

parsed == <<artifacts, completed, arg>>
binary == <<queue, table, col, files, full>>
text == <<shown, exported>>
vars == <<vm, assignments, pc, parsed, binary, text>>

\* ---------------------------------------------------------- from_program_options

NoArtifacts == [tables |-> <<>>, rows |-> <<>>, columns |-> [k \in 1..4 |-> <<>>]]

\* The end of main() for an error that is returned, or an exception.
Leave(result) == pc' = IF result.kind = "throws" THEN "crashed" ELSE "bad options"

ParseTables ==
    /\ pc = "tables"
    /\ IF \A i \in DOMAIN vm.tables : vm.tables[i] \in Circuits
       THEN pc' = "rows" /\ artifacts' = [artifacts EXCEPT !.tables = vm.tables]
       ELSE pc' = "bad options" /\ UNCHANGED artifacts
    /\ UNCHANGED <<vm, assignments, completed, arg, binary, text>>

\* An absent option is like an empty one.
ParseRows ==
    /\ pc = "rows"
    /\ LET result == ParseRanges(vm.rows)
       IN  IF result.kind = "value"
           THEN pc' = "columns" /\ artifacts' = [artifacts EXCEPT !.rows = result.value]
           ELSE Leave(result) /\ UNCHANGED artifacts
    /\ UNCHANGED <<vm, assignments, completed, arg, binary, text>>

\* The part after the type must not be empty.
Matches(column) == column.type \in ToSet(Kinds) /\ column.text # <<>>

Index(type) == CHOOSE k \in DOMAIN Kinds : Kinds[k] = type

\* Does not look for duplicates.
ParseColumnAgain ==
    /\ pc = "columns" /\ arg <= Len(vm.columns)
    /\ LET column == vm.columns[arg]
           result == ParseRanges(column.text)
       IN  IF Matches(column) /\ result.kind = "value"
           THEN /\ artifacts' = [artifacts EXCEPT !.columns[Index(column.type)] = result.value]
                /\ completed' = completed \cup {column.type}
                /\ arg' = arg + 1
                /\ UNCHANGED pc
           ELSE Leave(IF Matches(column) THEN result ELSE Unexpected)
                /\ UNCHANGED parsed
    /\ UNCHANGED <<vm, assignments, binary, text>>

\* One round of the loop of parse_columns.
ParseColumn ==
    /\ pc = "columns" /\ arg <= Len(vm.columns)
    /\ LET column == vm.columns[arg]
           result == IF Matches(column) /\ column.type \notin completed
                     THEN ParseRanges(column.text) ELSE Unexpected
       IN  IF result.kind = "value"
           THEN /\ artifacts' = [artifacts EXCEPT !.columns[Index(column.type)] = result.value]
                /\ completed' = completed \cup {column.type}
                /\ arg' = arg + 1
                /\ UNCHANGED pc
           ELSE Leave(result) /\ UNCHANGED parsed
    /\ UNCHANGED <<vm, assignments, binary, text>>

ColumnsParsed ==
    /\ pc = "columns" /\ arg > Len(vm.columns)
    /\ pc' = "open"
    /\ UNCHANGED <<vm, assignments, parsed, binary, text>>

\* ----------------------------------------------------------- the layout of a file

\* An item of a file is a size or a field element.
Word(n) == <<0, 0, n>>
Field(k, c, r) == <<k, c, r>>
Zero == <<0, 1, 0>>

\* The conversion is the argument of an assert: without it the array stays zero.
WriteSize(n) == IF Asserts THEN Word(n % Pow2[Width]) ELSE Word(0)
WriteField(k, c, r) == IF Asserts THEN Field(k, c, r) ELSE Zero

Amount(t, k) == Len(t[k])

MaxSize(sizes) == Max(ToSet(sizes) \cup {0})

UsableRows(t) == Max({MaxSize(t[k]) : k \in 1..4})

\* pow(2, ceil(log2(n))) as an unsigned: 0 for no rows, as log2(0) is minus
\* infinity; undefined when it does not fit (0, or the greatest).
RoundedUp(n) ==
    IF n = 0 THEN {0}
    ELSE LET p == Min({Pow2[i] : i \in {j \in 0..Width : Pow2[j] >= n}})
         IN  IF p < Pow2[Width] THEN {p} ELSE {0, Pow2[Width] - 1}

\* Rounds up only.
PaddedOnlyUp(n) == {Max({8, p}) : p \in RoundedUp(n)}

PaddedRows(n) ==
    {Max({8, IF p = n THEN (2 * p) % Pow2[Width] ELSE p}) : p \in RoundedUp(n)}

Header(t, padded) ==
    [k \in 1..4 |-> WriteSize(Amount(t, k))]
        \o <<WriteSize(UsableRows(t)), WriteSize(padded)>>

\* write_vector_value: what does not fit is left out.
WriteColumn(k, c, size, padded) ==
    [r \in 1..padded |-> IF r <= size THEN WriteField(k, c, r) ELSE Zero]

\* ------------------------------------------------------------------ binary files

\* unordered_map has an order of its own; opening empties a file.
OpenFile ==
    /\ pc = "open" /\ queue # {}
    /\ \E t \in queue :
          \/ /\ pc' = "header" /\ table' = t /\ queue' = queue \ {t}
             /\ files' = [u \in DOMAIN files \cup {t} |-> IF u = t THEN <<>> ELSE files[u]]
          \/ pc' = "cannot open" /\ UNCHANGED <<table, queue, files>>
    /\ UNCHANGED <<vm, assignments, parsed, col, full, text>>

\* A stream that has failed takes nothing more; nobody looks at its state.
Write(items) == files' = [files EXCEPT ![table] = IF full THEN @ ELSE @ \o items]

WriteHeader ==
    /\ pc = "header"
    /\ \E padded \in PaddedRows(UsableRows(assignments[table])) :
          /\ Write(Header(assignments[table], padded))
          /\ pc' = "section" /\ col' = <<1, 0, padded>>
    /\ UNCHANGED <<vm, assignments, parsed, queue, table, full, text>>

\* The size of the section of a kind; a product of 32 bits.
WriteSectionSize ==
    /\ pc = "section"
    /\ IF col[1] <= 4
       THEN /\ Write(<<WriteSize(Amount(assignments[table], col[1]) * col[3])>>)
            /\ pc' = "column" /\ UNCHANGED col
       ELSE pc' = "open" /\ UNCHANGED <<files, col>>
    /\ UNCHANGED <<vm, assignments, parsed, queue, table, full, text>>

WriteNextColumn ==
    /\ pc = "column"
    /\ LET t == assignments[table] IN
       IF col[2] < Amount(t, col[1])
       THEN /\ Write(WriteColumn(col[1], col[2] + 1, t[col[1]][col[2] + 1], col[3]))
            /\ col' = [col EXCEPT ![2] = @ + 1] /\ UNCHANGED pc
       ELSE /\ col' = <<col[1] + 1, 0, col[3]>> /\ pc' = "section" /\ UNCHANGED files
    /\ UNCHANGED <<vm, assignments, parsed, queue, table, full, text>>

FilesWritten ==
    /\ pc = "open" /\ queue = {}
    /\ pc' = IF DOMAIN assignments = {} THEN "done" ELSE "artifacts"
    /\ UNCHANGED <<vm, assignments, parsed, binary, text>>

DiskFills ==
    /\ pc \in {"header", "section", "column"}
    /\ ~ full /\ full' = TRUE
    /\ UNCHANGED <<vm, assignments, pc, parsed, queue, table, col, files, text>>

\* ------------------------------------------------------------------- text output

\* The ranges of an option in a table; none means no restriction.
Concrete(rs, amount) == IF rs = <<>> THEN Value(<<>>) ELSE ConcreteRanges(rs, ToInt(amount) - 1)

ConcreteColumns(t) == [k \in 1..4 |-> Concrete(artifacts.columns[k], Amount(t, k))]
ConcreteRows(t) == Concrete(artifacts.rows, UsableRows(t))

\* One round of the loop of write_output_artifacts.
ExportTable ==
    /\ pc = "artifacts" /\ shown < Len(artifacts.tables)
    /\ LET name == artifacts.tables[shown + 1] IN
       IF name \notin DOMAIN assignments
       THEN pc' = "no table" /\ UNCHANGED text
       ELSE LET columns == ConcreteColumns(assignments[name])
                rows == ConcreteRows(assignments[name])
            IN  IF rows.kind = "value" /\ \A k \in 1..4 : columns[k].kind = "value"
                THEN \/ pc' = "cannot open" /\ UNCHANGED text
                     \/ /\ shown' = shown + 1 /\ UNCHANGED pc
                        /\ exported' = Append(exported,
                              [table |-> name, rows |-> rows.value,
                               columns |-> [k \in 1..4 |-> columns[k].value]])
                ELSE pc' = "out of bounds" /\ UNCHANGED text
    /\ UNCHANGED <<vm, assignments, parsed, binary>>

AllExported ==
    /\ pc = "artifacts" /\ shown = Len(artifacts.tables)
    /\ pc' = "done"
    /\ UNCHANGED <<vm, assignments, parsed, binary, text>>

Init ==
    /\ vm \in Options /\ assignments \in Assignments
    /\ pc = "tables" /\ artifacts = NoArtifacts /\ completed = {} /\ arg = 1
    /\ queue = DOMAIN assignments /\ table = "" /\ col = <<1, 0, 0>> /\ files = <<>>
    /\ full = FALSE /\ shown = 0 /\ exported = <<>>

Next ==
    \/ ParseTables \/ ParseRows \/ ParseColumn \/ ColumnsParsed
    \/ OpenFile \/ WriteHeader \/ WriteSectionSize \/ WriteNextColumn \/ FilesWritten \/ DiskFills
    \/ ExportTable \/ AllExported

Spec == Init /\ [][Next]_vars

\* -------------------------------------------------------------------- properties

Ended == {"bad options", "crashed", "cannot open", "no table", "out of bounds", "done"}

(* The variables keep their types. *)
TypeOK ==
    /\ vm \in Options /\ assignments \in Assignments
    /\ pc \in Ended \cup {"tables", "rows", "columns", "open", "header", "section",
                          "column", "artifacts"}
    /\ artifacts.rows \in BoundsList /\ \A k \in 1..4 : artifacts.columns[k] \in BoundsList
    /\ completed = {vm.columns[i].type : i \in 1..(arg - 1)}
    /\ Cardinality(completed) = arg - 1
    /\ queue \cup DOMAIN files = DOMAIN assignments
    /\ pc \in {"header", "section", "column"} => table \in DOMAIN files
    /\ col[1] \in 1..5 /\ col[2] \in Nat /\ col[3] \in 0..Pow2[Width] - 1
    /\ full \in BOOLEAN /\ shown = Len(exported) /\ shown <= Len(artifacts.tables)

\* What a part of an option stands for, as the help of the assigner tells it.
Selects(t, i) ==
    \/ t.form = "N" /\ i = t.n
    \/ t.form = "N-" /\ i >= t.n
    \/ t.form = "-N" /\ i <= t.n
    \/ t.form = "N-M" /\ i >= t.n /\ i <= t.m

Selected(txt, amount) == {i \in 0..(amount - 1) : \E t \in ToSet(txt) : Selects(t, i)}

Covered(crs) == UNION {cr[1]..cr[2] : cr \in ToSet(crs)}

\* The option for the columns of a kind, or nothing.
TextOf(columns, k) ==
    LET is == {i \in DOMAIN columns : columns[i].type = Kinds[k]}
    IN  IF is = {} THEN <<>> ELSE columns[CHOOSE i \in is : TRUE].text

(* Of a table that is printed, the rows and the columns of every kind are
   exactly those the texts of the options stand for - all of which the table
   has - through the parsing, the optional bounds, the narrowing to int and
   the completion by the size of this table; and the tables come as asked. *)
ExportIsAsked ==
    \A i \in DOMAIN exported :
        LET e == exported[i]
            t == assignments[e.table]
        IN  /\ e.table = vm.tables[i]
            /\ Covered(e.rows) = Selected(vm.rows, UsableRows(t))
            /\ \A k \in 1..4 : Covered(e.columns[k]) = Selected(TextOf(vm.columns, k), Amount(t, k))

\* A bound that the option states lies outside of what there is.
Misses(txt, amount) ==
    \E t \in ToSet(txt) :
        \/ t.form # "" /\ t.n >= amount
        \/ t.form = "N-M" /\ t.m >= amount

(* An option is refused for a table only if it names a row or a column that
   the table does not have; and an option with such a number is not printed
   with less. *)
RefusedOnlyOutside ==
    LET misses(name) ==
            \/ Misses(vm.rows, UsableRows(assignments[name]))
            \/ \E k \in 1..4 : Misses(TextOf(vm.columns, k), Amount(assignments[name], k))
    IN  /\ pc = "out of bounds" => misses(vm.tables[shown + 1])
        /\ \A i \in DOMAIN exported : ~ misses(exported[i].table)

(* The ranges of an option, printed and parsed again, are the same ranges. *)
RangesReadBack ==
    \A rs \in {artifacts.rows} \cup {artifacts.columns[k] : k \in 1..4} :
        ParseRanges(RangesToString(rs)) = Value(rs)

\* Sizes and numbers of cells that 32 bits hold.
Fits(t) ==
    /\ UsableRows(t) < Pow2[Width - 1]
    /\ \A k \in 1..4 : \A p \in PaddedRows(UsableRows(t)) : Amount(t, k) * p < Pow2[Width]

Complete(name) ==
    /\ name \in DOMAIN files /\ ~ full
    /\ name = table => pc \notin {"header", "section", "column"}

\* How many columns come before those of a kind, and how many there are.
Before(n) == <<0, n[1], n[1] + n[2], n[1] + n[2] + n[3], n[1] + n[2] + n[3] + n[4]>>

(* A reader that knows the format finds in a file the sizes and the columns of
   the table, wherever the padding puts them: the header says where a section
   starts, a section how many cells it has, and there is a row after the last
   one used. *)
FileReadsBack ==
    \A name \in DOMAIN files :
        LET f == files[name]
            t == assignments[name]
            padded == f[6][3]
            count == [k \in 1..4 |-> f[k][3]]
            start(k) == 6 + k + padded * Before(count)[k]
        IN  Complete(name) /\ Fits(t) =>
            /\ Len(f) = 10 + padded * Before(count)[5]
            /\ f[5] = Word(UsableRows(t)) /\ padded > UsableRows(t) /\ padded >= 8
            /\ \E i \in 3..Width : padded = Pow2[i]
            /\ \A k \in 1..4 :
                  /\ count[k] = Len(t[k])
                  /\ f[start(k)] = Word(count[k] * padded)
                  /\ \A c \in 1..count[k], r \in 1..padded :
                        f[start(k) + (c - 1) * padded + r]
                            = IF r <= t[k][c] THEN Field(k, c, r) ELSE Zero

(* write_assignments.hpp:27: sizes are written "serialized". *)
SizesAreWritten ==
    pc = "artifacts" /\ ~ full => \A name \in DOMAIN files :
        files[name][5] = Word(UsableRows(assignments[name]) % Pow2[Width])

===============================================================================
