----------------------------- MODULE MCSqlTypes -----------------------------
(***************************************************************************)
(* Walks the inputs of the operations of SqlTypes the way the rest of the  *)
(* engine uses them: a typing pass compares the families of its operands,  *)
(* a CREATE TABLE turns the parser's DataType into a column type, and the  *)
(* catalog keeps a column type as the pair (type_id, chars_len) and reads  *)
(* it back.  Every input is reachable from every other, so the invariants  *)
(* are checked for all of them.                                            *)
(***************************************************************************)
EXTENDS SqlTypes

MCLens == {0, 5, 255}

VARIABLES a, b, c,      \* the operand families of a typing pass
          d,            \* a column type as the parser hands it over
          t,            \* the column type the catalog was given last
          row           \* the catalog's row for it: type_id and chars_len

vars == <<a, b, c, d, t, row>>

\* What the catalog writes for a column type.
Encoded(type) == [type_id |-> type_id(type), chars_len |-> chars_len(type)]

Init ==
    /\ a = "Bool" /\ b = "Bool" /\ c = "Bool"
    /\ d = [tag |-> "Boolean"]
    /\ t = bool
    /\ row = Encoded(bool)

PickOperands ==
    /\ \E x, y, z \in SqlTypeFamily : a' = x /\ b' = y /\ c' = z
    /\ UNCHANGED <<d, t, row>>

\* A column definition of a CREATE TABLE: stored when the conversion
\* accepts its type.
DefineColumn ==
    /\ d' \in DataType
    /\ IF try_from(d').ok
       THEN t' = try_from(d').value /\ row' = Encoded(t')
       ELSE UNCHANGED <<t, row>>
    /\ UNCHANGED <<a, b, c>>

\* A column type built with the constructors, as the engine's own tables
\* and the tests do.
StoreType ==
    /\ t' \in SqlType
    /\ row' = Encoded(t')
    /\ UNCHANGED <<a, b, c, d>>

Next == PickOperands \/ DefineColumn \/ StoreType

Spec == Init /\ [][Next]_vars

-----------------------------------------------------------------------------
\* A row holds an id of 0 .. 7, and a length exactly when the id is that of
\* a character type.
TypeOK ==
    /\ {a, b, c} \subseteq SqlTypeFamily
    /\ d \in DataType
    /\ t \in SqlType
    /\ row \in [type_id : {1, 2}, chars_len : Lens]
                \cup [type_id : {0} \cup 3 .. 7, chars_len : {None}]

\* The widening order the comparison is meant to implement:
\* SmallInt < Integer < BigInt < Real < Double.
Rank == [SmallInt |-> 1, Integer |-> 2, BigInt |-> 3, Real |-> 4, Double |-> 5]

Numeric(f) == is_int(f) \/ is_float(f)

Wider(x, y) == IF Rank[x] >= Rank[y] THEN x ELSE y

\* SqlTypeFamily::compare is the join of the widening order: two numeric
\* families give the wider one whichever side it stands on, a family
\* compares with itself, and every other pair is incomparable and reports
\* both operands in the order given.
CompareIsWideningJoin ==
    compare(a, b) = CASE Numeric(a) /\ Numeric(b) -> Ok(Wider(a, b))
                      [] a = b -> Ok(a)
                      [] OTHER -> IncomparableSqlTypeFamilies(a, b)

\* A typing pass folds compare over its operands; where both groupings
\* succeed, compare gives the same family for (a, b), c and for a, (b, c).
CompareIsAssociative ==
    LET ab == compare(a, b)
        bc == compare(b, c)
    IN  (ab.ok /\ bc.ok) => compare(ab.value, c) = compare(a, bc.value)

\* A type written to the catalog as (type_id, chars_len) by type_id and
\* chars_len is read back unchanged by from_type_id, with chars_len
\* defaulting to 0 where the type has none.
TypeIdRoundTrip ==
    from_type_id(row.type_id, unwrap_or(row.chars_len, 0)) = t

\* Every column type that TryFrom<&DataType> lets into a CREATE TABLE is one
\* that Into<PgType> can describe on the wire: the conversion never reaches
\* its unreachable!() arm for a type the DDL path can store.
DdlTypesAreWireEncodable ==
    try_from(d).ok => into_pg_type(try_from(d).value) # Unreachable

=============================================================================
