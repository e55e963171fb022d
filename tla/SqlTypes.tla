------------------------------ MODULE SqlTypes ------------------------------
(***************************************************************************)
(* The type lattice of entities/types: SQL types, their families, the      *)
(* family comparison used by typing passes, the catalog encoding           *)
(* (type_id, chars_len) and the conversions from the parser's DataType and *)
(* to the wire protocol's PgType.  All of it is pure: the module has no    *)
(* variables, MCSqlTypes walks its inputs.                                 *)
(***************************************************************************)
EXTENDS Naturals

CONSTANTS Lens,         \* the string lengths (u64) the model tells apart
          None          \* the None of an Option

ASSUME Lens \subseteq Nat /\ {0, 255} \subseteq Lens

(***************************************************************************)
(* Families and their comparison                                           *)
(***************************************************************************)

SqlTypeFamily == {"Bool", "String", "SmallInt", "Integer", "BigInt", "Real", "Double"}

is_float(f) == f \in {"Real", "Double"}

is_int(f) == f \in {"SmallInt", "Integer", "BigInt"}

Ok(v) == [ok |-> TRUE, value |-> v]

IncomparableSqlTypeFamilies(l, r) == [ok |-> FALSE, left |-> l, right |-> r]

\* A faulty widening test: the "|| other == BigInt" of the integral arm
\* forgotten, so that Integer against BigInt keeps the left operand.
int_widens_without_bigint_clause(self, other) ==
    self = "SmallInt" /\ other = "Integer"

\* The condition of the integral arm; && binds tighter than ||.
int_widens(self, other) ==
    (self = "SmallInt" /\ other = "Integer") \/ other = "BigInt"

\* SqlTypeFamily::compare.  The arms are tried in the order of the if/else
\* chain.
compare(self, other) ==
    CASE is_float(self) /\ is_float(other) ->
            Ok(IF self # other /\ self = "Real" /\ other = "Double" THEN other ELSE self)
      [] is_int(self) /\ is_int(other) ->
            Ok(IF self # other /\ int_widens(self, other) THEN other ELSE self)
      [] is_float(self) /\ is_int(other) -> Ok(self)
      [] is_int(self) /\ is_float(other) -> Ok(other)
      [] OTHER -> IF self # other THEN IncomparableSqlTypeFamilies(self, other)
                                  ELSE Ok(self)

(***************************************************************************)
(* Types                                                                   *)
(***************************************************************************)

Num == {"SmallInt", "Integer", "BigInt", "Real", "Double"}

Str == {"Const", "Var"}

SqlType == [tag : {"Bool"}] \cup [tag : {"Str"}, len : Lens, kind : Str]
                            \cup [tag : {"Num"}, num : Num]

bool == [tag |-> "Bool"]
small_int == [tag |-> "Num", num |-> "SmallInt"]
integer == [tag |-> "Num", num |-> "Integer"]
big_int == [tag |-> "Num", num |-> "BigInt"]
real == [tag |-> "Num", num |-> "Real"]
double_precision == [tag |-> "Num", num |-> "Double"]
char(len) == [tag |-> "Str", len |-> len, kind |-> "Const"]
var_char(len) == [tag |-> "Str", len |-> len, kind |-> "Var"]

\* SqlType::family: the three integral types share Integer, the two
\* floating ones share Real.
family(t) ==
    CASE t.tag = "Bool" -> "Bool"
      [] t.tag = "Str" -> "String"
      [] t.tag = "Num" /\ t.num \in {"SmallInt", "Integer", "BigInt"} -> "Integer"
      [] t.tag = "Num" /\ t.num \in {"Real", "Double"} -> "Real"

type_id(t) ==
    CASE t = bool -> 0
      [] t.tag = "Str" /\ t.kind = "Const" -> 1
      [] t.tag = "Str" /\ t.kind = "Var" -> 2
      [] t = small_int -> 3
      [] t = integer -> 4
      [] t = big_int -> 5
      [] t = real -> 6
      [] t = double_precision -> 7

\* A faulty decoder: the ids of char and varchar exchanged.
from_type_id_kinds_swapped(id, chars_len) ==
    <<bool, var_char(chars_len), char(chars_len), small_int, integer, big_int,
      real, double_precision>>[id + 1]

\* SqlType::from_type_id; an id above 7 is unreachable!() and outside the
\* tuple's domain.
from_type_id(id, chars_len) ==
    <<bool, char(chars_len), var_char(chars_len), small_int, integer, big_int,
      real, double_precision>>[id + 1]

\* A faulty accessor: 0 instead of None for a type without a length.
chars_len_zero_for_none(t) == IF t.tag = "Str" THEN t.len ELSE 0

chars_len(t) == IF t.tag = "Str" THEN t.len ELSE None

(***************************************************************************)
(* Conversions at the two ends of the pipeline                             *)
(***************************************************************************)

\* The parser's DataType, as far as the conversion tells its values apart:
\* the six it accepts, and Real and Double standing for all it rejects.
DataType == [tag : {"SmallInt", "Int", "BigInt", "Boolean", "Real", "Double"}]
                \cup [tag : {"Char", "Varchar"}, len : Lens \cup {None}]

NotSupportedType == [ok |-> FALSE]

\* A faulty table that lets the floating types of the parser through.
direct_types_with_floats ==
    [SmallInt |-> small_int, Int |-> integer, BigInt |-> big_int, Boolean |-> bool,
     Real |-> real, Double |-> double_precision]

\* The arms of the conversion that map a DataType to a type as it is.
direct_types ==
    [SmallInt |-> small_int, Int |-> integer, BigInt |-> big_int, Boolean |-> bool]

unwrap_or(len, default) == IF len = None THEN default ELSE len

\* TryFrom<&DataType> for SqlType.
try_from(data_type) ==
    CASE data_type.tag \in DOMAIN direct_types -> Ok(direct_types[data_type.tag])
      [] data_type.tag = "Char" -> Ok(char(unwrap_or(data_type.len, 255)))
      [] data_type.tag = "Varchar" -> Ok(var_char(unwrap_or(data_type.len, 255)))
      [] OTHER -> NotSupportedType

Unreachable == "unreachable!()"

\* Into<PgType> for &SqlType; the floating types panic.
into_pg_type(t) ==
    CASE t = bool -> "Bool"
      [] t.tag = "Str" /\ t.kind = "Const" -> "Char"
      [] t.tag = "Str" /\ t.kind = "Var" -> "VarChar"
      [] t = small_int -> "SmallInt"
      [] t = integer -> "Integer"
      [] t = big_int -> "BigInt"
      [] OTHER -> Unreachable

=============================================================================
