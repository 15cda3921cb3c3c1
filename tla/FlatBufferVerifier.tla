------------------------- MODULE FlatBufferVerifier ------------------------
(***************************************************************************)
(* class Verifier, and the Verify functions generated for the tables of a  *)
(* schema.  The limit on the number of tables is left out.                 *)
(*                                                                         *)
(* A field of the schema is a record whose kind is "scalar" (of some       *)
(* width), "struct" (of 4-byte members), "string", "scalars" (a vector of  *)
(* scalars of some width), "tables" (a vector of tables of some type) or   *)
(* "union", the type of which the scalar field before it tells.            *)
(***************************************************************************)
EXTENDS FlatBufferReader

CONSTANTS
  Schema,     \* table type -> sequence of fields
  UnionTypes  \* union -> sequence of table types; 0 is NONE

ASSUME SchemaAssumption ==
  \A T \in DOMAIN Schema : \A i \in DOMAIN Schema[T] :
    LET f == Schema[T][i]
    IN  /\ f.kind \in {"scalar", "struct", "string", "scalars", "tables", "union"}
        /\ f.kind = "tables" => f.of \in DOMAIN Schema
        /\ f.kind = "union" =>
             /\ i - 1 \in DOMAIN Schema[T] /\ Schema[T][i - 1].kind = "scalar"
             /\ \A k \in DOMAIN UnionTypes[f.of] : UnionTypes[f.of][k] \in DOMAIN Schema

\* Verify(elem, elem_len), the position being unsigned.
Inside(mem, elem, len) ==
  elem >= 0 /\ len < Len(mem) /\ elem <= Len(mem) - len

VerifyScalar(mem, elem, width) == elem % width = 0 /\ Inside(mem, elem, width)

VerifyFieldOf(mem, table, field, width, align) ==
  LET p == GetStruct(mem, table, field)
  IN  p # Nullptr => p % align = 0 /\ Inside(mem, p, width)

VerifyOffsetAt(mem, p) ==
  /\ VerifyScalar(mem, p, 4)
  /\ ReadScalar(mem, p, 4) > 0
  /\ Inside(mem, Indirect(mem, p), 1)

VerifyOffset(mem, table, field) ==
  LET p == GetStruct(mem, table, field) IN p # Nullptr => VerifyOffsetAt(mem, p)

VerifyVectorOrString(mem, vec, width) ==
  /\ VerifyScalar(mem, vec, 4)
  /\ VectorSize(mem, vec) >= 0
  /\ Inside(mem, vec, 4 + width * VectorSize(mem, vec))

VerifyString(mem, str) ==
  /\ VerifyVectorOrString(mem, str, 1)
  /\ LET end == VectorData(str) + VectorSize(mem, str)
     IN  Inside(mem, end, 1) /\ mem[end + 1] = 0

\* The most tables that may be in each other, max_depth; of them so many are left.
MaxDepth == 64

VerifyComplexity(left) == left > 0

VerifyTableStart(mem, table, left) ==
  /\ VerifyScalar(mem, table, 4)
  /\ VerifyComplexity(left)
  /\ LET vtable == GetVTable(mem, table)
     IN  /\ VerifyScalar(mem, vtable, 2)
         /\ ReadScalar(mem, vtable, 2) % 2 = 0
         /\ Inside(mem, vtable, ReadScalar(mem, vtable, 2))

\* T::Verify, as the generated code has it for a table of any type: t is the type
\* and the place of the table, and verify does the same for the tables below it.
VerifyField(mem, t, i, verify) ==
  LET f == Schema[t.type][i]
      p == GetPointer(mem, t.table, Voffset(i))
      Below(T, table) ==
        /\ table \in 0 .. Len(mem) - 1
        /\ verify[[type |-> T, table |-> table, left |-> t.left - 1]]
  IN  CASE f.kind \in {"scalar", "struct"} ->
             VerifyFieldOf(mem, t.table, Voffset(i), f.width, f.align)
        [] f.kind = "string" ->
             /\ VerifyOffset(mem, t.table, Voffset(i))
             /\ p # Nullptr => VerifyString(mem, p)
        [] f.kind = "scalars" ->
             /\ VerifyOffset(mem, t.table, Voffset(i))
             /\ p # Nullptr => VerifyVectorOrString(mem, p, f.width)
        [] f.kind = "tables" ->
             /\ VerifyOffset(mem, t.table, Voffset(i))
             /\ p # Nullptr =>
                  /\ VerifyVectorOrString(mem, p, 4)
                  /\ \A k \in 1 .. VectorSize(mem, p) : Below(f.of, GetAll(mem, p)[k])
        [] f.kind = "union" ->
             LET tag == GetField(mem, t.table, Voffset(i - 1), 1, 0)
             IN  /\ VerifyOffset(mem, t.table, Voffset(i))
                 /\ p # Nullptr /\ tag \in DOMAIN UnionTypes[f.of] =>
                      Below(UnionTypes[f.of][tag], p)

VerifyTable(mem, t, verify) ==
  /\ VerifyTableStart(mem, t.table, t.left)
  /\ \A i \in DOMAIN Schema[t.type] : VerifyField(mem, t, i, verify)

Visits(mem) == [type : DOMAIN Schema, table : 0 .. Len(mem) - 1, left : 0 .. MaxDepth]

VerifyTables(mem) ==
  LET verify[t \in Visits(mem)] == VerifyTable(mem, t, verify) IN verify

VerifyRoot(mem, T, table) ==
  VerifyTables(mem)[[type |-> T, table |-> table, left |-> MaxDepth]]

\* No more than depth[T] tables are in each other from one of type T on.
Nests(depth) ==
  /\ depth \in [DOMAIN Schema -> 1 .. MaxDepth]
  /\ \A T \in DOMAIN Schema : \A i \in DOMAIN Schema[T] :
       LET f == Schema[T][i]
       IN  /\ f.kind = "tables" => depth[f.of] < depth[T]
           /\ f.kind = "union" =>
                \A k \in DOMAIN UnionTypes[f.of] : depth[UnionTypes[f.of][k]] < depth[T]

\* FLATBUFFERS_MIN_BUFFER_SIZE
MinBufferSize == 4 + 4 + 2 + 2

VerifyBuffer(mem, T) ==
  /\ Len(mem) >= MinBufferSize
  /\ VerifyOffsetAt(mem, 0)
  /\ VerifyRoot(mem, T, GetRoot(mem))
============================================================================
