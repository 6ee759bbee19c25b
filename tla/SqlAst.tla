-------------------------------- MODULE SqlAst --------------------------------
(***************************************************************************)
(* The nodes of the syntax tree (src/parser/ast.h), which the parser       *)
(* builds and the interpreter reads, and the parser's semantic values.     *)
(* A node is a record whose field `node' is its class.                     *)
(***************************************************************************)
EXTENDS Sequences, TLC

SvType == {"SV_TYPE_INT", "SV_TYPE_FLOAT", "SV_TYPE_STRING"}

SvCompOp == {"SV_OP_EQ", "SV_OP_NE", "SV_OP_LT", "SV_OP_GT", "SV_OP_LE", "SV_OP_GE"}

(* The null pointer, where a node may be missing. *)
nullptr == [node |-> "nullptr"]

Help == [node |-> "Help"]
ShowTables == [node |-> "ShowTables"]

TypeLen(type, len) == [type |-> type, len |-> len]
ColDef(col_name, type_len) == [col_name |-> col_name, type_len |-> type_len]

CreateTable(tab_name, fields) ==
  [node |-> "CreateTable", tab_name |-> tab_name, fields |-> fields]
DropTable(tab_name) == [node |-> "DropTable", tab_name |-> tab_name]
DescTable(tab_name) == [node |-> "DescTable", tab_name |-> tab_name]

CreateIndex(tab_name, col_name) ==
  [node |-> "CreateIndex", tab_name |-> tab_name, col_name |-> col_name]
DropIndex(tab_name, col_name) ==
  [node |-> "DropIndex", tab_name |-> tab_name, col_name |-> col_name]

IntLit(val) == [node |-> "IntLit", val |-> val]
FloatLit(val) == [node |-> "FloatLit", val |-> val]
StringLit(val) == [node |-> "StringLit", val |-> val]

Col(tab_name, col_name) == [node |-> "Col", tab_name |-> tab_name, col_name |-> col_name]

SetClause(col_name, val) == [col_name |-> col_name, val |-> val]
BinaryExpr(lhs, op, rhs) == [lhs |-> lhs, op |-> op, rhs |-> rhs]

InsertStmt(tab_name, vals) ==
  [node |-> "InsertStmt", tab_name |-> tab_name, vals |-> vals]
DeleteStmt(tab_name, conds) ==
  [node |-> "DeleteStmt", tab_name |-> tab_name, conds |-> conds]
UpdateStmt(tab_name, set_clauses, conds) ==
  [node |-> "UpdateStmt", tab_name |-> tab_name, set_clauses |-> set_clauses, conds |-> conds]
SelectStmt(cols, tabs, conds) ==
  [node |-> "SelectStmt", cols |-> cols, tabs |-> tabs, conds |-> conds]

-----------------------------------------------------------------------------
(* A SemValue has the fields that were assigned to it. *)
NoValue == <<>>

Assign(value, field, x) == (field :> x) @@ value

(* A vector that was never assigned is empty. *)
Vector(value, field) == IF field \in DOMAIN value THEN value[field] ELSE <<>>

PushBack(value, field, x) == Assign(value, field, Append(Vector(value, field), x))
==============================================================================
