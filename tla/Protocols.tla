----------------------------- MODULE Protocols ------------------------------
(***************************************************************************)
(* Query protocols (storemanager/protocol.go) and what database checks and *)
(* looks up in them (validate.go, protocol.go).                            *)
(*                                                                         *)
(* A schema is a function from databases to functions from tables to       *)
(* functions from columns to definitions.  A protocol is a function from   *)
(* module names to modules: a physical database and its entities, each a   *)
(* physical table, its fields (name |-> column) and its relations.  The    *)
(* empty function stands for a nil map; Context, which the code stores and *)
(* never validates, is left out.                                           *)
(***************************************************************************)
EXTENDS Naturals, Sequences

IsDatabaseExists(schema, db) == db \in DOMAIN schema

IsTableExists(schema, db, table) ==
  IsDatabaseExists(schema, db) /\ table \in DOMAIN schema[db]

IsColumnExists(schema, db, table, col) ==
  IsTableExists(schema, db, table) /\ col \in DOMAIN schema[db][table]

\* A relation's key: "local:foreign", or "local:join1:join2:foreign".
ValidateRelation(schema, db, parent, rel) ==
  /\ IsTableExists(schema, db, rel.entity)
  /\ \/ /\ rel.type \in {"mto", "otm", "oto"}
        /\ Len(rel.fk) = 2
        /\ IsColumnExists(schema, db, parent, rel.fk[1])
        /\ IsColumnExists(schema, db, rel.entity, rel.fk[2])
     \/ /\ rel.type = "mtm"
        /\ IsTableExists(schema, db, rel.through)
        /\ Len(rel.fk) = 4
        /\ IsColumnExists(schema, db, parent, rel.fk[1])
        /\ IsColumnExists(schema, db, rel.through, rel.fk[2])
        /\ IsColumnExists(schema, db, rel.through, rel.fk[3])
        /\ IsColumnExists(schema, db, rel.entity, rel.fk[4])

\* Mutant: relations are not looked at.
ValidateEntityFields(schema, db, entity) ==
  /\ IsTableExists(schema, db, entity.table)
  /\ \A f \in DOMAIN entity.fields :
       IsColumnExists(schema, db, entity.table, entity.fields[f])

ValidateEntity(schema, db, entity) ==
  /\ IsTableExists(schema, db, entity.table)
  /\ \A f \in DOMAIN entity.fields :
       IsColumnExists(schema, db, entity.table, entity.fields[f])
  /\ \A r \in DOMAIN entity.relations :
       ValidateRelation(schema, db, entity.table, entity.relations[r])

ValidateModule(schema, mod) ==
  /\ IsDatabaseExists(schema, mod.database)
  /\ \A e \in DOMAIN mod.entities :
       ValidateEntity(schema, mod.database, mod.entities[e])

ValidateProtocol(schema, protocol) ==
  \A m \in DOMAIN protocol : ValidateModule(schema, protocol[m])

NoRelations == [r \in {} |-> r]

\* The protocol SetFullSchema derives from the schema: every name is its own alias.
ProtocolBySchema(schema) ==
  [db \in DOMAIN schema |->
     [database |-> db,
      entities |-> [table \in DOMAIN schema[db] |->
        [table     |-> table,
         fields    |-> [col \in DOMAIN schema[db][table] |-> col],
         relations |-> NoRelations]]]]

-----------------------------------------------------------------------------
(* What the parser and the evaluator look up, in the map of all protocols. *)

IsModule(protos, pw) == pw \in DOMAIN protos

IsDatabase(protos, pw, alias) ==
  IsModule(protos, pw) /\ alias \in DOMAIN protos[pw]

IsTable(protos, pw, alias, entity) ==
  IsDatabase(protos, pw, alias) /\ entity \in DOMAIN protos[pw][alias].entities

IsColumn(protos, pw, alias, entity, field) ==
  /\ IsTable(protos, pw, alias, entity)
  /\ field \in DOMAIN protos[pw][alias].entities[entity].fields

IsRelatedTable(protos, pw, alias, entity, rel) ==
  /\ IsTable(protos, pw, alias, entity)
  /\ rel \in DOMAIN protos[pw][alias].entities[entity].relations

GetDbName(protos, pw, alias) == protos[pw][alias].database

GetTableName(protos, pw, alias, entity) ==
  protos[pw][alias].entities[entity].table

GetColName(protos, pw, alias, entity, field) ==
  protos[pw][alias].entities[entity].fields[field]

GetRelation(protos, pw, alias, entity, rel) ==
  protos[pw][alias].entities[entity].relations[rel]

(***************************************************************************)
(* What the evaluator needs of a protocol: every table and column it can   *)
(* reach through a field or through a relation's key is in the schema.     *)
(***************************************************************************)
Joined(rel) == IF rel.type = "mtm"
                 THEN {<<rel.entity, rel.fk[4]>>, <<rel.through, rel.fk[2]>>,
                       <<rel.through, rel.fk[3]>>}
                 ELSE {<<rel.entity, rel.fk[2]>>}

Reached(entity) ==
  {<<entity.table, entity.fields[f]>> : f \in DOMAIN entity.fields}
  \cup UNION {{<<entity.table, entity.relations[r].fk[1]>>}
                \cup Joined(entity.relations[r]) : r \in DOMAIN entity.relations}

Resolves(schema, protocol) ==
  \A m \in DOMAIN protocol :
    LET db == protocol[m].database IN
    /\ db \in DOMAIN schema
    /\ \A e \in DOMAIN protocol[m].entities :
         /\ protocol[m].entities[e].table \in DOMAIN schema[db]
         /\ \A p \in Reached(protocol[m].entities[e]) :
              p[1] \in DOMAIN schema[db] /\ p[2] \in DOMAIN schema[db][p[1]]
=============================================================================
