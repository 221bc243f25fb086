---------------------------- MODULE DynamoDBService ----------------------------
(***************************************************************************)
(* internal/services/aws/dynamodb: tables and their items, known by the    *)
(* name of the table and by the key.  Putting an item deletes the old one  *)
(* and inserts the new one, in two steps.                                  *)
(***************************************************************************)
EXTENDS StoreCalls

findTable == FindBy("t", "table", [name |-> "n"])
requireTable(args, calls) ==
  Handler([n |-> "name"] @@ args, <<findTable>> \o calls)
findItem == [in |-> "n", key |-> "k"]
OfItem(args, calls) == requireTable([k |-> "key"] @@ args, calls)

createTable ==
  Handler([n |-> "name"],
          <<Free("table", [name |-> "n"]), Add("t", "table", [name |-> "n"])>>)
tableItems == DropAll("item", [in |-> "n"])
deleteTable == requireTable(None, <<tableItems, Drop("t")>>)
describeTable == requireTable(None, <<Look("item")>>)
listTables == Reads("table")
updateTable == requireTable(None, <<Patch("t")>>)

putStoredItem ==
  <<IfAny("i", "item", findItem, <<Drop("i")>>),
    Add("i", "item", [data |-> "v"] @@ findItem)>>
putItem == OfItem([v |-> "data"], putStoredItem)
deleteStoredItem == <<IfAny("i", "item", findItem, <<Drop("i")>>)>>
deleteItem == OfItem(None, deleteStoredItem)
getItem == OfItem(None, <<Look("item")>>)
scan == requireTable(None, <<Look("item")>>)
query == requireTable(None, <<Look("item")>>)
batchGetItem == OfItem(None, <<Look("item")>>)

(* The tables are looked up before the first operation.                    *)
batchWriteItem ==
  OfItem([v |-> "data"], putStoredItem \o deleteStoredItem)
  \o OfItem([v |-> "data"], deleteStoredItem \o putStoredItem)

findTableByARN(calls) == requireTable(None, calls)
tagResource == findTableByARN(<<Patch("t")>>)
untagResource == findTableByARN(<<Patch("t")>>)
listTagsOfResource == findTableByARN(<<>>)
-----------------------------------------------------------------------------
Tables ==
  Part({"table", "item"},
    createTable \o deleteTable \o describeTable \o listTables \o updateTable
      \o putItem \o deleteItem \o getItem \o scan \o query \o batchGetItem
      \o batchWriteItem \o tagResource \o untagResource \o listTagsOfResource,
    [config |-> <<Add("t", "table", [name |-> "n1"]),
                  Add("i", "item", [in |-> "n1", key |-> "k1", data |-> "d1"])>>,
     parents |-> [item |-> [in |-> Key("table", "name")]],
     unique |-> [table |-> {"name"}, item |-> {"in", "key"}],
     words |-> [name |-> {"n1", "n2"}, key |-> {"k1"}, data |-> {"d1", "d2"}]])
=============================================================================
