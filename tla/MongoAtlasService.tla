-------------------------- MODULE MongoAtlasService --------------------------
(***************************************************************************)
(* internal/services/mongoatlas: projects with their clusters and database *)
(* users (the administration API), and the databases, collections and      *)
(* documents of a cluster (the data API).  A cluster is looked up by its   *)
(* project and name in the first and by its name alone in the second.  The *)
(* data of a document is one value; a filter asks for it.                  *)
(***************************************************************************)
EXTENDS Integers, StoreCalls

OfProject(args, calls) ==
  Handler([g |-> "project"] @@ args,
          <<Reading(Find("project", "g"), "count")>> \o calls)
clusterByName ==
  ReadingAll(FindBy("k", "cluster", [id |-> "k", project |-> "g"]), {"name"})
OfCluster(calls) ==
  Handler([g |-> "project", k |-> "cluster"], <<clusterByName>> \o calls)
userByName == FindBy("u", "user", [id |-> "u", project |-> "g"])

-----------------------------------------------------------------------------
(* Projects, clusters and users.  The count of a project's clusters is     *)
(* written from what was read.                                             *)
ListProjects == Reads("project")
GetProject == OfProject(None, <<>>)
CreateProject ==
  Handler([n |-> "name"],
          <<Free("project", [name |-> "n"]),
            Add("g", "project", [name |-> "n", count |-> "zero"])>>)

deleteClusterData ==
  <<DropAll("document", [cluster |-> "k"]), DropAll("collection", [cluster |-> "k"]),
    DropAll("database", [cluster |-> "k"])>>
DeleteProject ==
  OfProject(None,
    <<Each("k", "cluster", [project |-> "g"], deleteClusterData \o <<Drop("k")>>),
      DropAll("user", [project |-> "g"]), Drop("g")>>)

ListClusters == OfProject(None, <<Look("cluster")>>)
GetCluster == OfCluster(<<>>)
clusterRecord(name) == Add("k", "cluster", [project |-> "g", name |-> name])
CreateCluster ==
  OfProject([n |-> "name"],
    <<Free("cluster", [project |-> "g", name |-> "n"]), clusterRecord("n"),
      Bump("g", "count", 1)>>)
PatchCluster == OfCluster(<<Patch("k")>>)
DeleteCluster ==
  OfCluster(deleteClusterData
    \o <<Drop("k"),
         Reading(IfAny("g", "project", [id |-> "g"], <<Bump("g", "count", -1)>>),
                 "count")>>)

ListDatabaseUsers == OfProject(None, <<Look("user")>>)
GetDatabaseUser == OfProject([u |-> "user"], <<userByName>>)
CreateDatabaseUser ==
  OfProject([n |-> "name"],
    <<Free("user", [project |-> "g", name |-> "n"]),
      Add("u", "user", [project |-> "g", name |-> "n"])>>)
DeleteDatabaseUser == OfProject([u |-> "user"], <<userByName, Drop("u")>>)
ListDatabases == OfCluster(<<Look("database")>>)
ListCollections == OfCluster(<<Look("collection")>>)

-----------------------------------------------------------------------------
(* Documents.  The first cluster of a name is the one, whatever project it *)
(* is of.                                                                  *)
resolveDataRequest(args, calls) ==
  Handler([s |-> "name", db |-> "db", coll |-> "coll"] @@ args,
          <<FindBy("k", "cluster", [name |-> "s"])>> \o calls)
ensureCollection(db, coll) ==
  <<Ensure("d", "database", [cluster |-> "k", name |-> db],
           [cluster |-> "k", name |-> db]),
    Ensure("c", "collection", [cluster |-> "k", database |-> db, name |-> coll],
           [cluster |-> "k", database |-> db, name |-> coll])>>
recordsForCollection(v) ==
  [cluster |-> "k", database |-> "db", collection |-> "coll", data |-> v]
Document(v) == <<Add("o", "document", recordsForCollection(v))>>

FindOne == resolveDataRequest(None, <<Look("document")>>)
FindDocuments == resolveDataRequest(None, <<Look("document")>>)
Aggregate == resolveDataRequest(None, <<Look("document")>>)
InsertOne ==
  resolveDataRequest([v |-> "word"], ensureCollection("db", "coll") \o Document("v"))
InsertMany ==
  resolveDataRequest([v |-> "word"],
                     ensureCollection("db", "coll") \o Document("v") \o Document("v"))
applyUpdate(o, w) == Set(o, [data |-> w])
upserted == ensureCollection("db", "coll") \o Document("w")
UpdateOne ==
  resolveDataRequest([v |-> "word", w |-> "word"],
    <<Seek("o", "document", recordsForCollection("v"),
           <<applyUpdate("o", "w")>>, upserted)>>)
UpdateMany ==
  resolveDataRequest([v |-> "word", w |-> "word"],
    <<Each("o", "document", recordsForCollection("v"),
           <<applyUpdate("o", "w")>>)>>) \o
  resolveDataRequest([v |-> "word", w |-> "word"],
    <<IfNone("document", recordsForCollection("v"), upserted)>>)
DeleteOne ==
  resolveDataRequest([v |-> "word"],
    <<IfAny("o", "document", recordsForCollection("v"), <<Drop("o")>>)>>)
DeleteMany ==
  resolveDataRequest([v |-> "word"],
                     <<DropAll("document", recordsForCollection("v"))>>)

SeedDefaults ==
  <<Seek("g", "project", None, <<>>,
      <<Add("g", "project", [name |-> "P0", count |-> "one"]), clusterRecord("C0"),
        Add("u", "user", [project |-> "g", name |-> "admin"])>>
      \o ensureCollection("test", "items"))>>
SeedFromConfig ==
  <<Seek("g", "project", [name |-> "P1"], <<>>,
         <<Add("g", "project", [name |-> "P1", count |-> "zero"])>>),
    Seek("k", "cluster", [project |-> "g", name |-> "C1"], <<>>,
         <<clusterRecord("C1"),
           Reading(Find("project", "g"), "count"), Bump("g", "count", 1)>>),
    Ensure("u", "user", [project |-> "g", name |-> "app"],
           [project |-> "g", name |-> "app"])>>
  \o ensureCollection("shop", "items")
-----------------------------------------------------------------------------
(* The parts of the service.                                               *)
Administration ==
  Part({"project", "cluster", "user"},
    ListProjects \o GetProject \o CreateProject \o DeleteProject
      \o ListClusters \o GetCluster \o CreateCluster \o PatchCluster
      \o DeleteCluster \o ListDatabaseUsers \o GetDatabaseUser
      \o CreateDatabaseUser \o DeleteDatabaseUser,
    [defaults |-> SeedDefaults, config |-> SeedFromConfig,
     parents |-> [cluster |-> [project |-> Id("project")],
                  user |-> [project |-> Id("project")]],
     unique |-> [project |-> {"name"}, cluster |-> {"project", "name"},
                 user |-> {"project", "name"}],
     counts |-> {[table |-> "project", field |-> "count", of |-> "cluster",
                  by |-> [project |-> "id"], where |-> None]},
     words |-> [name |-> {"n1"}]])
Data ==
  Part({"project", "cluster", "database", "collection", "document"},
    DeleteProject \o DeleteCluster \o ListDatabases \o ListCollections
      \o FindOne \o FindDocuments \o Aggregate \o InsertOne \o InsertMany
      \o UpdateOne \o UpdateMany \o DeleteOne \o DeleteMany,
    [config |-> <<Add("g", "project", [name |-> "P0", count |-> "one"]),
                  clusterRecord("C0")>>
                \o ensureCollection("test", "items"),
     parents |-> [cluster |-> [project |-> Id("project")],
                  database |-> [cluster |-> Id("cluster")],
                  collection |-> [cluster |-> Id("cluster")],
                  document |-> [cluster |-> Id("cluster")]],
     unique |-> [database |-> {"cluster", "name"},
                 collection |-> {"cluster", "database", "name"}],
     copies |-> {[table |-> "document", of |-> "collection", fields |-> {},
                  by |-> [cluster |-> "cluster", database |-> "database",
                          name |-> "collection"]]},
     words |-> [name |-> {"C0"}, db |-> {"shop"}, coll |-> {"items", "users"},
                word |-> {"v1", "v2"}]])
=============================================================================
