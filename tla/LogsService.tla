------------------------------ MODULE LogsService ------------------------------
(***************************************************************************)
(* internal/services/aws/logs: log groups, their streams and the events,   *)
(* known by names.  A stream keeps a summary of its events, changed under  *)
(* the lock of the collection: here the bytes, one for an event.           *)
(***************************************************************************)
EXTENDS StoreCalls

findGroup == FindBy("g", "group", [name |-> "n"])
requireGroup(args, calls) ==
  Handler([n |-> "name"] @@ args, <<findGroup>> \o calls)
findStream == [group |-> "n", name |-> "s"]
requireStream(calls) ==
  requireGroup([s |-> "stream name"],
               <<FindBy("k", "stream", findStream)>> \o calls)

createLogGroup ==
  Handler([n |-> "name"],
          <<Free("group", [name |-> "n"]), Add("g", "group", [name |-> "n"])>>)
deleteStreamEvents == DropAll("event", [group |-> "n", stream |-> "s"])
deleteLogGroup ==
  requireGroup(None,
    <<ReadingAs(Each("k", "stream", [group |-> "n"],
                     <<deleteStreamEvents, Drop("k")>>), "s", "name"),
      Drop("g")>>)
describeLogGroups == Reads("group")

createLogStream ==
  requireGroup([s |-> "stream name"],
    <<Free("stream", findStream),
      Add("k", "stream", [bytes |-> "zero"] @@ findStream)>>)
deleteLogStream == requireStream(<<deleteStreamEvents, Drop("k")>>)
describeLogStreams == requireGroup(None, <<Look("stream")>>)

(* The stream may be gone when its summary is updated: the events stay and *)
(* the request fails.                                                      *)
Event == Add("e", "event", [group |-> "n", stream |-> "s"])
putLogEventsFromRead ==
  requireGroup([s |-> "stream name"],
    <<Reading(FindBy("k", "stream", findStream), "bytes"), Event,
      [Incr("k", "bytes", 1) EXCEPT !.op = "bump"]>>)
putLogEvents ==
  requireStream(<<Event, Incr("k", "bytes", 1)>>)
  \o requireStream(<<Event, Event, Incr("k", "bytes", 2)>>)
getLogEvents == requireStream(<<Look("event")>>)
filterLogEvents == requireGroup(None, <<Look("stream"), Look("event")>>)

putRetentionPolicy == requireGroup(None, <<Patch("g")>>)
deleteRetentionPolicy == requireGroup(None, <<Patch("g")>>)
requireGroupByARN(calls) == requireGroup(None, calls)
tagResource == requireGroupByARN(<<Patch("g")>>)
untagResource == requireGroupByARN(<<Patch("g")>>)
listTagsForResource == requireGroupByARN(<<>>)
-----------------------------------------------------------------------------
Logs ==
  Part({"group", "stream", "event"},
    createLogGroup \o deleteLogGroup \o describeLogGroups \o createLogStream
      \o deleteLogStream \o describeLogStreams \o putLogEvents \o getLogEvents
      \o filterLogEvents \o putRetentionPolicy \o deleteRetentionPolicy
      \o tagResource \o untagResource \o listTagsForResource,
    [config |-> <<Add("g", "group", [name |-> "g1"]),
                  Add("k", "stream",
                      [group |-> "g1", name |-> "s1", bytes |-> "zero"])>>,
     parents |-> [stream |-> [group |-> Key("group", "name")],
                  event |-> [group |-> Key("group", "name"),
                             stream |-> Key("stream", "name")]],
     unique |-> [group |-> {"name"}, stream |-> {"group", "name"}],
     counts |-> {[table |-> "stream", field |-> "bytes", of |-> "event",
                  by |-> [group |-> "group", stream |-> "name"], where |-> None]},
     locked |-> {"bytes"},
     copies |-> {[table |-> "event", of |-> "stream", fields |-> {},
                  by |-> [group |-> "group", name |-> "stream"]]},
     words |-> [name |-> {"g1", "g2"}] @@ ("stream name" :> {"s1", "s2"})])
=============================================================================
