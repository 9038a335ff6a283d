----------------------------- MODULE MCPipeline -----------------------------
(* Small instances of Pipeline: every feeder with every sink, and every kind *)
(* of forwarder with a consumer that keeps reading or may stop.              *)
EXTENDS Pipeline

Plain == <<"wanted", "other", "wanted", "wanted">>
Mixed == <<"bad", "wanted", "bad", "other", "wanted", "wanted">>
Refusing == <<"wanted", "refused", "wanted">>

Tools == [feeder : {"replay", "sendJSON"}, input : {Mixed, Refusing}, node : {"none"},
          sink : {"record", "dump", "subscribe", "subscribeCount", "reader"}, reads : {FALSE}]
Nodes == [feeder : {"writer"}, input : {Plain}, sink : {"none"}, reads : BOOLEAN,
          node : {"DropNewest", "DropOldest", "Block", "j1939"}]
\* Both kinds of listener at once.
Both == [feeder : {"writer"}, input : {Plain}, sink : {"reader", "record"}, reads : {FALSE},
         node : {"DropNewest"}]
Small == Tools \cup Nodes \cup Both
=============================================================================
