------------------------------ MODULE Topology ------------------------------
(***************************************************************************)
(* The network map: the eBPF programs put records into a ring buffer, one  *)
(* goroutine reads them, resolves the two ends of a connection to names of *)
(* containers through a cache, and counts the edge; another goroutine      *)
(* empties the cache every minute, key by key.  Containers are renamed and *)
(* addresses move from one to another meanwhile.                           *)
(***************************************************************************)
EXTENDS Naturals, Sequences, FiniteSets, FiniteSetsExt

CONSTANTS
  Pids, Ips,      \* the keys of the cache: "pid:N" and "ip:X"
  Loopback,       \* 127.0.0.1 and 0.0.0.0
  Names,          \* what Docker, Kubernetes or /proc call a process
  Nothing,        \* the empty string; a key without an entry
  RingSize,       \* records that fit into the ring buffer
  MaxRecords      \* bound: records the kernel produces

Keys  == Pids \cup Ips
Nodes == Names \cup Keys
Named == Keys \ Loopback

ASSUME TopologyAssumption ==
  /\ Pids \cap Ips = {} /\ Names \cap Keys = {} /\ Nothing \notin Nodes
  /\ Loopback \subseteq Ips /\ Pids # {} /\ Ips # {}
  /\ IsFiniteSet(Pids) /\ IsFiniteSet(Ips) /\ IsFiniteSet(Names)
  /\ RingSize \in Nat \ {0} /\ MaxRecords \in Nat

Record == [kind : {"http", "conn"}, pid : Pids, ip : Ips]

VARIABLES
  world,      \* what each process and address is called right now
  ring,       \* the records in the ring buffer
  rpc,        \* where the reader is
  record,     \* the record in its hands
  asked,      \* the name a query has returned, until it is stored
  node,       \* sourceNode and targetNode
  cache,      \* containerNameCache
  age,        \* history: flushes that ended since the entry was stored
  fpc,        \* where the flusher is
  unvisited,  \* the keys its Range has not visited yet
  due,        \* the keys it must visit: they were there when it began
  hits,       \* network_edges: hit_count of each edge
  produced,   \* history: records that went into the ring buffer
  settled     \* history: records that end without an edge

reader  == <<rpc, record, asked, node>>
flusher == <<fpc, unvisited, due>>
vars    == <<world, ring, reader, cache, age, flusher, hits, produced, settled>>

NoNodes == [end \in {"source", "target"} |-> Nothing]

Init ==
  /\ world \in [Named -> Names]
  /\ ring = <<>>
  /\ rpc = "read" /\ record = CHOOSE new \in Record : TRUE
  /\ asked = Nothing
  /\ node = NoNodes
  /\ cache = [k \in Keys |-> Nothing]
  /\ age = [k \in Keys |-> 0]
  /\ fpc = "sleep" /\ unvisited = {} /\ due = {}
  /\ hits = [edge \in Nodes \X Nodes |-> 0]
  /\ produced = 0 /\ settled = 0

-----------------------------------------------------------------------------
(* The kernel, and the containers                                          *)

(* handle_sys_write, handle_sys_connect: no room in the buffer, no record. *)
Trace(new) ==
  /\ produced < MaxRecords
  /\ Len(ring) < RingSize
  /\ ring' = Append(ring, new)
  /\ produced' = produced + 1
  /\ UNCHANGED <<world, reader, cache, age, flusher, hits, settled>>

Rename(k, name) ==
  /\ name # world[k]
  /\ world' = [world EXCEPT ![k] = name]
  /\ UNCHANGED <<ring, reader, cache, age, flusher, hits, produced, settled>>

-----------------------------------------------------------------------------
(* The reader's loop and its callbacks                                     *)

(* OnHTTP500 is one call of saveEvent; loopback connections are skipped.   *)
Mapped(new) == new.kind = "conn" /\ new.ip \notin Loopback

Read ==
  /\ rpc = "read" /\ ring # <<>>
  /\ ring' = Tail(ring)
  /\ IF Mapped(Head(ring))
     THEN rpc' = "source" /\ record' = Head(ring) /\ UNCHANGED settled
     ELSE settled' = settled + 1 /\ UNCHANGED <<rpc, record>>
  /\ UNCHANGED <<world, asked, node, cache, age, flusher, hits, produced>>

(* A record that cannot be read or decoded is skipped; the mutant returns. *)
AfterError_returns == "stopped"
AfterError == "read"
ReadFails ==
  /\ rpc = "read" /\ ring # <<>>
  /\ ring' = Tail(ring)
  /\ rpc' = AfterError
  /\ settled' = settled + 1
  /\ UNCHANGED <<world, record, asked, node, cache, age, flusher, hits, produced>>

KeyAt(end) == IF end = "source" THEN record.pid ELSE record.ip
After_sourceOnly(end) == "upsert"      \* mutant: the target is left out
After(end) == IF end = "source" THEN "target" ELSE "upsert"
Take(end, name) == node' = [node EXCEPT ![end] = name] /\ rpc' = After(end)

(* A query that finds nothing leaves the PID or the address as the name,   *)
(* and that is cached too.                                                 *)
Fallback(k, answer) == IF answer = Nothing THEN k ELSE answer

Load(end) ==
  /\ rpc = end /\ asked = Nothing /\ cache[KeyAt(end)] # Nothing
  /\ Take(end, cache[KeyAt(end)])
  /\ UNCHANGED <<world, ring, record, asked, cache, age, flusher, hits, produced, settled>>

Query(end) ==
  /\ rpc = end /\ asked = Nothing /\ cache[KeyAt(end)] = Nothing
  /\ \E answer \in {Nothing, world[KeyAt(end)]} : asked' = Fallback(KeyAt(end), answer)
  /\ UNCHANGED <<world, ring, rpc, record, node, cache, age, flusher, hits, produced, settled>>

Store(end) ==
  /\ rpc = end /\ asked # Nothing
  /\ cache' = [cache EXCEPT ![KeyAt(end)] = asked]
  /\ age' = [age EXCEPT ![KeyAt(end)] = 0]
  /\ Take(end, asked)
  /\ asked' = Nothing
  /\ UNCHANGED <<world, ring, record, flusher, hits, produced, settled>>

(* ON CONFLICT DO UPDATE; the mutant is an INSERT OR IGNORE.               *)
Hit_ignored(n) == IF n = 0 THEN 1 ELSE n
Hit(n) == n + 1
Count ==
  /\ rpc = "upsert"
  /\ hits' = [hits EXCEPT ![<<node["source"], node["target"]>>] = Hit(@)]
  /\ rpc' = "read" /\ node' = NoNodes
  /\ UNCHANGED <<world, ring, record, asked, cache, age, flusher, produced, settled>>

CountFails ==
  /\ rpc = "upsert"
  /\ rpc' = "read" /\ node' = NoNodes
  /\ settled' = settled + 1
  /\ UNCHANGED <<world, ring, record, asked, cache, age, flusher, hits, produced>>

-----------------------------------------------------------------------------
(* FlushContainerCache                                                     *)

Wake ==
  /\ fpc = "sleep"
  /\ fpc' = "range"
  /\ unvisited' = Keys
  /\ due' = {k \in Keys : cache[k] # Nothing}
  /\ UNCHANGED <<world, ring, reader, cache, age, hits, produced, settled>>

(* Range visits no key twice, each key that is there all the time, and it  *)
(* may or may not visit one that is stored meanwhile.                      *)
Flush(k) ==
  /\ fpc = "range" /\ k \in unvisited /\ cache[k] # Nothing
  /\ cache' = [cache EXCEPT ![k] = Nothing]
  /\ age' = [age EXCEPT ![k] = 0]
  /\ unvisited' = unvisited \ {k}
  /\ UNCHANGED <<world, ring, reader, fpc, due, hits, produced, settled>>

(* The mutant's callback returns false.                                    *)
RangeEnds_early == unvisited # Keys \/ due = {}
RangeEnds == due \cap unvisited = {}
(* The mutant flushes once.                                                *)
AfterFlush_stops == "stopped"
AfterFlush == "sleep"
Sleep ==
  /\ fpc = "range" /\ RangeEnds
  /\ fpc' = AfterFlush /\ unvisited' = {} /\ due' = {}
  /\ age' = [k \in Keys |-> IF cache[k] = Nothing THEN 0 ELSE age[k] + 1]
  /\ UNCHANGED <<world, ring, reader, cache, hits, produced, settled>>

-----------------------------------------------------------------------------
Kernel  == \E new \in Record : Trace(new)
Resolve(end) == Load(end) \/ Query(end) \/ Store(end)
Reader  == Read \/ ReadFails \/ (\E end \in {"source", "target"} : Resolve(end))
           \/ Count \/ CountFails
Flusher == Wake \/ (\E k \in Keys : Flush(k)) \/ Sleep

Next == Kernel \/ (\E k \in Named, name \in Names : Rename(k, name)) \/ Reader \/ Flusher

Spec == Init /\ [][Next]_vars

(* Queries have deadlines of two and three seconds, so that the reader     *)
(* always goes on; the flusher sleeps for a minute.                        *)
FairSpec == Spec /\ WF_vars(Reader) /\ WF_vars(Flusher)

-----------------------------------------------------------------------------
(* Properties                                                              *)

TypeOK ==
  /\ world \in [Named -> Names]
  /\ ring \in Seq(Record) /\ Len(ring) <= RingSize
  /\ rpc \in {"read", "source", "target", "upsert"} /\ record \in Record
  /\ asked \in Nodes \cup {Nothing}
  /\ node \in [{"source", "target"} -> Nodes \cup {Nothing}]
  /\ cache \in [Keys -> Nodes \cup {Nothing}]
  /\ age \in [Keys -> Nat]
  /\ fpc \in {"sleep", "range"} /\ unvisited \subseteq Keys /\ due \subseteq Keys
  /\ hits \in [Nodes \X Nodes -> Nat]
  /\ rpc = "upsert" => Nothing \notin {node["source"], node["target"]}

(* main.go:2906-2911.  No connection is counted twice or gets lost on its  *)
(* way from the ring buffer through the cache to the database: each record *)
(* is waiting, in the reader's hands, counted at one edge, or settled as   *)
(* skipped, undecodable or failed.                                         *)
Hits == MapThenSumSet(LAMBDA edge : hits[edge], DOMAIN hits)
Accounted ==
  produced = Len(ring) + (IF rpc = "read" THEN 0 ELSE 1) + Hits + settled

(* container.go:212: the cache is flushed "so stale entries are refreshed".*)
(* The reader may store a name while the flusher ranges, and the flusher   *)
(* may miss it: but it never misses it a second time.                      *)
OneFlushAtMost == \A k \in Keys : age[k] <= 1

(* A name that is no longer right is used for a while and then leaves the  *)
(* cache, although the reader may have asked for it just before the change *)
(* and store it just after a flush.                                        *)
Stale(k) == cache[k] \in Names \ {world[k]}
StaleNamesGo == \A k \in Named : Stale(k) ~> ~Stale(k)

(* agent.go:87-95: the reader goes on after errors, in spite of slow or    *)
(* failing queries and of flushes between its steps: every record that the *)
(* kernel has put into the buffer is taken out, and done with, in the end. *)
RecordsSettle ==
  \A n \in 1..MaxRecords : produced >= n ~> rpc = "read" /\ produced >= n + Len(ring)
=============================================================================
