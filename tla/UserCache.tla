------------------------------ MODULE UserCache -------------------------------
(***************************************************************************)
(* UserCache (utl/user_cache.cpp): accounts by SID, in a list with the     *)
(* most recently used first and a map from SIDs to positions in that list. *)
(* get_account_info holds a mutex, so that a call is one step.             *)
(*                                                                         *)
(* A position is a list iterator: the address of a node, which the         *)
(* allocator may give again to another node once the first is freed.       *)
(* Adding an entry allocates a node of the list, then one of the map, and  *)
(* each of the two may throw.  The calls are those of EventProcessor.      *)
(***************************************************************************)
EXTENDS Naturals, Sequences, FiniteSets, SequencesExt

CONSTANTS
  Sids,           (* valid SIDs                                             *)
  Nodes,          (* bound: addresses of list nodes                         *)
  MaxCacheSize,   (* _max_cache_size                                        *)
  MaxFailures     (* bound: allocations that fail                           *)

ASSUME CacheAssumption ==
  MaxCacheSize \in Nat /\ MaxFailures \in Nat

VARIABLES
  lru,        (* _sid_lru_list: nodes with the SID they are about           *)
  cache,      (* _sid_cache: a node for each SID in its domain              *)
  failures,   (* allocations that failed                                    *)
  recency     (* history: the SIDs answered, the last one first             *)

cacheVars == <<lru, cache, failures, recency>>

Cached == DOMAIN cache

CacheTypeOK ==
  /\ lru \in Seq([node : Nodes, sid : Sids])
  /\ \A i, j \in 1 .. Len(lru) : lru[i].node = lru[j].node => i = j
  /\ Cached \subseteq Sids /\ \A s \in Cached : cache[s] \in Nodes
  /\ failures \in 0 .. MaxFailures
  /\ recency \in Seq(Sids)

CacheInit ==
  /\ lru = <<>> /\ cache = [s \in {} |-> s]
  /\ failures = 0 /\ recency = <<>>

Answered(s) ==
  \/ /\ \A i \in 1 .. Len(recency) : recency[i] # s
     /\ recency' = <<s>> \o recency
  \/ \E i \in 1 .. Len(recency) :
       /\ recency[i] = s
       /\ recency' = <<s>> \o RemoveAt(recency, i)

-----------------------------------------------------------------------------
(* Mutants: an entry stays where it is when it is used, or is copied. *)
StayInPlace(i) == lru
CopyToFront(i) == <<lru[i]>> \o lru

(* splice *)
ToFront(i) == <<lru[i]>> \o RemoveAt(lru, i)

Hit(s) ==
  /\ s \in Cached
  /\ \E i \in 1 .. Len(lru) :
       /\ lru[i].node = cache[s]
       /\ lru' = ToFront(i)
  /\ Answered(s)
  /\ UNCHANGED <<cache, failures>>

(* Mutant: the limit is enforced on the list only. *)
WholeMap == Cached

(* The size is compared before the new entry is added. *)
IsFull == MaxCacheSize > 0 /\ Cardinality(Cached) > MaxCacheSize

(* What the map keeps when the last entry of the list is dropped. *)
CachedKept == Cached \ {Last(lru).sid}

ListKept == IF IsFull THEN Front(lru) ELSE lru
CacheKept == IF IsFull THEN [s \in CachedKept |-> cache[s]] ELSE cache

FreeNodes == Nodes \ {ListKept[i].node : i \in 1 .. Len(ListKept)}

Miss(s) ==
  /\ s \notin Cached
  /\ \E n \in FreeNodes :
       /\ lru' = <<[node |-> n, sid |-> s]>> \o ListKept
       /\ cache' = [t \in DOMAIN CacheKept \union {s} |-> IF t = s THEN n ELSE CacheKept[t]]
  /\ Answered(s)
  /\ UNCHANGED failures

(* push_front throws after the last entry was dropped. *)
ListAllocationFails(s) ==
  /\ s \notin Cached /\ failures < MaxFailures
  /\ lru' = ListKept /\ cache' = CacheKept
  /\ failures' = failures + 1
  /\ UNCHANGED recency

(* The map throws: the new node stays in the list without an entry. *)
MapAllocationFails(s) ==
  /\ s \notin Cached /\ failures < MaxFailures
  /\ \E n \in FreeNodes : lru' = <<[node |-> n, sid |-> s]>> \o ListKept
  /\ cache' = CacheKept
  /\ failures' = failures + 1
  /\ UNCHANGED recency

(* A SID without an account changes nothing. *)
NoAccount(s) == s \notin Cached /\ UNCHANGED cacheVars

Throws(s) == ListAllocationFails(s) \/ MapAllocationFails(s)

-----------------------------------------------------------------------------
(* The map holds no iterator to a freed or to another node, whatever       *)
(* allocations failed: what it leads to is an entry for that SID.          *)
NoDanglingIterator ==
  \A s \in Cached : \E i \in 1 .. Len(lru) : lru[i] = [node |-> cache[s], sid |-> s]

(* "A LRU cache for user information": as long as no allocation fails, the *)
(* cache holds the SIDs answered last and no other, and drops none before  *)
(* there are _max_cache_size of them.  (How many it may hold at most is    *)
(* not stated: it is one more than _max_cache_size.)                       *)
HoldsMostRecent ==
  failures = 0 /\ MaxCacheSize > 0 =>
    \E n \in Min({Len(recency), MaxCacheSize}) .. Len(recency) :
      Cached = {recency[i] : i \in 1 .. n}
=============================================================================
