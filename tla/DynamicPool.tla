----------------------------- MODULE DynamicPool -----------------------------
(***************************************************************************)
(* app/proxy/dynamic_pool.py: build_dynamic_pool asks Clash for its nodes,  *)
(* finds the exit IP of each by switching the groups to it, gives one node  *)
(* of each IP a port in Merge.yaml, waits for the ports, and keeps those    *)
(* whose own exit IPs differ.  A build that fails is to put Merge.yaml      *)
(* back.                                                                    *)
(***************************************************************************)
EXTENDS ProxyPool

CONSTANTS
    NumNodes,    \* the nodes of Clash are 1 .. NumNodes, in their order
    Ips,         \* exit IPs
    PoolSize     \* pool_size

ASSUME BuildAssumption ==
    /\ NumNodes \in Nat
    /\ PoolSize \in Ports
    /\ IsFiniteSet(Ips)

VARIABLES
    build,       \* where build_dynamic_pool is, "off" when it is not asked for
    cache,       \* the cache file: "none", "old" (within its TTL) or "new"
    nodeIps,     \* node_ips: the exit IP of each node, in the order of the test
    group,       \* what the group is switched to: 0 is its own choice
    merge,       \* Merge.yaml: "none", "empty", "user", or "listeners"
    original,    \* original_merge, "empty" when it could not be read
    unrestored   \* restore_merge has failed to write

buildVars == <<build, cache, nodeIps, group, merge, original, unrestored>>

Files == {"none", "empty", "user"}
Unknown == ""    \* get_exit_ip failed

BuildInit(stage) ==
    /\ build = stage
    /\ cache \in {"none", "old"}
    /\ nodeIps = <<>>
    /\ group = 0
    /\ merge \in Files
    /\ original = "empty"
    /\ unrestored = FALSE

\* select_distinct_ips: one node of each IP, PoolSize of them at most.
IpsOf(results) == Range(results) \ {Unknown}
NumPicks == Min({PoolSize, Cardinality(IpsOf(nodeIps))})

IsFirst(results, i) ==
    /\ results[i] # Unknown
    /\ \A j \in 1 .. i - 1 : results[j] # results[i]

Raise == build' = "failed"

\* discover_nodes fails or finds nothing.
Discover ==
    /\ build = "discover"
    /\ \/ Raise /\ UNCHANGED nodeIps
       \/ build' = "test" /\ UNCHANGED nodeIps
       \/ /\ cache = "old"
          /\ \E n \in 1 .. NumNodes : nodeIps' \in [1 .. n -> Ips \cup {Unknown}]
          /\ build' = "apply"
    /\ UNCHANGED <<cache, group, merge, original, unrestored>>

\* One node: the groups that hold it are switched (a failing switch is
\* swallowed), and the exit IP is asked for.
TestNode ==
    /\ build = "test"
    /\ Len(nodeIps) < NumNodes
    /\ Cardinality(IpsOf(nodeIps)) < 2 * PoolSize
    /\ \E ip \in Ips \cup {Unknown} : nodeIps' = Append(nodeIps, ip)
    /\ group' \in {group, Len(nodeIps) + 1}
    /\ UNCHANGED <<build, cache, merge, original, unrestored>>

\* The finally of test_node_ips switches the groups back, as far as Clash
\* obeys, and the result goes to the cache file, if it can be written.
EndTest ==
    /\ build = "test"
    /\ Len(nodeIps) = NumNodes \/ Cardinality(IpsOf(nodeIps)) >= 2 * PoolSize
    /\ group' \in {group, 0}
    /\ cache' \in {cache, "new"}
    /\ build' = "apply"
    /\ UNCHANGED <<nodeIps, merge, original, unrestored>>

\* apply_to_merge: a listener for each pick takes the place of the last ones.
WriteListeners == merge # "none" /\ merge' = "listeners"

\* No node has an IP; or Merge.yaml is read and the listeners are written.  A
\* file that cannot be read counts as an empty one; without the file nothing
\* is written and nothing is waited for.
Apply ==
    /\ build = "apply"
    /\ UNCHANGED <<cache, nodeIps, group, unrestored>>
    /\ \/ /\ Raise    \* no pick, or the write of Merge.yaml raises
          /\ NumPicks = 0 \/ merge # "none"
          /\ UNCHANGED <<merge, original>>
       \/ /\ NumPicks > 0
          /\ merge = "none"
          /\ build' = "verify"
          /\ UNCHANGED <<merge, original>>
       \/ /\ NumPicks > 0
          /\ original' \in {merge, "empty"}
          /\ WriteListeners
          /\ build' = "wait"

\* restore_merge: only what was read and is not empty is put back; a failing
\* write is logged.
LeaveListeners == UNCHANGED <<merge, unrestored>>    \* a bug: raise without restore_merge
Restore ==
    \/ /\ merge # "none"
       /\ original # "empty"
       /\ merge' = original
       /\ UNCHANGED unrestored
    \/ /\ merge # "none"
       /\ original # "empty"
       /\ unrestored' = TRUE
       /\ UNCHANGED merge
    \/ /\ merge = "none" \/ original = "empty"
       /\ UNCHANGED <<merge, unrestored>>

\* The ports come up, or do not; a user who presses return goes on either way.
PortsReady ==
    /\ build = "wait"
    /\ build' = "verify"
    /\ UNCHANGED <<cache, nodeIps, group, merge, original, unrestored>>

PortsTimeOut ==
    /\ build = "wait"
    /\ Raise
    /\ Restore
    /\ UNCHANGED <<cache, nodeIps, group, original>>

\* The exit IP of every port is asked for; the first port of each IP is kept.
InOrder(ports) == {s \in [1 .. Cardinality(ports) -> ports] :
                      \A i, j \in DOMAIN s : i < j => s[i] < s[j]}

Verify ==
    /\ build = "verify"
    /\ \E ips \in [1 .. NumPicks -> Ips \cup {Unknown}] :
          LET good == {i \in 1 .. NumPicks : IsFirst(ips, i)}
          IN  \/ /\ good = {}
                 /\ Raise
                 /\ Restore
                 /\ UNCHANGED <<pool, original>>
              \/ /\ good # {}
                 /\ build' = "ready"
                 /\ pool' \in InOrder(good)
                 /\ original' = "empty"
                 /\ UNCHANGED <<merge, unrestored>>
    /\ nodeIps' = <<>>    \* node_ips, like original_merge, is a local
    /\ UNCHANGED <<cache, group>>

Build ==
    \/ (Discover \/ TestNode \/ EndTest \/ Apply \/ PortsReady \/ PortsTimeOut) /\ UNCHANGED pool
    \/ Verify

\* "Record Merge.yaml, roll back on failure" (dynamic_pool.py:333): a build
\* that fails leaves the file as it was read, on every path that raises,
\* unless the very write that restores it fails.
MergeRestored ==
    build = "failed" /\ original # "empty" /\ ~unrestored => merge = original
=============================================================================
