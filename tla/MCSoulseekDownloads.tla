------------------------ MODULE MCSoulseekDownloads ------------------------
\* Small instances of SoulseekDownloads.  Keys are not interchangeable (one may be
\* pinned); job objects, transfers and requests are.
EXTENDS SoulseekDownloads, TLC

CONSTANTS k1, k2, p1, p2

MCPathOf == k1 :> p1 @@ k2 :> p2

\* Two peers offer the same track under the same filename.
MCShared == k1 :> p1 @@ k2 :> p1

Scenario(keys, requests, transfers, events) ==
  [keys |-> keys, requests |-> requests, transfers |-> transfers, events |-> events]
MCJobs ==
  {Scenario({k1}, 1, 1, {"cancel", "evict"}),
   Scenario({k1}, 2, 2, {"outage", "crash"}),
   Scenario({k1}, 1, 2, {"close", "crash", "refuse"}),
   Scenario({k1, k2}, 1, 1, {"evict"})}
MCLive == {Scenario({k1}, 1, 1, {"cancel", "outage"}), Scenario({k1, k2}, 1, 1, {"close"})}
MCStreams == {Scenario({k1, k2}, 1, 1, {"evict"})}

Symmetry == Permutations(Jobs) \cup Permutations(Transfers) \cup Permutations(Requests)

\* What is left in an object or a transfer that nobody refers to does not matter.
Reachable ==
  <<disk, [x \in Transfers |-> IF Unused(x) THEN NoTransferYet ELSE transfer[x]], jobs, records,
    [j \in Jobs |-> IF Free(j) THEN NoJobYet ELSE job[j]], pc, fin, gate, cache, req, phase,
    scenario>>
=============================================================================
