---------------------------- MODULE MCDiskCatalog ----------------------------
(* An instance of DiskCatalog for TLC: disks 0 and 1, clusters 2 .. 6, four *)
(* entries to a sector of the FAT, so that the clusters lie in two of them. *)
EXTENDS DiskCatalog, Sequences

File(d, first, len) == [file |-> d, cluster |-> first, blocks |-> len]

\* links: where the clusters 2 .. 6 lead; E ends a chain
MCEoc == 8
E == MCEoc
Fat(links) == [k \in 0 .. 7 |-> IF k \in 2 .. 6 THEN links[k - 1] ELSE E]

Stick(spc, links, dir) ==
    [ok |-> TRUE, spc |-> spc, data |-> 4 + spc, root |-> 2,
     fat |-> Fat(links), dir |-> dir]

\* One sector to a cluster, the root directory in cluster 2 alone
Small(links, entries) == Stick(1, links, [l \in {5} |-> entries])

MCSticks ==
    { \* two files in order; a third of no length
      Small(<<E, 4, E, 6, E>>, {File(0, 3, 2), File(1, 5, 2)}),
      Small(<<E, 4, 5, 6, E>>, {File(0, 0, 0), File(1, 3, 4)}),
      \* the files are interleaved, or in descending order
      Small(<<E, 5, 6, E, E>>, {File(0, 3, 2), File(1, 4, 2)}),
      Small(<<E, E, 3, E, 5>>, {File(0, 4, 2), File(1, 6, 2)}),
      \* a broken chain: in a circle, into itself, into a free cluster
      Small(<<E, 4, 3, E, E>>, {File(0, 3, 2), File(1, 5, 1)}),
      Small(<<E, 4, 5, 3, 6>>, {File(0, 3, 3), File(1, 6, 1)}),
      Small(<<E, 4, 0, E, E>>, {File(1, 3, 2), File(0, 6, 1)}),
      \* a configuration, in one piece and in two
      Small(<<E, E, 5, E, E>>, {File(0, 3, 1), File(CfgDisk, 4, 2)}),
      Small(<<E, 5, E, E, E>>, {File(1, 4, 1), File(CfgDisk, 3, 2)}),
      \* no files; no file system
      Small(<<E, 0, 0, 0, 0>>, {}),
      [Small(<<E, 4, E, 6, E>>, {File(0, 3, 2), File(1, 5, 2)}) EXCEPT !.ok = FALSE],
      \* a root directory of two clusters, far apart
      Stick(1, <<6, 4, E, E, E>>,
            [l \in {5, 9} |-> IF l = 5 THEN {File(1, 3, 2)} ELSE {File(0, 5, 1)}]),
      \* clusters of two sectors
      Stick(2, <<E, 4, E, E, 5>>,
            [l \in {6, 7} |-> IF l = 6 THEN {File(0, 3, 3)} ELSE {File(1, 6, 4)}]) }
=============================================================================
