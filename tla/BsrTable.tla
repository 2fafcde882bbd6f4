------------------------------ MODULE BsrTable ------------------------------
(***************************************************************************)
(* The 6-bit buffer size levels of a BSR (include/ul_mac/common_types.h)   *)
(* and the two conversions the UE, the eNB decoder and the scheduler use.  *)
(***************************************************************************)
EXTENDS Integers, Sequences

\* size_table: the upper bound in bytes of the level of each index.
SizeTable ==
  <<0, 10, 12, 14, 17, 19, 22, 26, 31, 36, 42, 49, 57, 67, 78, 91,
    107, 125, 146, 171, 200, 234, 274, 321, 376, 440, 515, 603, 706, 826,
    967, 1132, 1326, 1552, 1817, 2127, 2490, 2915, 3413, 3995, 4677, 5476,
    6411, 7505, 8787, 10287, 12043, 14099, 16507, 19325, 22624, 26487,
    31009, 36304, 42502, 49759, 58255, 68201, 79846, 93479, 109439, 128180,
    150000, 150000>>

MaxIndex == 63

\* bsr_index_to_bytes
IndexToBytes(i) == IF i > MaxIndex THEN 150000 ELSE SizeTable[i + 1]

\* Mutant of BytesToIndex: the last level that the bytes reach.
BytesToIndexBelow(bytes) ==
  CHOOSE i \in 0 .. MaxIndex :
    /\ IndexToBytes(i) <= bytes
    /\ \A j \in 0 .. MaxIndex : IndexToBytes(j) <= bytes => j <= i

\* bytes_to_bsr_index: the first level that holds the bytes, at most the last.
BytesToIndex(bytes) ==
  LET levels == {i \in 0 .. MaxIndex : bytes <= IndexToBytes(i)}
  IN  IF levels = {} THEN MaxIndex
      ELSE CHOOSE i \in levels : \A j \in levels : i <= j
=============================================================================
