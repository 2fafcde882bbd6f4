------------------------------- MODULE MacPdu -------------------------------
(***************************************************************************)
(* The UL-SCH MAC PDU (src/mac_pdu.cpp) as a sequence of bytes: a BSR      *)
(* control element, then SDUs, then padding, each behind a sub-header      *)
(* E (one bit), LCID (five bits).  The bytes of an SDU do not matter and   *)
(* are 0, as in the buffers the UE packs into.                             *)
(***************************************************************************)
EXTENDS Integers, SequencesExt

BsrLcgs == 4

\* mac_lcid
Lcid == [TRUNCATED |-> 28, SHORT |-> 29, LONG |-> 30, PADDING |-> 31]
MaxDataLcid == 10

NoCe == [format |-> "NONE", reports |-> <<>>]

Zeros(n) == [i \in 1 .. n |-> 0]
-----------------------------------------------------------------------------
(* Packing                                                                 *)

\* encode_bsr_ce: four indices of six bits, LCG 0 first, or an LCG and its own.
EncodeBsr(ce) ==
  LET idx(l) == IF l \in DOMAIN ce.reports THEN ce.reports[l] ELSE 0
      bits   == 64 * (64 * (64 * idx(0) + idx(1)) + idx(2)) + idx(3)
  IN  IF ce.format = "LONG"
      THEN <<bits \div 65536, (bits \div 256) % 256, bits % 256>>
      ELSE IF DOMAIN ce.reports = {} THEN <<>>
      ELSE LET l == CHOOSE l \in DOMAIN ce.reports : TRUE
           IN  <<64 * (l % BsrLcgs) + (ce.reports[l] % 64)>>

\* A part of a PDU: what its sub-header names and the bytes behind it.
Part(lcid, body) == [lcid |-> lcid, body |-> body]

Size(parts) == SumFunction([i \in DOMAIN parts |-> 1 + Len(parts[i].body)])

BsrPart(size, ce) ==
  LET body == EncodeBsr(ce)
  IN  IF body # <<>> /\ 1 + Len(body) <= size
      THEN <<Part(Lcid[ce.format], body)>> ELSE <<>>

\* The next SDU, cut to what is left; one that does not fit ends the loop.
\* The length field has seven bits whatever the length.
AddSdu(size, st, sdu) ==
  LET avail == size - Size(st.parts) - 2
      n     == IF sdu.size < avail THEN sdu.size ELSE avail
  IN  IF st.stop \/ avail < 1 \/ sdu.lcid > MaxDataLcid
      THEN [st EXCEPT !.stop = TRUE]
      ELSE [st EXCEPT !.parts = Append(@, Part(sdu.lcid,
                                               <<n % 128>> \o Zeros(n)))]

WithSdus(size, parts, sdus) ==
  FoldLeft(LAMBDA st, sdu : AddSdu(size, st, sdu),
           [parts |-> parts, stop |-> FALSE], sdus).parts

\* What is left becomes padding, a sub-header alone if it is one byte.
Padded(size, parts) ==
  LET remain == size - Size(parts)
  IN  IF remain = 0 THEN parts
      ELSE Append(parts, Part(Lcid.PADDING, Zeros(remain - 1)))

\* Mutant of Bytes: the E bit is cleared in the padding only.
BytesKeepingE(parts) ==
  FlattenSeq([i \in DOMAIN parts |->
    <<parts[i].lcid + (IF parts[i].lcid = Lcid.PADDING THEN 0 ELSE 32)>>
      \o parts[i].body])

\* make_subheader with the E bit of every part but the last.
Bytes(parts) ==
  FlattenSeq([i \in DOMAIN parts |->
    <<parts[i].lcid + (IF i = Len(parts) THEN 0 ELSE 32)>> \o parts[i].body])

\* pack
Pack(size, ce, sdus) ==
  Bytes(Padded(size, WithSdus(size, BsrPart(size, ce), sdus)))

\* pack_bsr_only; the UE drops a PDU that has no room for the report.
PackReport(size, ce) ==
  IF BsrPart(size, ce) = <<>> THEN <<>> ELSE Pack(size, ce, <<>>)
-----------------------------------------------------------------------------
(* Unpacking                                                               *)

\* Where the index of an LCG is in a long report.
IndexUnit == <<262144, 4096, 64, 1>>

\* decode_bsr_ce: a long report always names all four LCGs.
DecodeBsr(lcid, p) ==
  IF lcid = Lcid.LONG
  THEN [format  |-> "LONG",
        reports |-> [l \in 0 .. BsrLcgs - 1 |->
          ((65536 * p[1] + 256 * p[2] + p[3]) \div IndexUnit[l + 1]) % 64]]
  ELSE [format  |-> IF lcid = Lcid.TRUNCATED THEN "TRUNCATED" ELSE "SHORT",
        reports |-> [l \in {p[1] \div 64} |-> p[1] % 64]]

\* Bytes behind a sub-header that are read before the next one; an unknown
\* CE is taken to have one.
BodySize(lcid, rest) ==
  IF lcid <= MaxDataLcid
  THEN IF rest = <<>> THEN 1 ELSE 1 + (rest[1] % 128)
  ELSE IF lcid = Lcid.LONG THEN 3 ELSE 1

\* unpack.  more tells that the E bit announced a part that is not there.
Nothing(more) == [bsr |-> NoCe, sdus |-> <<>>, padding |-> 0, more |-> more]

Unpack(pdu) ==
  LET from[pos \in 1 .. Len(pdu) + 1] ==   \* what is read from pos on
        LET lcid == pdu[pos] % 32
            e    == (pdu[pos] \div 32) % 2 = 1
            rest == SubSeq(pdu, pos + 1, Len(pdu))
            next == pos + 1 + BodySize(lcid, rest)
            tail == IF e THEN from[next] ELSE Nothing(FALSE)
        IN  IF pos > Len(pdu) THEN Nothing(TRUE)
            ELSE IF lcid = Lcid.PADDING
            THEN [Nothing(FALSE) EXCEPT !.padding = Len(rest)]
            ELSE IF BodySize(lcid, rest) > Len(rest) THEN Nothing(TRUE)
            ELSE IF lcid <= MaxDataLcid
            THEN [tail EXCEPT !.sdus =
                    <<[lcid |-> lcid, size |-> rest[1] % 128]>> \o @]
            ELSE IF lcid \in {Lcid.LONG, Lcid.SHORT, Lcid.TRUNCATED}
            THEN [tail EXCEPT !.bsr =
                    IF @ = NoCe THEN DecodeBsr(lcid, rest) ELSE @]
            ELSE tail
  IN  IF pdu = <<>> THEN Nothing(FALSE) ELSE from[1]
=============================================================================
