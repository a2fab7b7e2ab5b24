-------------------------------- MODULE SeqNo --------------------------------
(***************************************************************************)
(* UDT's packet sequence numbers (CSeqNo in common.h): 31-bit numbers that *)
(* start again at 0, compared by whether they are less than a threshold    *)
(* apart. The largest number and the threshold are parameters.             *)
(***************************************************************************)
EXTENDS Integers

CONSTANTS m_iMaxSeqNo,   \* 0x7FFFFFFF in the code
          m_iSeqNoTH     \* 0x3FFFFFFF in the code

SeqNos == 0..m_iMaxSeqNo

Distance(a, b) == IF a < b THEN b - a ELSE a - b

\* Negative, zero or positive as a is before, at or after b.
seqcmp(a, b) == IF Distance(a, b) < m_iSeqNoTH THEN a - b ELSE b - a

\* How many numbers there are from a to b, both included.
seqlen(a, b) == IF a <= b THEN b - a + 1 ELSE b - a + m_iMaxSeqNo + 2

\* How far b is after a.
seqoff(a, b) ==
    IF Distance(a, b) < m_iSeqNoTH THEN b - a
    ELSE IF a < b THEN b - a - m_iMaxSeqNo - 1
    ELSE b - a + m_iMaxSeqNo + 1

incseq(a) == IF a = m_iMaxSeqNo THEN 0 ELSE a + 1

decseq(a) == IF a = 0 THEN m_iMaxSeqNo ELSE a - 1

\* incseq with an increment.
incseqBy(a, inc) ==
    IF m_iMaxSeqNo - a >= inc THEN a + inc ELSE a - m_iMaxSeqNo + inc - 1

\* The numbers from a to b, both included.
SeqRange(a, b) == {incseqBy(a, k) : k \in 0..(seqlen(a, b) - 1)}
=============================================================================
