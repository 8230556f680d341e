----------------------------- MODULE PdmExpand ------------------------------
(***************************************************************************)
(* The sample expansion of PDMClassPSOC::onReceiveService(): with a word   *)
(* length of 16 bits the DMA leaves SIZEOF_DMA_BUFFER halfwords at the     *)
(* start of _dmaBuffer, and the handler widens them in place to 32 bits    *)
(* (the processor is little-endian, so an int32_t is its low halfword      *)
(* followed by its high one).  Widening sample i overwrites halfwords      *)
(* 2 i and 2 i + 1, which hold samples too.                                *)
(***************************************************************************)
EXTENDS Integers

CONSTANTS
  BlockLen,    \* SIZEOF_DMA_BUFFER
  Halfwords    \* the values of an int16_t that are considered

\* The range of an int16_t, and the number of its values.
MinInt16 == -32768
MaxInt16 == 32767
Int16Count == 65536

ASSUME BlockLenAssumption == BlockLen \in Nat \ {0}

ASSUME HalfwordsAssumption ==
  /\ Halfwords \subseteq MinInt16 .. MaxInt16
  /\ {-1, 0} \subseteq Halfwords

VARIABLES
  dmaBuffer,   \* _dmaBuffer seen as halfwords, a function on 0 .. 2 BlockLen - 1
  i,           \* the loop's index; -1 when the loop is done
  captured     \* what the DMA wrote: sample k of the block

expandVars == <<dmaBuffer, i, captured>>

Slots == 0 .. BlockLen - 1

\* The high halfword of (int32_t)h.
Sign(h) == IF h < 0 THEN -1 ELSE 0

\* The DMA wrote the first half of the buffer; the second half is whatever
\* an earlier block left there.
ExpandInit ==
  /\ dmaBuffer \in [0 .. 2 * BlockLen - 1 -> Halfwords]
  /\ captured = [k \in Slots |-> dmaBuffer[k]]
  /\ i = BlockLen - 1

\* Mutant of Widen: the loop runs upwards.
Widen_Ascending ==
  /\ i >= 0
  /\ LET k == BlockLen - 1 - i
     IN  dmaBuffer' = [dmaBuffer EXCEPT ![2 * k] = dmaBuffer[k],
                                        ![2 * k + 1] = Sign(dmaBuffer[k])]
  /\ i' = i - 1
  /\ UNCHANGED captured

\* _dmaBuffer[i] = (int32_t)src[i]
Widen ==
  /\ i >= 0
  /\ dmaBuffer' = [dmaBuffer EXCEPT ![2 * i] = dmaBuffer[i],
                                    ![2 * i + 1] = Sign(dmaBuffer[i])]
  /\ i' = i - 1
  /\ UNCHANGED captured

ExpandNext == Widen

ExpandSpec == ExpandInit /\ [][ExpandNext]_expandVars

-----------------------------------------------------------------------------
\* The index stays inside the buffer.
ExpandTypeOK ==
  /\ i \in (-1) .. BlockLen - 1
  /\ captured \in [Slots -> Halfwords]
  /\ dmaBuffer \in [0 .. 2 * BlockLen - 1 -> Halfwords]

\* The value of the int32_t at index k.
Word(k) == (dmaBuffer[2 * k] % Int16Count) + Int16Count * dmaBuffer[2 * k + 1]

\* When the loop is done every 32-bit word has the value of the 16-bit sample
\* that was captured for it: no sample was overwritten before it was widened.
WidenedInPlace == i = -1 => \A k \in Slots : Word(k) = captured[k]

\* Where the loop stands: samples at or below i are untouched, those above
\* are widened.
LoopInvariant ==
  /\ \A k \in 0 .. i : dmaBuffer[k] = captured[k]
  /\ \A k \in i + 1 .. BlockLen - 1 :
       dmaBuffer[2 * k] = captured[k] /\ dmaBuffer[2 * k + 1] = Sign(captured[k])
=============================================================================
