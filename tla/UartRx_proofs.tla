--------------------------- MODULE UartRx_proofs ---------------------------
(***************************************************************************)
(* Theorems about the receive path, for every size of the ring and of the  *)
(* caller's buffer and every backlog the ring can hold.                    *)
(***************************************************************************)
EXTENDS UartRx, TLAPS

USE UartRxAssumption

-----------------------------------------------------------------------------
(* Counting around the ring: the remainders that occur are at most one lap *)
(* away, so each is a sum or a difference.                                 *)

LEMMA ModHere ==
  ASSUME NEW m \in Nat \ {0}, NEW x \in 0 .. m - 1
  PROVE  x % m = x
OBVIOUS

LEMMA ModOver ==
  ASSUME NEW m \in Nat \ {0}, NEW x \in m .. 2 * m - 1
  PROVE  x % m = x - m
OBVIOUS

LEMMA ModUnder ==
  ASSUME NEW m \in Nat \ {0}, NEW x \in -m .. -1
  PROVE  x % m = x + m
OBVIOUS

LEMMA Sizes ==
  /\ RingSize \in Nat /\ RingSize >= 2 /\ Span \in Nat \ {0} /\ Span = 2 * RingSize
  /\ Backlog \in Nat /\ 1 <= Backlog /\ Backlog < RingSize
  /\ Capacity \in Nat /\ Capacity >= 1
BY DEF Span

LEMMA MinusIs ==
  ASSUME NEW a \in Numbers, NEW b \in Numbers
  PROVE  /\ a >= b => Minus(a, b) = a - b
         /\ a < b => Minus(a, b) = a - b + Span
         /\ Minus(a, b) \in Numbers
<1>1. CASE a >= b
  <2>1. a - b \in 0 .. Span - 1
    BY <1>1, Sizes DEF Numbers
  <2>2. (a - b) % Span = a - b
    BY <2>1, Sizes, ModHere
  <2> QED
    BY <1>1, <2>1, <2>2, Sizes DEF Minus, Numbers
<1>2. CASE a < b
  <2>1. a - b \in -Span .. -1
    BY <1>2, Sizes DEF Numbers
  <2>2. (a - b) % Span = a - b + Span
    BY <2>1, Sizes, ModUnder
  <2> QED
    BY <1>2, <2>1, <2>2, Sizes DEF Minus, Numbers
<1> QED
  BY <1>1, <1>2, Sizes DEF Numbers

LEMMA PlusIs ==
  ASSUME NEW a \in Numbers, NEW n \in Numbers
  PROVE  /\ a + n < Span => Plus(a, n) = a + n
         /\ a + n >= Span => Plus(a, n) = a + n - Span
         /\ Plus(a, n) \in Numbers
<1>1. CASE a + n < Span
  <2>1. a + n \in 0 .. Span - 1
    BY <1>1, Sizes DEF Numbers
  <2>2. (a + n) % Span = a + n
    BY <2>1, Sizes, ModHere
  <2> QED
    BY <1>1, <2>1, <2>2, Sizes DEF Plus, Numbers
<1>2. CASE a + n >= Span
  <2>1. PICK x \in Span .. 2 * Span - 1 : x = a + n
    BY <1>2, Sizes DEF Numbers
  <2>2. x % Span = x - Span
    BY <2>1, Sizes, ModOver
  <2>3. Plus(a, n) = x - Span
    BY <2>1, <2>2 DEF Plus
  <2> QED
    BY <1>2, <2>1, <2>3, Sizes DEF Numbers
<1> QED
  BY <1>1, <1>2, Sizes DEF Numbers

LEMMA PosIs ==
  ASSUME NEW a \in Numbers
  PROVE  /\ a < RingSize => Pos(a) = a
         /\ a >= RingSize => Pos(a) = a - RingSize
         /\ Pos(a) \in 0 .. RingSize - 1
<1>1. CASE a < RingSize
  <2>1. a \in 0 .. RingSize - 1
    BY <1>1, Sizes DEF Numbers
  <2>2. a % RingSize = a
    BY <2>1, Sizes, ModHere
  <2> QED
    BY <1>1, <2>1, <2>2, Sizes DEF Pos
<1>2. CASE a >= RingSize
  <2>1. a \in RingSize .. 2 * RingSize - 1
    BY <1>2, Sizes DEF Numbers
  <2>2. a % RingSize = a - RingSize
    BY <2>1, Sizes, ModOver
  <2> QED
    BY <1>2, <2>1, <2>2, Sizes DEF Pos
<1> QED
  BY <1>1, <1>2, Sizes DEF Numbers

\* The distance between two positions, forward around the ring.
LEMMA DistanceIs ==
  ASSUME NEW p \in 0 .. RingSize - 1, NEW q \in 0 .. RingSize - 1
  PROVE  /\ p >= q => (p - q) % RingSize = p - q
         /\ p < q => (p - q) % RingSize = p - q + RingSize
<1>1. CASE p >= q
  <2>1. p - q \in 0 .. RingSize - 1
    BY <1>1, Sizes
  <2> QED
    BY <1>1, <2>1, Sizes, ModHere
<1>2. CASE p < q
  <2>1. p - q \in -RingSize .. -1
    BY <1>2, Sizes
  <2> QED
    BY <1>2, <2>1, Sizes, ModUnder
<1> QED
  BY <1>1, <1>2, Sizes

\* For two numbers less than a lap apart the positions tell the distance.
LEMMA DistanceOfPos ==
  ASSUME NEW a \in Numbers, NEW b \in Numbers, Minus(a, b) < RingSize
  PROVE  (Pos(a) - Pos(b)) % RingSize = Minus(a, b)
<1>1. /\ a \in Nat /\ b \in Nat /\ a < Span /\ b < Span
      /\ Minus(a, b) \in Nat /\ Pos(a) \in 0 .. RingSize - 1 /\ Pos(b) \in 0 .. RingSize - 1
  BY MinusIs, PosIs, Sizes DEF Numbers
<1> DEFINE d == (Pos(a) - Pos(b)) % RingSize
<1>2. /\ Pos(a) >= Pos(b) => d = Pos(a) - Pos(b)
      /\ Pos(a) < Pos(b) => d = Pos(a) - Pos(b) + RingSize
  BY <1>1, DistanceIs
<1> HIDE DEF d
<1>3. PICK p \in Nat, q \in Nat, n \in Nat : p = Pos(a) /\ q = Pos(b) /\ n = Minus(a, b)
  BY <1>1
<1>4. /\ a < RingSize => p = a
      /\ a >= RingSize => p = a - RingSize
      /\ b < RingSize => q = b
      /\ b >= RingSize => q = b - RingSize
  BY <1>3, PosIs
<1>5. /\ a >= b => n = a - b
      /\ a < b => n = a - b + Span
      /\ n < RingSize
  BY <1>3, MinusIs
<1>6. d = n
  BY <1>1, <1>2, <1>3, <1>4, <1>5, Sizes
<1> QED
  BY <1>3, <1>6 DEF d

\* A number and the distance to another make the other.
LEMMA PlusBack ==
  ASSUME NEW a \in Numbers, NEW b \in Numbers
  PROVE  Plus(b, Minus(a, b)) = a
<1>1. PICK n \in Numbers : n = Minus(a, b)
  BY MinusIs
<1>2. a \in Nat /\ b \in Nat /\ n \in Nat /\ a < Span /\ b < Span /\ n < Span
  BY <1>1, Sizes DEF Numbers
<1>3. /\ a >= b => n = a - b
      /\ a < b => n = a - b + Span
  BY <1>1, MinusIs
<1>4. /\ b + n < Span => Plus(b, n) = b + n
      /\ b + n >= Span => Plus(b, n) = b + n - Span
  BY <1>1, PlusIs
<1>5. Plus(b, n) = a
  BY <1>2, <1>3, <1>4, Sizes
<1> QED
  BY <1>1, <1>5

\* Distances add up as long as they stay below the span.
LEMMA Chain ==
  ASSUME NEW a \in Numbers, NEW b \in Numbers, NEW c \in Numbers,
         Minus(a, b) + Minus(b, c) < Span
  PROVE  Minus(a, c) = Minus(a, b) + Minus(b, c)
<1>1. PICK m \in Numbers, n \in Numbers, d \in Numbers :
        m = Minus(a, b) /\ n = Minus(b, c) /\ d = Minus(a, c)
  BY MinusIs
<1>2. /\ a \in Nat /\ b \in Nat /\ c \in Nat /\ m \in Nat /\ n \in Nat /\ d \in Nat
      /\ a < Span /\ b < Span /\ c < Span /\ m + n < Span
  BY <1>1, Sizes DEF Numbers
<1>3. /\ a >= b => m = a - b
      /\ a < b => m = a - b + Span
      /\ b >= c => n = b - c
      /\ b < c => n = b - c + Span
      /\ a >= c => d = a - c
      /\ a < c => d = a - c + Span
  BY <1>1, MinusIs
<1>4. d = m + n
  BY <1>2, <1>3, Sizes
<1> QED
  BY <1>1, <1>4

LEMMA PlusAhead ==
  ASSUME NEW a \in Numbers, NEW n \in Numbers
  PROVE  Minus(Plus(a, n), a) = n
<1>1. PICK b \in Numbers, d \in Numbers : b = Plus(a, n) /\ d = Minus(b, a)
  BY PlusIs, MinusIs
<1>2. a \in Nat /\ b \in Nat /\ d \in Nat /\ n \in Nat /\ a < Span /\ b < Span /\ n < Span
  BY <1>1, Sizes DEF Numbers
<1>3. /\ b >= a => d = b - a
      /\ b < a => d = b - a + Span
      /\ a + n < Span => b = a + n
      /\ a + n >= Span => b = a + n - Span
  BY <1>1, MinusIs, PlusIs
<1>4. d = n
  BY <1>2, <1>3, Sizes
<1> QED
  BY <1>1, <1>4

LEMMA NoDistance ==
  ASSUME NEW a \in Numbers, NEW b \in Numbers
  PROVE  Minus(a, b) = 0 <=> a = b
<1>1. PICK n \in Numbers : n = Minus(a, b)
  BY MinusIs
<1>2. a \in Nat /\ b \in Nat /\ n \in Nat /\ a < Span /\ b < Span
  BY <1>1, Sizes DEF Numbers
<1>3. /\ a >= b => n = a - b
      /\ a < b => n = a - b + Span
  BY <1>1, MinusIs
<1> QED
  BY <1>1, <1>2, <1>3, Sizes

\* One byte more.
LEMMA NextByte ==
  ASSUME NEW a \in Numbers, NEW b \in Numbers, Minus(a, b) < RingSize
  PROVE  /\ Plus(a, 1) \in Numbers /\ Minus(Plus(a, 1), b) = Minus(a, b) + 1
         /\ Pos(a) + 1 < RingSize => Pos(Plus(a, 1)) = Pos(a) + 1
         /\ Pos(a) + 1 = RingSize => Pos(Plus(a, 1)) = 0
<1>1. 1 \in Numbers
  BY Sizes DEF Numbers
<1>2. PICK c \in Numbers : c = Plus(a, 1) /\ Minus(c, a) = 1
  BY <1>1, PlusIs, PlusAhead
<1>3. Minus(a, b) \in Nat /\ Minus(c, a) + Minus(a, b) < Span
  BY <1>2, MinusIs, Sizes DEF Numbers
<1>4. Minus(c, b) = Minus(a, b) + 1
  BY <1>2, <1>3, Chain
<1>5. PICK p \in 0 .. RingSize - 1, q \in 0 .. RingSize - 1 : p = Pos(a) /\ q = Pos(c)
  BY PosIs
<1>6. /\ a < RingSize => p = a
      /\ a >= RingSize => p = a - RingSize
      /\ c < RingSize => q = c
      /\ c >= RingSize => q = c - RingSize
  BY <1>5, PosIs
<1>7. /\ a + 1 < Span => c = a + 1
      /\ a + 1 >= Span => c = a + 1 - Span
  BY <1>1, <1>2, PlusIs
<1>8. a \in Nat /\ c \in Nat /\ p \in Nat /\ q \in Nat /\ a < Span /\ c < Span
      /\ p < RingSize /\ q < RingSize
  BY <1>5, Sizes DEF Numbers
<1>9. /\ p + 1 < RingSize => q = p + 1
      /\ p + 1 = RingSize => q = 0
  BY <1>6, <1>7, <1>8, Sizes
<1> QED
  BY <1>2, <1>4, <1>5, <1>9

\* Less than a lap after a byte, the position is another.
LEMMA PosDiffers ==
  ASSUME NEW a \in Numbers, NEW b \in Numbers, Minus(a, b) < RingSize, Minus(a, b) # 0
  PROVE  Pos(a) # Pos(b)
<1>1. (Pos(a) - Pos(b)) % RingSize = Minus(a, b)
  BY DistanceOfPos
<1>2. Pos(a) = Pos(b) => (Pos(a) - Pos(b)) % RingSize = 0
  BY PosIs, DistanceIs, Sizes
<1> QED
  BY <1>1, <1>2

-----------------------------------------------------------------------------
(* What an interrupt finds.                                                *)

\* The numbers keep their types.
NumbersOK ==
  /\ head \in Numbers /\ in \in Numbers /\ out \in Numbers /\ due \in Numbers
  /\ last_pos \in 0 .. RingSize - 1

\* The DMA is not a lap ahead of what was published, and its position and its
\* flag tell how far; what was not published has stirred the line.
LineInv ==
  /\ Minus(head, in) <= Backlog
  /\ last_pos = Pos(in)
  /\ full => Pos(head) < last_pos
  /\ head = in \/ busy \/ idle

LEMMA Unpublished ==
  ASSUME NumbersOK, LineInv
  PROVE  Minus(head, in) \in Nat /\ Minus(head, in) <= Backlog /\ Minus(head, in) < RingSize
<1>1. Minus(head, in) \in Nat
  BY MinusIs, Sizes DEF NumbersOK, Numbers
<1> QED
  BY <1>1, Sizes DEF LineInv

\* A set flag tells of a position that has fallen behind, after one more byte too.
LEMMA FlagBehind ==
  ASSUME NumbersOK, LineInv, Minus(head, in) < Backlog, full \/ Around(Plus(head, 1))
  PROVE  Pos(Plus(head, 1)) < last_pos
<1> DEFINE next == Plus(head, 1)
<1> SUFFICES Pos(next) < last_pos
  OBVIOUS
<1>0. Minus(head, in) \in Nat /\ Minus(head, in) + 1 < RingSize
  BY Unpublished, Sizes
<1>1. /\ next \in Numbers /\ Minus(next, in) = Minus(head, in) + 1
      /\ Pos(head) + 1 < RingSize => Pos(next) = Pos(head) + 1
      /\ Pos(head) + 1 = RingSize => Pos(next) = 0
  BY <1>0, NextByte, Sizes DEF NumbersOK
<1> HIDE DEF next
<1>2. Pos(next) # Pos(in)
  BY <1>0, <1>1, PosDiffers DEF NumbersOK
<1>3. PICK p \in Nat, q \in Nat, l \in Nat :
        p = Pos(head) /\ q = Pos(next) /\ l = Pos(in) /\ p < RingSize /\ l < RingSize
  BY <1>1, PosIs, Sizes DEF NumbersOK
<1>4. last_pos = l /\ q # l
  BY <1>2, <1>3 DEF LineInv
<1>5. CASE full
  <2>1. p < l
    BY <1>3, <1>4, <1>5 DEF LineInv
  <2>2. q = p + 1
    BY <1>1, <1>3, <2>1, Sizes
  <2> QED
    BY <1>3, <1>4, <2>1, <2>2
<1>6. CASE Around(next)
  <2>1. q = 0
    BY <1>3, <1>6 DEF Around
  <2> QED
    BY <1>3, <1>4, <2>1
<1> QED
  BY <1>5, <1>6 DEF next

\* The bytes an interrupt counts are those up to the position it has read, which
\* is that of the DMA or, when a byte comes meanwhile, of the byte after it.
LEMMA ReceivedIs ==
  ASSUME NumbersOK, LineInv, NEW when \in 1 .. 7, when > 3 \/ Minus(head, in) < Backlog
  PROVE  \E x \in Numbers :
           /\ x = head \/ (when <= 3 /\ x = Plus(head, 1))
           /\ SampledPos(when) = Pos(x)
           /\ Received(when) = Minus(x, in)
           /\ Minus(x, in) <= Backlog
<1> DEFINE next == Plus(head, 1)
<1>1. /\ Minus(head, in) \in Nat /\ Minus(head, in) < RingSize
      /\ next \in Numbers /\ Minus(next, in) = Minus(head, in) + 1
  BY Unpublished, NextByte DEF NumbersOK
<1>2. ASSUME NEW x \in {head, next}, Minus(x, in) <= Backlog, SampledPos(when) = Pos(x),
             SampledFull(when) => Pos(x) < last_pos
      PROVE  Received(when) = Minus(x, in)
  <2>1. x \in Numbers /\ Minus(x, in) \in Nat /\ Minus(x, in) < RingSize
    BY <1>1, <1>2, Sizes DEF NumbersOK
  <2>2. (SampledPos(when) - last_pos) % RingSize = Minus(x, in)
    BY <1>2, <2>1, DistanceOfPos DEF NumbersOK, LineInv
  <2>3. ~(SampledFull(when) /\ SampledPos(when) >= last_pos)
    BY <1>2, <2>1, PosIs DEF NumbersOK
  <2> QED
    BY <2>1, <2>2, <2>3 DEF Received
<1>3. CASE when = 1
  <2>1. SampledPos(when) = Pos(next)
    BY <1>3 DEF SampledPos, HeadAt
  <2>2. SampledFull(when) => full \/ Around(next)
    BY <1>3 DEF SampledFull, FullAt, HeadAt
  <2>3. SampledFull(when) => Pos(next) < last_pos
    BY <1>3, <2>2, FlagBehind
  <2>4. Minus(next, in) <= Backlog
    BY <1>1, <1>3, Sizes
  <2> QED
    BY <1>1, <1>2, <1>3, <2>1, <2>3, <2>4
<1>4. CASE when = 2 /\ ~full /\ Around(next)
  <2>1. FullAt(1, when) = FALSE /\ FullAt(3, when) = TRUE
    BY <1>4 DEF FullAt, HeadAt
  <2>2. SampledPos(when) = Pos(next)
    BY <1>4, <2>1 DEF SampledPos, HeadAt
  <2>3. Pos(next) < last_pos
    BY <1>4, FlagBehind
  <2>4. Minus(next, in) <= Backlog
    BY <1>1, <1>4, Sizes
  <2> QED
    BY <1>1, <1>2, <1>4, <2>2, <2>3, <2>4
<1>5. CASE when >= 2 /\ ~(when = 2 /\ ~full /\ Around(next))
  <2>1. (FullAt(1, when) <=> full) /\ (FullAt(3, when) <=> full)
    BY <1>5 DEF FullAt, HeadAt
  <2>2. FullAt(1, when) = FullAt(3, when)
    BY <2>1 DEF FullAt
  <2>3. SampledPos(when) = Pos(head)
    BY <1>5, <2>2 DEF SampledPos, HeadAt
  <2>4. SampledFull(when) => Pos(head) < last_pos
    BY <2>1 DEF SampledFull, LineInv
  <2>5. Minus(head, in) <= Backlog
    BY DEF LineInv
  <2> QED
    BY <1>1, <1>2, <2>3, <2>4, <2>5 DEF NumbersOK
<1> QED
  BY <1>3, <1>4, <1>5

-----------------------------------------------------------------------------
(* What an interrupt does, however the bytes come during it.               *)

Stirred == idle_news \/ busy \/ idle

\* The interrupts publish what came before and stir the port for what did not.
Published ==
  /\ head' \in Numbers /\ in' \in Numbers
  /\ Minus(head', in') <= Backlog
  /\ last_pos' = Pos(in')
  /\ full' => Pos(head') < last_pos'
  /\ head' = in' \/ busy' \/ idle'
  /\ Stirred => Stirred'
  /\ in' = in \/ Stirred'

\* Either there was room,
Kept ==
  /\ UNCHANGED <<out, reader, lost, due>>
  /\ error_news' => error_news
  /\ error_news => error_news'
  /\ FifoLen <= RingSize => Minus(in', out) >= FifoLen /\ Minus(in', out) <= RingSize

\* or everything unread is discarded, because the DMA has overwritten some of it.
Discarded ==
  /\ error_news' /\ lost'
  /\ out' = in' /\ due' = in'
  /\ reader' = [reader EXCEPT !.discarded = reader.pc # "REST"]
  /\ FifoLen <= RingSize => Minus(head', out) > RingSize

LEMMA IrqMoves ==
  ASSUME NumbersOK, LineInv, UsartIrq \/ DmaIrq
  PROVE  Published /\ (Kept \/ Discarded)
<1>1. PICK last \in {5, 6}, when \in 1 .. 7 : when <= last + 1 /\ Synchronise(when, last)
  BY DEF UsartIrq, DmaIrq
<1>2. when > last \/ Minus(head, in) < Backlog
  BY <1>1 DEF Synchronise
<1>3. when > 3 \/ Minus(head, in) < Backlog
  BY <1>2
<1>4. PICK x \in Numbers :
        /\ x = head \/ (when <= 3 /\ x = Plus(head, 1))
        /\ SampledPos(when) = Pos(x)
        /\ Received(when) = Minus(x, in)
        /\ Minus(x, in) <= Backlog
  BY <1>3, ReceivedIs
<1>5. Minus(head, in) \in Nat /\ Minus(head, in) < RingSize
  BY Unpublished
<1>6. /\ head' = IF when <= last THEN Plus(head, 1) ELSE head
      /\ last_pos' = Pos(x) /\ in' = Plus(in, Minus(x, in))
      /\ full' = (when = last /\ Around(head') /\ head' # head)
      /\ busy' = (busy \/ head' # head)
      /\ error_news' = (error_news \/ Overflow(when))
  BY <1>1, <1>4 DEF Synchronise, HeadAt
<1>7. in' = x
  BY <1>4, <1>6, PlusBack DEF NumbersOK
<1>8. head' \in Numbers /\ (head' = x \/ (head' = Plus(x, 1) /\ when <= last))
  BY <1>1, <1>4, <1>5, <1>6, NextByte DEF NumbersOK
<1>9. Minus(head', x) <= 1 /\ Minus(head', x) \in Nat
  <2>1. Minus(x, x) = 0
    BY NoDistance
  <2>2. Minus(Plus(x, 1), x) = 1
    BY <2>1, NextByte, Sizes
  <2> QED
    BY <1>8, <2>1, <2>2
<1>10. Stirred => Stirred'
  BY <1>6 DEF UsartIrq, DmaIrq, Stirred
<1>11. in' = in \/ Stirred'
  <2>1. in' = in \/ head # in \/ head' # head
    BY <1>1, <1>4, <1>6, <1>7
  <2>2. head' # head => busy'
    BY <1>6
  <2>3. head # in => Stirred
    BY DEF LineInv, Stirred
  <2> QED
    BY <1>10, <2>1, <2>2, <2>3 DEF Stirred
<1>12. head' = in' \/ busy' \/ idle'
  <2>1. head' # head => busy'
    BY <1>6
  <2>2. head' = head => head' = in' \/ x # head
    BY <1>7
  <2>3. x # head => head' # head
    BY <1>1, <1>4, <1>6
  <2> QED
    BY <2>1, <2>2, <2>3
<1>13. full' => Pos(head') < last_pos'
  <2> SUFFICES ASSUME full'
               PROVE  Pos(head') < last_pos'
    OBVIOUS
  <2>0. when = last /\ Around(head') /\ head' # head
    BY <1>6
  <2>1. x = head /\ head' = Plus(x, 1) /\ head' # x
    BY <1>1, <1>4, <1>6, <2>0
  <2>2. Minus(head', x) = 1
    BY <1>9, <2>1, <1>8, NoDistance
  <2>3. Pos(head') # Pos(x)
    BY <1>8, <2>2, PosDiffers, Sizes
  <2> QED
    BY <1>6, <2>0, <2>3, PosIs, Sizes DEF Around
<1>14. Published
  BY <1>6, <1>7, <1>8, <1>9, <1>10, <1>11, <1>12, <1>13, Sizes DEF Published
<1>15. PICK f \in Numbers, m \in Nat : f = FifoLen /\ m = Minus(x, in) /\ m <= Backlog
  <2>1. FifoLen \in Numbers
    BY MinusIs DEF FifoLen, NumbersOK
  <2>2. Minus(x, in) \in Numbers
    BY MinusIs DEF NumbersOK
  <2>3. Minus(x, in) \in Nat
    BY <2>2, Sizes DEF Numbers
  <2> QED
    BY <1>4, <2>1, <2>3
<1>16. FifoLen <= RingSize => FifoAvail = RingSize - f
  <2>1. RingSize \in Numbers /\ f \in Nat
    BY <1>15, Sizes DEF Numbers
  <2> QED
    BY <1>15, <2>1, MinusIs DEF FifoAvail
<1>17. FifoLen <= RingSize => Minus(in', out) = m + f
  <2>1. FifoLen <= RingSize => m + f < Span
    BY <1>15, Sizes DEF Numbers
  <2> QED
    BY <1>4, <1>7, <1>15, <2>1, Chain DEF FifoLen, NumbersOK
<1>18. CASE ~Overflow(when)
  <2>1. UNCHANGED <<out, reader, lost, due>>
    BY <1>1, <1>18 DEF Synchronise, promise
  <2>2. FifoLen <= RingSize => m + f <= RingSize
    BY <1>4, <1>15, <1>16, <1>18, Sizes DEF Overflow, Numbers
  <2> QED
    <3>1. FifoLen \in Nat /\ m \in Nat /\ m + f >= FifoLen
      BY <1>15, Sizes DEF Numbers
    <3>2. FifoLen <= RingSize => Minus(in', out) >= FifoLen /\ Minus(in', out) <= RingSize
      BY <1>17, <2>2, <3>1
    <3> QED
      BY <1>6, <1>14, <1>18, <2>1, <3>2 DEF Kept
<1>19. CASE Overflow(when)
  <2>1. /\ out' = in' /\ due' = in' /\ lost' = TRUE
        /\ reader' = [reader EXCEPT !.discarded = reader.pc # "REST"]
    BY <1>1, <1>19 DEF Synchronise
  <2>2. FifoLen <= RingSize => Minus(head', out) > RingSize
    <3>1. SUFFICES ASSUME FifoLen <= RingSize
                   PROVE  Minus(head', out) > RingSize
      OBVIOUS
    <3>2. m + f > RingSize /\ f <= RingSize
      BY <1>4, <1>15, <1>16, <1>19, <3>1, Sizes DEF Overflow, Numbers
    <3>3. PICK g \in Nat : g = Minus(head', in') /\ g = Minus(head', x)
      BY <1>7, <1>9
    <3>4. g + m < RingSize
      <4>1. CASE when > last
        BY <1>1, <1>4, <1>6, <1>15, <3>3, <4>1, NoDistance, Sizes
      <4>2. CASE when <= last
        BY <1>1, <1>2, <1>4, <1>5, <1>6, <1>9, <1>15, <3>3, <4>2, NextByte, NoDistance, Sizes DEF NumbersOK
      <4> QED
        BY <1>1, <4>1, <4>2
    <3>5. Minus(head', out) = g + (m + f)
      <4>1. Minus(in', out) = m + f /\ g + (m + f) < Span
        BY <1>15, <1>17, <3>1, <3>2, <3>4, Sizes DEF Numbers
      <4> QED
        BY <1>7, <1>8, <3>3, <4>1, Chain DEF NumbersOK
    <3> QED
      BY <1>15, <3>2, <3>3, <3>5, Sizes DEF Numbers
  <2> QED
    BY <1>6, <1>14, <1>19, <2>1, <2>2 DEF Discarded
<1> QED
  BY <1>18, <1>19

-----------------------------------------------------------------------------
(* What holds while a poll is under way.                                   *)

\* The bytes one read takes of those available.
Chunk == IF reader.available < Capacity THEN reader.available ELSE Capacity

\* What was available, less what the read has taken.
Left == FifoLen = reader.available - reader.size /\ reader.size = Chunk

ShapeInv ==
  /\ reader.pc \in {"REST", "SIZE", "GATE"} => reader.mode = "TAKE"
  /\ reader.pc \in {"CALL", "ADVANCE", "CHECK", "DONE"} /\ ~reader.failed => reader.available > 0
  /\ reader.pc \in {"CALL", "ADVANCE", "CHECK", "DONE"} /\ reader.mode = "TAKE" /\ ~reader.failed =>
       reader.available <= Capacity
  /\ reader.failed => reader.pc = "DONE" /\ reader.size = 0 /\ reader.available = 0
  /\ reader.pc \in {"ADVANCE", "CHECK", "DONE"} => reader.size <= reader.available

\* All the poll knows of has been read or will be, unless the line was stirred
\* meanwhile, or a discard has emptied the FIFO.
ReadInv ==
  /\ reader.pc = "REST" => in = out \/ Stirred
  /\ reader.pc \in {"GATE", "CALL"} => in = out \/ FifoLen = reader.available \/ Stirred
  /\ reader.pc = "ADVANCE" /\ ~reader.discarded =>
       /\ out = reader.from /\ reader.size <= FifoLen
       /\ \/ reader.size = 0 /\ in = out
          \/ FifoLen = reader.available /\ reader.size = Chunk
          \/ Stirred
  /\ reader.pc = "CHECK" /\ ~reader.discarded => in = out \/ Left \/ Stirred
  /\ reader.pc = "DONE" => in = out \/ Left \/ Stirred

\* Only a read that an interrupt has failed lets out run ahead of in.
RoomInv == FifoLen <= RingSize \/ (reader.pc = "CHECK" /\ reader.discarded)

\* The caller will hear of a loss.
LostInv ==
  /\ lost => error_news \/ reader.mode = "DROP"
  /\ reader.mode = "DROP" => lost
  /\ reader.pc \in {"ADVANCE", "CHECK"} /\ reader.discarded => lost
  /\ reader.failed => lost

\* With nothing lost, the byte due is the first that has not been read.
OrderInv == ~lost =>
  /\ reader.pc \in {"REST", "SIZE", "GATE", "CALL"} => due = out
  /\ reader.pc \in {"ADVANCE", "CHECK", "DONE"} => due = reader.from
  /\ reader.pc \in {"CHECK", "DONE"} => out = Plus(reader.from, reader.size)

TaskInv ==
  /\ NumbersOK /\ reader \in Readers
  /\ ShapeInv /\ ReadInv /\ RoomInv /\ LostInv /\ OrderInv

LEMMA FifoLenTyped ==
  ASSUME NumbersOK
  PROVE  FifoLen \in Numbers /\ FifoLen \in Nat /\ (FifoLen = 0 <=> in = out)
<1>1. FifoLen \in Numbers /\ (FifoLen = 0 <=> in = out)
  BY MinusIs, NoDistance DEF FifoLen, NumbersOK
<1> QED
  BY <1>1, Sizes DEF Numbers

LEMMA NoPollTyped == NoPoll \in Readers
<1>1. 0 \in Numbers /\ 0 \in 0 .. Capacity
  BY Sizes DEF Numbers
<1> QED
  BY <1>1 DEF NoPoll, Readers

\* A poll that returns with nothing lost and all read, or stirred, leaves nothing.
LEMMA RestHolds ==
  ASSUME NumbersOK', reader' = NoPoll, in' = out' \/ Stirred', RoomInv',
         lost' => error_news', ~lost' => due' = out'
  PROVE  TaskInv'
<1>1. /\ reader'.pc = "REST" /\ reader'.mode = "TAKE" /\ reader'.discarded = FALSE
      /\ reader'.failed = FALSE
  BY DEF NoPoll
<1>2. ShapeInv' /\ ReadInv'
  BY <1>1 DEF ShapeInv, ReadInv
<1>3. LostInv' /\ OrderInv'
  BY <1>1 DEF LostInv, OrderInv
<1> QED
  BY <1>2, <1>3, NoPollTyped DEF TaskInv

LEMMA InitHolds == Init => LineInv /\ TaskInv
<1> SUFFICES ASSUME Init
             PROVE  LineInv /\ TaskInv
  OBVIOUS
<1>1. 0 \in Numbers /\ Minus(0, 0) = 0 /\ Pos(0) = 0
  <2>1. 0 \in Numbers
    BY Sizes DEF Numbers
  <2> QED
    BY <2>1, NoDistance, PosIs, Sizes
<1>2. LineInv
  BY <1>1, Sizes DEF Init, LineInv
<1>3. /\ reader.pc = "REST" /\ reader.mode = "TAKE" /\ reader.discarded = FALSE
      /\ reader.failed = FALSE /\ reader \in Readers
  BY NoPollTyped DEF Init, NoPoll
<1>4. NumbersOK /\ RoomInv
  BY <1>1, Sizes DEF Init, NumbersOK, RoomInv, FifoLen
<1>5. ShapeInv /\ ReadInv
  BY <1>3 DEF Init, ShapeInv, ReadInv
<1>6. LostInv /\ OrderInv
  BY <1>3 DEF Init, LostInv, OrderInv
<1> QED
  BY <1>2, <1>3, <1>4, <1>5, <1>6 DEF TaskInv

-----------------------------------------------------------------------------
(* The steps of the task.                                                  *)

LEMMA StartHolds ==
  ASSUME TaskInv, PollStart, UNCHANGED <<line, last_pos>>
  PROVE  TaskInv'
<1>1. /\ reader' = [reader EXCEPT !.pc = "SIZE"] /\ reader.pc = "REST"
      /\ UNCHANGED <<head, last_pos, in, out, lost, due, error_news>>
  BY DEF PollStart, line, kfifo, promise
<1>2. /\ reader' \in Readers /\ reader'.pc = "SIZE" /\ reader'.mode = reader.mode
      /\ reader'.failed = reader.failed
  BY <1>1 DEF TaskInv, Readers
<1>3. NumbersOK' /\ RoomInv'
  BY <1>1, <1>2 DEF TaskInv, NumbersOK, RoomInv, FifoLen
<1>4. ShapeInv' /\ ReadInv'
  BY <1>1, <1>2 DEF TaskInv, ShapeInv, ReadInv
<1>5. LostInv' /\ OrderInv'
  BY <1>1, <1>2 DEF TaskInv, LostInv, OrderInv
<1> QED
  BY <1>2, <1>3, <1>4, <1>5 DEF TaskInv

LEMMA SizeHolds ==
  ASSUME TaskInv, PollSize, UNCHANGED <<line, last_pos>>
  PROVE  TaskInv'
<1>1. /\ reader' = [reader EXCEPT !.pc = "GATE", !.available = FifoLen] /\ reader.pc = "SIZE"
      /\ UNCHANGED <<head, last_pos, in, out, lost, due, error_news>>
  BY DEF PollSize, line, kfifo, promise, news
<1>2. FifoLen \in Numbers /\ FifoLen' = FifoLen
  BY <1>1, FifoLenTyped DEF TaskInv, FifoLen
<1>3. /\ reader' \in Readers /\ reader'.pc = "GATE" /\ reader'.mode = reader.mode
      /\ reader'.failed = reader.failed /\ reader'.available = FifoLen
  BY <1>1, <1>2 DEF TaskInv, Readers
<1>4. NumbersOK' /\ RoomInv'
  BY <1>1, <1>2, <1>3 DEF TaskInv, NumbersOK, RoomInv
<1>5. ShapeInv' /\ ReadInv'
  BY <1>1, <1>2, <1>3 DEF TaskInv, ShapeInv, ReadInv
<1>6. LostInv' /\ OrderInv'
  BY <1>1, <1>3 DEF TaskInv, LostInv, OrderInv
<1> QED
  BY <1>3, <1>4, <1>5, <1>6 DEF TaskInv

LEMMA DropHolds ==
  ASSUME TaskInv, PollDrop, UNCHANGED <<line, last_pos>>
  PROVE  TaskInv'
<1>1. /\ UNCHANGED <<head, last_pos, in, out, idle_news, busy, idle>> /\ reader.pc = "GATE"
      /\ FifoLen' = FifoLen
  BY DEF PollDrop, line, kfifo, FifoLen
<1>2. CASE reader.available = 0
  <2>1. reader' = NoPoll /\ lost' = FALSE /\ due' = out
    BY <1>2 DEF PollDrop, ReturnError
  <2>2. NumbersOK'
    BY <1>1, <2>1 DEF TaskInv, NumbersOK
  <2>3. in' = out' \/ Stirred'
    BY <1>1, <1>2, FifoLenTyped DEF TaskInv, ReadInv, Stirred
  <2>4. RoomInv'
    BY <1>1 DEF TaskInv, RoomInv
  <2> QED
    BY <1>1, <2>1, <2>2, <2>3, <2>4, RestHolds
<1>3. CASE reader.available # 0
  <2>1. reader' = [reader EXCEPT !.pc = "CALL", !.mode = "DROP"] /\ lost' = TRUE /\ due' = 0
    BY <1>3 DEF PollDrop
  <2>2. /\ reader' \in Readers /\ reader'.pc = "CALL" /\ reader'.mode = "DROP"
        /\ reader'.failed = reader.failed /\ reader'.available = reader.available
    BY <2>1 DEF TaskInv, Readers
  <2>3. NumbersOK' /\ RoomInv'
    BY <1>1, <2>1, <2>2, Sizes DEF TaskInv, NumbersOK, RoomInv, Numbers
  <2>4. reader.available \in Nat /\ reader.available > 0 /\ ~reader.failed
    BY <1>1, <1>3, Sizes DEF TaskInv, Readers, Numbers, ShapeInv
  <2>5. ShapeInv'
    BY <2>2, <2>4 DEF ShapeInv
  <2>6. ReadInv'
    BY <1>1, <2>2 DEF TaskInv, ReadInv, Stirred
  <2>7. LostInv' /\ OrderInv'
    BY <2>1, <2>2 DEF LostInv, OrderInv
  <2> QED
    BY <2>2, <2>3, <2>5, <2>6, <2>7 DEF TaskInv
<1> QED
  BY <1>2, <1>3

LEMMA TakeHolds ==
  ASSUME TaskInv, PollTake, UNCHANGED <<line, last_pos>>
  PROVE  TaskInv'
<1>1. /\ UNCHANGED <<head, last_pos, in, out, idle_news, error_news, busy, idle, lost, due>>
      /\ reader.pc = "GATE" /\ ~error_news /\ reader.available <= Capacity /\ FifoLen' = FifoLen
  BY DEF PollTake, line, kfifo, news, promise, FifoLen
<1>2. NumbersOK' /\ ~lost /\ due = out
  BY <1>1 DEF TaskInv, NumbersOK, LostInv, ShapeInv, OrderInv
<1>3. CASE reader.available = 0
  <2>1. reader' = NoPoll
    BY <1>3 DEF PollTake
  <2>2. in' = out' \/ Stirred'
    BY <1>1, <1>3, FifoLenTyped DEF TaskInv, ReadInv, Stirred
  <2>3. RoomInv'
    BY <1>1 DEF TaskInv, RoomInv
  <2> QED
    BY <1>1, <1>2, <2>1, <2>2, <2>3, RestHolds
<1>4. CASE reader.available # 0
  <2>1. reader' = [reader EXCEPT !.pc = "CALL", !.mode = "TAKE"]
    BY <1>4 DEF PollTake
  <2>2. /\ reader' \in Readers /\ reader'.pc = "CALL" /\ reader'.mode = "TAKE"
        /\ reader'.failed = reader.failed /\ reader'.available = reader.available
    BY <2>1 DEF TaskInv, Readers
  <2>3. RoomInv'
    BY <1>1 DEF TaskInv, RoomInv
  <2>4. reader.available \in Nat /\ reader.available > 0 /\ ~reader.failed
    BY <1>1, <1>4, Sizes DEF TaskInv, Readers, Numbers, ShapeInv
  <2>5. ShapeInv'
    BY <1>1, <2>2, <2>4 DEF ShapeInv
  <2>6. ReadInv'
    BY <1>1, <2>2 DEF TaskInv, ReadInv, Stirred
  <2>7. LostInv' /\ OrderInv'
    BY <1>1, <1>2, <2>2, <2>4 DEF LostInv, OrderInv
  <2> QED
    BY <1>2, <2>2, <2>3, <2>5, <2>6, <2>7 DEF TaskInv
<1> QED
  BY <1>3, <1>4

LEMMA SmallestIs ==
  ASSUME NEW a \in Nat, NEW b \in Nat, NEW c \in Nat
  PROVE  LET s == Smallest({a, b, c})
         IN  s \in {a, b, c} /\ s <= a /\ s <= b /\ s <= c
<1>1. \E n \in {a, b, c} : \A m \in {a, b, c} : n <= m
  <2>1. CASE a <= b /\ a <= c
    BY <2>1
  <2>2. CASE b <= a /\ b <= c
    BY <2>2
  <2>3. CASE c <= a /\ c <= b
    BY <2>3
  <2> QED
    BY <2>1, <2>2, <2>3
<1>2. \A m \in {a, b, c} : Smallest({a, b, c}) <= m
  BY <1>1 DEF Smallest
<1>3. Smallest({a, b, c}) \in {a, b, c}
  BY <1>1 DEF Smallest
<1> QED
  BY <1>2, <1>3

LEMMA CopyHolds ==
  ASSUME TaskInv, ReadCopy, UNCHANGED <<line, last_pos>>
  PROVE  TaskInv'
<1> DEFINE n == Smallest({FifoLen, reader.available, Capacity})
<1>1. /\ UNCHANGED <<head, last_pos, in, out, idle_news, error_news, busy, idle, lost, due>>
      /\ reader.pc = "CALL" /\ FifoLen' = FifoLen
  BY DEF ReadCopy, line, kfifo, news, promise, FifoLen
<1>2. FifoLen \in Nat /\ reader.available \in Nat /\ (FifoLen = 0 <=> in = out)
  BY FifoLenTyped, Sizes DEF TaskInv, Readers, Numbers
<1>3. /\ n \in {FifoLen, reader.available, Capacity}
      /\ n <= FifoLen /\ n <= reader.available /\ n <= Capacity
  BY <1>2, SmallestIs, Sizes
<1>4. reader' = [reader EXCEPT !.pc = "ADVANCE", !.discarded = FALSE, !.from = out, !.size = n,
                   !.overrun = reader.mode = "TAKE" /\ Minus(head, out) > RingSize]
  BY DEF ReadCopy
<1> HIDE DEF n
<1>5. n \in Nat /\ n \in 0 .. Capacity
  BY <1>2, <1>3, Sizes
<1>6. reader' \in Readers
  <2>1. out \in Numbers /\ (reader.mode = "TAKE" /\ Minus(head, out) > RingSize) \in BOOLEAN
    BY DEF TaskInv, NumbersOK
  <2> QED
    BY <1>4, <1>5, <2>1 DEF TaskInv, Readers
<1>7. /\ reader'.pc = "ADVANCE" /\ reader'.mode = reader.mode /\ reader'.discarded = FALSE
      /\ reader'.failed = reader.failed /\ reader'.available = reader.available
      /\ reader'.from = out /\ reader'.size = n
  BY <1>4 DEF TaskInv, Readers
<1>8. NumbersOK' /\ RoomInv'
  BY <1>1, <1>7 DEF TaskInv, NumbersOK, RoomInv
<1>9. ~reader.failed /\ reader.available > 0
  BY <1>1 DEF TaskInv, ShapeInv
<1>10. ShapeInv'
  BY <1>1, <1>3, <1>7, <1>9 DEF TaskInv, ShapeInv
<1>11. ReadInv'
  <2>1. \/ in = out /\ n = 0
        \/ FifoLen = reader.available /\ n = Chunk
        \/ Stirred
    <3>1. CASE in = out
      BY <1>2, <1>3, <1>5, <3>1
    <3>2. CASE FifoLen = reader.available
      BY <1>2, <1>3, <1>5, <3>2, Sizes DEF Chunk
    <3> QED
      BY <1>1, <3>1, <3>2 DEF TaskInv, ReadInv
  <2>2. Chunk' = Chunk /\ Stirred' = Stirred
    BY <1>1, <1>7 DEF Chunk, Stirred
  <2> QED
    BY <1>1, <1>3, <1>7, <2>1, <2>2 DEF ReadInv
<1>12. LostInv' /\ OrderInv'
  BY <1>1, <1>7, <1>9 DEF TaskInv, LostInv, OrderInv
<1> QED
  BY <1>6, <1>8, <1>10, <1>11, <1>12 DEF TaskInv

\* Reading n of the bytes there are.
LEMMA Nearer ==
  ASSUME NEW a \in Numbers, NEW b \in Numbers, NEW n \in Nat, n <= Minus(a, b)
  PROVE  /\ Plus(b, n) \in Numbers /\ Minus(a, Plus(b, n)) = Minus(a, b) - n
<1>1. PICK d \in Numbers : d = Minus(a, b)
  BY MinusIs
<1>2. n \in Numbers
  BY <1>1, Sizes DEF Numbers
<1>3. PICK c \in Numbers : c = Plus(b, n)
  BY <1>2, PlusIs
<1>4. PICK e \in Numbers : e = Minus(a, c)
  BY <1>3, MinusIs
<1>5. /\ a \in Nat /\ b \in Nat /\ c \in Nat /\ d \in Nat /\ e \in Nat /\ n <= d
      /\ a < Span /\ b < Span /\ c < Span /\ d < Span /\ e < Span
  BY <1>1, <1>3, <1>4, Sizes DEF Numbers
<1>6. /\ a >= b => d = a - b
      /\ a < b => d = a - b + Span
      /\ a >= c => e = a - c
      /\ a < c => e = a - c + Span
  BY <1>1, <1>3, <1>4, MinusIs
<1>7. /\ b + n < Span => c = b + n
      /\ b + n >= Span => c = b + n - Span
  BY <1>2, <1>3, PlusIs
<1>8. e = d - n
  BY <1>5, <1>6, <1>7, Sizes
<1> QED
  BY <1>1, <1>3, <1>4, <1>8

LEMMA PlusTyped ==
  ASSUME NEW a \in Numbers, NEW n \in Nat
  PROVE  Plus(a, n) \in Numbers
<1>1. PICK x \in Int : x = a + n
  BY Sizes DEF Numbers
<1>2. x % Span \in 0 .. Span - 1
  BY <1>1, Sizes
<1> QED
  BY <1>1, <1>2 DEF Plus, Numbers

LEMMA AdvanceHolds ==
  ASSUME TaskInv, ReadAdvance, UNCHANGED <<line, last_pos>>
  PROVE  TaskInv'
<1>1. /\ UNCHANGED <<head, last_pos, in, idle_news, error_news, busy, idle, lost, due>>
      /\ reader.pc = "ADVANCE" /\ reader' = [reader EXCEPT !.pc = "CHECK"]
  BY DEF ReadAdvance, line, news, promise
<1>2. PICK loaded \in {out, reader.from} : out' = Plus(loaded, reader.size)
  BY DEF ReadAdvance
<1>3. reader.size \in Nat /\ reader.available \in Nat /\ loaded \in Numbers
  BY <1>2, Sizes DEF TaskInv, Readers, NumbersOK, Numbers
<1>4. out' \in Numbers
  BY <1>2, <1>3, PlusTyped
<1>5. /\ reader' \in Readers
      /\ reader'.pc = "CHECK" /\ reader'.mode = reader.mode /\ reader'.discarded = reader.discarded
      /\ reader'.failed = reader.failed /\ reader'.available = reader.available
      /\ reader'.from = reader.from /\ reader'.size = reader.size
  BY <1>1 DEF TaskInv, Readers
<1>6. NumbersOK'
  BY <1>1, <1>4 DEF TaskInv, NumbersOK
<1>7. ~reader.discarded =>
        /\ out = reader.from /\ loaded = out /\ reader.size <= FifoLen
        /\ FifoLen' = FifoLen - reader.size
  <2> SUFFICES ASSUME ~reader.discarded
               PROVE  /\ out = reader.from /\ loaded = out /\ reader.size <= FifoLen
                      /\ FifoLen' = FifoLen - reader.size
    OBVIOUS
  <2>1. out = reader.from /\ loaded = out /\ reader.size <= FifoLen
    BY <1>1, <1>2 DEF TaskInv, ReadInv
  <2>2. Minus(in, Plus(out, reader.size)) = Minus(in, out) - reader.size
    BY <1>3, <2>1, Nearer DEF TaskInv, NumbersOK, FifoLen
  <2> QED
    BY <1>1, <1>2, <2>1, <2>2 DEF FifoLen
<1>8. FifoLen \in Nat /\ (FifoLen = 0 <=> in = out)
  BY FifoLenTyped DEF TaskInv
<1>9. RoomInv'
  BY <1>1, <1>3, <1>5, <1>7, <1>8, Sizes DEF TaskInv, RoomInv
<1>10. ShapeInv'
  BY <1>1, <1>5 DEF TaskInv, ShapeInv
<1>11. ReadInv'
  <2>1. Stirred' = Stirred /\ Chunk' = Chunk
    BY <1>1, <1>5 DEF Stirred, Chunk
  <2>2. ASSUME ~reader.discarded
        PROVE  in' = out' \/ Left' \/ Stirred'
    <3>1. CASE reader.size = 0 /\ in = out
      <4>1. Minus(in, out') = 0
        BY <1>1, <1>7, <1>8, <2>2, <3>1 DEF FifoLen
      <4> QED
        BY <1>1, <1>4, <4>1, NoDistance DEF TaskInv, NumbersOK
    <3>2. CASE FifoLen = reader.available /\ reader.size = Chunk
      BY <1>5, <1>7, <2>1, <2>2, <3>2 DEF Left
    <3> QED
      BY <1>1, <2>1, <2>2, <3>1, <3>2 DEF TaskInv, ReadInv
  <2> QED
    BY <1>5, <2>2 DEF ReadInv
<1>12. LostInv'
  BY <1>1, <1>5 DEF TaskInv, LostInv
<1>13. OrderInv'
  BY <1>1, <1>2, <1>5, <1>7 DEF TaskInv, OrderInv, LostInv
<1> QED
  BY <1>5, <1>6, <1>9, <1>10, <1>11, <1>12, <1>13 DEF TaskInv

LEMMA CheckHolds ==
  ASSUME TaskInv, ReadCheck, UNCHANGED <<line, last_pos>>
  PROVE  TaskInv'
<1>1. /\ UNCHANGED <<head, last_pos, in, idle_news, error_news, busy, idle, lost, due>>
      /\ reader.pc = "CHECK"
  BY DEF ReadCheck, line, news, promise
<1>2. CASE reader.discarded
  <2>1. out' = in /\ reader' = [NoPoll EXCEPT !.pc = "DONE", !.mode = reader.mode, !.failed = TRUE]
    BY <1>2 DEF ReadCheck
  <2>2. /\ reader'.pc = "DONE" /\ reader'.mode = reader.mode /\ reader'.failed = TRUE
        /\ reader'.available = 0 /\ reader'.size = 0
    BY <2>1 DEF NoPoll
  <2>3. reader' \in Readers
    BY <2>1, NoPollTyped DEF TaskInv, Readers
  <2>4. NumbersOK'
    BY <1>1, <2>1 DEF TaskInv, NumbersOK
  <2>5. RoomInv'
    <3>1. Minus(in, in) = 0
      BY NoDistance DEF TaskInv, NumbersOK
    <3> QED
      BY <1>1, <2>1, <3>1, Sizes DEF RoomInv, FifoLen
  <2>6. ShapeInv' /\ ReadInv'
    BY <1>1, <2>1, <2>2 DEF ShapeInv, ReadInv
  <2>7. LostInv' /\ OrderInv'
    BY <1>1, <1>2, <2>2 DEF TaskInv, LostInv, OrderInv
  <2> QED
    BY <2>3, <2>4, <2>5, <2>6, <2>7 DEF TaskInv
<1>3. CASE ~reader.discarded
  <2>1. out' = out /\ reader' = [reader EXCEPT !.pc = "DONE"]
    BY <1>3 DEF ReadCheck
  <2>2. /\ reader' \in Readers
        /\ reader'.pc = "DONE" /\ reader'.mode = reader.mode /\ reader'.failed = reader.failed
        /\ reader'.available = reader.available /\ reader'.from = reader.from
        /\ reader'.size = reader.size
    BY <2>1 DEF TaskInv, Readers
  <2>3. NumbersOK'
    BY <1>1, <2>1 DEF TaskInv, NumbersOK
  <2>4. FifoLen' = FifoLen /\ Chunk' = Chunk /\ Stirred' = Stirred
    BY <1>1, <2>1, <2>2 DEF FifoLen, Chunk, Stirred
  <2>5. RoomInv'
    BY <1>3, <2>4 DEF TaskInv, RoomInv
  <2>6. ShapeInv' /\ ReadInv'
    BY <1>1, <1>3, <2>1, <2>2, <2>4 DEF TaskInv, ShapeInv, ReadInv, Left
  <2>7. LostInv' /\ OrderInv'
    BY <1>1, <2>1, <2>2 DEF TaskInv, LostInv, OrderInv
  <2> QED
    BY <2>2, <2>3, <2>5, <2>6, <2>7 DEF TaskInv
<1> QED
  BY <1>2, <1>3

\* A read that took for the caller, or failed, or left nothing, has read it all.
LEMMA DoneRead ==
  ASSUME TaskInv, reader.pc = "DONE",
         \/ reader.failed \/ reader.mode = "TAKE"
         \/ reader.size = 0 \/ reader.available - reader.size = 0
  PROVE  in = out \/ Stirred
<1>1. /\ reader.available \in Nat /\ reader.size \in Nat
      /\ FifoLen \in Nat /\ (FifoLen = 0 <=> in = out)
  BY FifoLenTyped, Sizes DEF TaskInv, Readers, Numbers
<1>2. in = out \/ Left \/ Stirred
  BY DEF TaskInv, ReadInv
<1>3. CASE Left
  <2>1. FifoLen = reader.available - reader.size /\ reader.size = Chunk
    BY <1>3 DEF Left
  <2>2. reader.failed => FifoLen = 0
    BY <2>1 DEF TaskInv, ShapeInv
  <2>3. ~reader.failed => reader.size # 0
    BY <1>1, <2>1, Sizes DEF TaskInv, ShapeInv, Chunk
  <2>4. ~reader.failed /\ reader.mode = "TAKE" => FifoLen = 0
    BY <1>1, <2>1, Sizes DEF TaskInv, ShapeInv, Chunk
  <2> QED
    BY <1>1, <2>1, <2>2, <2>3, <2>4
<1> QED
  BY <1>2, <1>3

LEMMA DroppedHolds ==
  ASSUME TaskInv, PollDropped, UNCHANGED <<line, last_pos>>
  PROVE  TaskInv'
<1>1. /\ UNCHANGED <<head, last_pos, in, out, idle_news, error_news, busy, idle>>
      /\ reader.pc = "DONE" /\ reader.mode = "DROP" /\ FifoLen' = FifoLen
  BY DEF PollDropped, line, kfifo, news, FifoLen
<1> DEFINE left == reader.available - reader.size
<1>2. RoomInv'
  BY <1>1 DEF TaskInv, RoomInv
<1>3. CASE reader.failed \/ reader.size = 0 \/ left = 0
  <2>1. reader' = NoPoll /\ lost' = FALSE /\ due' = out
    BY <1>3 DEF PollDropped, ReturnError
  <2>2. NumbersOK'
    BY <1>1, <2>1 DEF TaskInv, NumbersOK
  <2>3. in' = out' \/ Stirred'
    BY <1>1, <1>3, DoneRead DEF Stirred
  <2> QED
    BY <1>1, <1>2, <2>1, <2>2, <2>3, RestHolds
<1>4. CASE ~(reader.failed \/ reader.size = 0 \/ left = 0)
  <2>1. /\ reader' = [reader EXCEPT !.pc = "CALL", !.available = left, !.size = 0, !.from = 0]
        /\ UNCHANGED <<lost, due>>
    BY <1>4 DEF PollDropped, promise
  <2>2. reader.available \in Nat /\ reader.size \in Nat /\ reader.size <= reader.available
        /\ reader.available < Span
    BY <1>1, Sizes DEF TaskInv, Readers, Numbers, ShapeInv
  <2>3. left \in Numbers /\ left \in Nat /\ left > 0 /\ 0 \in Numbers /\ 0 \in 0 .. Capacity
    BY <1>4, <2>2, Sizes DEF Numbers
  <2>4. in = out \/ FifoLen = left \/ Stirred
    BY <1>1 DEF TaskInv, ReadInv, Left
  <2> HIDE DEF left
  <2>5. /\ reader' \in Readers
        /\ reader'.pc = "CALL" /\ reader'.mode = "DROP" /\ reader'.failed = reader.failed
        /\ reader'.available = left
    BY <1>1, <2>1, <2>3 DEF TaskInv, Readers
  <2>6. NumbersOK'
    BY <1>1, <2>1 DEF TaskInv, NumbersOK
  <2>7. ShapeInv'
    BY <1>4, <2>3, <2>5 DEF ShapeInv
  <2>8. ReadInv'
    BY <1>1, <2>4, <2>5 DEF ReadInv, Stirred
  <2>9. LostInv' /\ OrderInv'
    BY <1>1, <1>4, <2>1, <2>5 DEF TaskInv, LostInv, OrderInv
  <2> QED
    BY <1>2, <2>5, <2>6, <2>7, <2>8, <2>9 DEF TaskInv
<1> QED
  BY <1>3, <1>4

LEMMA SpoiltHolds ==
  ASSUME TaskInv, PollSpoilt, UNCHANGED <<line, last_pos>>
  PROVE  TaskInv'
<1>1. /\ UNCHANGED <<head, last_pos, in, out, idle_news, busy, idle>>
      /\ reader.pc = "DONE" /\ reader.mode = "TAKE" /\ FifoLen' = FifoLen
      /\ reader' = NoPoll /\ lost' = FALSE /\ due' = out
  BY DEF PollSpoilt, ReturnError, line, kfifo, FifoLen
<1>2. NumbersOK' /\ RoomInv'
  BY <1>1 DEF TaskInv, NumbersOK, RoomInv
<1>3. in' = out' \/ Stirred'
  BY <1>1, DoneRead DEF Stirred
<1> QED
  BY <1>1, <1>2, <1>3, RestHolds

\* What is handed over was due, and what is due next is unread.
LEMMA Delivered ==
  ASSUME TaskInv, PollDelivers
  PROVE  ~lost /\ reader.from = due /\ Plus(due, reader.size) = out
<1>1. reader.pc = "DONE" /\ reader.mode = "TAKE" /\ ~error_news
  BY DEF PollDelivers
<1>2. ~lost
  BY <1>1 DEF TaskInv, LostInv
<1> QED
  BY <1>1, <1>2 DEF TaskInv, OrderInv

LEMMA DeliversHolds ==
  ASSUME TaskInv, PollDelivers, UNCHANGED <<line, last_pos>>
  PROVE  TaskInv'
<1>1. /\ UNCHANGED <<head, last_pos, in, out, idle_news, error_news, busy, idle, lost>>
      /\ reader.pc = "DONE" /\ reader.mode = "TAKE" /\ FifoLen' = FifoLen
      /\ reader' = NoPoll /\ due' = Plus(due, reader.size)
  BY DEF PollDelivers, line, kfifo, news, FifoLen
<1>2. due' = out' /\ ~lost'
  BY <1>1, Delivered
<1>3. NumbersOK' /\ RoomInv'
  BY <1>1, <1>2 DEF TaskInv, NumbersOK, RoomInv
<1>4. in' = out' \/ Stirred'
  BY <1>1, DoneRead DEF Stirred
<1> QED
  BY <1>1, <1>2, <1>3, <1>4, RestHolds

LEMMA TaskHolds ==
  ASSUME TaskInv, Task
  PROVE  TaskInv'
BY StartHolds, SizeHolds, DropHolds, TakeHolds, CopyHolds, AdvanceHolds, CheckHolds,
   DroppedHolds, SpoiltHolds, DeliversHolds DEF Task

-----------------------------------------------------------------------------
(* The steps of the line and of the interrupts.                            *)

LEMMA ByteHolds ==
  ASSUME LineInv, TaskInv, ByteArrives
  PROVE  LineInv' /\ TaskInv'
<1>1. /\ head' = Plus(head, 1) /\ busy' = TRUE /\ Minus(head, in) < Backlog
      /\ UNCHANGED <<idle, last_pos, in, out, idle_news, error_news, reader, lost, due>>
  BY DEF ByteArrives, kfifo, news, promise
<1>2. NumbersOK /\ Minus(head, in) \in Nat /\ Minus(head, in) < RingSize
  BY Unpublished DEF TaskInv
<1>3. head' \in Numbers /\ Minus(head', in) = Minus(head, in) + 1
  BY <1>1, <1>2, NextByte DEF NumbersOK
<1>4. full' => Pos(head') < last_pos
  <2>1. full' => full \/ Around(head')
    BY DEF ByteArrives
  <2>2. full \/ Around(head') => Pos(head') < last_pos
    BY <1>1, <1>2, FlagBehind
  <2> QED
    BY <2>1, <2>2
<1>5. LineInv'
  BY <1>1, <1>2, <1>3, <1>4, Sizes DEF LineInv
<1>6. NumbersOK' /\ RoomInv'
  BY <1>1, <1>2, <1>3 DEF TaskInv, NumbersOK, RoomInv, FifoLen
<1>7. ShapeInv' /\ ReadInv'
  BY <1>1 DEF TaskInv, ShapeInv, ReadInv, Stirred, FifoLen, Left, Chunk
<1>8. LostInv' /\ OrderInv'
  BY <1>1 DEF TaskInv, LostInv, OrderInv
<1> QED
  BY <1>1, <1>5, <1>6, <1>7, <1>8 DEF TaskInv

LEMMA SilenceHolds ==
  ASSUME LineInv, TaskInv, LineIdle
  PROVE  LineInv' /\ TaskInv'
<1>1. /\ idle' = TRUE
      /\ UNCHANGED <<head, full, last_pos, in, out, idle_news, error_news, reader, lost, due>>
  BY DEF LineIdle, kfifo, news, promise
<1>2. LineInv'
  BY <1>1 DEF LineInv
<1>3. NumbersOK' /\ RoomInv'
  BY <1>1 DEF TaskInv, NumbersOK, RoomInv, FifoLen
<1>4. ShapeInv' /\ ReadInv'
  BY <1>1 DEF TaskInv, ShapeInv, ReadInv, Stirred, FifoLen, Left, Chunk
<1>5. LostInv' /\ OrderInv'
  BY <1>1 DEF TaskInv, LostInv, OrderInv
<1> QED
  BY <1>1, <1>2, <1>3, <1>4, <1>5 DEF TaskInv

LEMMA KeptHolds ==
  ASSUME TaskInv, Published, Kept
  PROVE  TaskInv'
<1>1. /\ UNCHANGED <<out, reader, lost, due>> /\ (error_news <=> error_news')
      /\ FifoLen <= RingSize => FifoLen' >= FifoLen /\ FifoLen' <= RingSize
  BY DEF Kept, FifoLen
<1>2. /\ in' = in => FifoLen' = FifoLen
      /\ Stirred => Stirred'
      /\ in' = in \/ Stirred'
  BY <1>1 DEF Published, FifoLen
<1>3. NumbersOK'
  BY <1>1, PosIs DEF TaskInv, NumbersOK, Published
<1>4. FifoLen \in Nat /\ FifoLen' \in Nat /\ reader.size \in Nat
  <2>1. FifoLen' \in Numbers
    BY <1>3, MinusIs DEF FifoLen, NumbersOK
  <2> QED
    BY <2>1, FifoLenTyped, Sizes DEF TaskInv, Readers, Numbers
<1>5. RoomInv'
  BY <1>1 DEF TaskInv, RoomInv
<1>6. ShapeInv'
  BY <1>1 DEF TaskInv, ShapeInv
<1>7. ReadInv'
  <2>1. reader.pc = "ADVANCE" /\ ~reader.discarded => out = reader.from /\ reader.size <= FifoLen'
    BY <1>1, <1>4, Sizes DEF TaskInv, ReadInv, RoomInv
  <2>2. CASE in' = in
    BY <1>1, <1>2, <2>1, <2>2 DEF TaskInv, ReadInv, Left, Chunk
  <2>3. CASE Stirred'
    BY <1>1, <2>1, <2>3 DEF ReadInv
  <2> QED
    BY <1>2, <2>2, <2>3
<1>8. LostInv' /\ OrderInv'
  BY <1>1 DEF TaskInv, LostInv, OrderInv
<1> QED
  BY <1>1, <1>3, <1>5, <1>6, <1>7, <1>8 DEF TaskInv

LEMMA DiscardedHolds ==
  ASSUME TaskInv, Published, Discarded
  PROVE  TaskInv'
<1>1. /\ out' = in' /\ due' = in' /\ lost' /\ error_news'
      /\ reader' = [reader EXCEPT !.discarded = reader.pc # "REST"]
  BY DEF Discarded
<1>2. /\ reader' \in Readers
      /\ reader'.pc = reader.pc /\ reader'.mode = reader.mode /\ reader'.failed = reader.failed
      /\ reader'.available = reader.available /\ reader'.size = reader.size
      /\ reader.pc # "REST" => reader'.discarded
  <2>1. (reader.pc # "REST") \in BOOLEAN
    OBVIOUS
  <2> QED
    BY <1>1, <2>1 DEF TaskInv, Readers
<1>3. NumbersOK'
  BY <1>1, PosIs DEF TaskInv, NumbersOK, Published
<1>4. RoomInv'
  <2>1. Minus(in', in') = 0
    BY NoDistance DEF Published
  <2> QED
    BY <1>1, <2>1, Sizes DEF RoomInv, FifoLen
<1>5. ShapeInv'
  BY <1>2 DEF TaskInv, ShapeInv
<1>6. ReadInv'
  BY <1>1, <1>2 DEF ReadInv
<1>7. LostInv' /\ OrderInv'
  BY <1>1 DEF LostInv, OrderInv
<1> QED
  BY <1>2, <1>3, <1>4, <1>5, <1>6, <1>7 DEF TaskInv

LEMMA StepHolds ==
  ASSUME LineInv, TaskInv, Next
  PROVE  LineInv' /\ TaskInv'
<1>1. CASE ByteArrives
  BY <1>1, ByteHolds
<1>2. CASE LineIdle
  BY <1>2, SilenceHolds
<1>3. CASE UsartIrq \/ DmaIrq
  <2>1. Published /\ (Kept \/ Discarded)
    BY <1>3, IrqMoves DEF TaskInv
  <2>2. LineInv'
    BY <2>1 DEF Published, LineInv
  <2> QED
    BY <2>1, <2>2, KeptHolds, DiscardedHolds
<1>4. CASE Task
  <2>1. UNCHANGED <<head, full, busy, idle, in, last_pos>>
    BY <1>4 DEF Task, line, PollStart, PollSize, PollDrop, PollTake, ReadCopy, ReadAdvance, ReadCheck,
       PollDropped, PollSpoilt, PollDelivers, kfifo
  <2>2. LineInv'
    BY <2>1 DEF LineInv
  <2> QED
    BY <1>4, <2>2, TaskHolds
<1> QED
  BY <1>1, <1>2, <1>3, <1>4 DEF Next

LEMMA StutterHolds == LineInv /\ TaskInv /\ UNCHANGED vars => LineInv' /\ TaskInv'
<1> SUFFICES ASSUME LineInv, TaskInv, UNCHANGED vars
             PROVE  LineInv' /\ TaskInv'
  OBVIOUS
<1>1. UNCHANGED <<head, full, busy, idle, in, out, last_pos, idle_news, error_news, reader, lost, due>>
  BY DEF vars, line, kfifo, news, promise
<1>2. LineInv' /\ NumbersOK' /\ RoomInv'
  BY <1>1 DEF LineInv, TaskInv, NumbersOK, RoomInv, FifoLen
<1>3. ShapeInv' /\ ReadInv'
  BY <1>1 DEF TaskInv, ShapeInv, ReadInv, Stirred, FifoLen, Left, Chunk
<1>4. LostInv' /\ OrderInv'
  BY <1>1 DEF TaskInv, LostInv, OrderInv
<1> QED
  BY <1>1, <1>2, <1>3, <1>4 DEF TaskInv

LEMMA AlwaysHolds == Spec => [](LineInv /\ TaskInv)
<1>1. LineInv /\ TaskInv /\ [Next]_vars => LineInv' /\ TaskInv'
  BY StepHolds, StutterHolds
<1> QED
  BY <1>1, InitHolds, PTL DEF Spec

-----------------------------------------------------------------------------
(* What follows.                                                           *)

\* A silent line, every interrupt served and a poll with no news: everything
\* received has been read or reported as lost, for every ring and buffer.
THEOREM NothingLost == Spec => []NothingForgotten
<1>1. LineInv /\ TaskInv => NothingForgotten
  BY DEF LineInv, TaskInv, ReadInv, Stirred, LostInv, ShapeInv, NothingForgotten, Due
<1> QED
  BY <1>1, AlwaysHolds, PTL

\* What a poll hands over is what is due, and nothing before it was lost unsaid.
THEOREM InOrder == Spec => DeliversInOrder
<1>1. LineInv /\ TaskInv =>
        [PollDelivers /\ ~Due /\ ~reader.overrun => ~lost /\ reader.from = due]_vars
  BY Delivered
<1> QED
  BY <1>1, AlwaysHolds, PTL DEF DeliversInOrder

\* Only an overwritten byte makes an interrupt discard.
THEOREM AlarmIsReal == Spec => NoFalseAlarm
<1>1. ASSUME LineInv, TaskInv, [Next]_vars, error_news', ~error_news, ~lost
      PROVE  Minus(head', out) > RingSize
  <2>1. FifoLen <= RingSize
    BY <1>1 DEF TaskInv, RoomInv, LostInv
  <2>2. ~UNCHANGED vars
    BY <1>1 DEF vars, news
  <2>3. ~ByteArrives /\ ~LineIdle
    BY <1>1 DEF ByteArrives, LineIdle, news
  <2>4. ~Task
    BY <1>1 DEF Task, PollStart, PollSize, PollDrop, PollTake, ReadCopy, ReadAdvance, ReadCheck,
       PollDropped, PollSpoilt, PollDelivers, news
  <2>5. UsartIrq \/ DmaIrq
    BY <1>1, <2>2, <2>3, <2>4 DEF Next
  <2>6. Kept \/ Discarded
    BY <1>1, <2>5, IrqMoves DEF TaskInv
  <2> QED
    BY <1>1, <2>1, <2>6 DEF Kept, Discarded
<1>2. LineInv /\ TaskInv /\ [Next]_vars =>
        [error_news' /\ ~error_news /\ ~lost => Minus(head', out) > RingSize]_vars
  BY <1>1
<1> QED
  BY <1>2, AlwaysHolds, PTL DEF Spec, NoFalseAlarm
=============================================================================
