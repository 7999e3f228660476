-------------------------- MODULE AudioQueue_proofs --------------------------
(***************************************************************************)
(* How chunks of audio join, what the game is told of the queue, and how   *)
(* long it gets, for any rates and any chunks.                             *)
(***************************************************************************)
EXTENDS AudioQueue, FiniteSetTheorems, SequenceTheorems, TLAPS

LastFrames == [i \in 1 .. duplicated_input_frames |-> i - 1 - duplicated_input_frames]

AudioTypeOK ==
  /\ sample_rate \in Nat \ {0} /\ discarded_output_frames = Discarded(sample_rate)
  /\ queue \in Nat /\ edge \in Int /\ grain \in Nat \ {0}

(* What was queued ends four input frames before the end of the input, give or
   take a frame: where the first half of the duplicated frames will end. *)
EdgeOK ==
  /\ duplicated = LastFrames
  /\ -4 * OutputRate - 2 * grain < edge
  /\ edge < -4 * OutputRate + grain

LEMMA Division ==
  ASSUME NEW a \in Int, NEW b \in Nat \ {0}
  PROVE  /\ a \div b \in Int
         /\ (a \div b) * b <= a
         /\ a < (a \div b) * b + b
OBVIOUS

LEMMA NatDivision ==
  ASSUME NEW a \in Nat, NEW b \in Nat \ {0}
  PROVE  a \div b \in Nat
OBVIOUS

LEMMA PowerOfTwo ==
  ASSUME NEW k \in Nat
  PROVE  2 ^ k \in Nat \ {0}
<1> DEFINE S == 1 .. k
<1>1. IsFiniteSet(S) /\ Cardinality(S) = k
  BY FS_Interval
<1>2. IsFiniteSet(SUBSET S) /\ Cardinality(SUBSET S) = 2 ^ k
  BY <1>1, FS_SUBSET
<1>3. Cardinality(SUBSET S) \in Nat /\ Cardinality(SUBSET S) # 0
  BY <1>2, FS_CardinalityType, FS_EmptySet
<1>4. QED
  BY <1>2, <1>3

LEMMA PowersGrow ==
  ASSUME NEW j \in Nat, NEW k \in Nat, j <= k
  PROVE  2 ^ j <= 2 ^ k
<1>1. /\ IsFiniteSet(1 .. j) /\ Cardinality(1 .. j) = j
      /\ IsFiniteSet(1 .. k) /\ Cardinality(1 .. k) = k
  BY FS_Interval
<1>2. /\ Cardinality(SUBSET (1 .. j)) = 2 ^ j
      /\ IsFiniteSet(SUBSET (1 .. k)) /\ Cardinality(SUBSET (1 .. k)) = 2 ^ k
  BY <1>1, FS_SUBSET
<1>3. SUBSET (1 .. j) \subseteq SUBSET (1 .. k)
  <2>1. 1 .. j \subseteq 1 .. k
    OBVIOUS
  <2>2. QED
    BY <2>1
<1>4. Cardinality(SUBSET (1 .. j)) <= Cardinality(SUBSET (1 .. k))
  BY <1>2, <1>3, FS_Subset
<1>5. QED
  BY <1>2, <1>4

(* Of two numbers the greater has the greater quotient. *)
LEMMA QuotientsGrow ==
  ASSUME NEW a \in Int, NEW b \in Int, NEW c \in Nat \ {0}, a <= b
  PROVE  a \div c <= b \div c
OBVIOUS

LEMMA RatioPositive ==
  ASSUME AudioTypeOK
  PROVE  skip_factor \in Nat /\ skip_ratio \in Nat \ {0}
<1>1. queue \div 8 \in Nat
  BY NatDivision DEF AudioTypeOK
<1>2. ((queue \div 8) * 1000000) \div sample_rate \in Nat
  BY <1>1, NatDivision DEF AudioTypeOK
<1>3. skip_factor \in Nat
  BY <1>2, NatDivision
     DEF skip_factor, cur_queued_microseconds, bytes_per_frame, output_channels,
         bytes_per_sample
<1>4. skip_factor % 32 \in Nat
  BY <1>3
<1>5. QED
  BY <1>3, <1>4, PowerOfTwo DEF skip_ratio

(* What is cut off a chunk is there, whatever its length. *)
LEMMA ChunkOutlastsCut ==
  ASSUME AudioTypeOK, NEW n \in Nat \ {0}
  PROVE  /\ Converted(n + 4) \in Nat /\ discarded_output_frames \in Nat
         /\ discarded_output_frames <= Converted(n + 4)
<1> DEFINE d == discarded_output_frames
           f == Converted(n + 4)
<1>1. OutputRate \in Nat \ {0} /\ sample_rate \in Nat \ {0}
  BY AudioAssumption DEF AudioTypeOK
<1>2. d = (4 * OutputRate) \div sample_rate /\ f = ((n + 4) * OutputRate) \div sample_rate
  BY DEF AudioTypeOK, Discarded, duplicated_input_frames, Converted
<1>3. /\ 4 * OutputRate \in Nat /\ (n + 4) * OutputRate \in Nat
      /\ 4 * OutputRate <= (n + 4) * OutputRate
  BY <1>1
<1> DEFINE a == 4 * OutputRate
           b == (n + 4) * OutputRate
<1> HIDE DEF a, b
<1>4. d = a \div sample_rate /\ f = b \div sample_rate
      /\ a \in Nat /\ b \in Nat /\ a <= b
  BY <1>2, <1>3 DEF a, b
<1> HIDE DEF d, f
<1>5. d \in Nat /\ f \in Nat /\ d <= f
  BY <1>1, <1>4, NatDivision, QuotientsGrow
<1>6. QED
  BY <1>5 DEF d, f

(* Every ratio-th of m frames, counted in bytes and back. *)
LEMMA Decimation ==
  ASSUME NEW m \in Int, NEW ratio \in Nat \ {0}
  PROVE  LET kept == ((m * 8) \div ratio) \div 8 IN
         kept \in Int /\ kept * ratio <= m /\ m < kept * ratio + ratio
<1> DEFINE bytes == (m * 8) \div ratio
           kept == bytes \div 8
<1>1. bytes \in Int /\ bytes * ratio <= m * 8 /\ m * 8 < bytes * ratio + ratio
  BY Division
<1>2. kept \in Int /\ kept * 8 <= bytes /\ bytes + 1 <= kept * 8 + 8
  BY <1>1, Division
<1> HIDE DEF bytes, kept
<1>3. kept * 8 * ratio <= bytes * ratio
  BY <1>1, <1>2
<1>4. (bytes + 1) * ratio <= (kept * 8 + 8) * ratio
  BY <1>1, <1>2
<1> DEFINE p == kept * ratio
           q == bytes * ratio
<1>5. /\ kept * 8 * ratio = 8 * p /\ (kept * 8 + 8) * ratio = 8 * p + 8 * ratio
      /\ (bytes + 1) * ratio = q + ratio
      /\ p \in Int /\ q \in Int
  BY <1>1, <1>2
<1>6. 8 * p <= q /\ q + ratio <= 8 * p + 8 * ratio /\ q <= m * 8 /\ m * 8 < q + ratio
  BY <1>1, <1>3, <1>4, <1>5
<1> HIDE DEF p, q
<1>7. p <= m /\ m < p + ratio
  BY <1>5, <1>6
<1>8. QED
  BY <1>2, <1>7 DEF p, kept, bytes

LEMMA Buffer ==
  ASSUME duplicated = LastFrames, NEW n \in Nat \ {0}
  PROVE  /\ swap_buffer(n)[1] = -4
         /\ Duplicated(n) = LastFrames
<1> DEFINE chunk == [i \in 1 .. n |-> i - 1]
<1>1. duplicated \in Seq(Int) /\ Len(duplicated) = 4 /\ chunk \in Seq(Int) /\ Len(chunk) = n
  BY DEF LastFrames, duplicated_input_frames
<1>2. swap_buffer(n) = duplicated \o chunk
  BY DEF swap_buffer
<1>0. \A i \in 1 .. n : chunk[i] = i - 1
  OBVIOUS
<1> HIDE DEF chunk
<1>3. \A j \in 1 .. n + 4 : swap_buffer(n)[j] = j - 5
  <2> DEFINE joined == duplicated \o chunk
  <2>1. \A i \in 1 .. Len(duplicated) + Len(chunk) : joined[i] =
          IF i <= Len(duplicated) THEN duplicated[i] ELSE chunk[i - Len(duplicated)]
    BY <1>1, ConcatProperties, Zenon
  <2> HIDE DEF joined
  <2>2. \A i \in 1 .. n + 4 :
          joined[i] = IF i <= 4 THEN duplicated[i] ELSE chunk[i - 4]
    BY <1>1, <2>1
  <2>3. \A i \in 1 .. 4 : duplicated[i] = i - 5
    BY DEF LastFrames, duplicated_input_frames
  <2>4. \A j \in 1 .. n + 4 : joined[j] = j - 5
    BY <1>0, <2>2, <2>3
  <2>5. QED
    BY <1>2, <2>4 DEF joined
<1>4. \A i \in 1 .. 4 : swap_buffer(n)[i + n] = i + n - 5
  BY <1>3
<1>5. Duplicated(n) = LastFrames
  BY <1>4 DEF Duplicated, LastFrames, duplicated_input_frames
<1>6. QED
  BY <1>3, <1>5

(* Where a chunk begins: two input frames before its first new one. *)
LEMMA Starts ==
  ASSUME AudioTypeOK, EdgeOK, NEW n \in Nat \ {0}
  PROVE  /\ Start(n) = -8 * OutputRate + sample_rate * discarded_output_frames
         /\ discarded_output_frames \in Nat
         /\ sample_rate * discarded_output_frames <= 4 * OutputRate
         /\ 4 * OutputRate < sample_rate * discarded_output_frames + sample_rate
<1>1. sample_rate \in Nat \ {0} /\ OutputRate \in Nat \ {0}
  BY AudioAssumption DEF AudioTypeOK
<1>2. discarded_output_frames = (4 * OutputRate) \div sample_rate
  BY DEF AudioTypeOK, Discarded, duplicated_input_frames
<1>3. /\ discarded_output_frames \in Nat
      /\ discarded_output_frames * sample_rate <= 4 * OutputRate
      /\ 4 * OutputRate < discarded_output_frames * sample_rate + sample_rate
  BY <1>1, <1>2, NatDivision, Division
<1>4. samples_to_queue = discarded_output_frames
  BY <1>3 DEF samples_to_queue, output_channels
<1>5. Start(n) = 2 * OutputRate * (-4) + sample_rate * discarded_output_frames
  BY <1>4, Buffer DEF Start, EdgeOK
<1>6. QED
  BY <1>1, <1>3, <1>5

LEMMA QueueKeeps ==
  ASSUME AudioTypeOK, EdgeOK, NEW n \in Chunks, queue_samples(n)
  PROVE  AudioTypeOK' /\ EdgeOK'
<1> DEFINE d == discarded_output_frames
           f == Converted(n + 4)
           ratio == skip_ratio
           kept == num_bytes_to_queue(n) \div bytes_per_frame
<1>1. /\ n \in Nat \ {0} /\ OutputRate \in Nat \ {0} /\ sample_rate \in Nat \ {0}
      /\ edge \in Int /\ queue \in Nat
  BY AudioAssumption DEF AudioTypeOK
<1>2. ratio \in Nat \ {0}
  BY RatioPositive
<1>3. /\ Start(n) = -8 * OutputRate + sample_rate * d
      /\ d \in Nat /\ sample_rate * d <= 4 * OutputRate
      /\ 4 * OutputRate < sample_rate * d + sample_rate
  BY <1>1, Starts
<1>4. /\ f \in Nat /\ f * sample_rate <= (n + 4) * OutputRate
      /\ (n + 4) * OutputRate < f * sample_rate + sample_rate
  BY <1>1, NatDivision, Division DEF Converted
<1>5. num_bytes_to_queue(n) = ((f - d) * 8) \div ratio
      /\ kept = num_bytes_to_queue(n) \div 8
  BY DEF num_bytes_to_queue, bytes_per_frame, output_channels, bytes_per_sample,
         duplicated_input_frames
<1>6. kept \in Int /\ kept * ratio <= f - d /\ f - d < kept * ratio + ratio
  <2> DEFINE m == f - d
  <2>1. m \in Int
    BY <1>3, <1>4
  <2>2. kept = ((m * 8) \div ratio) \div 8
    BY <1>5
  <2> HIDE DEF kept, m
  <2>3. kept \in Int /\ kept * ratio <= m /\ m < kept * ratio + ratio
    BY <1>2, <2>1, <2>2, Decimation
  <2>4. QED
    BY <2>3 DEF m
<1>7. num_bytes_to_queue(n) \in Nat
  <2>1. (f - d) * 8 \in Nat
    BY <1>1, ChunkOutlastsCut
  <2>2. QED
    BY <1>2, <1>5, <2>1, NatDivision
<1>8. /\ duplicated' = LastFrames
      /\ queue' = queue + num_bytes_to_queue(n)
      /\ grain' = sample_rate * ratio
      /\ edge' = Start(n) + kept * 2 * grain' - 2 * OutputRate * n
      /\ sample_rate' = sample_rate /\ discarded_output_frames' = d
  BY <1>1, Buffer DEF queue_samples, converter, EdgeOK
<1> DEFINE x == sample_rate * d
           y == f * sample_rate
           g == sample_rate * ratio
           k == kept * g
           z == n * OutputRate
<1>9. x \in Int /\ y \in Int /\ g \in Nat /\ g >= sample_rate /\ k \in Int /\ z \in Int
  BY <1>1, <1>2, <1>3, <1>4, <1>6
<1>10. k <= y - x /\ y - x < k + g
  <2>1. k = (kept * ratio) * sample_rate /\ (f - d) * sample_rate = y - x
        /\ (kept * ratio + ratio) * sample_rate = k + g
    BY <1>1, <1>2, <1>3, <1>4, <1>6
  <2> DEFINE a == kept * ratio
             b == f - d
  <2>2. a \in Int /\ b \in Int /\ a <= b /\ b + 1 <= a + ratio
    BY <1>2, <1>3, <1>4, <1>6
  <2> HIDE DEF a, b
  <2>3. a * sample_rate <= b * sample_rate
    BY <1>1, <2>2
  <2>4. (b + 1) * sample_rate <= (a + ratio) * sample_rate
    BY <1>1, <1>2, <2>2
  <2>5. b * sample_rate < (a + ratio) * sample_rate
    BY <1>1, <1>2, <2>2, <2>4
  <2>6. QED
    BY <2>1, <2>3, <2>5 DEF a, b
<1>11. y - x <= k + g - sample_rate
  <2>1. (f - d) + 1 <= kept * ratio + ratio
    BY <1>2, <1>3, <1>4, <1>6
  <2> DEFINE a == kept * ratio
             b == f - d
  <2>2. a \in Int /\ b \in Int
    BY <1>2, <1>3, <1>4, <1>6
  <2>3. k = a * sample_rate /\ b * sample_rate = y - x
    BY <1>1, <1>2, <1>3, <1>4, <1>6
  <2> HIDE DEF a, b
  <2>4. (b + 1) * sample_rate <= (a + ratio) * sample_rate
    BY <1>1, <1>2, <2>1, <2>2 DEF a, b
  <2>5. (b + 1) * sample_rate = b * sample_rate + sample_rate
        /\ (a + ratio) * sample_rate = a * sample_rate + ratio * sample_rate
    BY <1>1, <1>2, <2>2
  <2>6. b * sample_rate + sample_rate <= a * sample_rate + ratio * sample_rate
    BY <2>4, <2>5
  <2>7. y - x + sample_rate <= k + g
    BY <1>1, <1>2, <2>3, <2>6
  <2>8. QED
    BY <1>1, <1>9, <2>7
<1>12. edge' = -8 * OutputRate + x + 2 * k - 2 * z /\ grain' = g
  <2>1. kept * 2 * g = 2 * k /\ 2 * OutputRate * n = 2 * z
    BY <1>1, <1>6, <1>9
  <2>2. QED
    BY <1>3, <1>8, <2>1
<1>13. x <= 4 * OutputRate /\ 4 * OutputRate < x + sample_rate
       /\ y <= z + 4 * OutputRate /\ z + 4 * OutputRate < y + sample_rate
  BY <1>1, <1>3, <1>4
<1> HIDE DEF d, f, ratio, kept, x, y, g, k, z
<1>14. /\ edge' \in Int
       /\ -4 * OutputRate - 2 * g < edge' /\ edge' < -4 * OutputRate + g
  BY <1>1, <1>9, <1>10, <1>11, <1>12, <1>13
<1>15. EdgeOK'
  BY <1>8, <1>12, <1>14 DEF EdgeOK
<1>16. grain' \in Nat \ {0} /\ queue' \in Nat
  BY <1>1, <1>7, <1>8, <1>9, <1>12
<1>17. AudioTypeOK'
  BY <1>8, <1>14, <1>16 DEF AudioTypeOK, d, Discarded
<1>18. QED
  BY <1>15, <1>17

LEMMA InitHolds == Init => AudioTypeOK /\ EdgeOK
<1>1. OutputRate \in Nat \ {0}
  BY AudioAssumption
<1>2. QED
  BY <1>1 DEF Init, AudioTypeOK, EdgeOK, LastFrames

LEMMA StepKeeps ==
  ASSUME AudioTypeOK, EdgeOK, [Next]_vars
  PROVE  AudioTypeOK' /\ EdgeOK'
<1>1. ASSUME NEW n \in Chunks, queue_samples(n) PROVE AudioTypeOK' /\ EdgeOK'
  BY <1>1, QueueKeeps
<1>2. ASSUME NEW rate \in Rates, set_frequency(rate) PROVE AudioTypeOK' /\ EdgeOK'
  BY <1>2, AudioAssumption
     DEF set_frequency, AudioTypeOK, EdgeOK, LastFrames, Discarded, duplicated_input_frames
<1>3. CASE Plays
  <2>1. queue' \in Nat
    BY <1>3, AudioAssumption
       DEF Plays, AudioTypeOK, bytes_per_frame, output_channels, bytes_per_sample
  <2>2. QED
    BY <1>3, <2>1 DEF Plays, converter, AudioTypeOK, EdgeOK, LastFrames, Discarded
<1>4. CASE UNCHANGED vars
  BY <1>4 DEF vars, converter, AudioTypeOK, EdgeOK, LastFrames, Discarded
<1>5. QED
  BY <1>1, <1>2, <1>3, <1>4 DEF Next

(* For any rates, any chunks and any device: less than a frame is lost or heard
   twice where chunks join (queue_samples, update_audio_converter). *)
THEOREM JoinsAreClose == Spec => ChunksJoin
<1>1. ASSUME AudioTypeOK, EdgeOK, NEW n \in Chunks
      PROVE  Start(n) - edge < 2 * grain /\ edge - Start(n) < grain + sample_rate
  <2>1. /\ n \in Nat \ {0} /\ OutputRate \in Nat /\ sample_rate \in Nat
        /\ edge \in Int /\ grain \in Nat
    BY <1>1, AudioAssumption DEF AudioTypeOK
  <2> DEFINE x == sample_rate * discarded_output_frames
  <2>2. Start(n) = -8 * OutputRate + x /\ x \in Int
        /\ x <= 4 * OutputRate /\ 4 * OutputRate < x + sample_rate
    BY <1>1, <2>1, Starts
  <2> HIDE DEF x
  <2>3. QED
    BY <1>1, <2>1, <2>2 DEF EdgeOK
<1>2. AudioTypeOK /\ EdgeOK /\ [Next]_vars =>
        [\A n \in Chunks : queue_samples(n) =>
           /\ Start(n) - edge < 2 * grain
           /\ edge - Start(n) < grain + sample_rate]_vars
  BY <1>1
<1>3. AudioTypeOK /\ EdgeOK /\ [Next]_vars => AudioTypeOK' /\ EdgeOK'
  BY StepKeeps
<1>4. QED
  BY <1>2, <1>3, InitHolds, PTL DEF Spec, ChunksJoin
-----------------------------------------------------------------------------
(* What the game is told, as a bound on what is queued. *)
LEMMA RemainingBound ==
  ASSUME AudioTypeOK
  PROVE  RemainingIsThere
<1> DEFINE doubled == (queue * 2 * sample_rate) \div OutputRate
           scaled == doubled \div 2
           refresh == 8 * (sample_rate \div 60)
           left == IF scaled > refresh THEN scaled - refresh ELSE 0
           frames == left \div 8
           played == queue * sample_rate
<1>1. OutputRate \in Nat \ {0} /\ sample_rate \in Nat \ {0} /\ queue \in Nat
  BY AudioAssumption DEF AudioTypeOK
<1>2. get_frames_remaining = frames
  BY DEF get_frames_remaining, bytes_per_frame, output_channels, bytes_per_sample
<1>3. /\ doubled \in Nat /\ doubled * OutputRate <= queue * 2 * sample_rate
      /\ played \in Nat /\ queue * 2 * sample_rate = 2 * played
  BY <1>1, NatDivision, Division
<1> HIDE DEF doubled, played
<1>4. scaled \in Nat /\ scaled * 2 <= doubled /\ refresh \in Nat
  BY <1>1, <1>3, NatDivision, Division
<1> HIDE DEF scaled, refresh
<1>5. left \in Nat /\ left <= scaled
  BY <1>4
<1> HIDE DEF left
<1>6. frames \in Nat /\ frames * 8 <= left
  BY <1>5, NatDivision, Division
<1> HIDE DEF frames
<1>7. frames * 16 <= doubled
  BY <1>3, <1>4, <1>5, <1>6
<1>8. (frames * 16) * OutputRate <= doubled * OutputRate
  BY <1>1, <1>3, <1>6, <1>7
<1>9. (frames * 16) * OutputRate = 2 * (frames * OutputRate * 8)
  BY <1>1, <1>6
<1>10. frames * OutputRate * 8 \in Nat
  BY <1>1, <1>6
<1>11. frames * OutputRate * 8 <= played
  <2> DEFINE v == frames * OutputRate * 8
             w == doubled * OutputRate
  <2>1. v \in Nat /\ w \in Nat /\ 2 * v <= w /\ w <= 2 * played
    BY <1>1, <1>3, <1>8, <1>9, <1>10
  <2> HIDE DEF v, w
  <2>2. v <= played
    BY <1>3, <2>1
  <2>3. QED
    BY <2>2 DEF v
<1>12. QED
  BY <1>2, <1>11
     DEF played, RemainingIsThere, bytes_per_frame, output_channels, bytes_per_sample

LEMMA AudioAlways == Spec => [](AudioTypeOK /\ EdgeOK)
<1>1. AudioTypeOK /\ EdgeOK /\ [Next]_vars => (AudioTypeOK /\ EdgeOK)'
  BY StepKeeps
<1>2. QED
  BY <1>1, InitHolds, PTL DEF Spec

(* RemainingIsThere, for any rates: every division get_frames_remaining makes
   rounds to the side of too few frames. *)
THEOREM NeverToldTooMany == Spec => []RemainingIsThere
BY AudioAlways, RemainingBound, PTL
-----------------------------------------------------------------------------
(***************************************************************************)
(* How long the queue gets.                                                *)
(***************************************************************************)
AllRates == Rates \cup {OutputRate}

(* What a chunk of n frames is converted to at a rate, in bytes. *)
ChunkBytes(n, rate) == (((n + 4) * OutputRate) \div rate) * bytes_per_frame

(* A queue of q bytes is as short as LatencyBounded promises. *)
ShortFor(q, bytes, fastest) ==
  LET tenths == (((q - bytes) \div bytes_per_frame) * 10) \div fastest
  IN q <= bytes \/ (tenths < 31 /\ 2 ^ tenths <= bytes)

Short(q) ==
  \E n \in Chunks, slowest, fastest \in AllRates :
    ShortFor(q, ChunkBytes(n, slowest), fastest)

(* SDL counts the bytes of a converted chunk in an int (SDL_AudioCVT.len_cvt). *)
ChunksFit == \A n \in Chunks, rate \in AllRates : ChunkBytes(n, rate) < 2 ^ 31

(* What a queue as short as that holds is less than 32 tenths of a second at each
   rate there is.  So it is with chunks of a sixtieth of a second and rates from
   24000 to 48000, say. *)
ShiftsFit ==
  \A n \in Chunks, slowest, fastest, rate \in AllRates, t \in Nat :
    2 ^ t <= ChunkBytes(n, slowest) =>
      ((((n + 4) * OutputRate) \div slowest) * 10 + (t + 1) * fastest) \div rate < 32

LEMMA BoundedIsShort == LatencyBounded <=> Short(queue)
BY DEF LatencyBounded, Short, ShortFor, ChunkBytes, AllRates

LEMMA RatesArePositive == AllRates \subseteq Nat \ {0}
BY AudioAssumption DEF AllRates

LEMMA ChunkBytesType ==
  ASSUME NEW n \in Chunks, NEW rate \in AllRates
  PROVE  ChunkBytes(n, rate) \in Nat
<1>1. (n + 4) * OutputRate \in Nat /\ rate \in Nat \ {0}
  BY AudioAssumption, RatesArePositive
<1>2. ((n + 4) * OutputRate) \div rate \in Nat
  BY <1>1, NatDivision
<1>3. QED
  BY <1>2 DEF ChunkBytes, bytes_per_frame, output_channels, bytes_per_sample

(* How many tenths of a second more bytes stand for, at least. *)
LEMMA TenthsGrow ==
  ASSUME NEW a \in Nat, NEW b \in Nat, a <= b, NEW rate \in Nat \ {0}
  PROVE  LET ta == ((a \div bytes_per_frame) * 10) \div rate
             tb == ((b \div bytes_per_frame) * 10) \div rate
         IN ta \in Nat /\ tb \in Nat /\ ta <= tb
<1> DEFINE fa == a \div 8
           fb == b \div 8
<1>1. fa \in Nat /\ fb \in Nat /\ fa <= fb
  BY NatDivision, QuotientsGrow
<1>2. bytes_per_frame = 8
  BY DEF bytes_per_frame, output_channels, bytes_per_sample
<1> HIDE DEF fa, fb
<1>3. fa * 10 \in Nat /\ fb * 10 \in Nat /\ fa * 10 <= fb * 10
  BY <1>1
<1>4. /\ (fa * 10) \div rate \in Nat /\ (fb * 10) \div rate \in Nat
      /\ (fa * 10) \div rate <= (fb * 10) \div rate
  BY <1>3, NatDivision, QuotientsGrow
<1>5. QED
  BY <1>2, <1>4 DEF fa, fb

LEMMA ShorterIsShort ==
  ASSUME NEW q \in Nat, NEW r \in Nat, r <= q, Short(q)
  PROVE  Short(r)
<1>1. PICK n \in Chunks, slowest \in AllRates, fastest \in AllRates :
        ShortFor(q, ChunkBytes(n, slowest), fastest)
  BY DEF Short
<1> DEFINE b == ChunkBytes(n, slowest)
           T(x) == (((x - b) \div bytes_per_frame) * 10) \div fastest
<1>2. b \in Nat /\ fastest \in Nat \ {0}
  BY ChunkBytesType, RatesArePositive
<1>3. SUFFICES ASSUME r > b
               PROVE  T(r) < 31 /\ 2 ^ T(r) <= b
  BY <1>2 DEF Short, ShortFor
<1>4. q > b
  BY <1>2, <1>3
<1>5. T(q) < 31 /\ 2 ^ T(q) <= b
  BY <1>1, <1>2, <1>4 DEF ShortFor
<1>6. q - b \in Nat /\ r - b \in Nat /\ r - b <= q - b
  BY <1>2, <1>3, <1>4
<1>7. T(r) \in Nat /\ T(q) \in Nat /\ T(r) <= T(q)
  BY <1>2, <1>6, TenthsGrow
<1>8. 2 ^ T(r) <= 2 ^ T(q) /\ 2 ^ T(r) \in Nat /\ 2 ^ T(q) \in Nat
  BY <1>7, PowersGrow, PowerOfTwo
<1> HIDE DEF T, b
<1>9. QED
  BY <1>2, <1>5, <1>7, <1>8
(* The skip factor is the whole tenths of a second that are queued. *)
LEMMA SkipsByTenths ==
  ASSUME AudioTypeOK
  PROVE  ((queue \div bytes_per_frame) * 10) \div sample_rate <= skip_factor
<1> DEFINE k == (queue \div 8) * 10
           a == (k * 100000) \div sample_rate
           b == a \div 100000
           t == k \div sample_rate
<1>1. bytes_per_frame = 8 /\ sample_rate \in Nat \ {0} /\ queue \div 8 \in Nat
  BY NatDivision
     DEF bytes_per_frame, output_channels, bytes_per_sample, AudioTypeOK
<1>2. k \in Nat /\ (queue \div 8) * 1000000 = k * 100000
  BY <1>1
<1>3. skip_factor = b
  BY <1>1, <1>2 DEF skip_factor, cur_queued_microseconds
<1>4. t = ((queue \div bytes_per_frame) * 10) \div sample_rate
  BY <1>1
<1> HIDE DEF k
<1>5. a \in Nat /\ k * 100000 < a * sample_rate + sample_rate
  BY <1>1, <1>2, NatDivision, Division
<1>6. t \in Nat /\ t * sample_rate <= k
  BY <1>1, <1>2, NatDivision, Division
<1> HIDE DEF a, t
<1>7. b \in Nat /\ a < b * 100000 + 100000
  BY <1>5, NatDivision, Division
<1> HIDE DEF b
<1>8. SUFFICES ASSUME t >= b + 1
               PROVE  FALSE
  BY <1>3, <1>4, <1>6, <1>7
<1>9. t * 100000 >= a + 1
  BY <1>5, <1>6, <1>7, <1>8
<1>10. (t * 100000) * sample_rate >= (a + 1) * sample_rate
  BY <1>1, <1>5, <1>6, <1>9
<1> DEFINE u == t * sample_rate
           v == a * sample_rate
<1>11. /\ (t * 100000) * sample_rate = u * 100000 /\ u \in Nat /\ v \in Nat
       /\ (a + 1) * sample_rate = v + sample_rate
  BY <1>1, <1>5, <1>6
<1>12. u <= k /\ k * 100000 < v + sample_rate /\ u * 100000 >= v + sample_rate
  BY <1>5, <1>6, <1>10, <1>11
<1> HIDE DEF u, v
<1>13. QED
  BY <1>1, <1>2, <1>11, <1>12

LEMMA SkipsNoMore ==
  ASSUME AudioTypeOK
  PROVE  skip_factor <= ((queue \div bytes_per_frame) * 10) \div sample_rate
<1> DEFINE k == (queue \div 8) * 10
           a == (k * 100000) \div sample_rate
           b == a \div 100000
           t == k \div sample_rate
<1>1. bytes_per_frame = 8 /\ sample_rate \in Nat \ {0} /\ queue \div 8 \in Nat
  BY NatDivision
     DEF bytes_per_frame, output_channels, bytes_per_sample, AudioTypeOK
<1>2. k \in Nat /\ (queue \div 8) * 1000000 = k * 100000
  BY <1>1
<1>3. skip_factor = b
  BY <1>1, <1>2 DEF skip_factor, cur_queued_microseconds
<1>4. t = ((queue \div bytes_per_frame) * 10) \div sample_rate
  BY <1>1
<1> HIDE DEF k
<1>5. a \in Nat /\ a * sample_rate <= k * 100000
  BY <1>1, <1>2, NatDivision, Division
<1>6. t \in Nat /\ k < t * sample_rate + sample_rate
  BY <1>1, <1>2, NatDivision, Division
<1> HIDE DEF a, t
<1>7. b \in Nat /\ b * 100000 <= a
  BY <1>5, NatDivision, Division
<1> HIDE DEF b
<1>8. SUFFICES ASSUME b >= t + 1
               PROVE  FALSE
  BY <1>3, <1>4, <1>6, <1>7
<1>9. (t + 1) * 100000 <= a
  BY <1>5, <1>6, <1>7, <1>8
<1>10. ((t + 1) * 100000) * sample_rate <= a * sample_rate
  BY <1>1, <1>5, <1>6, <1>9
<1> DEFINE u == t * sample_rate
           v == a * sample_rate
<1>11. /\ ((t + 1) * 100000) * sample_rate = (u + sample_rate) * 100000
       /\ u \in Nat /\ v \in Nat
  BY <1>1, <1>5, <1>6
<1>12. k < u + sample_rate /\ v <= k * 100000 /\ (u + sample_rate) * 100000 <= v
  BY <1>5, <1>6, <1>10, <1>11
<1> HIDE DEF u, v
<1>13. QED
  BY <1>1, <1>2, <1>11, <1>12

(* The shift for the skip ratio is what the skip factor says. *)
LEMMA ShiftInRange ==
  ASSUME ShiftsFit, AudioTypeOK, sample_rate \in AllRates, Short(queue)
  PROVE  skip_factor \in 0 .. 31
<1>1. PICK n \in Chunks, slowest \in AllRates, fastest \in AllRates :
        ShortFor(queue, ChunkBytes(n, slowest), fastest)
  BY DEF Short
<1> DEFINE f == ((n + 4) * OutputRate) \div slowest
           b == ChunkBytes(n, slowest)
           x == (queue - b) \div 8
           T == (x * 10) \div fastest
           k == (queue \div 8) * 10
<1>2. /\ queue \in Nat /\ sample_rate \in Nat \ {0} /\ fastest \in Nat \ {0}
      /\ bytes_per_frame = 8 /\ f \in Nat /\ b = f * 8
  <2>1. (n + 4) * OutputRate \in Nat /\ slowest \in Nat \ {0}
    BY AudioAssumption, RatesArePositive
  <2>2. f \in Nat
    BY <2>1, NatDivision
  <2>3. QED
    BY <2>2, RatesArePositive
       DEF AudioTypeOK, ChunkBytes, bytes_per_frame, output_channels, bytes_per_sample
<1>3. k \in Nat /\ queue \div 8 \in Nat
  BY <1>2, NatDivision
<1>4. queue = 0 \/ \E t \in Nat : 2 ^ t <= b /\ k <= f * 10 + (t + 1) * fastest
  <2>1. CASE queue > b
    <3>1. T < 31 /\ 2 ^ T <= b
      BY <1>1, <1>2, <2>1 DEF ShortFor
    <3>2. x \in Nat /\ queue \div 8 = f + x
      BY <1>2, <2>1
    <3>3. x * 10 \in Nat /\ k = f * 10 + x * 10
      BY <1>2, <3>2
    <3>4. T \in Nat /\ x * 10 < T * fastest + fastest
      <4> DEFINE y == x * 10
      <4>1. y \in Nat /\ T = y \div fastest
        BY <3>3
      <4> HIDE DEF y, T
      <4>2. T \in Nat /\ y < T * fastest + fastest
        BY <1>2, <4>1, NatDivision, Division
      <4>3. QED
        BY <4>2 DEF y
    <3> HIDE DEF T, x, k, f, b
    <3>5. (T + 1) * fastest = T * fastest + fastest /\ T * fastest \in Nat
      BY <1>2, <3>4
    <3>6. k <= f * 10 + (T + 1) * fastest
      BY <1>2, <3>3, <3>4, <3>5
    <3>7. QED
      BY <3>1, <3>4, <3>6
  <2>2. CASE queue <= b /\ b > 0
    <3>1. queue \div 8 <= f
      BY <1>2, <2>2
    <3>2. 2 ^ 0 = 1 /\ (0 + 1) * fastest = fastest
      BY <1>2
    <3>3. k <= f * 10 + (0 + 1) * fastest
      BY <1>2, <1>3, <3>1, <3>2
    <3>4. 2 ^ 0 <= b
      BY <1>2, <2>2, <3>2
    <3> HIDE DEF k, f, b
    <3>5. QED
      BY <3>3, <3>4
  <2>3. QED
    BY <1>2, <2>1, <2>2
<1>5. skip_factor <= k \div sample_rate /\ skip_factor \in Nat
  BY <1>2, SkipsNoMore, RatioPositive
<1> HIDE DEF T, x, k, b
<1>6. CASE queue = 0
  BY <1>2, <1>5, <1>6 DEF k
<1>7. ASSUME NEW t \in Nat, 2 ^ t <= b, k <= f * 10 + (t + 1) * fastest
      PROVE  skip_factor \in 0 .. 31
  <2> DEFINE m == f * 10 + (t + 1) * fastest
  <2>1. m \div sample_rate < 32
    BY <1>7 DEF ShiftsFit, b
  <2>2. m \in Nat
    BY <1>2
  <2> HIDE DEF m, f
  <2>3. k <= m
    BY <1>7 DEF m
  <2>4. k \div sample_rate \in Nat /\ k \div sample_rate <= m \div sample_rate
    BY <1>2, <1>3, <2>2, <2>3, NatDivision, QuotientsGrow
  <2>5. m \div sample_rate \in Nat
    BY <1>2, <2>2, NatDivision
  <2>6. QED
    BY <1>5, <2>1, <2>4, <2>5
<1>8. QED
  BY <1>4, <1>6, <1>7

LEMMA QueuesShort ==
  ASSUME ChunksFit, ShiftsFit, AudioTypeOK, sample_rate \in AllRates, Short(queue),
         NEW n \in Chunks
  PROVE  Short(queue + num_bytes_to_queue(n))
<1> DEFINE m == num_bytes_to_queue(n)
           b == ChunkBytes(n, sample_rate)
           f == Converted(n + 4)
           d == discarded_output_frames
<1>1. /\ n \in Nat \ {0} /\ queue \in Nat /\ sample_rate \in Nat \ {0}
      /\ bytes_per_frame = 8 /\ b \in Nat
      /\ skip_factor \in Nat /\ skip_ratio \in Nat \ {0}
  BY AudioAssumption, RatioPositive, ChunkBytesType
     DEF AudioTypeOK, bytes_per_frame, output_channels, bytes_per_sample
<1>11. skip_ratio = 2 ^ skip_factor
  <2>1. skip_factor % 32 = skip_factor
    BY ShiftInRange
  <2>2. QED
    BY <2>1 DEF skip_ratio
<1>2. m = ((f - d) * 8) \div skip_ratio
  BY DEF num_bytes_to_queue, bytes_per_frame, output_channels, bytes_per_sample,
         duplicated_input_frames
<1>3. f \in Nat /\ d \in Nat /\ d <= f /\ b = f * 8
  BY <1>1, ChunkOutlastsCut DEF ChunkBytes, Converted
<1>4. (f - d) * 8 \in Nat /\ (f - d) * 8 <= b
  BY <1>3
<1>5. m \in Nat /\ m * skip_ratio <= (f - d) * 8
  <2> DEFINE z == (f - d) * 8
  <2>1. z \in Nat /\ m = z \div skip_ratio
    BY <1>2, <1>4
  <2> HIDE DEF z, m
  <2>2. m \in Nat /\ m * skip_ratio <= z
    BY <1>1, <2>1, NatDivision, Division
  <2>3. QED
    BY <2>2 DEF z
<1> HIDE DEF m, b, f, d
<1>6. m * skip_ratio <= b
  <2> DEFINE w == m * skip_ratio
             z == (f - d) * 8
  <2>1. w \in Nat /\ z \in Nat /\ w <= z /\ z <= b
    BY <1>1, <1>4, <1>5
  <2> HIDE DEF w, z
  <2>2. w <= b
    BY <1>1, <2>1
  <2>3. QED
    BY <2>2 DEF w
<1>7. CASE m = 0
  BY <1>1, <1>7 DEF m
<1>8. CASE m >= 1 /\ queue + m <= b
  BY <1>8 DEF Short, ShortFor, m, b
<1>9. CASE m >= 1 /\ queue + m > b
  <2>1. m >= 1 => m <= m * skip_ratio /\ skip_ratio <= m * skip_ratio
    BY <1>1, <1>5
  <2> DEFINE w == m * skip_ratio
  <2>2. w \in Nat /\ m <= w /\ skip_ratio <= w /\ w <= b
    BY <1>1, <1>5, <1>6, <1>9, <2>1
  <2> HIDE DEF w
  <2>3. m <= b /\ skip_ratio <= b
    BY <1>1, <1>5, <2>2
  <2>4. PICK x \in Nat : x = (queue + m) - b /\ x <= queue
    BY <1>1, <1>5, <1>9, <2>3
  <2> DEFINE t == ((x \div bytes_per_frame) * 10) \div sample_rate
             u == ((queue \div bytes_per_frame) * 10) \div sample_rate
  <2>5. t \in Nat /\ u \in Nat /\ t <= u /\ u <= skip_factor
    BY <1>1, <2>4, TenthsGrow, SkipsByTenths
  <2> HIDE DEF t, u
  <2>6. t <= skip_factor
    BY <1>1, <2>5
  <2>7. 2 ^ t <= skip_ratio /\ 2 ^ t \in Nat
    BY <1>1, <1>11, <2>5, <2>6, PowersGrow, PowerOfTwo
  <2>8. 2 ^ t <= b
    BY <1>1, <2>3, <2>7
  <2>9. t < 31
    <3>1. b < 2 ^ 31 /\ 2 ^ 31 \in Nat
      BY PowerOfTwo DEF ChunksFit, b
    <3>2. SUFFICES ASSUME t >= 31
                   PROVE  FALSE
      BY <2>5
    <3>3. 2 ^ 31 <= 2 ^ t
      BY <2>5, <3>2, PowersGrow
    <3>4. QED
      BY <1>1, <2>7, <2>8, <3>1, <3>3
  <2>10. QED
    <3> DEFINE q == queue + m
    <3>1. x = q - b
      BY <2>4
    <3> HIDE DEF q
    <3>2. t = (((q - b) \div bytes_per_frame) * 10) \div sample_rate
      BY <3>1 DEF t
    <3>3. ShortFor(q, b, sample_rate)
      BY <2>8, <2>9, <3>2 DEF ShortFor
    <3>4. QED
      BY <3>3 DEF Short, m, b, q
<1>10. QED
  BY <1>1, <1>5, <1>7, <1>8, <1>9
AudioInv == AudioTypeOK /\ EdgeOK /\ sample_rate \in AllRates /\ Short(queue)

LEMMA StartsShort == Init => AudioInv
<1>1. PICK n \in Chunks : TRUE
  BY AudioAssumption
<1>2. OutputRate \in AllRates
  BY DEF AllRates
<1>3. 0 <= ChunkBytes(n, OutputRate)
  BY <1>2, ChunkBytesType
<1>4. Short(0)
  BY <1>2, <1>3 DEF Short, ShortFor
<1>5. QED
  BY <1>2, <1>4, InitHolds DEF Init, AudioInv

LEMMA StaysShort ==
  ASSUME ChunksFit, ShiftsFit, AudioInv, [Next]_vars
  PROVE  AudioInv'
<1>1. AudioTypeOK' /\ EdgeOK' /\ AudioTypeOK /\ EdgeOK
  BY StepKeeps DEF AudioInv
<1>2. sample_rate' \in AllRates
  BY DEF AudioInv, AllRates, Next, queue_samples, set_frequency, Plays, converter, vars
<1>3. ASSUME NEW n \in Chunks, queue_samples(n) PROVE Short(queue')
  BY <1>1, <1>3, QueuesShort DEF AudioInv, queue_samples
<1>4. ASSUME UNCHANGED queue PROVE Short(queue')
  BY <1>4 DEF AudioInv
<1>5. ASSUME Plays PROVE Short(queue')
  <2>1. queue \in Nat /\ queue' \in Nat /\ queue' <= queue
    BY <1>1, <1>5, AudioAssumption
       DEF Plays, AudioTypeOK, bytes_per_frame, output_channels, bytes_per_sample
  <2>2. QED
    BY <2>1, ShorterIsShort DEF AudioInv
<1>6. Short(queue')
  BY <1>3, <1>4, <1>5 DEF Next, set_frequency, vars
<1>7. Short(queue)'
  BY <1>6 DEF Short, ShortFor
<1>8. QED
  BY <1>1, <1>2, <1>7 DEF AudioInv

(* LatencyBounded, for any chunks that fit SDL's lengths and any rates not too far
   apart: the queue never outgrows what the longest chunk lets through, for the
   skip ratio doubles with every tenth of a second.  Without ShiftsFit the shift
   can pass 31 when the game sets a lower frequency, and chunks be queued whole. *)
THEOREM QueueStaysShort ==
  ASSUME ChunksFit, ShiftsFit
  PROVE  Spec => []LatencyBounded
<1>1. AudioInv /\ [Next]_vars => AudioInv'
  BY StaysShort
<1>2. AudioInv => LatencyBounded
  BY BoundedIsShort DEF AudioInv
<1>3. QED
  BY <1>1, <1>2, StartsShort, PTL DEF Spec
=============================================================================
