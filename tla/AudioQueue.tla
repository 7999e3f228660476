------------------------------ MODULE AudioQueue ------------------------------
(***************************************************************************)
(* Audio output (src/main/main.cpp): the game's chunks of samples are      *)
(* resampled to the device's rate and queued.  Each chunk is converted     *)
(* with the last four input frames of the one before in front of it, and   *)
(* as many output frames are cut off, half at each end.  When the queue is *)
(* long, only every second, fourth... frame of a chunk is queued.          *)
(*                                                                         *)
(* Sound is a matter of times: a frame is the time it is heard at, counted *)
(* from the end of the input so far.  The unit is 1 / (2 * OutputRate) of  *)
(* an input frame, in which an output frame lasts 2 * sample_rate.         *)
(***************************************************************************)
EXTENDS Integers, Sequences

CONSTANTS
  OutputRate,      (* output_sample_rate, set once by reset_audio *)
  Rates,           (* frequencies the game sets *)
  Chunks,          (* frames in a chunk: the game's sample_count / 2 *)
  DeviceFrames     (* frames the device takes at a time *)

ASSUME AudioAssumption ==
  /\ OutputRate \in Nat \ {0} /\ Rates \subseteq Nat \ {0}
  /\ Chunks \subseteq Nat \ {0} /\ Chunks # {} /\ DeviceFrames \in Nat \ {0}

VARIABLES
  sample_rate,
  discarded_output_frames,
  duplicated,      (* input frames kept for the next chunk, 0 is the next to come *)
  queue,           (* bytes in SDL's queue, whose head is at a frame *)
  edge,            (* when the last queued frame is over *)
  grain            (* how much input a queued frame of the last chunk stands for *)

converter == <<sample_rate, discarded_output_frames>>
vars == <<converter, duplicated, queue, edge, grain>>

duplicated_input_frames == 4
output_channels == 2
bytes_per_sample == 4
bytes_per_frame == output_channels * bytes_per_sample

Discarded(rate) == (duplicated_input_frames * OutputRate) \div rate

(* SDL_ConvertAudio *)
Converted(frames) == (frames * OutputRate) \div sample_rate

cur_queued_microseconds == ((queue \div bytes_per_frame) * 1000000) \div sample_rate
skip_factor == cur_queued_microseconds \div 100000

(* Faulty variant. *)
never_skips == 1

(* 1 << skip_factor on an int of 32 bits.  Shifts by more are undefined; the
   machines the program is built for shift by the factor modulo 32. *)
skip_ratio == 2 ^ (skip_factor % 32)

num_bytes_to_queue(n) ==
  ((Converted(n + duplicated_input_frames) - discarded_output_frames) * bytes_per_frame)
    \div skip_ratio

(* Faulty variant. *)
skips_all == output_channels * discarded_output_frames

(* The first sample that is queued, an index into the converted samples. *)
samples_to_queue == (output_channels * discarded_output_frames) \div 2

Init ==
  /\ sample_rate = OutputRate
  /\ discarded_output_frames = Discarded(OutputRate)
  /\ duplicated = [i \in 1 .. duplicated_input_frames |-> i - 1 - duplicated_input_frames]
  /\ queue = 0
  /\ edge = -4 * OutputRate /\ grain = OutputRate

(* The frames that a chunk is converted from. *)
swap_buffer(n) == duplicated \o [i \in 1 .. n |-> i - 1]

(* Samples are copied from i + sample_count on, in a buffer that holds the
   duplicated ones too.  (A build with assertions stops at chunks of four frames
   or fewer; the model goes on, as release builds do.) *)
Duplicated(n) ==
  [i \in 1 .. duplicated_input_frames |-> swap_buffer(n)[i + n] - n]

(* When the first sample of a chunk is heard. *)
Start(n) == 2 * OutputRate * swap_buffer(n)[1] + sample_rate * samples_to_queue

queue_samples(n) ==
  /\ duplicated' = Duplicated(n)
  /\ queue' = queue + num_bytes_to_queue(n)
  /\ grain' = sample_rate * skip_ratio
  /\ edge' = Start(n) + (num_bytes_to_queue(n) \div bytes_per_frame) * 2 * grain'
               - 2 * OutputRate * n
  /\ UNCHANGED converter

set_frequency(rate) ==
  /\ sample_rate' = rate
  /\ discarded_output_frames' = Discarded(rate)
  /\ UNCHANGED <<duplicated, queue, edge, grain>>

(* The device plays what there is, and silence for the rest. *)
Plays ==
  /\ queue > 0
  /\ queue' = (IF queue > DeviceFrames * bytes_per_frame
               THEN queue - DeviceFrames * bytes_per_frame ELSE 0)
  /\ UNCHANGED <<converter, duplicated, edge, grain>>

(* Faulty variant: output frames for input frames. *)
remaining_unscaled ==
  LET refresh == bytes_per_frame * (sample_rate \div 60)
  IN (IF queue > refresh THEN queue - refresh ELSE 0) \div bytes_per_frame

(* What the game is told, one refresh less than there is. *)
get_frames_remaining ==
  LET scaled == ((queue * 2 * sample_rate) \div OutputRate) \div output_channels
      refresh == bytes_per_frame * (sample_rate \div 60)
  IN (IF scaled > refresh THEN scaled - refresh ELSE 0) \div bytes_per_frame

Next ==
  \/ \E n \in Chunks : queue_samples(n)
  \/ \E rate \in Rates : set_frequency(rate)
  \/ Plays

Spec == Init /\ [][Next]_vars
-----------------------------------------------------------------------------
(* "fixing interpolation at the start and end of a chunk": whatever the chunks
   and the changes of frequency between them, less than one queued frame is left
   out where one follows the other, and no more is heard twice than half a frame
   of each.  This is so for chunks shorter than what is duplicated, too. *)
ChunksJoin ==
  [][\A n \in Chunks : queue_samples(n) =>
       /\ Start(n) - edge < 2 * grain
       /\ edge - Start(n) < grain + sample_rate]_vars

(* "Prevent audio latency from building up": however much faster the game makes
   chunks than the device plays them, the queue stays as short as the longest
   chunk allows, some tenths of a second and the chunk itself.  This needs rates
   so close to each other that what is queued at one is not so many tenths of a
   second at another that the shift for the skip ratio goes wrong. *)
LatencyBounded ==
  \E n \in Chunks, slowest, fastest \in Rates \cup {OutputRate} :
    LET bytes == (((n + 4) * OutputRate) \div slowest) * bytes_per_frame
        tenths == (((queue - bytes) \div bytes_per_frame) * 10) \div fastest
    IN queue <= bytes \/ (tenths < 31 /\ 2 ^ tenths <= bytes)

(* The game decides from the frames it is told of how many to make: it is never
   told of more than there are to be played, at the rate it makes them. *)
RemainingIsThere ==
  get_frames_remaining * OutputRate * bytes_per_frame <= queue * sample_rate

(* "a frame is a collection of samples for each channel": every chunk begins
   with a first channel's sample, where a frame begins in the queue. *)
ChannelsKept ==
  [][\A n \in Chunks : queue_samples(n) =>
       /\ queue % bytes_per_sample = 0
       /\ ((queue % bytes_per_frame) \div bytes_per_sample + samples_to_queue)
            % output_channels = 0]_vars
=============================================================================
