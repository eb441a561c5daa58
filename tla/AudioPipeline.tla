----------------------------- MODULE AudioPipeline -----------------------------
(* The agent's audio on Windows: a thread that captures packets of what the  *)
(* user hears, a bounded channel, and a task that resamples them to Opus     *)
(* frames and writes these to the track. Samples are counted, not heard: a   *)
(* packet is the number of its frames.                                       *)
EXTENDS Naturals, Sequences, FiniteSets

CONSTANTS
    DeviceFormats, \* the mix formats the default device may have
    OpusRate,      \* OPUS_SAMPLE_RATE, in the units of the formats' rates
    OpusFrame,     \* OPUS_FRAME_SAMPLES
    PcmCapacity,   \* the capacity of the channel of packets
    PacketFrames,  \* sizes of the packets Windows may hand out
    MaxHeard       \* bound on the frames captured

ASSUME AudioAssumption ==
    /\ \A f \in DeviceFormats : f.rate \in Nat \ {0} /\ f.channels \in Nat \ {0}
    /\ OpusRate \in Nat \ {0} /\ OpusFrame \in Nat \ {0} /\ PcmCapacity \in Nat \ {0}
    /\ PacketFrames \subseteq Nat /\ MaxHeard \in Nat

VARIABLES
    audioAt,     \* the pipeline's owner: not started, running, stopped, dropped
    probed,      \* the format found when the pipeline was made
    opened,      \* the format the capture thread found
    captureAt,   \* where the capture thread is
    held,        \* frames of the packet it is sending
    stopFlag,    \* AudioCapture.stop
    pcm,         \* the channel: sizes of the packets in it
    encodeAt,    \* the encoding task: running or gone, and with it the receiver
    remainder,   \* AudioNormalizer.resample_remainder
    buffered,    \* stereo frames in AudioNormalizer.buffered_stereo
    audioOut,    \* Opus frames made
    audioHeard   \* [captured, normalized |-> frames], and whether a packet had one frame

audioVars == <<audioAt, probed, opened, captureAt, held, stopFlag, pcm, encodeAt, remainder,
               buffered, audioOut, audioHeard>>

AudioTypeOK ==
    /\ audioAt \in {"none", "running", "stopped", "dropped", "no audio"}
    /\ {probed, opened} \subseteq DeviceFormats
    /\ captureAt \in {"none", "opening", "outer", "inner", "sending", "ended"}
    /\ held \in PacketFrames \cup {0}
    /\ stopFlag \in BOOLEAN
    /\ pcm \in Seq(PacketFrames) /\ Len(pcm) <= PcmCapacity
    /\ encodeAt \in {"none", "running", "ended"}
    /\ remainder \in 0 .. probed.rate - 1
    /\ buffered \in 0 .. OpusFrame - 1
    /\ audioOut \in Nat
    /\ audioHeard \in [captured : 0 .. MaxHeard, normalized : Nat, lone : BOOLEAN]

AudioInit ==
    /\ audioAt = "none"
    /\ probed \in DeviceFormats /\ opened = probed
    /\ captureAt = "none" /\ held = 0 /\ stopFlag = FALSE
    /\ pcm = <<>> /\ encodeAt = "none"
    /\ remainder = 0 /\ buffered = 0 /\ audioOut = 0
    /\ audioHeard = [captured |-> 0, normalized |-> 0, lone |-> FALSE]

(* WasapiFormat::from_wave_format.                                          *)
Supported(f) ==
    \/ f.tag = "pcm" /\ f.bits \in {16, 24, 32}
    \/ f.tag = "float" /\ f.bits = 32

(* OpusEncoder::new.                                                        *)
Encodable(f) == f.channels <= 8

(* AudioPipeline::start; an error, of the format or of the track, leaves the *)
(* session without audio.                                                    *)
AudioStart ==
    /\ audioAt = "none"
    /\ \/ /\ Supported(probed) /\ Encodable(probed)
          /\ audioAt' = "running" /\ captureAt' = "opening" /\ encodeAt' = "running"
       \/ audioAt' = "no audio" /\ UNCHANGED <<captureAt, encodeAt>>
    /\ UNCHANGED <<probed, opened, held, stopFlag, pcm, remainder, buffered, audioOut, audioHeard>>

(* The capture thread opens the default device, which may be another than    *)
(* the one probed, or fails.                                                 *)
OpenLoopback ==
    /\ captureAt = "opening"
    /\ \/ captureAt' = "ended" /\ UNCHANGED opened
       \/ /\ opened' \in {f \in DeviceFormats : Supported(f)}
          /\ captureAt' = "outer"
    /\ UNCHANGED <<audioAt, probed, held, stopFlag, pcm, encodeAt, remainder, buffered, audioOut,
                   audioHeard>>

(* The outer loop looks at the flag and at the receiver; the inner one goes  *)
(* on as long as there are packets. A call to the device may fail in both.   *)
CaptureLoop ==
    /\ captureAt = "outer"
    /\ captureAt' \in IF stopFlag \/ encodeAt = "ended" THEN {"ended"} ELSE {"inner", "ended"}
    /\ UNCHANGED <<audioAt, probed, opened, held, stopFlag, pcm, encodeAt, remainder, buffered,
                   audioOut, audioHeard>>

ReadPacket ==
    /\ captureAt = "inner"
    /\ \/ captureAt' \in {"outer", "ended"} /\ UNCHANGED <<held, audioHeard>>
       \/ \E n \in PacketFrames :
             /\ audioHeard.captured + n <= MaxHeard
             /\ audioHeard' = [audioHeard EXCEPT !.captured = @ + n]
             /\ IF n > 0 THEN captureAt' = "sending" /\ held' = n
                         ELSE UNCHANGED <<captureAt, held>>
    /\ UNCHANGED <<audioAt, probed, opened, stopFlag, pcm, encodeAt, remainder, buffered, audioOut>>

(* blocking_send: waits for room, and fails once the receiver is dropped.   *)
SendPacket ==
    /\ captureAt = "sending"
    /\ \/ encodeAt = "ended" /\ captureAt' = "ended" /\ UNCHANGED pcm
       \/ /\ encodeAt = "running" /\ Len(pcm) < PcmCapacity
          /\ pcm' = Append(pcm, held) /\ captureAt' = "inner"
    /\ held' = 0
    /\ UNCHANGED <<audioAt, probed, opened, stopFlag, encodeAt, remainder, buffered, audioOut,
                   audioHeard>>

-----------------------------------------------------------------------------
(* Mutant: each packet is rounded down by itself.                           *)
ResampledWithoutCarry(n, carry) ==
    IF probed.rate = OpusRate \/ n <= 1
    THEN [frames |-> n, carry |-> carry]
    ELSE [frames |-> (n * OpusRate) \div probed.rate, carry |-> 0]

(* resample_stereo_linear_with_remainder: frames out of n frames in, and     *)
(* what is carried over.                                                     *)
Resampled(n, carry) ==
    LET scaled == n * OpusRate + carry
    IN IF probed.rate = OpusRate \/ n <= 1
       THEN [frames |-> n, carry |-> carry]
       ELSE [frames |-> scaled \div probed.rate, carry |-> scaled % probed.rate]

(* The input frame an output frame is interpolated from (and the next one).  *)
SourceFrame(k) == IF probed.rate = OpusRate THEN k ELSE (k * probed.rate) \div OpusRate

(* AudioNormalizer::push_packet: n frames join the buffer, which gives up    *)
(* its whole Opus frames.                                                    *)
Pushed(n) ==
    LET r == Resampled(n, remainder)
        all == buffered + r.frames
    IN [carry |-> r.carry, left |-> all % OpusFrame, complete |-> all \div OpusFrame]

(* OpusEncoder::encode of the packet at the head, and its frames written; a  *)
(* packet of another format is refused with a warning, every one of them. A  *)
(* write that fails ends the task.                                           *)
EncodePacket ==
    /\ encodeAt = "running" /\ audioAt # "stopped" /\ pcm # <<>>
    /\ LET n == Head(pcm)
           pushed == Pushed(n)
       IN IF opened.rate = probed.rate /\ opened.channels = probed.channels
          THEN /\ remainder' = pushed.carry
               /\ buffered' = pushed.left
               /\ audioOut' = audioOut + pushed.complete
               /\ audioHeard' = [audioHeard EXCEPT !.normalized = @ + n, !.lone = @ \/ n = 1]
               /\ \/ encodeAt' = "running" /\ pcm' = Tail(pcm)
                  \/ pushed.complete > 0 /\ encodeAt' = "ended" /\ pcm' = <<>>
          ELSE pcm' = Tail(pcm) /\ UNCHANGED <<remainder, buffered, audioOut, audioHeard, encodeAt>>
    /\ UNCHANGED <<audioAt, probed, opened, captureAt, held, stopFlag>>

(* The task ends when the thread is gone and the channel empty, or aborted.  *)
EncodeEnds ==
    /\ encodeAt = "running"
    /\ (captureAt = "ended" /\ pcm = <<>>) \/ audioAt = "stopped"
    /\ encodeAt' = "ended" /\ pcm' = <<>>
    /\ UNCHANGED <<audioAt, probed, opened, captureAt, held, stopFlag, remainder, buffered, audioOut,
                   audioHeard>>

(* The session fails after the pipeline started: its handles are dropped,    *)
(* which ends neither the tasks nor the thread.                              *)
DropAudio ==
    /\ audioAt = "running"
    /\ audioAt' = "dropped"
    /\ UNCHANGED <<probed, opened, captureAt, held, stopFlag, pcm, encodeAt, remainder, buffered,
                   audioOut, audioHeard>>

(* AudioPipeline::stop: the flag, and both tasks aborted. The thread itself  *)
(* cannot be aborted.                                                        *)
StopAudio ==
    /\ audioAt = "running"
    /\ audioAt' = "stopped" /\ stopFlag' = TRUE
    /\ UNCHANGED <<probed, opened, captureAt, held, pcm, encodeAt, remainder, buffered, audioOut,
                   audioHeard>>

AudioNext ==
    \/ AudioStart \/ OpenLoopback \/ CaptureLoop \/ ReadPacket \/ SendPacket
    \/ EncodePacket \/ EncodeEnds \/ DropAudio \/ StopAudio

AudioSpec == AudioInit /\ [][AudioNext]_audioVars

-----------------------------------------------------------------------------
(* No sound is lost or made up between the packets and the Opus frames: what *)
(* came out and is buffered is exactly what was normalized at the other rate,*)
(* rounded down once and not once per packet, and every output frame is      *)
(* taken from inside its packet. A packet of a single frame is the exception:*)
(* it is passed on as it is (AudioNormalizer::push_packet).                  *)
AudioKeepsPace ==
    /\ ~audioHeard.lone =>
          audioOut * OpusFrame + buffered = (audioHeard.normalized * OpusRate) \div probed.rate
    /\ encodeAt = "running" /\ pcm # <<>> =>
          \A k \in 0 .. Resampled(Head(pcm), remainder).frames - 1 : SourceFrame(k) < Head(pcm)
=============================================================================
