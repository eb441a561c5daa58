----------------------------- MODULE ClientPlayback -----------------------------
(* The client's audio: decoded Opus packets go through an unbounded channel  *)
(* to the thread that owns the output stream, are converted to the rate and  *)
(* channels of the device, and wait in a buffer that the device's callback   *)
(* empties and that drops the oldest samples when it holds too many. A       *)
(* sample is where it comes from: a packet, a frame of it, and its channels. *)
EXTENDS Integers, Sequences, FiniteSets

CONSTANTS
    OutputDevices, \* [rate, channels] the default output device may have
    InputRate,     \* OPUS_SAMPLE_RATE_HZ, in the units of the devices' rates
    InputChannels, \* OPUS_CHANNELS
    DecodedFrames, \* frames a packet may decode to; fewer than 0 is an error
    QueueSeconds,  \* AUDIO_QUEUE_SECONDS
    CallbackFrames,\* frames the device may ask for at once
    MaxAudioPackets \* bound on packets received

ASSUME PlaybackAssumption ==
    /\ \A d \in OutputDevices : d.rate \in Nat \ {0} /\ d.channels \in Nat \ {0}
    /\ {InputRate, InputChannels, QueueSeconds} \subseteq Nat \ {0}
    /\ DecodedFrames \subseteq Int /\ CallbackFrames \subseteq Nat /\ MaxAudioPackets \in Nat

VARIABLES
    device,      \* the device the stream was built for
    sinkAt,      \* CpalAudioSink.sender: "open", "disabled", or "dropped" with the pipeline
    streamAt,    \* the thread and its stream: "none", "playing", "ended"
    decodedQueue,\* the channel to the thread: [packet, frames]
    packetsHeard,\* packets received so far
    samples,     \* AudioPlaybackBuffer.samples
    output       \* what the last callback gave the device

playbackVars == <<device, sinkAt, streamAt, decodedQueue, packetsHeard, samples, output>>

Silence == [packet |-> 0, frame |-> 0, from |-> {}]

PlaybackTypeOK ==
    /\ device \in OutputDevices
    /\ sinkAt \in {"starting", "open", "disabled", "dropped"}
    /\ streamAt \in {"none", "playing", "ended"}
    /\ \A i \in DOMAIN decodedQueue : decodedQueue[i].frames \in DecodedFrames
    /\ packetsHeard \in 0 .. MaxAudioPackets
    /\ \A s \in {samples[i] : i \in DOMAIN samples} \cup {output[i] : i \in DOMAIN output} :
          s.packet \in 0 .. packetsHeard /\ s.frame \in Nat /\ s.from \subseteq 1 .. InputChannels

PlaybackInit(d) ==
    /\ device = d
    /\ sinkAt = "starting" /\ streamAt = "none"
    /\ decodedQueue = <<>> /\ packetsHeard = 0 /\ samples = <<>> /\ output = <<>>

(* CpalAudioSink::new waits for the thread's answer; without a device, or    *)
(* with one of another sample format, playback stays disabled.               *)
OpenPlayback ==
    /\ sinkAt = "starting"
    /\ \/ sinkAt' = "open" /\ streamAt' = "playing"
       \/ sinkAt' = "disabled" /\ UNCHANGED streamAt
    /\ UNCHANGED <<device, decodedQueue, packetsHeard, samples, output>>

(* OpusAudioDecoder::decode and on_audio_frame; an error is only logged.    *)
ReceiveAudio(frames) ==
    /\ sinkAt \in {"open", "disabled"} /\ packetsHeard < MaxAudioPackets
    /\ packetsHeard' = packetsHeard + 1
    /\ decodedQueue' = IF frames < 0 \/ sinkAt = "disabled" THEN decodedQueue
                       ELSE Append(decodedQueue, [packet |-> packetsHeard + 1, frames |-> frames])
    /\ UNCHANGED <<device, sinkAt, streamAt, samples, output>>

(* The channels of the input that make output channel c.                    *)
SourceChannels(c) ==
    IF InputChannels = 1 THEN {1}
    ELSE IF device.channels = 1 THEN 1 .. InputChannels
    ELSE {IF c <= InputChannels THEN c ELSE InputChannels}

OutputFrames(frames) ==
    LET scaled == (frames * device.rate) \div InputRate
    IN IF frames = 0 THEN 0 ELSE IF scaled = 0 THEN 1 ELSE scaled

(* The input frame of output frame k, both counted from 0.                  *)
SourceOf(k, frames) ==
    LET exact == (k * InputRate) \div device.rate
    IN IF exact < frames THEN exact ELSE frames - 1

ChannelAt(i) == ((i - 1) % device.channels) + 1

(* resample_interleaved.                                                    *)
ResampleInterleaved(m) ==
    [i \in 1 .. OutputFrames(m.frames) * device.channels |->
        [packet |-> m.packet, frame |-> SourceOf((i - 1) \div device.channels, m.frames),
         from |-> SourceChannels(ChannelAt(i))]]

(* Mutant: the bound counts frames and not samples.                         *)
MaxFramesQueued == device.rate * QueueSeconds

MaxSamples == device.rate * device.channels * QueueSeconds

(* The thread converts a packet and drops the oldest samples over the bound. *)
QueueSamples ==
    /\ streamAt = "playing" /\ decodedQueue # <<>>
    /\ decodedQueue' = Tail(decodedQueue)
    /\ LET all == samples \o ResampleInterleaved(Head(decodedQueue))
           overflow == IF Len(all) > MaxSamples THEN Len(all) - MaxSamples ELSE 0
       IN samples' = SubSeq(all, overflow + 1, Len(all))
    /\ UNCHANGED <<device, sinkAt, streamAt, packetsHeard, output>>

(* The device's callback: fill_output_f32 and its two siblings.             *)
FillOutput(frames) ==
    /\ streamAt = "playing"
    /\ output' = [i \in 1 .. frames * device.channels |->
                    IF i \in DOMAIN samples THEN samples[i] ELSE Silence]
    /\ samples' = SubSeq(samples, frames * device.channels + 1, Len(samples))
    /\ UNCHANGED <<device, sinkAt, streamAt, decodedQueue, packetsHeard>>

(* The last clone of the pipeline goes; the thread ends when the channel is  *)
(* empty, and the stream with it.                                            *)
DropPlayback ==
    /\ sinkAt = "open"
    /\ sinkAt' = "dropped"
    /\ UNCHANGED <<device, streamAt, decodedQueue, packetsHeard, samples, output>>

EndPlayback ==
    /\ sinkAt = "dropped" /\ streamAt = "playing" /\ decodedQueue = <<>>
    /\ streamAt' = "ended" /\ samples' = <<>>
    /\ UNCHANGED <<device, sinkAt, decodedQueue, packetsHeard, output>>

PlaybackNext ==
    \/ OpenPlayback \/ QueueSamples \/ DropPlayback \/ EndPlayback
    \/ \E frames \in DecodedFrames : ReceiveAudio(frames)
    \/ \E frames \in CallbackFrames : FillOutput(frames)

PlaybackSpec == (\E d \in OutputDevices : PlaybackInit(d)) /\ [][PlaybackNext]_playbackVars

-----------------------------------------------------------------------------
InOrder(seq) ==
    \A i \in 1 .. Len(seq) - 1 :
        \/ seq[i].packet < seq[i + 1].packet
        \/ seq[i].packet = seq[i + 1].packet /\ seq[i].frame <= seq[i + 1].frame

(* However packets and callbacks alternate, and however often the buffer     *)
(* overflows or runs empty, the left channel stays left: each sample the     *)
(* device gets is silence or comes from the input channels of its place. The *)
(* buffer holds no more than its seconds, in the order of the packets, each  *)
(* sample from inside its packet (run_cpal_audio_thread, fill_output).       *)
ChannelsStayInPlace ==
    /\ \A i \in DOMAIN output : output[i] = Silence \/ output[i].from = SourceChannels(ChannelAt(i))
    /\ \A i \in DOMAIN samples : samples[i].from = SourceChannels(ChannelAt(i))
    /\ Len(samples) <= device.rate * device.channels * QueueSeconds
    /\ InOrder(samples)
    /\ streamAt = "playing" /\ decodedQueue # <<>> =>
         LET m == Head(decodedQueue)
         IN \A k \in 0 .. OutputFrames(m.frames) - 1 : SourceOf(k, m.frames) \in 0 .. m.frames - 1
=============================================================================
