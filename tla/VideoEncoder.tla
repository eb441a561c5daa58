------------------------------ MODULE VideoEncoder ------------------------------
(* The agent's video on Windows between the captured frames and the track:    *)
(* the control messages of the client, the encoder with its two backends, the *)
(* bounded channel of encoded frames and the task that writes them. Messages  *)
(* are handled by the session's task while frames are encoded by another; the *)
(* encoder's atomics and the backend's lock are all they share.               *)
EXTENDS Naturals, Sequences, FiniteSets

CONSTANTS
    Bitrates,     \* bitrates a client may ask for
    FirstBitrate, \* the agent's --bitrate-kbps
    EncodedCapacity, \* capacity of the channel of encoded frames
    MaxControls,  \* bound on control messages
    MaxEncFaults  \* bound on calls of the backends that fail

ASSUME EncoderAssumption ==
    /\ FirstBitrate \in Bitrates /\ 0 \notin Bitrates
    /\ EncodedCapacity \in Nat \ {0} /\ {MaxControls, MaxEncFaults} \subseteq Nat

VARIABLES
    nvenc,      \* the backend selected; the other one is Media Foundation
    control,    \* AgentControlState: [bitrate, keyframe]
    controlAt,  \* where the session's task is in apply_control_state
    encRate,    \* VideoEncoder.bitrate_kbps
    encForce,   \* VideoEncoder.force_keyframe
    encodeStep, \* where the encoding task is, and what it has read: [at, key, rate]
    backendRate,\* the backend's state: [config, requested, actual |-> bitrates]
    pendingKey, \* the backend's pending_keyframe
    mfInput,    \* the transform: whether the next frame it is fed becomes a key frame
                \* (forced: it was told, or that is its first), and what it holds
    encoded,    \* the channel: for each frame, whether it is a key frame
    writerAt,   \* the task that writes to the track
    keyRequest, \* the client's last request for a key frame; auxiliary. "untold": Media
                \* Foundation was not told, and the pending request was cleared
    recreateFailed, \* a recreation of the transform failed
    encBudget   \* [controls, faults |-> so far]

encoderVars == <<nvenc, control, controlAt, encRate, encForce, encodeStep, backendRate, pendingKey,
                 mfInput, encoded, writerAt, keyRequest, recreateFailed, encBudget>>

Idle == [at |-> "idle", key |-> FALSE, rate |-> 0]

EncoderTypeOK ==
    /\ nvenc \in BOOLEAN
    /\ control \in [bitrate : Bitrates, keyframe : BOOLEAN]
    /\ controlAt \in {"idle", "bitrate", "backend", "keyframe", "force", "pend"}
    /\ encRate \in Bitrates /\ encForce \in BOOLEAN
    /\ encodeStep \in [at : {"idle", "took", "loaded"}, key : BOOLEAN, rate : Bitrates \cup {0}]
    /\ backendRate \in [config : Bitrates, requested : Bitrates, actual : Bitrates]
    /\ pendingKey \in BOOLEAN
    /\ mfInput \in [forced : BOOLEAN, held : {"nothing", "frame", "key frame"}]
    /\ encoded \in Seq(BOOLEAN) /\ Len(encoded) <= EncodedCapacity
    /\ writerAt \in {"running", "ended"}
    /\ keyRequest \in {"none", "owed", "sent", "lost", "untold"}
    /\ recreateFailed \in BOOLEAN
    /\ encBudget \in [controls : 0 .. MaxControls, faults : 0 .. MaxEncFaults]

(* A transform that was fed nothing: a stream begins with a key frame.       *)
FreshTransform == [forced |-> TRUE, held |-> "nothing"]

(* EncoderBackend::select tries NVENC first; either asks for a key frame.   *)
EncoderInit(useNvenc) ==
    /\ nvenc = useNvenc
    /\ control = [bitrate |-> FirstBitrate, keyframe |-> FALSE] /\ controlAt = "idle"
    /\ encRate = FirstBitrate /\ encForce = TRUE /\ encodeStep = Idle
    /\ backendRate = [config |-> FirstBitrate, requested |-> FirstBitrate, actual |-> FirstBitrate]
    /\ pendingKey = TRUE
    /\ mfInput = FreshTransform
    /\ encoded = <<>> /\ writerAt = "running"
    /\ keyRequest = "none" /\ recreateFailed = FALSE
    /\ encBudget = [controls |-> 0, faults |-> 0]

EncFault ==
    /\ encBudget.faults < MaxEncFaults
    /\ encBudget' = [encBudget EXCEPT !.faults = @ + 1]

-----------------------------------------------------------------------------
(* handle_agent_control, then apply_control_state, for each message.        *)

ReceiveControl ==
    /\ controlAt = "idle" /\ encBudget.controls < MaxControls
    /\ encBudget' = [encBudget EXCEPT !.controls = @ + 1]
    /\ controlAt' = "bitrate"
    /\ \/ /\ control' = [control EXCEPT !.keyframe = TRUE]
          /\ keyRequest' = "owed"
       \/ \E b \in Bitrates : control' = [control EXCEPT !.bitrate = b] /\ UNCHANGED keyRequest
    /\ UNCHANGED <<nvenc, encRate, encForce, encodeStep, backendRate, pendingKey, mfInput, encoded,
                   writerAt, recreateFailed>>

(* VideoEncoder::set_bitrate_kbps stores the rate first.                    *)
StoreBitrate ==
    /\ controlAt = "bitrate"
    /\ encRate' = control.bitrate
    /\ controlAt' = IF control.bitrate = encRate THEN "keyframe" ELSE "backend"
    /\ UNCHANGED <<nvenc, control, encForce, encodeStep, backendRate, pendingKey, mfInput, encoded,
                   writerAt, keyRequest, recreateFailed, encBudget>>

(* NvencState::reconfigure_bitrate when it succeeds, and whether it asks the *)
(* driver (which may refuse) and wants a key frame.                          *)
Reconfigured(b) == [config |-> b, requested |-> b, actual |-> b]
AsksDriver(b) == b # backendRate.config

(* Mutant: the rate counts as requested although the driver refused it.     *)
RefusedButRecorded(b) == [backendRate EXCEPT !.requested = b]

AfterRefusal(b) == backendRate

(* Then it asks the backend: NVENC at once, Media Foundation with the next   *)
(* frame. An error leaves a key frame request in AgentControlState.          *)
SetBackendBitrate ==
    /\ controlAt = "backend"
    /\ LET b == control.bitrate
       IN \/ /\ nvenc
             /\ backendRate' = Reconfigured(b)
             /\ pendingKey' = (pendingKey \/ AsksDriver(b))
             /\ controlAt' = "keyframe" /\ UNCHANGED encBudget
          \/ /\ nvenc /\ AsksDriver(b)
             /\ EncFault
             /\ backendRate' = AfterRefusal(b)
             /\ controlAt' = "idle" /\ UNCHANGED pendingKey
          \/ /\ ~nvenc
             /\ backendRate' = [backendRate EXCEPT !.requested = b]
             /\ controlAt' = "keyframe" /\ UNCHANGED <<pendingKey, encBudget>>
    /\ UNCHANGED <<nvenc, control, encRate, encForce, encodeStep, mfInput, encoded, writerAt,
                   keyRequest, recreateFailed>>

TakeKeyframeRequest ==
    /\ controlAt = "keyframe"
    /\ control' = [control EXCEPT !.keyframe = FALSE]
    /\ controlAt' = IF control.keyframe THEN "force" ELSE "idle"
    /\ UNCHANGED <<nvenc, encRate, encForce, encodeStep, backendRate, pendingKey, mfInput, encoded,
                   writerAt, keyRequest, recreateFailed, encBudget>>

(* VideoEncoder::request_keyframe: the flag, then the backend's.            *)
ForceKeyframe ==
    /\ controlAt = "force"
    /\ encForce' = TRUE /\ controlAt' = "pend"
    /\ UNCHANGED <<nvenc, control, encRate, encodeStep, backendRate, pendingKey, mfInput, encoded,
                   writerAt, keyRequest, recreateFailed, encBudget>>

PendKeyframe ==
    /\ controlAt = "pend"
    /\ pendingKey' = TRUE /\ controlAt' = "idle"
    /\ UNCHANGED <<nvenc, control, encRate, encForce, encodeStep, backendRate, mfInput, encoded,
                   writerAt, keyRequest, recreateFailed, encBudget>>

-----------------------------------------------------------------------------
(* The encoding task, a frame at a time: VideoEncoder::encode_frame.        *)

TakeForce ==
    /\ encodeStep.at = "idle"
    /\ encodeStep' = [at |-> "took", key |-> encForce, rate |-> 0]
    /\ encForce' = FALSE
    /\ UNCHANGED <<nvenc, control, controlAt, encRate, backendRate, pendingKey, mfInput, encoded,
                   writerAt, keyRequest, recreateFailed, encBudget>>

LoadBitrate ==
    /\ encodeStep.at = "took"
    /\ encodeStep' = [encodeStep EXCEPT !.at = "loaded", !.rate = encRate]
    /\ UNCHANGED <<nvenc, control, controlAt, encRate, encForce, backendRate, pendingKey, mfInput,
                   encoded, writerAt, keyRequest, recreateFailed, encBudget>>

(* What becomes of a request that is owed, when a key frame came out of the  *)
(* backend and when none did.                                                *)
Answer(what) == keyRequest' = IF keyRequest = "owed" THEN what ELSE keyRequest
NothingOut == UNCHANGED <<encoded, keyRequest>>
KeyGone(key, otherwise) == UNCHANGED encoded /\ Answer(IF key THEN "lost" ELSE otherwise)

(* try_send: a full or closed channel drops the frame.                      *)
Emit(key, otherwise) ==
    IF writerAt = "running" /\ Len(encoded) < EncodedCapacity
    THEN encoded' = Append(encoded, key) /\ Answer(IF key THEN "sent" ELSE otherwise)
    ELSE KeyGone(key, otherwise)

(* Mutant: the pending request is dropped although the encoder failed.      *)
NeverPending(pending) == FALSE

StillPending(pending) == pending

(* NvencState::encode: a frame of the wrong size or a refused rate changes   *)
(* nothing, a failure later keeps the pending request, and a frame that      *)
(* comes out empty has used it up.                                           *)
NvencEncode ==
    LET b == encodeStep.rate
        reconfigures == b # backendRate.requested /\ AsksDriver(b)
        rate == IF b = backendRate.requested THEN backendRate ELSE Reconfigured(b)
        pending == pendingKey \/ reconfigures
        key == encodeStep.key \/ pending
    IN \/ /\ EncFault \* the frame is refused
          /\ pendingKey' = StillPending(pendingKey)
          /\ NothingOut /\ UNCHANGED backendRate
       \/ /\ reconfigures /\ EncFault
          /\ backendRate' = AfterRefusal(b)
          /\ NothingOut /\ UNCHANGED pendingKey
       \/ /\ EncFault \* uploading, mapping, encoding or unmapping fails
          /\ backendRate' = rate /\ pendingKey' = StillPending(pending) /\ NothingOut
       \/ /\ EncFault \* no output
          /\ backendRate' = rate /\ pendingKey' = FALSE /\ KeyGone(key, "owed")
       \/ /\ backendRate' = rate /\ pendingKey' = FALSE /\ Emit(key, "owed")
          /\ UNCHANGED encBudget

(* The transform accepts the frame: it gives out what it held, the frame,    *)
(* both or nothing, and never holds more than one.                           *)
Drained(input, forced, otherwise) ==
    LET holds == input.held # "nothing"
        this == IF forced THEN "key frame" ELSE "frame"
        is(what) == what = "key frame"
    IN \/ Emit(forced \/ is(input.held), otherwise) /\ mfInput' = [forced |-> FALSE, held |-> "nothing"]
       \/ holds /\ Emit(is(input.held), otherwise) /\ mfInput' = [forced |-> FALSE, held |-> this]
       \/ /\ ~holds /\ KeyGone(FALSE, otherwise)
          /\ mfInput' = [forced |-> FALSE, held |-> this]

(* The request has not reached the encoder's flags yet.                      *)
HandingOver == control.keyframe \/ controlAt \in {"force", "pend"}

(* The rest of MediaFoundationState::encode, once the transform is there.    *)
(* That it is an IWMVideoForceKeyFrame and takes the call is not looked at:  *)
(* told or not, the pending request is cleared before the frame is fed.      *)
MfFeed(input, key) ==
    \E told \in IF key THEN BOOLEAN ELSE {FALSE} :
        LET forced == told \/ input.forced
            otherwise == IF key /\ ~forced /\ input.held # "key frame" /\ ~HandingOver
                         THEN "untold" ELSE "owed"
        IN /\ pendingKey' = FALSE
           /\ \/ /\ EncFault \* converting or feeding the frame fails
                 /\ mfInput' = [input EXCEPT !.forced = forced]
                 /\ KeyGone(FALSE, otherwise)
              \/ /\ EncFault \* draining fails
                 /\ mfInput' = [forced |-> FALSE, held |-> "nothing"]
                 /\ KeyGone(forced \/ input.held = "key frame", otherwise)
              \/ /\ Drained(input, forced, otherwise)
                 /\ UNCHANGED encBudget

(* MediaFoundationState::encode. The rate is recorded before the transform   *)
(* is made anew, for which the old one is flushed.                           *)
MfEncode ==
    LET b == encodeStep.rate
        recreates == b # backendRate.config
        rate == Reconfigured(b)
    IN \/ /\ EncFault \* the frame is refused
          /\ NothingOut /\ UNCHANGED <<backendRate, pendingKey, mfInput, recreateFailed>>
       \/ /\ recreates /\ EncFault
          /\ backendRate' = [rate EXCEPT !.actual = backendRate.actual]
          /\ recreateFailed' = TRUE
          /\ KeyGone(mfInput.held = "key frame" \/ mfInput.forced, "owed")
          /\ mfInput' = [forced |-> FALSE, held |-> "nothing"]
          /\ UNCHANGED pendingKey
       \/ /\ backendRate' = [rate EXCEPT !.actual = IF recreates THEN b ELSE backendRate.actual]
          /\ UNCHANGED recreateFailed
          /\ IF recreates THEN MfFeed(FreshTransform, TRUE)
             ELSE MfFeed(mfInput, encodeStep.key \/ pendingKey)

EncodeFrame ==
    /\ encodeStep.at = "loaded"
    /\ IF nvenc THEN NvencEncode /\ UNCHANGED <<mfInput, recreateFailed>> ELSE MfEncode
    /\ encodeStep' = Idle
    /\ UNCHANGED <<nvenc, control, controlAt, encRate, encForce, writerAt>>

(* write_h264_samples: an error ends the task and closes the channel.       *)
WriteSample ==
    /\ writerAt = "running" /\ encoded # <<>>
    /\ \/ encoded' = Tail(encoded) /\ UNCHANGED <<writerAt, encBudget>>
       \/ EncFault /\ writerAt' = "ended" /\ encoded' = <<>>
    /\ UNCHANGED <<nvenc, control, controlAt, encRate, encForce, encodeStep, backendRate, pendingKey,
                   mfInput, keyRequest, recreateFailed>>

EncoderNext ==
    \/ ReceiveControl \/ StoreBitrate \/ SetBackendBitrate
    \/ TakeKeyframeRequest \/ ForceKeyframe \/ PendKeyframe
    \/ TakeForce \/ LoadBitrate \/ EncodeFrame \/ WriteSample

(* The tasks run, and the desktop keeps changing: frames come.              *)
EncoderFairness ==
    /\ WF_encoderVars((StoreBitrate \/ SetBackendBitrate \/ TakeKeyframeRequest
                       \/ ForceKeyframe \/ PendKeyframe))
    /\ WF_encoderVars((TakeForce \/ LoadBitrate \/ EncodeFrame))
    /\ WF_encoderVars(WriteSample)

EncoderSpec == (\E useNvenc \in BOOLEAN : EncoderInit(useNvenc)) /\ [][EncoderNext]_encoderVars /\ EncoderFairness

-----------------------------------------------------------------------------
(* A request for a key frame that is owed is on its way to the encoder. It   *)
(* is about to be handed over and no refused bitrate ends that handling      *)
(* first (the bitrate in it is the encoder's already), or it is the          *)
(* backend's pending request, or the transform was told or holds its frame;  *)
(* a frame that fails leaves it there. The one way out without a key frame   *)
(* is Media Foundation's: a transform that cannot be told is fed an ordinary *)
(* frame and the pending request is cleared, "untold" (apply_control_state,  *)
(* encode_frame).                                                            *)
KeyRequestCarried ==
    keyRequest = "owed" =>
        \/ /\ control.keyframe
           /\ \/ controlAt = "bitrate" /\ control.bitrate = encRate
              \/ controlAt = "keyframe"
        \/ controlAt \in {"force", "pend"}
        \/ pendingKey
        \/ ~nvenc /\ (mfInput.forced \/ mfInput.held = "key frame")

(* A request for a key frame ends, however it falls between the steps of the *)
(* encoding task and whatever call fails meanwhile: it is carried by two     *)
(* flags, and one of them survives the frame that fails. It ends with a key  *)
(* frame in the channel, or with one that was made and dropped (a channel    *)
(* that is full or closed, output the backend did not give, a transform      *)
(* flushed after it was told), or without any because Media Foundation was   *)
(* not told and the failure is ignored (request_keyframe, encode_frame).     *)
KeyframeRequestAnswered == keyRequest = "owed" ~> keyRequest \in {"sent", "lost", "untold"}

(* The bitrate asked for last is the one the backend ends up using, although *)
(* the encoding task may still carry the one before it into the backend, and *)
(* the driver may refuse it once. Media Foundation is the exception after a  *)
(* transform could not be recreated (set_bitrate_kbps, recreate_if_needed).  *)
BitrateSettles ==
    \A b \in Bitrates :
        <>[](control.bitrate = b) => <>[](backendRate.actual = b \/ recreateFailed)

(* What a client asks of the encoder over the control channel comes to an    *)
(* end: its requests for a key frame in one of the named ways                *)
(* (KeyframeRequestAnswered), its changes of the bitrate in their effect     *)
(* (BitrateSettles), in handle_agent_control and the encoding task, whose    *)
(* steps interleave.                                                         *)
ControlsTakeEffect == KeyframeRequestAnswered /\ BitrateSettles
=============================================================================
