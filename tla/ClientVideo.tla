------------------------------ MODULE ClientVideo ------------------------------
(* The client's video: RTP packets of H.264 frames are put together to units, *)
(* one per frame on Windows and one per packet on macOS, decoded, and the     *)
(* latest picture is kept for the window. The network may lose or reorder     *)
(* packets: the client has no jitter buffer and ignores sequence numbers.     *)
EXTENDS Naturals, Sequences, FiniteSets

CONSTANTS
    Shapes,       \* what a frame may be: sequences of kinds of packets
    MaxFrames,    \* bound on the frames sent
    MaxNetFaults, \* bound on packets lost or overtaken
    MaxDecFaults  \* bound on calls of the platform's decoder that fail

Kinds == {"params A", "params B", "slice", "fragment", "last fragment"}

ASSUME VideoAssumption ==
    /\ \A s \in Shapes : s \in Seq(Kinds) /\ s # <<>> /\ s[Len(s)] # "fragment"
    /\ {MaxFrames, MaxNetFaults, MaxDecFaults} \subseteq Nat

VARIABLES
    onWindows, \* the platform; the other one is macOS
    framesSent,\* the packets of each frame sent so far
    flight,    \* packets on the way
    faults,    \* [net, dec |-> faults so far]
    fuBuffer,  \* fragments the depacketizer holds
    pendingUnit, \* pending_annex_b, as NAL units (sequences of packets)
    pendingTs,   \* pending_timestamp: a frame, or 0
    lastUnit,  \* the unit handed out last
    unitsOut,  \* how many were handed out
    known,     \* the last SPS and PPS seen
    decoder,   \* the platform's decoder: none, or the parameter sets it was made for
    inDecoder, \* frames the decoder of Windows holds
    waiting,   \* pending_frames
    shown,     \* LatestVideoFrameSink.latest
    swallowed  \* packets dropped because a decoded frame was waiting

videoVars == <<onWindows, framesSent, flight, faults, fuBuffer, pendingUnit, pendingTs, lastUnit,
               unitsOut, known, decoder, inDecoder, waiting, shown, swallowed>>

Packet(frame, i) ==
    [frame |-> frame, index |-> i, kind |-> framesSent[frame][i],
     marker |-> i = Len(framesSent[frame])]

NoUnit == [ts |-> 0, nals |-> <<>>]
FrameNumbers == 0 .. MaxFrames

VideoTypeOK ==
    /\ onWindows \in BOOLEAN
    /\ framesSent \in Seq(Shapes) /\ Len(framesSent) <= MaxFrames
    /\ \A p \in flight \cup swallowed :
          p.frame \in DOMAIN framesSent /\ p = Packet(p.frame, p.index)
    /\ faults \in [net : 0 .. MaxNetFaults, dec : 0 .. MaxDecFaults]
    /\ \A i \in DOMAIN fuBuffer : fuBuffer[i].kind = "fragment"
    /\ pendingTs \in FrameNumbers /\ (pendingUnit = <<>> <=> pendingTs = 0)
    /\ lastUnit.ts \in FrameNumbers
    /\ unitsOut \in Nat
    /\ {known, decoder} \subseteq {"none", "params A", "params B"}
    /\ inDecoder \in Seq(FrameNumbers) /\ waiting \in Seq(FrameNumbers)
    /\ shown \in FrameNumbers

VideoInit(windows) ==
    /\ onWindows = windows
    /\ framesSent = <<>> /\ flight = {}
    /\ faults = [net |-> 0, dec |-> 0]
    /\ fuBuffer = <<>> /\ pendingUnit = <<>> /\ pendingTs = 0
    /\ lastUnit = NoUnit /\ unitsOut = 0
    /\ known = "none" /\ decoder = "none"
    /\ inDecoder = <<>> /\ waiting = <<>> /\ shown = 0 /\ swallowed = {}

receiverVars == <<fuBuffer, pendingUnit, pendingTs, lastUnit, unitsOut, known, decoder, inDecoder,
                  waiting, shown, swallowed>>

-----------------------------------------------------------------------------
(* The agent and the network.                                               *)

PacketizeFrame(shape) ==
    /\ Len(framesSent) < MaxFrames
    /\ framesSent' = Append(framesSent, shape)
    /\ flight' = flight \cup {[frame |-> Len(framesSent) + 1, index |-> i, kind |-> shape[i],
                               marker |-> i = Len(shape)] : i \in DOMAIN shape}
    /\ UNCHANGED <<onWindows, faults, receiverVars>>

NetFault ==
    /\ faults.net < MaxNetFaults
    /\ faults' = [faults EXCEPT !.net = @ + 1]

LosePacket(p) ==
    /\ p \in flight /\ NetFault
    /\ flight' = flight \ {p}
    /\ UNCHANGED <<onWindows, framesSent, receiverVars>>

Earlier(p, q) == p.frame < q.frame \/ (p.frame = q.frame /\ p.index < q.index)

(* The next packet arrives, or one that overtakes another.                  *)
Arrives(p) ==
    /\ p \in flight /\ flight' = flight \ {p}
    /\ IF \E q \in flight : Earlier(q, p) THEN NetFault ELSE UNCHANGED faults

-----------------------------------------------------------------------------
(* The depacketizer of the rtp crate: a NAL unit in fragments comes out with *)
(* the last of them, whatever of it was lost.                                *)
Depacketized(p) ==
    CASE p.kind = "fragment" -> [buffer |-> Append(fuBuffer, p), nals |-> <<>>]
      [] p.kind = "last fragment" -> [buffer |-> <<>>, nals |-> <<Append(fuBuffer, p)>>]
      [] OTHER -> [buffer |-> fuBuffer, nals |-> <<<<p>>>>]

(* Mutant: a packet joins the pending unit whatever its timestamp is.       *)
AssembledRegardless(p) ==
    LET nals == Depacketized(p).nals
        kept(unit, ts, out) == [pending |-> unit, ts |-> ts, unit |-> out]
    IN IF nals = <<>> THEN kept(pendingUnit, pendingTs, NoUnit)
       ELSE IF p.marker
         THEN kept(<<>>, 0, [ts |-> p.frame, nals |-> pendingUnit \o nals])
         ELSE kept(pendingUnit \o nals, p.frame, NoUnit)

(* H264AccessUnitAssembler::push_rtp: what is pending afterwards, and the    *)
(* unit that comes out.                                                      *)
Assembled(p) ==
    LET nals == Depacketized(p).nals
        kept(unit, ts, out) == [pending |-> unit, ts |-> ts, unit |-> out]
    IN IF nals = <<>> THEN kept(pendingUnit, pendingTs, NoUnit)
       ELSE IF pendingUnit # <<>> /\ pendingTs # p.frame
         THEN kept(nals, p.frame, [ts |-> pendingTs, nals |-> pendingUnit])
       ELSE IF p.marker
         THEN kept(<<>>, 0, [ts |-> p.frame, nals |-> pendingUnit \o nals])
         ELSE kept(pendingUnit \o nals, p.frame, NoUnit)

(* H264DecodeState::push_rtp: each packet with NAL units is a unit.         *)
PacketUnit(p) ==
    LET nals == Depacketized(p).nals
    IN [pending |-> <<>>, ts |-> 0,
        unit |-> IF nals = <<>> THEN NoUnit ELSE [ts |-> p.frame, nals |-> nals]]

KindsOf(unit) == {unit.nals[i][1].kind : i \in DOMAIN unit.nals}
ParamsIn(unit) == KindsOf(unit) \cap {"params A", "params B"}

(* observe_annex_b_sample: the last parameter sets of the unit stay.        *)
Observed(unit) ==
    IF ParamsIn(unit) = {} THEN known ELSE CHOOSE k \in ParamsIn(unit) : TRUE

DecoderFails ==
    /\ faults.dec < MaxDecFaults
    /\ faults' = [faults EXCEPT !.dec = @ + 1]

(* A packet completes a unit, or not.                                       *)
Reassemble(p, step) ==
    /\ fuBuffer' = Depacketized(p).buffer
    /\ pendingUnit' = step.pending /\ pendingTs' = step.ts
    /\ IF step.unit = NoUnit
       THEN UNCHANGED <<lastUnit, unitsOut>>
       ELSE lastUnit' = step.unit /\ unitsOut' = unitsOut + 1

NothingDecoded == UNCHANGED <<decoder, inDecoder, waiting, shown>>

(* WindowsH264DecoderState::decode while a decoded frame waits: the frame is *)
(* returned and the packet is dropped.                                       *)
WindowsPops(p) ==
    /\ onWindows /\ waiting # <<>>
    /\ Arrives(p)
    /\ shown' = Head(waiting) /\ waiting' = Tail(waiting)
    /\ swallowed' = swallowed \cup {p}
    /\ UNCHANGED <<onWindows, framesSent, fuBuffer, pendingUnit, pendingTs, lastUnit, unitsOut, known,
                   decoder, inDecoder>>

(* MediaFoundationH264Decoder::decode: the frames that come out. Media       *)
(* Foundation keeps frames back as it likes; when it does not accept more    *)
(* input, what is drained before the second attempt is thrown away.          *)
MediaFoundationDecodes(ts) ==
    \E discarded \in 0 .. Len(inDecoder) :
        LET all == Append(SubSeq(inDecoder, discarded + 1, Len(inDecoder)), ts)
        IN \E n \in 0 .. Len(all) :
              /\ inDecoder' = SubSeq(all, n + 1, Len(all))
              /\ waiting' = SubSeq(all, 2, n)
              /\ shown' = IF n > 0 THEN all[1] ELSE shown

(* WindowsH264DecoderState::decode otherwise.                               *)
WindowsDecodes(p) ==
    /\ onWindows /\ waiting = <<>>
    /\ flight' = flight \ {p} /\ p \in flight
    /\ LET step == Assembled(p)
           overtakes == \E q \in flight : Earlier(q, p)
           seen == IF step.unit = NoUnit THEN known ELSE Observed(step.unit)
       IN /\ Reassemble(p, step)
          /\ known' = seen
          /\ \/ /\ IF overtakes THEN NetFault ELSE UNCHANGED faults
                /\ IF step.unit = NoUnit \/ (decoder = "none" /\ seen = "none")
                   THEN NothingDecoded
                   ELSE /\ decoder' = IF decoder = "none" THEN seen ELSE decoder
                        /\ MediaFoundationDecodes(step.unit.ts)
             \/ /\ step.unit # NoUnit /\ ~overtakes /\ seen # "none"
                /\ DecoderFails
                /\ decoder' \in IF decoder = "none" THEN {"none", seen} ELSE {decoder}
                /\ \E n \in 0 .. Len(inDecoder) :
                      inDecoder' = SubSeq(inDecoder, n + 1, Len(inDecoder))
                /\ UNCHANGED <<waiting, shown>>
    /\ UNCHANGED <<onWindows, framesSent, swallowed>>

(* MacH264DecoderState::decode: a decoder for the parameter sets seen last,  *)
(* rebuilt when they change; a unit without slices decodes to nothing.       *)
MacDecodes(p) ==
    /\ ~onWindows
    /\ flight' = flight \ {p} /\ p \in flight
    /\ LET step == PacketUnit(p)
           overtakes == \E q \in flight : Earlier(q, p)
           seen == IF step.unit = NoUnit THEN known ELSE Observed(step.unit)
       IN /\ Reassemble(p, step)
          /\ known' = seen
          /\ \/ /\ IF overtakes THEN NetFault ELSE UNCHANGED faults
                /\ decoder' = IF step.unit = NoUnit THEN decoder ELSE seen
                /\ shown' = IF step.unit # NoUnit /\ seen # "none"
                               /\ KindsOf(step.unit) \cap {"slice", "fragment", "last fragment"} # {}
                            THEN p.frame ELSE shown
             \/ /\ step.unit # NoUnit /\ ~overtakes /\ seen # "none"
                /\ DecoderFails /\ decoder' \in {decoder, seen} /\ UNCHANGED shown
    /\ UNCHANGED <<onWindows, framesSent, inDecoder, waiting, swallowed>>

VideoNext ==
    \/ \E shape \in Shapes : PacketizeFrame(shape)
    \/ \E p \in flight : LosePacket(p) \/ WindowsPops(p) \/ WindowsDecodes(p) \/ MacDecodes(p)

VideoSpec == (\E windows \in BOOLEAN : VideoInit(windows)) /\ [][VideoNext]_videoVars

-----------------------------------------------------------------------------
(* The packets of a frame that complete its NAL units.                      *)
NalEnds(frame) ==
    {Packet(frame, i) : i \in {k \in DOMAIN framesSent[frame] : framesSent[frame][k] # "fragment"}}

LastOf(nal) == nal[Len(nal)]

(* What the decoder of Windows is given never mixes two frames, whatever is  *)
(* lost or overtaken: each NAL unit was completed by a packet of the unit's  *)
(* timestamp (a fragment left over by a lost one is the depacketizer's). And *)
(* as long as every packet comes in order and none is swallowed, the units   *)
(* are the frames, each whole, one after the other and none left waiting     *)
(* once its marker came (H264AccessUnitAssembler::push_rtp).                 *)
UnitsWhole ==
    onWindows =>
      /\ \A i \in DOMAIN lastUnit.nals : LastOf(lastUnit.nals[i]).frame = lastUnit.ts
      /\ faults.net = 0 /\ swallowed = {} =>
           /\ lastUnit.ts = unitsOut
           /\ lastUnit.ts > 0 =>
                /\ {LastOf(lastUnit.nals[i]) : i \in DOMAIN lastUnit.nals} = NalEnds(lastUnit.ts)
                /\ \A i, j \in DOMAIN lastUnit.nals :
                      i < j => LastOf(lastUnit.nals[i]).index < LastOf(lastUnit.nals[j]).index
           /\ \A i \in DOMAIN pendingUnit : ~LastOf(pendingUnit[i]).marker
=============================================================================
