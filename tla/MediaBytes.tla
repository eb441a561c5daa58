------------------------------- MODULE MediaBytes -------------------------------
(* What becomes of the bytes of the video. A sample of the encoder, as NAL    *)
(* units, is turned from AVCC (lengths) to Annex B (start codes) by the agent *)
(* and taken apart by the client. A picture goes from BGRA to NV12 on the     *)
(* agent, and from the rows of the decoder's buffer to RGBA on the client: a  *)
(* byte of a picture is the place in the picture it was computed from.        *)
EXTENDS Naturals, Sequences, FiniteSets

CONSTANTS
    Bytes,      \* the bytes of a NAL unit that matter
    Headers,    \* the headers of NAL units
    MaxPayload, \* bound on the bytes after the header
    MaxNals,    \* bound on the NAL units of a sample
    LengthBase, \* a length is four digits in this base (256 in the program)
    MaxSide,    \* bound on the sides of a picture
    MaxPadding  \* bound on the bytes after a row, and after the picture

ASSUME MediaAssumption ==
    /\ Bytes \cup Headers \subseteq Nat /\ 0 \notin Headers
    /\ LengthBase \in Nat \ {0, 1}
    /\ {MaxPayload, MaxNals, MaxSide, MaxPadding} \subseteq Nat
    /\ MaxPayload + 1 < LengthBase * (LengthBase * (LengthBase * LengthBase))

VARIABLES
    sample, \* the NAL units of an encoded frame
    picture \* the picture: its sides, and the decoder's stride, buffer length and row order

mediaVars == <<sample, picture>>

HasCode(nal) ==
    \E i \in 1 .. Len(nal) - 2 : nal[i] = 0 /\ nal[i + 1] = 0 /\ nal[i + 2] <= 2

(* External: H.264 keeps start codes out of NAL units, and zeros off their end. *)
Payloads == UNION {[1 .. n -> Bytes] : n \in 0 .. MaxPayload}
NalUnits == UNION {{<<h>> \o p : p \in Payloads} : h \in Headers}

ValidNals == {nal \in NalUnits : ~HasCode(nal) /\ nal[Len(nal)] # 0}

Pictures ==
    [width : 0 .. MaxSide, height : 0 .. MaxSide, padding : 0 .. MaxPadding,
     slack : 0 .. MaxPadding, short : BOOLEAN, topDown : BOOLEAN]

MediaTypeOK ==
    /\ sample \in Seq(ValidNals) /\ Len(sample) <= MaxNals
    /\ picture \in Pictures

NoPicture ==
    [width |-> 0, height |-> 0, padding |-> 0, slack |-> 0, short |-> FALSE, topDown |-> TRUE]

MediaInit == sample = <<>> /\ picture = NoPicture

-----------------------------------------------------------------------------
(* Annex B and AVCC.                                                        *)

StartCode == <<0, 0, 0, 1>>
Concat(parts) ==
    LET upTo[i \in 0 .. Len(parts)] == IF i = 0 THEN <<>> ELSE upTo[i - 1] \o parts[i]
    IN upTo[Len(parts)]

AnnexB(nals) == Concat([i \in DOMAIN nals |-> StartCode \o nals[i]])

LengthDigits(n) ==
    LET second == n \div LengthBase
        third == second \div LengthBase
        fourth == third \div LengthBase
    IN <<fourth % LengthBase, third % LengthBase, second % LengthBase, n % LengthBase>>

Avcc(nals) == Concat([i \in DOMAIN nals |-> LengthDigits(Len(nals[i])) \o nals[i]])

LongCodeAt(b, i) == i + 3 <= Len(b) /\ SubSeq(b, i, i + 3) = StartCode
ShortCodeAt(b, i) == i + 2 <= Len(b) /\ SubSeq(b, i, i + 2) = <<0, 0, 1>>
CodeAt(b, i) == LongCodeAt(b, i) \/ ShortCodeAt(b, i)

has_annex_b_start_code(b) == \E i \in DOMAIN b : CodeAt(b, i)

(* The first start code at from or after it, or the end.                    *)
find_start_code(b, from) ==
    IF \E i \in from .. Len(b) : CodeAt(b, i)
    THEN CHOOSE i \in from .. Len(b) :
            CodeAt(b, i) /\ \A j \in from .. i - 1 : ~CodeAt(b, j)
    ELSE Len(b) + 1

(* Mutant: every start code is taken to have three bytes.                   *)
ShortCodeLen(b, i) == 3

start_code_len(b, i) == IF LongCodeAt(b, i) THEN 4 ELSE 3

annex_b_nalus(b) ==
    LET nalusFrom[cursor \in 1 .. Len(b) + 1] ==
            LET start == find_start_code(b, cursor)
                first == start + start_code_len(b, start)
                next == find_start_code(b, first)
            IN IF start > Len(b) THEN <<>>
               ELSE (IF first < next THEN <<SubSeq(b, first, next - 1)>> ELSE <<>>)
                    \o (IF next > Len(b) THEN <<>> ELSE nalusFrom[next])
    IN nalusFrom[1]

NalType(nal) == nal[1] % 32
IsParameterSet(nal) == NalType(nal) \in {7, 8}

(* The parameter sets among nals, or the others.                            *)
Chosen(nals, parameterSets) ==
    LET upTo[i \in 0 .. Len(nals)] ==
            IF i = 0 THEN <<>>
            ELSE IF IsParameterSet(nals[i]) = parameterSets THEN Append(upTo[i - 1], nals[i])
            ELSE upTo[i - 1]
    IN upTo[Len(nals)]

annex_b_to_avcc_sample(b) == Avcc(Chosen(annex_b_nalus(b), FALSE))

(* The NAL units of length-prefixed bytes, as far as the lengths fit.       *)
AvccUnits(b) ==
    LET at(i) == b[i]
        unitsFrom[o \in 1 .. Len(b) + 1] ==
            IF o + 3 > Len(b) THEN [nals |-> <<>>, whole |-> o = Len(b) + 1]
            ELSE LET n == ((at(o) * LengthBase + at(o + 1)) * LengthBase + at(o + 2)) * LengthBase
                          + at(o + 3)
                 IN IF n = 0 \/ o + 3 + n > Len(b)
                    THEN [nals |-> <<>>, whole |-> FALSE]
                    ELSE LET rest == unitsFrom[o + 4 + n]
                         IN [nals |-> <<SubSeq(b, o + 4, o + 3 + n)>> \o rest.nals,
                             whole |-> rest.whole]
    IN unitsFrom[1]

(* Windows: bytes with a start code anywhere, or lengths that do not fit,    *)
(* are left as they are.                                                     *)
ensure_annex_b(b) ==
    LET units == AvccUnits(b)
    IN IF has_annex_b_start_code(b) \/ ~units.whole \/ units.nals = <<>>
       THEN b ELSE AnnexB(units.nals)

annex_b_contains_idr(b) ==
    \E i \in DOMAIN b : CodeAt(b, i) /\ i + 3 <= Len(b)
        /\ LET first == i + start_code_len(b, i)
           IN first <= Len(b) /\ b[first] % 32 \in {5, 7}

(* macOS: the parameter sets of the format description before a key frame,   *)
(* then the sample.                                                          *)
sample_to_annex_b(b, params, isKeyframe) ==
    (IF isKeyframe THEN AnnexB(params) ELSE <<>>) \o AnnexB(AvccUnits(b).nals)

(* Encoded bytes and pictures have nothing to do with each other: a state    *)
(* has one or the other.                                                     *)
AppendNal(nal) ==
    /\ picture = NoPicture /\ Len(sample) < MaxNals
    /\ sample' = Append(sample, nal)
    /\ UNCHANGED picture

-----------------------------------------------------------------------------
(* Pictures. A plane is a function from index to the place it shows; an      *)
(* error is NoPlane. Coordinates and indices start at 0.                     *)

NoPlane == <<>>
Even(n) == n % 2 = 0
HalfUp(n) == (n + 1) \div 2
Pixels(w, h) == (0 .. w - 1) \X (0 .. h - 1)
Block(x, y) == <<x \div 2, y \div 2>>

(* bgra_to_nv12: luma of a pixel, chroma of a block of four; the frame's     *)
(* sides must be even and its length right.                                  *)
bgra_to_nv12(w, h) ==
    IF w = 0 \/ h = 0 \/ ~Even(w) \/ ~Even(h) THEN NoPlane
    ELSE [i \in 0 .. w * h + (w * h) \div 2 - 1 |->
            IF i < w * h THEN <<"y", <<i % w, i \div w>>>>
            ELSE LET j == i - w * h
                 IN <<IF Even(j) THEN "u" ELSE "v", Block(j % w, 2 * (j \div w))>>]

(* Mutant: the length asked for forgets the offset of the plane.            *)
RowsWithoutOffset(len, rows, rowLen, stride, offset, topDown) ==
    IF rows = 0 \/ rowLen = 0 THEN NoPlane
    ELSE IF len < stride * (rows - 1) + rowLen THEN NoPlane
    ELSE [i \in 0 .. rows * rowLen - 1 |->
            LET row == i \div rowLen
            IN offset + (IF topDown THEN row ELSE rows - 1 - row) * stride + (i % rowLen)]

(* copy_strided_rows: the places in data of the rows, or an error when the   *)
(* data is too short for them.                                               *)
copy_strided_rows(len, rows, rowLen, stride, offset, topDown) ==
    IF rows = 0 \/ rowLen = 0 THEN NoPlane
    ELSE IF len < offset + stride * (rows - 1) + rowLen THEN NoPlane
    ELSE [i \in 0 .. rows * rowLen - 1 |->
            LET row == i \div rowLen
            IN offset + (IF topDown THEN row ELSE rows - 1 - row) * stride + (i % rowLen)]

(* copy_strided_nv12: the plane of luma, then the one of chroma.            *)
copy_strided_nv12(p, stride, len) ==
    LET luma == copy_strided_rows(len, p.height, p.width, stride, 0, p.topDown)
        chroma == copy_strided_rows(len, p.height \div 2, p.width, stride, stride * p.height, p.topDown)
        size == p.width * p.height
    IN IF ~Even(p.width) \/ ~Even(p.height) \/ luma = NoPlane \/ chroma = NoPlane THEN NoPlane
       ELSE [i \in 0 .. size + size \div 2 - 1 |->
               IF i < size THEN luma[i] ELSE chroma[i - size]]

(* The indices nv12_to_rgba reads for a pixel.                              *)
NvIndices(x, y, w, h) ==
    LET uv == w * h + (y \div 2) * w + (x \div 2) * 2
    IN [y |-> y * w + x, u |-> uv, v |-> uv + 1]

(* The indices i420_to_rgba reads for a pixel, and the length it asks for.  *)
PlanarIndices(x, y, w, h) ==
    LET c == (y \div 2) * HalfUp(w) + x \div 2
    IN [y |-> y * w + x, u |-> w * h + c, v |-> w * h + HalfUp(w) * HalfUp(h) + c]

PlanarLength(w, h) == w * h + 2 * HalfUp(w) * HalfUp(h)

(* External: what the decoder of the client wrote at a place of its buffer   *)
(* for the picture, rows upwards when it says so.                            *)
DecoderWrote(p, stride, place) ==
    LET inLuma == place < stride * p.height
        below == IF inLuma THEN place ELSE place - stride * p.height
        rows == IF inLuma THEN p.height ELSE p.height \div 2
        row == IF p.topDown THEN below \div stride ELSE rows - 1 - below \div stride
        col == below % stride
    IN IF inLuma THEN <<"y", <<col, row>>>>
       ELSE <<IF Even(col) THEN "u" ELSE "v", <<col \div 2, row>>>>

Stride(p) == p.width + p.padding

BufferLength(p) ==
    LET whole == (Stride(p) * p.height * 3) \div 2
    IN IF p.short /\ whole > 0 THEN whole - 1 ELSE whole + p.slack

ShowPicture(p) ==
    /\ sample = <<>> /\ picture = NoPicture
    /\ picture' = p
    /\ UNCHANGED sample

MediaNext ==
    \/ \E nal \in ValidNals : AppendNal(nal)
    \/ \E p \in Pictures : ShowPicture(p)

MediaSpec == MediaInit /\ [][MediaNext]_mediaVars

-----------------------------------------------------------------------------
(* The NAL units an encoder made come out of the client's parser as they     *)
(* were, whichever form they took on the way: AVCC turned into Annex B on    *)
(* Windows (when no length looks like a start code) and on macOS, and back   *)
(* to AVCC, without parameter sets, for the client on macOS. A key frame is  *)
(* recognized by an IDR slice or an SPS and by nothing else.                 *)
SamplesSurvive ==
    LET avcc == Avcc(sample)
        params == Chosen(sample, TRUE)
    IN /\ annex_b_nalus(AnnexB(sample)) = sample
       /\ sample # <<>> /\ ~has_annex_b_start_code(avcc) => ensure_annex_b(avcc) = AnnexB(sample)
       /\ ensure_annex_b(AnnexB(sample)) = AnnexB(sample)
       /\ annex_b_nalus(sample_to_annex_b(avcc, params, params # <<>>)) = params \o sample
       /\ annex_b_to_avcc_sample(AnnexB(sample)) = Avcc(Chosen(sample, FALSE))
       /\ annex_b_contains_idr(AnnexB(sample)) <=>
             \E i \in DOMAIN sample : NalType(sample[i]) \in {5, 7}

(* Every pixel the client draws shows the luma of that pixel and the chroma  *)
(* of its block, whatever the stride, the order of the rows and the bytes    *)
(* after the picture; a buffer that is too short is refused and never read   *)
(* past its end. A pixel of an I420 picture is read inside the length asked  *)
(* for, odd sides included.                                                  *)
PixelsInPlace ==
    LET w == picture.width  h == picture.height
        stride == Stride(picture)
        compact == copy_strided_nv12(picture, stride, BufferLength(picture))
        sent == bgra_to_nv12(w, h)
    IN \A xy \in Pixels(w, h) :
          LET x == xy[1]  y == xy[2]
              at == NvIndices(x, y, w, h)
              planar == PlanarIndices(x, y, w, h)
          IN /\ sent # NoPlane =>
                  /\ sent[at.y] = <<"y", xy>>
                  /\ sent[at.u] = <<"u", Block(x, y)>> /\ sent[at.v] = <<"v", Block(x, y)>>
             /\ compact # NoPlane =>
                  \A plane \in {"y", "u", "v"} :
                     /\ compact[at[plane]] < BufferLength(picture)
                     /\ DecoderWrote(picture, stride, compact[at[plane]]) = sent[at[plane]]
             /\ sent # NoPlane /\ ~picture.short => compact # NoPlane
             /\ planar.y < planar.u /\ planar.u < planar.v /\ planar.v < PlanarLength(w, h)
=============================================================================
