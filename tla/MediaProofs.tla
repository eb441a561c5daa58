----------------------------- MODULE MediaProofs ------------------------------
(* Theorems about what passes between client and agent: the user's input,    *)
(* for any displays and any cut of the events into frames; the sound, for    *)
(* any devices, packets and callbacks; the planes of a picture, for any      *)
(* sizes and strides; and the frames of the video, for any frames' packets,  *)
(* losses and overtakings.                                                   *)
EXTENDS InputPath, ClientPlayback, MediaBytes, ClientVideo, FoldLemmas,
        FiniteSetTheorems, SequenceTheorems, TLAPS

-----------------------------------------------------------------------------
(* InputPath                                                                  *)

(* A place of the pointer is what a move names.                              *)
LEMMA MovesNamePlaces == \A e \in InputEvents : e.kind = "move" => e.what \in Positions
BY DEF InputEvents, Moves, Keys

(* What a frame hands over is a sequence of events.                          *)
LEMMA FrameIsSequence ==
    ASSUME NEW n \in Nat, NEW events \in [1 .. n -> InputEvents]
    PROVE  events \in Seq(InputEvents) /\ Len(events) = n
OBVIOUS

(* InputTypeOK, with the domains of its sequences.                           *)
LEMMA InputFields ==
    ASSUME InputTypeOK
    PROVE  /\ Len(typed) \in Nat /\ Len(onTheWay) \in Nat /\ Len(tasks) \in Nat /\ Len(injected) \in Nat
           /\ DOMAIN tasks = 1 .. Len(tasks) /\ DOMAIN injected = 1 .. Len(injected)
           /\ \A i \in DOMAIN tasks : tasks[i] \in Seq(InputEvents) /\ Len(tasks[i]) \in Nat
           /\ \A i \in 1 .. Len(typed) : typed[i] \in InputEvents
           /\ \A i \in 1 .. Len(onTheWay) : onTheWay[i] \in InputEvents
<1>1. /\ typed \in Seq(InputEvents) /\ tasks \in Seq(Seq(InputEvents)) /\ onTheWay \in Seq(InputEvents)
      /\ injected \in Seq([event : InputEvents, pos : Positions \cup {NoPosition}])
  BY DEF InputTypeOK
<1>2. /\ Len(typed) \in Nat /\ Len(onTheWay) \in Nat /\ Len(tasks) \in Nat /\ Len(injected) \in Nat
      /\ DOMAIN tasks = 1 .. Len(tasks) /\ DOMAIN injected = 1 .. Len(injected)
  BY <1>1, LenProperties
<1>3. ASSUME NEW i \in DOMAIN tasks PROVE tasks[i] \in Seq(InputEvents) /\ Len(tasks[i]) \in Nat
  <2>1. tasks[i] \in Seq(InputEvents)
    BY <1>1, <1>2, ElementOfSeq
  <2> QED BY <2>1, LenProperties
<1>4. /\ \A i \in 1 .. Len(typed) : typed[i] \in InputEvents
      /\ \A i \in 1 .. Len(onTheWay) : onTheWay[i] \in InputEvents
  BY <1>1, ElementOfSeq
<1> QED BY <1>2, <1>3, <1>4

-----------------------------------------------------------------------------
(* What each step does to the sequences.                                     *)

(* A frame's events are one more task and come last.                         *)
LEMMA InputFrameFields ==
    ASSUME InputTypeOK, NEW n \in 1 .. MaxPerFrame, NEW events \in [1 .. n -> InputEvents], ForwardInput(events)
    PROVE  /\ typed' \in Seq(InputEvents) /\ Len(typed') = Len(typed) + n /\ Len(typed') <= MaxEvents
           /\ \A i \in 1 .. Len(typed) : typed'[i] = typed[i]
           /\ \A i \in 1 .. n : typed'[Len(typed) + i] = events[i]
           /\ tasks' \in Seq(Seq(InputEvents)) /\ Len(tasks') = Len(tasks) + 1
           /\ DOMAIN tasks' = 1 .. Len(tasks) + 1
           /\ \A i \in 1 .. Len(tasks) : tasks'[i] = tasks[i]
           /\ tasks'[Len(tasks) + 1] = events /\ Len(events) = n /\ n \in Nat
<1>0. n \in Nat /\ MaxPerFrame \in Nat
  BY InputAssumption
<1>1. events \in Seq(InputEvents) /\ Len(events) = n
  BY <1>0, FrameIsSequence
<1>2. typed \in Seq(InputEvents) /\ tasks \in Seq(Seq(InputEvents)) /\ Len(typed) \in Nat /\ Len(tasks) \in Nat
  BY InputFields DEF InputTypeOK
<1>3. /\ typed' = typed \o events /\ tasks' = tasks \o <<events>>
      /\ Len(typed) + Len(events) <= MaxEvents
  BY DEF ForwardInput, TaskPerFrame
<1>4. /\ typed' \in Seq(InputEvents) /\ Len(typed') = Len(typed) + n
      /\ \A i \in 1 .. Len(typed) + n : typed'[i] = IF i <= Len(typed) THEN typed[i] ELSE events[i - Len(typed)]
  BY <1>1, <1>2, <1>3, ConcatProperties
<1>5. tasks' = Append(tasks, events)
  BY <1>1, <1>2, <1>3, AppendIsConcat
<1>6. /\ tasks' \in Seq(Seq(InputEvents)) /\ Len(tasks') = Len(tasks) + 1
      /\ \A i \in 1 .. Len(tasks) : tasks'[i] = tasks[i]
      /\ tasks'[Len(tasks) + 1] = events
  BY <1>1, <1>2, <1>5, AppendProperties
<1>7. DOMAIN tasks' = 1 .. Len(tasks) + 1
  BY <1>6, LenProperties
<1> QED BY <1>0, <1>1, <1>2, <1>3, <1>4, <1>6, <1>7

(* A task sends its first event.                                             *)
LEMMA SendFields ==
    ASSUME InputTypeOK, NEW i \in DOMAIN tasks, SendNext(i)
    PROVE  /\ Len(tasks[i]) > 0
           /\ tasks' \in Seq(Seq(InputEvents)) /\ DOMAIN tasks' = DOMAIN tasks /\ Len(tasks') = Len(tasks)
           /\ \A j \in DOMAIN tasks \ {i} : tasks'[j] = tasks[j]
           /\ Len(tasks'[i]) = Len(tasks[i]) - 1
           /\ \A k \in 1 .. Len(tasks'[i]) : tasks'[i][k] = tasks[i][k + 1]
           /\ onTheWay' \in Seq(InputEvents)
           /\ channelAt = "open" => /\ Len(onTheWay') = Len(onTheWay) + 1
                                    /\ \A k \in 1 .. Len(onTheWay) : onTheWay'[k] = onTheWay[k]
                                    /\ onTheWay'[Len(onTheWay) + 1] = tasks[i][1]
           /\ channelAt # "open" => onTheWay' = onTheWay
<1>1. /\ tasks \in Seq(Seq(InputEvents)) /\ tasks[i] \in Seq(InputEvents) /\ i \in 1 .. Len(tasks)
      /\ onTheWay \in Seq(InputEvents) /\ Len(tasks[i]) \in Nat
  BY InputFields DEF InputTypeOK
<1>2. /\ tasks[i] # <<>> /\ tasks' = [tasks EXCEPT ![i] = Tail(tasks[i])]
      /\ onTheWay' = IF channelAt = "open" THEN Append(onTheWay, Head(tasks[i])) ELSE onTheWay
  BY DEF SendNext
<1>3. /\ Head(tasks[i]) \in InputEvents /\ Tail(tasks[i]) \in Seq(InputEvents)
      /\ Len(Tail(tasks[i])) = Len(tasks[i]) - 1
      /\ \A k \in 1 .. Len(Tail(tasks[i])) : Tail(tasks[i])[k] = tasks[i][k + 1]
      /\ Head(tasks[i]) = tasks[i][1] /\ Len(tasks[i]) > 0
  BY <1>1, <1>2, HeadTailProperties, EmptySeq
<1>4. /\ tasks' \in Seq(Seq(InputEvents)) /\ Len(tasks') = Len(tasks)
      /\ \A j \in 1 .. Len(tasks) : tasks'[j] = IF j = i THEN Tail(tasks[i]) ELSE tasks[j]
  BY <1>1, <1>2, <1>3, ExceptSeq
<1>5. DOMAIN tasks' = DOMAIN tasks /\ DOMAIN tasks = 1 .. Len(tasks)
  BY <1>1, <1>4, LenProperties
<1>6. CASE channelAt = "open"
  <2>1. onTheWay' = Append(onTheWay, Head(tasks[i]))
    BY <1>2, <1>6
  <2>2. /\ onTheWay' \in Seq(InputEvents) /\ Len(onTheWay') = Len(onTheWay) + 1
        /\ \A k \in 1 .. Len(onTheWay) : onTheWay'[k] = onTheWay[k]
        /\ onTheWay'[Len(onTheWay) + 1] = Head(tasks[i])
    BY <1>1, <1>3, <2>1, AppendProperties
  <2> QED BY <1>1, <1>3, <1>4, <1>5, <1>6, <2>2
<1>7. CASE channelAt # "open"
  BY <1>1, <1>2, <1>3, <1>4, <1>5, <1>7
<1> QED BY <1>6, <1>7

(* The agent injects the first event of its queue.                           *)
LEMMA InjectFields ==
    ASSUME InputTypeOK, Inject
    PROVE  /\ Len(onTheWay) > 0 /\ onTheWay[1] \in InputEvents
           /\ onTheWay' \in Seq(InputEvents) /\ Len(onTheWay') = Len(onTheWay) - 1
           /\ \A k \in 1 .. Len(onTheWay') : onTheWay'[k] = onTheWay[k + 1]
           /\ lastPos' = IF onTheWay[1].kind = "move" THEN onTheWay[1].what ELSE lastPos
           /\ lastPos' \in Positions \cup {NoPosition}
           /\ injected' \in Seq([event : InputEvents, pos : Positions \cup {NoPosition}])
           /\ Len(injected') = Len(injected) + 1 /\ DOMAIN injected' = 1 .. Len(injected) + 1
           /\ \A k \in 1 .. Len(injected) : injected'[k] = injected[k]
           /\ injected'[Len(injected) + 1] = [event |-> onTheWay[1], pos |-> lastPos']
<1>1. /\ onTheWay \in Seq(InputEvents) /\ onTheWay # <<>> /\ lastPos \in Positions \cup {NoPosition}
      /\ injected \in Seq([event : InputEvents, pos : Positions \cup {NoPosition}])
  BY DEF InputTypeOK, Inject
<1>2. /\ onTheWay' = Tail(onTheWay)
      /\ lastPos' = IF Head(onTheWay).kind = "move" THEN Head(onTheWay).what ELSE lastPos
      /\ injected' = Append(injected, [event |-> Head(onTheWay), pos |-> lastPos'])
  BY DEF Inject
<1>3. /\ Head(onTheWay) \in InputEvents /\ Len(onTheWay) > 0 /\ Head(onTheWay) = onTheWay[1]
      /\ onTheWay' \in Seq(InputEvents) /\ Len(onTheWay') = Len(onTheWay) - 1
      /\ \A k \in 1 .. Len(onTheWay') : onTheWay'[k] = onTheWay[k + 1]
  BY <1>1, <1>2, HeadTailProperties, EmptySeq
<1>4. lastPos' \in Positions \cup {NoPosition}
  BY <1>1, <1>2, <1>3, MovesNamePlaces
<1>5. [event |-> Head(onTheWay), pos |-> lastPos'] \in [event : InputEvents, pos : Positions \cup {NoPosition}]
  BY <1>3, <1>4
<1>6. /\ injected' \in Seq([event : InputEvents, pos : Positions \cup {NoPosition}])
      /\ Len(injected') = Len(injected) + 1
      /\ \A k \in 1 .. Len(injected) : injected'[k] = injected[k]
      /\ injected'[Len(injected) + 1] = [event |-> Head(onTheWay), pos |-> lastPos']
  BY <1>1, <1>2, <1>5, AppendProperties
<1>7. DOMAIN injected' = 1 .. Len(injected) + 1
  BY <1>6, LenProperties
<1> QED BY <1>2, <1>3, <1>4, <1>6, <1>7

(* The client disconnects: the end of the queue is lost.                     *)
LEMMA CloseFields ==
    ASSUME InputTypeOK, CloseChannel
    PROVE  /\ onTheWay' \in Seq(InputEvents) /\ Len(onTheWay') <= Len(onTheWay)
           /\ \A k \in 1 .. Len(onTheWay') : onTheWay'[k] = onTheWay[k]
<1>1. PICK n \in 0 .. Len(onTheWay) : onTheWay' = SubSeq(onTheWay, 1, n)
  BY DEF CloseChannel
<1>2. /\ Len(onTheWay) \in Nat /\ \A i \in 1 .. n : onTheWay[i] \in InputEvents
  BY InputFields
<1>3. /\ onTheWay' \in Seq(InputEvents) /\ Len(onTheWay') = IF 1 <= n THEN n - 1 + 1 ELSE 0
      /\ \A i \in 1 .. n - 1 + 1 : onTheWay'[i] = onTheWay[1 + i - 1]
  BY <1>1, <1>2, SubSeqProperties
<1> QED BY <1>2, <1>3

(* InputTypeOK holds of every state of the module.                           *)
THEOREM InputTyped == InputSpec => []InputTypeOK
<1>1. InputInit => InputTypeOK
  <2> SUFFICES ASSUME InputInit PROVE InputTypeOK
    OBVIOUS
  <2>1. /\ Len(<<>>) = 0 /\ MaxEvents \in Nat
        /\ <<>> \in Seq(InputEvents) /\ <<>> \in Seq(Seq(InputEvents))
        /\ <<>> \in Seq([event : InputEvents, pos : Positions \cup {NoPosition}])
    BY EmptySeq, InputAssumption
  <2>2. typed \in Seq(InputEvents) /\ Len(typed) <= MaxEvents
    BY <2>1 DEF InputInit
  <2>3. tasks \in Seq(Seq(InputEvents)) /\ onTheWay \in Seq(InputEvents)
        /\ injected \in Seq([event : InputEvents, pos : Positions \cup {NoPosition}])
    BY <2>1 DEF InputInit
  <2> QED BY <2>2, <2>3 DEF InputInit, InputTypeOK
<1>2. InputTypeOK /\ [InputNext]_inputVars => InputTypeOK'
  <2> SUFFICES ASSUME InputTypeOK, [InputNext]_inputVars PROVE InputTypeOK'
    OBVIOUS
  <2>1. CASE OpenChannel
    BY <2>1 DEF OpenChannel, InputTypeOK
  <2>2. CASE Inject
    <3>1. /\ onTheWay' \in Seq(InputEvents) /\ lastPos' \in Positions \cup {NoPosition}
          /\ injected' \in Seq([event : InputEvents, pos : Positions \cup {NoPosition}])
      BY <2>2, InjectFields
    <3> QED BY <2>2, <3>1 DEF Inject, InputTypeOK
  <2>3. CASE CloseChannel
    BY <2>3, CloseFields DEF CloseChannel, InputTypeOK
  <2>4. ASSUME NEW n \in 1 .. MaxPerFrame, NEW events \in [1 .. n -> InputEvents], ForwardInput(events)
        PROVE  InputTypeOK'
    <3>1. /\ typed' \in Seq(InputEvents) /\ Len(typed') <= MaxEvents /\ tasks' \in Seq(Seq(InputEvents))
      BY <2>4, InputFrameFields
    <3>2. overlapped' \in BOOLEAN
      BY <2>4 DEF ForwardInput, InputTypeOK
    <3> QED BY <2>4, <3>1, <3>2 DEF ForwardInput, InputTypeOK
  <2>5. ASSUME NEW i \in DOMAIN tasks, SendNext(i) PROVE InputTypeOK'
    <3>1. tasks' \in Seq(Seq(InputEvents)) /\ onTheWay' \in Seq(InputEvents)
      BY <2>5, SendFields
    <3> QED BY <2>5, <3>1 DEF SendNext, InputTypeOK
  <2>6. CASE UNCHANGED inputVars
    BY <2>6 DEF inputVars, InputTypeOK
  <2> QED BY <2>1, <2>2, <2>3, <2>4, <2>5, <2>6 DEF InputNext
<1> QED BY <1>1, <1>2, PTL DEF InputSpec

-----------------------------------------------------------------------------
(* Where the pointer is.                                                     *)
NoMove(seq, n) == \A i \in 1 .. n : seq[i].kind # "move"
LastMove(seq, n, i) ==
    /\ i \in 1 .. n /\ seq[i].kind = "move"
    /\ \A j \in 1 .. n : seq[j].kind = "move" => j <= i

(* After the first n of what the user did the pointer is at pos.             *)
Pointed(seq, n, pos) ==
    \/ NoMove(seq, n) /\ pos = NoPosition
    \/ \E i \in 1 .. n : LastMove(seq, n, i) /\ pos = seq[i].what

(* The last move among the first n events is where the pointer is after them.*)
LEMMA PointedIs ==
    ASSUME NEW n \in Nat, NEW pos, Pointed(typed, n, pos)
    PROVE  pos = PointerAfter(n)
<1> DEFINE moves == {i \in 1 .. n : typed[i].kind = "move"}
<1>1. CASE NoMove(typed, n) /\ pos = NoPosition
  <2>1. moves = {}
    BY <1>1 DEF NoMove
  <2> QED BY <1>1, <2>1 DEF PointerAfter
<1>2. ASSUME NEW i \in 1 .. n, LastMove(typed, n, i), pos = typed[i].what PROVE pos = PointerAfter(n)
  <2>1. i \in moves /\ \A j \in moves : j <= i
    BY <1>2 DEF LastMove
  <2>2. moves \subseteq Int /\ moves # {}
    BY <2>1
  <2> DEFINE last == CHOOSE k \in moves : \A j \in moves : j <= k
  <2>3. PointerAfter(n) = typed[last].what
    BY <2>2 DEF PointerAfter
  <2>4. last \in moves /\ \A j \in moves : j <= last
    BY <2>1
  <2> HIDE DEF last, moves
  <2>5. last = i
    BY <2>1, <2>2, <2>4
  <2> QED BY <1>2, <2>3, <2>5
<1> QED BY <1>1, <1>2 DEF Pointed

(* A further thing the user does leaves that alone.                          *)
LEMMA PointedKept ==
    ASSUME NEW seq, NEW more, NEW n \in Nat, NEW pos, Pointed(seq, n, pos), \A i \in 1 .. n : more[i] = seq[i]
    PROVE  Pointed(more, n, pos)
BY DEF Pointed, NoMove, LastMove

(* The pointer follows each move.                                            *)
LEMMA PointedNext ==
    ASSUME NEW seq, NEW n \in Nat, NEW pos, Pointed(seq, n, pos)
    PROVE  Pointed(seq, n + 1, IF seq[n + 1].kind = "move" THEN seq[n + 1].what ELSE pos)
<1>1. CASE seq[n + 1].kind = "move"
  <2>1. LastMove(seq, n + 1, n + 1) /\ n + 1 \in 1 .. n + 1
    BY <1>1 DEF LastMove
  <2> QED BY <1>1, <2>1 DEF Pointed
<1>2. CASE seq[n + 1].kind # "move" /\ NoMove(seq, n) /\ pos = NoPosition
  <2>1. NoMove(seq, n + 1)
    <3> SUFFICES ASSUME NEW i \in 1 .. n + 1 PROVE seq[i].kind # "move"
      BY DEF NoMove
    <3>1. i \in 1 .. n \/ i = n + 1
      OBVIOUS
    <3> QED BY <1>2, <3>1 DEF NoMove
  <2> QED BY <1>2, <2>1 DEF Pointed
<1>3. ASSUME seq[n + 1].kind # "move", NEW i \in 1 .. n, LastMove(seq, n, i), pos = seq[i].what
      PROVE  Pointed(seq, n + 1, pos)
  <2>1. LastMove(seq, n + 1, i)
    <3>1. \A j \in 1 .. n + 1 : j \in 1 .. n \/ j = n + 1
      OBVIOUS
    <3> QED BY <1>3, <3>1 DEF LastMove
  <2>2. i \in 1 .. n + 1
    OBVIOUS
  <2> QED BY <1>3, <2>1, <2>2 DEF Pointed
<1> QED BY <1>1, <1>2, <1>3 DEF Pointed

-----------------------------------------------------------------------------
(* What is left to send, by task and place.                                  *)
Unsent == {p \in (1 .. Len(tasks)) \X Nat : p[2] \in 1 .. Len(tasks[p[1]])}

(* Every event is in one place at most; there is nothing to send before the  *)
(* channel opens.                                                            *)
EventsCount ==
    /\ IsFiniteSet(Unsent)
    /\ Len(injected) + Len(onTheWay) + Cardinality(Unsent) <= Len(typed)
    /\ channelAt = "opening" => Len(tasks) = 0

Backlog == IF Len(tasks) = 0 THEN 0 ELSE Len(tasks[Len(tasks)])

(* What was injected, what is on the way and, unless the channel closed,     *)
(* what the last task has left follow each other in the order typed; no      *)
(* other task has anything left.                                             *)
InjectedInOrder ==
    /\ \A k \in 1 .. Len(injected) :
          \E pos \in Positions \cup {NoPosition} :
             injected[k] = [event |-> typed[k], pos |-> pos] /\ Pointed(typed, k, pos)
    /\ Pointed(typed, Len(injected), lastPos)
QueuedInOrder ==
    /\ \A i \in 1 .. Len(tasks) - 1 : Len(tasks[i]) = 0
    /\ \A k \in 1 .. Len(onTheWay) : onTheWay[k] = typed[Len(injected) + k]
    /\ channelAt # "closed" =>
         /\ Len(injected) + Len(onTheWay) + Backlog = Len(typed)
         /\ \A k \in 1 .. Backlog :
               tasks[Len(tasks)][k] = typed[Len(injected) + Len(onTheWay) + k]

(* Every event typed is injected, on the way or in the backlog of a task.    *)
LEMMA CountKept ==
    ASSUME InputTypeOK, EventsCount, [InputNext]_inputVars
    PROVE  EventsCount'
<1>0. /\ Len(typed) \in Nat /\ Len(onTheWay) \in Nat /\ Len(tasks) \in Nat /\ Len(injected) \in Nat
      /\ DOMAIN tasks = 1 .. Len(tasks)
      /\ \A i \in DOMAIN tasks : Len(tasks[i]) \in Nat
      /\ IsFiniteSet(Unsent) /\ Cardinality(Unsent) \in Nat
      /\ Len(injected) + Len(onTheWay) + Cardinality(Unsent) <= Len(typed)
  BY InputFields, FS_CardinalityType DEF EventsCount
<1>1. CASE OpenChannel
  <2>1. Unsent' = Unsent
    BY <1>1 DEF OpenChannel, Unsent
  <2> QED BY <1>1, <2>1 DEF OpenChannel, EventsCount
<1>2. CASE Inject
  <2>1. Unsent' = Unsent
    BY <1>2 DEF Inject, Unsent
  <2>2. Len(injected') + Len(onTheWay') = Len(injected) + Len(onTheWay)
    <3>1. Len(injected') = Len(injected) + 1 /\ Len(onTheWay') = Len(onTheWay) - 1
      BY <1>2, InjectFields
    <3> QED BY <1>0, <3>1
  <2> QED BY <1>0, <1>2, <2>1, <2>2 DEF Inject, EventsCount
<1>3. CASE CloseChannel
  <2>1. Unsent' = Unsent
    BY <1>3 DEF CloseChannel, Unsent
  <2>2. Len(onTheWay') <= Len(onTheWay) /\ Len(onTheWay') \in Nat
    BY <1>3, CloseFields, LenProperties
  <2> QED BY <1>0, <1>3, <2>1, <2>2 DEF CloseChannel, EventsCount
<1>4. ASSUME NEW n \in 1 .. MaxPerFrame, NEW events \in [1 .. n -> InputEvents], ForwardInput(events)
      PROVE  EventsCount'
  <2>1. /\ n \in Nat /\ Len(typed') = Len(typed) + n /\ Len(tasks') = Len(tasks) + 1
        /\ \A i \in 1 .. Len(tasks) : tasks'[i] = tasks[i]
        /\ Len(tasks'[Len(tasks) + 1]) = n
    BY <1>4, InputFrameFields
  <2> DEFINE new == {Len(tasks) + 1} \X (1 .. n)
  <2>2. Unsent' = Unsent \cup new
    <3>1. \A i \in 1 .. Len(tasks') : i \in 1 .. Len(tasks) \/ i = Len(tasks) + 1
      BY <1>0, <2>1
    <3>2. Unsent' \subseteq Unsent \cup new
      BY <1>0, <2>1, <3>1 DEF Unsent
    <3>3. Unsent \subseteq Unsent'
      BY <1>0, <2>1 DEF Unsent
    <3>4. new \subseteq Unsent'
      BY <1>0, <2>1 DEF Unsent
    <3> QED BY <3>2, <3>3, <3>4
  <2>3. IsFiniteSet(new) /\ Cardinality(new) = n
    <3>1. IsFiniteSet(1 .. n) /\ Cardinality(1 .. n) = n
      <4>1. Cardinality(1 .. n) = IF 1 > n THEN 0 ELSE n - 1 + 1
        <5>1. n \in Int /\ 1 \in Int
          BY <2>1
        <5> QED BY <5>1, FS_Interval
      <4> QED BY <2>1, <4>1, FS_Interval
    <3>2. IsFiniteSet({Len(tasks) + 1}) /\ Cardinality({Len(tasks) + 1}) = 1
      BY FS_Singleton
    <3>3. IsFiniteSet(new) /\ Cardinality(new) = Cardinality({Len(tasks) + 1}) * Cardinality(1 .. n)
      BY <3>1, <3>2, FS_Product
    <3> HIDE DEF new
    <3> QED BY <2>1, <3>1, <3>2, <3>3
  <2>4. IsFiniteSet(Unsent') /\ Cardinality(Unsent') <= Cardinality(Unsent) + n
    <3>1. IsFiniteSet(Unsent \cap new) /\ Cardinality(Unsent \cap new) \in Nat
      BY <1>0, FS_Intersection, FS_CardinalityType
    <3>2. /\ IsFiniteSet(Unsent \cup new)
          /\ Cardinality(Unsent \cup new) = Cardinality(Unsent) + Cardinality(new) - Cardinality(Unsent \cap new)
      BY <1>0, <2>3, FS_Union
    <3> HIDE DEF new
    <3> QED BY <1>0, <2>1, <2>2, <2>3, <3>1, <3>2
  <2>5. Cardinality(Unsent') \in Nat
    BY <2>4, FS_CardinalityType
  <2> QED BY <1>0, <1>4, <2>1, <2>4, <2>5 DEF ForwardInput, EventsCount
<1>5. ASSUME NEW i \in DOMAIN tasks, SendNext(i) PROVE EventsCount'
  <2>1. /\ Len(tasks[i]) > 0 /\ Len(tasks') = Len(tasks)
        /\ \A j \in DOMAIN tasks \ {i} : tasks'[j] = tasks[j]
        /\ Len(tasks'[i]) = Len(tasks[i]) - 1
    BY <1>5, SendFields
  <2>2. Len(onTheWay') <= Len(onTheWay) + 1 /\ Len(onTheWay') \in Nat
    BY <1>0, <1>5, SendFields, LenProperties
  <2> DEFINE sent == <<i, Len(tasks[i])>>
  <2>3. sent \in Unsent
    BY <1>0, <2>1 DEF Unsent
  <2>4. Unsent' = Unsent \ {sent}
    <3>1. Unsent' \subseteq Unsent \ {sent}
      <4> SUFFICES ASSUME NEW p \in Unsent' PROVE p \in Unsent /\ p # sent
        OBVIOUS
      <4>1. p \in (1 .. Len(tasks)) \X Nat /\ p[2] \in 1 .. Len(tasks'[p[1]])
        BY <2>1 DEF Unsent
      <4>2. CASE p[1] = i
        BY <1>0, <2>1, <4>1, <4>2 DEF Unsent
      <4>3. CASE p[1] # i
        BY <1>0, <2>1, <4>1, <4>3 DEF Unsent
      <4> QED BY <4>2, <4>3
    <3>2. Unsent \ {sent} \subseteq Unsent'
      <4> SUFFICES ASSUME NEW p \in Unsent, p # sent PROVE p \in Unsent'
        OBVIOUS
      <4>1. p \in (1 .. Len(tasks)) \X Nat /\ p[2] \in 1 .. Len(tasks[p[1]]) /\ p = <<p[1], p[2]>>
        BY DEF Unsent
      <4>2. CASE p[1] = i
        <5>1. p[2] # Len(tasks[i])
          BY <4>1, <4>2
        <5> QED BY <1>0, <2>1, <4>1, <4>2, <5>1 DEF Unsent
      <4>3. CASE p[1] # i
        BY <1>0, <2>1, <4>1, <4>3 DEF Unsent
      <4> QED BY <4>2, <4>3
    <3> QED BY <3>1, <3>2
  <2>5. IsFiniteSet(Unsent') /\ Cardinality(Unsent') = Cardinality(Unsent) - 1
    BY <1>0, <2>3, <2>4, FS_RemoveElement
  <2> QED BY <1>0, <1>5, <2>1, <2>2, <2>5 DEF SendNext, EventsCount
<1>6. CASE UNCHANGED inputVars
  BY <1>6 DEF inputVars, EventsCount, Unsent
<1> QED BY <1>1, <1>2, <1>3, <1>4, <1>5, <1>6 DEF InputNext

(* As long as no two tasks overlap, events are queued and injected as typed. *)
LEMMA OrderKept ==
    ASSUME InputTypeOK, EventsCount, [InputNext]_inputVars, ~overlapped',
           ~overlapped => InjectedInOrder /\ QueuedInOrder
    PROVE  (InjectedInOrder /\ QueuedInOrder)'
<1>0. /\ Len(typed) \in Nat /\ Len(onTheWay) \in Nat /\ Len(tasks) \in Nat /\ Len(injected) \in Nat
      /\ DOMAIN tasks = 1 .. Len(tasks)
      /\ \A i \in 1 .. Len(tasks) : Len(tasks[i]) \in Nat
      /\ Len(injected) + Len(onTheWay) <= Len(typed)
  <2>1. Cardinality(Unsent) \in Nat
    BY FS_CardinalityType DEF EventsCount
  <2> QED BY <2>1, InputFields DEF EventsCount
<1>l. Len(onTheWay) \in Nat /\ Len(tasks) \in Nat /\ Len(injected) \in Nat /\ DOMAIN tasks = 1 .. Len(tasks)
  BY <1>0
<1>n. Backlog \in Nat
  BY <1>0 DEF Backlog
<1>o. ~overlapped /\ InjectedInOrder /\ QueuedInOrder
  <2>1. overlapped' = overlapped \/ \E events : ForwardInput(events)
    BY DEF InputNext, OpenChannel, Inject, CloseChannel, SendNext, inputVars
  <2>2. ASSUME NEW events, ForwardInput(events) PROVE ~overlapped
    <3>1. overlapped' = (overlapped \/ \E i \in DOMAIN tasks : tasks[i] # <<>>)
      BY <2>2 DEF ForwardInput
    <3> QED BY <3>1
  <2>3. ~overlapped
    BY <2>1, <2>2
  <2> QED BY <2>3
<1>1. CASE OpenChannel
  <2>1. Backlog' = Backlog
    BY <1>1 DEF OpenChannel, Backlog
  <2> QED BY <1>o, <1>1, <2>1 DEF OpenChannel, InjectedInOrder, QueuedInOrder
<1>2. CASE Inject
  <2>0. /\ typed' = typed /\ tasks' = tasks /\ channelAt' = channelAt
    BY <1>2 DEF Inject
  <2>1. /\ Len(onTheWay) > 0 /\ onTheWay[1] \in InputEvents
        /\ Len(onTheWay') = Len(onTheWay) - 1
        /\ \A k \in 1 .. Len(onTheWay') : onTheWay'[k] = onTheWay[k + 1]
        /\ lastPos' = IF onTheWay[1].kind = "move" THEN onTheWay[1].what ELSE lastPos
        /\ lastPos' \in Positions \cup {NoPosition}
        /\ Len(injected') = Len(injected) + 1
        /\ \A k \in 1 .. Len(injected) : injected'[k] = injected[k]
        /\ injected'[Len(injected) + 1] = [event |-> onTheWay[1], pos |-> lastPos']
    BY <1>2, InjectFields
  <2>2. onTheWay[1] = typed[Len(injected) + 1]
    BY <1>0, <1>o, <2>1 DEF QueuedInOrder
  <2>3. Pointed(typed, Len(injected) + 1, lastPos')
    <3>1. Pointed(typed, Len(injected), lastPos)
      BY <1>o DEF InjectedInOrder
    <3> QED BY <1>0, <2>1, <2>2, <3>1, PointedNext
  <2>4. \A n, pos : Pointed(typed, n, pos) => Pointed(typed', n, pos)
    BY <2>0
  <2>5. InjectedInOrder'
    <3>1. Pointed(typed', Len(injected'), lastPos')
      BY <2>1, <2>3, <2>4
    <3>2. ASSUME NEW k \in 1 .. Len(injected')
          PROVE  \E pos \in Positions \cup {NoPosition} :
                    injected'[k] = [event |-> typed'[k], pos |-> pos] /\ Pointed(typed', k, pos)
      <4>1. CASE k \in 1 .. Len(injected)
        <5>1. PICK pos \in Positions \cup {NoPosition} :
                 injected[k] = [event |-> typed[k], pos |-> pos] /\ Pointed(typed, k, pos)
          BY <1>o, <4>1 DEF InjectedInOrder
        <5> QED BY <2>0, <2>1, <2>4, <4>1, <5>1
      <4>2. CASE k = Len(injected) + 1
        BY <2>0, <2>1, <2>2, <2>3, <2>4, <4>2
      <4>3. k \in 1 .. Len(injected) \/ k = Len(injected) + 1
        BY <1>0, <2>1
      <4> QED BY <4>1, <4>2, <4>3
    <3> QED BY <3>1, <3>2 DEF InjectedInOrder
  <2>6. QueuedInOrder'
    <3>1. \A k \in 1 .. Len(onTheWay') : onTheWay'[k] = typed'[Len(injected') + k]
      <4> SUFFICES ASSUME NEW k \in 1 .. Len(onTheWay') PROVE onTheWay'[k] = typed'[Len(injected') + k]
        OBVIOUS
      <4>1. k + 1 \in 1 .. Len(onTheWay) /\ Len(injected') + k = Len(injected) + (k + 1)
        BY <1>0, <2>1
      <4> QED BY <1>o, <2>0, <2>1, <4>1 DEF QueuedInOrder
    <3>2. Backlog' = Backlog
      BY <2>0 DEF Backlog
    <3>3. Len(injected') + Len(onTheWay') = Len(injected) + Len(onTheWay)
      BY <1>0, <2>1
    <3>4. /\ Len(injected') + Len(onTheWay') + Backlog = Len(injected) + Len(onTheWay) + Backlog
          /\ \A k \in 1 .. Backlog : Len(injected') + Len(onTheWay') + k = Len(injected) + Len(onTheWay) + k
      BY <3>3
    <3> QED BY <1>o, <2>0, <3>1, <3>2, <3>4 DEF QueuedInOrder
  <2> QED BY <2>5, <2>6
<1>3. CASE CloseChannel
  <2>0. /\ typed' = typed /\ tasks' = tasks /\ channelAt' = "closed" /\ injected' = injected /\ lastPos' = lastPos
    BY <1>3 DEF CloseChannel
  <2>1. InjectedInOrder'
    BY <1>o, <2>0 DEF InjectedInOrder
  <2>2. QueuedInOrder'
    <3>1. /\ Len(onTheWay') <= Len(onTheWay) /\ Len(onTheWay') \in Nat
          /\ \A k \in 1 .. Len(onTheWay') : onTheWay'[k] = onTheWay[k]
      BY <1>3, CloseFields, LenProperties
    <3>2. \A k \in 1 .. Len(onTheWay') : k \in 1 .. Len(onTheWay)
      BY <1>0, <3>1
    <3> QED BY <1>o, <2>0, <3>1, <3>2 DEF QueuedInOrder
  <2> QED BY <2>1, <2>2
<1>4. ASSUME NEW n \in 1 .. MaxPerFrame, NEW events \in [1 .. n -> InputEvents], ForwardInput(events)
      PROVE  (InjectedInOrder /\ QueuedInOrder)'
  <2>0. /\ channelAt' = channelAt /\ channelAt = "open" /\ injected' = injected
        /\ onTheWay' = onTheWay /\ lastPos' = lastPos
    BY <1>4 DEF ForwardInput
  <2>1. /\ n \in Nat /\ Len(typed') = Len(typed) + n /\ Len(tasks') = Len(tasks) + 1
        /\ \A i \in 1 .. Len(typed) : typed'[i] = typed[i]
        /\ \A i \in 1 .. n : typed'[Len(typed) + i] = events[i]
        /\ \A i \in 1 .. Len(tasks) : tasks'[i] = tasks[i]
        /\ tasks'[Len(tasks) + 1] = events /\ Len(events) = n
    BY <1>4, InputFrameFields
  <2>2. \A i \in 1 .. Len(tasks) : Len(tasks[i]) = 0
    <3>1. ~(\E i \in DOMAIN tasks : tasks[i] # <<>>)
      BY <1>4 DEF ForwardInput
    <3>2. Len(<<>>) = 0
      BY EmptySeq
    <3> QED BY <1>0, <3>1, <3>2
  <2>3. Backlog = 0
    BY <1>0, <2>2 DEF Backlog
  <2>4. Len(injected) + Len(onTheWay) = Len(typed)
    BY <1>0, <1>o, <2>0, <2>3 DEF QueuedInOrder
  <2>5. \A m \in 0 .. Len(typed) : \A pos : Pointed(typed, m, pos) => Pointed(typed', m, pos)
    <3> SUFFICES ASSUME NEW m \in 0 .. Len(typed), NEW pos, Pointed(typed, m, pos) PROVE Pointed(typed', m, pos)
      OBVIOUS
    <3>1. m \in Nat /\ \A i \in 1 .. m : i \in 1 .. Len(typed)
      BY <1>0
    <3> QED BY <2>1, <3>1, PointedKept
  <2>6. InjectedInOrder'
    <3>1. Pointed(typed', Len(injected), lastPos)
      BY <1>0, <1>o, <2>5 DEF InjectedInOrder
    <3>2. ASSUME NEW k \in 1 .. Len(injected)
          PROVE  \E pos \in Positions \cup {NoPosition} :
                    injected'[k] = [event |-> typed'[k], pos |-> pos] /\ Pointed(typed', k, pos)
      <4>1. k \in 1 .. Len(typed) /\ k \in 0 .. Len(typed)
        BY <1>0
      <4>2. PICK pos \in Positions \cup {NoPosition} :
               injected[k] = [event |-> typed[k], pos |-> pos] /\ Pointed(typed, k, pos)
        BY <1>o DEF InjectedInOrder
      <4> QED BY <2>0, <2>1, <2>5, <4>1, <4>2
    <3> QED BY <2>0, <3>1, <3>2 DEF InjectedInOrder
  <2>7. QueuedInOrder'
    <3>1. \A i \in 1 .. Len(tasks') - 1 : Len(tasks'[i]) = 0
      BY <1>0, <2>1, <2>2
    <3>2. \A k \in 1 .. Len(onTheWay') : onTheWay'[k] = typed'[Len(injected') + k]
      <4> SUFFICES ASSUME NEW k \in 1 .. Len(onTheWay) PROVE onTheWay[k] = typed'[Len(injected) + k]
        BY <2>0
      <4>1. Len(injected) + k \in 1 .. Len(typed)
        BY <1>0
      <4> QED BY <1>o, <2>1, <4>1 DEF QueuedInOrder
    <3>3. Backlog' = n
      BY <1>0, <2>1 DEF Backlog
    <3>4. Len(injected') + Len(onTheWay') + Backlog' = Len(typed')
      BY <2>0, <2>1, <2>4, <3>3
    <3>5. \A k \in 1 .. Backlog' : tasks'[Len(tasks')][k] = typed'[Len(injected') + Len(onTheWay') + k]
      BY <2>0, <2>1, <2>4, <3>3
    <3> QED BY <3>1, <3>2, <3>4, <3>5 DEF QueuedInOrder
  <2> QED BY <2>6, <2>7
<1>5. ASSUME NEW i \in DOMAIN tasks, SendNext(i) PROVE (InjectedInOrder /\ QueuedInOrder)'
  <2>0. typed' = typed /\ channelAt' = channelAt /\ injected' = injected /\ lastPos' = lastPos
    BY <1>5 DEF SendNext
  <2>1. /\ Len(tasks[i]) > 0 /\ Len(tasks') = Len(tasks)
        /\ \A j \in DOMAIN tasks \ {i} : tasks'[j] = tasks[j]
        /\ Len(tasks'[i]) = Len(tasks[i]) - 1
        /\ \A k \in 1 .. Len(tasks'[i]) : tasks'[i][k] = tasks[i][k + 1]
        /\ channelAt = "open" => /\ Len(onTheWay') = Len(onTheWay) + 1
                                 /\ \A k \in 1 .. Len(onTheWay) : onTheWay'[k] = onTheWay[k]
                                 /\ onTheWay'[Len(onTheWay) + 1] = tasks[i][1]
        /\ channelAt # "open" => onTheWay' = onTheWay
    BY <1>5, SendFields
  <2>2. i = Len(tasks)
    <3>1. i \in 1 .. Len(tasks) - 1 => Len(tasks[i]) = 0
      BY <1>o DEF QueuedInOrder
    <3> QED BY <1>0, <2>1, <3>1
  <2>3. Backlog = Len(tasks[i]) /\ Backlog' = Backlog - 1 /\ Backlog > 0
    BY <1>0, <2>1, <2>2 DEF Backlog
  <2>4. InjectedInOrder'
    BY <1>o, <2>0 DEF InjectedInOrder
  <2>5. \A j \in 1 .. Len(tasks') - 1 : Len(tasks'[j]) = 0
    <3>1. \A j \in 1 .. Len(tasks) - 1 : Len(tasks[j]) = 0
      BY <1>o DEF QueuedInOrder
    <3>2. ASSUME NEW j \in 1 .. Len(tasks') - 1
          PROVE  j \in 1 .. Len(tasks) - 1 /\ j \in DOMAIN tasks \ {i}
      <4>1. Len(tasks') = Len(tasks)
        BY <2>1
      <4>2. j \in 1 .. Len(tasks) - 1
        BY <4>1
      <4>3. j \in 1 .. Len(tasks) /\ j # Len(tasks)
        <5>1. Len(tasks) \in Nat
          BY <1>l
        <5>2. \A m \in Nat : \A h \in 1 .. m - 1 : h \in 1 .. m /\ h # m
          OBVIOUS
        <5> QED BY <4>2, <5>1, <5>2
      <4> QED BY <1>l, <2>2, <4>2, <4>3
    <3> QED BY <2>1, <3>1, <3>2
  <2>6. CASE channelAt = "open"
    <3>0. /\ Len(onTheWay') = Len(onTheWay) + 1 /\ Len(injected') = Len(injected)
          /\ Len(typed') = Len(typed)
      BY <2>0, <2>1, <2>6
    <3>1. /\ Len(injected) + Len(onTheWay) + Backlog = Len(typed)
          /\ \A k \in 1 .. Backlog : tasks[i][k] = typed[Len(injected) + Len(onTheWay) + k]
          /\ \A k \in 1 .. Len(onTheWay) : onTheWay[k] = typed[Len(injected) + k]
      BY <1>o, <2>2, <2>6 DEF QueuedInOrder
    <3>2. ASSUME NEW k \in 1 .. Len(onTheWay') PROVE onTheWay'[k] = typed'[Len(injected') + k]
      <4>1. CASE k \in 1 .. Len(onTheWay)
        BY <2>0, <2>1, <2>6, <3>1, <4>1
      <4>2. CASE k = Len(onTheWay) + 1
        <5>1. tasks[i][1] = typed[Len(injected) + Len(onTheWay) + 1]
          BY <1>n, <2>3, <3>1
        <5>2. Len(injected) + Len(onTheWay) + 1 = Len(injected) + k
          BY <1>0, <4>2
        <5> QED BY <2>0, <2>1, <2>6, <4>2, <5>1, <5>2
      <4> QED BY <1>0, <2>1, <2>6, <4>1, <4>2
    <3>3. Len(injected') + Len(onTheWay') + Backlog' = Len(typed')
      <4>1. Len(injected) + Len(onTheWay) + Backlog = Len(typed)
        BY <3>1
      <4>2. Backlog' = Backlog - 1
        BY <2>3
      <4>3. Len(injected) + (Len(onTheWay) + 1) + (Backlog - 1) = Len(typed)
        BY <1>l, <1>n, <4>1
      <4> QED BY <3>0, <4>2, <4>3
    <3>4. ASSUME NEW k \in 1 .. Backlog'
          PROVE  tasks'[Len(tasks')][k] = typed'[Len(injected') + Len(onTheWay') + k]
      <4>1. k + 1 \in 1 .. Backlog /\ k \in 1 .. Len(tasks'[i])
        BY <1>0, <1>n, <2>1, <2>2, <2>3
      <4>2. Len(injected) + Len(onTheWay) + (k + 1) = Len(injected') + Len(onTheWay') + k
        BY <1>0, <3>0
      <4>3. tasks[i][k + 1] = typed[Len(injected) + Len(onTheWay) + (k + 1)]
        BY <3>1, <4>1
      <4>4. tasks'[i][k] = tasks[i][k + 1] /\ Len(tasks') = i
        BY <2>1, <2>2, <4>1
      <4> QED BY <2>0, <4>2, <4>3, <4>4
    <3> QED BY <2>4, <2>5, <3>2, <3>3, <3>4 DEF QueuedInOrder
  <2>7. CASE channelAt # "open"
    <3>1. channelAt = "closed"
      BY <1>0, <2>7, <1>5 DEF EventsCount, InputTypeOK
    <3> QED BY <1>o, <2>0, <2>1, <2>4, <2>5, <2>7, <3>1 DEF QueuedInOrder
  <2> QED BY <2>6, <2>7
<1>6. CASE UNCHANGED inputVars
  BY <1>o, <1>6 DEF inputVars, InjectedInOrder, QueuedInOrder, Backlog
<1> QED BY <1>1, <1>2, <1>3, <1>4, <1>5, <1>6 DEF InputNext

-----------------------------------------------------------------------------
(* The key tables, in ranges for Windows and by key for macOS.               *)
LEMMA WindowsKeys ==
    ASSUME NEW a \in ClientUsages
    PROVE  \/ a \in 4 .. 29 /\ hid_to_vk(a) = 61 + a
           \/ a \in 30 .. 38 /\ hid_to_vk(a) = 19 + a
           \/ a = 39 /\ hid_to_vk(a) = 48
           \/ a = 40 /\ hid_to_vk(a) = 13
           \/ a = 41 /\ hid_to_vk(a) = 27
           \/ a = 42 /\ hid_to_vk(a) = 8
           \/ a = 43 /\ hid_to_vk(a) = 9
           \/ a = 44 /\ hid_to_vk(a) = 32
           \/ a = 79 /\ hid_to_vk(a) = 39
           \/ a = 80 /\ hid_to_vk(a) = 37
           \/ a = 81 /\ hid_to_vk(a) = 40
           \/ a = 82 /\ hid_to_vk(a) = 38
<1>1. CASE a \in 4 .. 29
  BY <1>1 DEF hid_to_vk
<1>2. CASE a \in 30 .. 38
  BY <1>2 DEF hid_to_vk
<1>3. CASE a = 39
  BY <1>3 DEF hid_to_vk
<1>4. CASE a \in 40 .. 44
  <2>1. hid_to_vk(a) = <<13, 27, 8, 9, 32>>[a - 39]
    BY <1>4 DEF hid_to_vk
  <2>2. a = 40 \/ a = 41 \/ a = 42 \/ a = 43 \/ a = 44
    BY <1>4
  <2> QED BY <2>1, <2>2
<1>5. CASE a \in 79 .. 82
  <2>1. hid_to_vk(a) = <<39, 37, 40, 38>>[a - 78]
    BY <1>5 DEF hid_to_vk
  <2>2. a = 79 \/ a = 80 \/ a = 81 \/ a = 82
    BY <1>5
  <2> QED BY <2>1, <2>2
<1>6. \/ a \in 4 .. 29 \/ a \in 30 .. 38 \/ a = 39 \/ a \in 40 .. 44 \/ a \in 79 .. 82
  BY DEF ClientUsages
<1> QED BY <1>1, <1>2, <1>3, <1>4, <1>5, <1>6

(* Two keys of the client are two keys of Windows.                           *)
LEMMA WindowsKeysDiffer ==
    \A a, b \in ClientUsages : a # b => hid_to_vk(a) \notin {NoKey, hid_to_vk(b)}
<1> SUFFICES ASSUME NEW a \in ClientUsages, NEW b \in ClientUsages, a # b
             PROVE  hid_to_vk(a) # -1 /\ hid_to_vk(a) # hid_to_vk(b)
  BY DEF NoKey
<1> DEFINE u == hid_to_vk(a)
<1> DEFINE v == hid_to_vk(b)
<1>1. u # -1
  BY WindowsKeys
<1>2. u # v
  BY WindowsKeys
<1> QED BY <1>1, <1>2

(* The client's key of a keycode of macOS, or 0 when it has none.            *)
UsageOfMac(code) ==
    IF code <= 53 THEN <<4, 22, 7, 9, 11, 10, 29, 27, 6, 25, 0, 5, 20, 26, 8, 21, 28, 23, 30, 31, 32, 33, 35, 34,
                        0, 38, 36, 0, 37, 39, 0, 18, 24, 0, 12, 19, 40, 15, 13, 0, 14, 0, 0, 0, 0, 17, 16, 0,
                        43, 44, 0, 42, 0, 41>>[code + 1]
    ELSE <<80, 79, 81, 82>>[code - 122]

(* Each key of the client is a key of macOS, from which it can be told.      *)
LEMMA MacKeys ==
    ASSUME NEW a \in ClientUsages
    PROVE  hid_to_macos_keycode(a) # -1 /\ UsageOfMac(hid_to_macos_keycode(a)) = a
<1>1. CASE a \in 4 .. 12
  <2>1. a = 4 \/ a = 5 \/ a = 6 \/ a = 7 \/ a = 8 \/ a = 9 \/ a = 10 \/ a = 11 \/ a = 12
    BY <1>1
  <2> QED BY <2>1 DEF hid_to_macos_keycode, UsageOfMac
<1>2. CASE a \in 13 .. 21
  <2>1. a = 13 \/ a = 14 \/ a = 15 \/ a = 16 \/ a = 17 \/ a = 18 \/ a = 19 \/ a = 20 \/ a = 21
    BY <1>2
  <2> QED BY <2>1 DEF hid_to_macos_keycode, UsageOfMac
<1>3. CASE a \in 22 .. 29
  <2>1. a = 22 \/ a = 23 \/ a = 24 \/ a = 25 \/ a = 26 \/ a = 27 \/ a = 28 \/ a = 29
    BY <1>3
  <2> QED BY <2>1 DEF hid_to_macos_keycode, UsageOfMac
<1>4. CASE a \in 30 .. 34
  <2>1. a = 30 \/ a = 31 \/ a = 32 \/ a = 33 \/ a = 34
    BY <1>4
  <2> QED BY <2>1 DEF hid_to_macos_keycode, UsageOfMac
<1>5. CASE a \in 35 .. 39
  <2>1. a = 35 \/ a = 36 \/ a = 37 \/ a = 38 \/ a = 39
    BY <1>5
  <2> QED BY <2>1 DEF hid_to_macos_keycode, UsageOfMac
<1>6. CASE a \in 40 .. 44
  <2>1. a = 40 \/ a = 41 \/ a = 42 \/ a = 43 \/ a = 44
    BY <1>6
  <2> QED BY <2>1 DEF hid_to_macos_keycode, UsageOfMac
<1>7. CASE a \in 79 .. 82
  <2>1. a = 79 \/ a = 80 \/ a = 81 \/ a = 82
    BY <1>7
  <2> QED BY <2>1 DEF hid_to_macos_keycode, UsageOfMac
<1>8. a \in 4 .. 12 \/ a \in 13 .. 21 \/ a \in 22 .. 29 \/ a \in 30 .. 34 \/ a \in 35 .. 39 \/ a \in 40 .. 44 \/ a \in 79 .. 82
  BY DEF ClientUsages
<1> QED BY <1>1, <1>2, <1>3, <1>4, <1>5, <1>6, <1>7, <1>8

(* Two keys of the client are two keys of macOS.                             *)
LEMMA MacKeysDiffer ==
    \A a, b \in ClientUsages : a # b => hid_to_macos_keycode(a) \notin {NoKey, hid_to_macos_keycode(b)}
BY MacKeys DEF NoKey

-----------------------------------------------------------------------------
(* Division, as to_absolute_axis rounds.                                     *)
LEMMA Quotient ==
    ASSUME NEW a \in Nat, NEW b \in Nat \ {0}
    PROVE  a \div b \in Nat /\ b * (a \div b) <= a /\ a < b * (a \div b) + b
OBVIOUS

(* A quotient is the only number between its bounds.                         *)
LEMMA QuotientIs ==
    ASSUME NEW a \in Nat, NEW b \in Nat \ {0}, NEW q \in Nat, b * q <= a, a < b * q + b
    PROVE  a \div b = q
OBVIOUS

(* A quotient grows with the dividend, by one for each divisor added.        *)
LEMMA QuotientGrows ==
    ASSUME NEW a \in Nat, NEW c \in Nat, NEW b \in Nat \ {0}, a <= c
    PROVE  /\ a \div b <= c \div b
           /\ a + b <= c => a \div b < c \div b
OBVIOUS

(* The pixels of the desktop cover the axis of SendInput from end to end, in *)
(* order.                                                                    *)
AxisInOrder(span, o) ==
    /\ to_absolute_axis(o, o, span) = 0 /\ to_absolute_axis(o - 1, o, span) = 0
    /\ to_absolute_axis(o + span, o, span) = 65535
    /\ \A x \in o .. o + span - 2 :
          /\ to_absolute_axis(x, o, span) <= to_absolute_axis(x + 1, o, span)
          /\ span <= 65536 => to_absolute_axis(x, o, span) # to_absolute_axis(x + 1, o, span)

(* The axis keeps the order of the pixels, for any span and origin.          *)
LEMMA AxisCovered ==
    \A span \in Nat \ {0, 1}, o \in Int : AxisInOrder(span, o)
<1> TAKE span \in Nat \ {0, 1}, o \in Int
<1> DEFINE s == span - 1
<1> DEFINE place(p) == (2 * p * 65535 + s) \div (2 * s)
<1>0. s \in Nat \ {0}
  OBVIOUS
<1>1. \A x \in Int : x - o \in 0 .. s => to_absolute_axis(x, o, span) = place(x - o)
  BY DEF to_absolute_axis
<1>2. to_absolute_axis(o, o, span) = place(0) /\ to_absolute_axis(o - 1, o, span) = place(0)
  BY DEF to_absolute_axis
<1>3. to_absolute_axis(o + span, o, span) = place(s)
  BY DEF to_absolute_axis
<1>4. place(0) = 0
  <2>1. s \in Nat /\ 2 * s \in Nat \ {0} /\ 2 * 0 * 65535 + s = s /\ (2 * s) * 0 <= s /\ s < (2 * s) * 0 + 2 * s
    BY <1>0
  <2> HIDE DEF s
  <2>2. s \div (2 * s) = 0
    BY <2>1, QuotientIs
  <2> QED BY <2>1, <2>2
<1>5. place(s) = 65535
  <2> DEFINE a == 2 * s * 65535 + s
  <2>1. /\ a \in Nat /\ 2 * s \in Nat \ {0}
        /\ (2 * s) * 65535 <= a /\ a < (2 * s) * 65535 + 2 * s
    BY <1>0
  <2> HIDE DEF s, a
  <2>2. a \div (2 * s) = 65535
    BY <2>1, QuotientIs
  <2> QED BY <2>2 DEF a
<1>6. ASSUME NEW p \in 0 .. s - 1
      PROVE  place(p) \in Nat /\ place(p + 1) \in Nat /\ place(p) <= place(p + 1)
             /\ (s <= 65535 => place(p) < place(p + 1))
  <2> DEFINE a == 2 * p * 65535 + s
  <2> DEFINE c == 2 * (p + 1) * 65535 + s
  <2>1. /\ a \in Nat /\ c \in Nat /\ 2 * s \in Nat \ {0} /\ a <= c
        /\ s <= 65535 => a + 2 * s <= c
    BY <1>0
  <2> HIDE DEF s, a, c
  <2>2. /\ a \div (2 * s) \in Nat /\ c \div (2 * s) \in Nat
        /\ a \div (2 * s) <= c \div (2 * s)
        /\ s <= 65535 => a \div (2 * s) < c \div (2 * s)
    BY <2>1, Quotient, QuotientGrows
  <2> QED BY <2>2 DEF a, c
<1>7. ASSUME NEW x \in o .. o + span - 2
      PROVE  /\ to_absolute_axis(x, o, span) <= to_absolute_axis(x + 1, o, span)
             /\ span <= 65536 => to_absolute_axis(x, o, span) # to_absolute_axis(x + 1, o, span)
  <2> DEFINE p == x - o
  <2>1. /\ p \in 0 .. s - 1 /\ x \in Int /\ x + 1 \in Int /\ (x + 1) - o = p + 1
        /\ x - o \in 0 .. s /\ (x + 1) - o \in 0 .. s
        /\ span <= 65536 => s <= 65535
    BY <1>0
  <2>2. to_absolute_axis(x, o, span) = place(p) /\ to_absolute_axis(x + 1, o, span) = place(p + 1)
    BY <1>1, <2>1
  <2> HIDE DEF s, p, place
  <2>3. /\ place(p) \in Nat /\ place(p + 1) \in Nat /\ place(p) <= place(p + 1)
        /\ s <= 65535 => place(p) < place(p + 1)
    BY <1>6, <2>1
  <2> QED BY <2>1, <2>2, <2>3
<1> HIDE DEF s, place
<1> QED BY <1>2, <1>3, <1>4, <1>5, <1>7 DEF AxisInOrder

-----------------------------------------------------------------------------
(* While a frame's events are sent before the next frame has any, the host   *)
(* gets exactly what the user did, in order and each click at the place of   *)
(* the pointer; nothing is injected twice; the key tables and the axis lose  *)
(* nothing (forward_input, inject).                                          *)
THEOREM InputKeepsOrder == InputSpec => []InputOrder
<1> DEFINE Inv == EventsCount /\ (~overlapped => InjectedInOrder /\ QueuedInOrder)
<1>1. InputInit => Inv
  <2> SUFFICES ASSUME InputInit PROVE EventsCount /\ InjectedInOrder /\ QueuedInOrder
    OBVIOUS
  <2>1. /\ Len(typed) = 0 /\ Len(onTheWay) = 0 /\ Len(injected) = 0 /\ Len(tasks) = 0
        /\ lastPos = NoPosition
    BY EmptySeq DEF InputInit
  <2>2. Unsent = {}
    BY <2>1 DEF Unsent
  <2>3. EventsCount
    BY <2>1, <2>2, FS_EmptySet DEF EventsCount
  <2>4. InjectedInOrder
    BY <2>1 DEF InjectedInOrder, Pointed, NoMove
  <2>5. QueuedInOrder
    BY <2>1 DEF QueuedInOrder, Backlog
  <2> QED BY <2>3, <2>4, <2>5
<1>2. Inv /\ InputTypeOK /\ [InputNext]_inputVars => Inv'
  <2> SUFFICES ASSUME Inv, InputTypeOK, [InputNext]_inputVars PROVE Inv'
    OBVIOUS
  <2>1. EventsCount'
    BY CountKept
  <2>2. ~overlapped' => (InjectedInOrder /\ QueuedInOrder)'
    BY OrderKept
  <2> QED BY <2>1, <2>2
<1>3. Inv /\ InputTypeOK => InputOrder
  <2> SUFFICES ASSUME Inv, InputTypeOK PROVE InputOrder
    OBVIOUS
  <2>1. /\ Len(injected) \in Nat /\ Len(typed) \in Nat /\ Len(onTheWay) \in Nat
        /\ Cardinality(Unsent) \in Nat /\ DOMAIN injected = 1 .. Len(injected)
    BY InputFields, FS_CardinalityType DEF EventsCount
  <2>2. Len(injected) <= Len(typed)
    BY <2>1 DEF EventsCount
  <2>3. ASSUME ~overlapped, NEW n \in DOMAIN injected
        PROVE  injected[n] = [event |-> typed[n], pos |-> PointerAfter(n)]
    <3>1. n \in 1 .. Len(injected) /\ n \in Nat
      BY <2>1
    <3>2. PICK pos \in Positions \cup {NoPosition} :
             injected[n] = [event |-> typed[n], pos |-> pos] /\ Pointed(typed, n, pos)
      BY <2>3, <3>1 DEF InjectedInOrder
    <3>3. pos = PointerAfter(n)
      BY <3>1, <3>2, PointedIs
    <3> QED BY <3>2, <3>3
  <2>4. \A a, b \in ClientUsages : a # b =>
           /\ hid_to_vk(a) \notin {NoKey, hid_to_vk(b)}
           /\ hid_to_macos_keycode(a) \notin {NoKey, hid_to_macos_keycode(b)}
    BY WindowsKeysDiffer, MacKeysDiffer
  <2>5. \A span \in DesktopSpans, o \in DesktopOrigins : AxisInOrder(span, o)
    <3>1. DesktopSpans \subseteq Nat \ {0, 1} /\ DesktopOrigins \subseteq Int
      BY InputAssumption
    <3> QED BY <3>1, AxisCovered
  <2> QED BY <2>2, <2>3, <2>4, <2>5 DEF InputOrder, AxisInOrder
<1> HIDE DEF Inv
<1> QED BY <1>1, <1>2, <1>3, InputTyped, PTL DEF InputSpec

-----------------------------------------------------------------------------
(* ClientPlayback                                                             *)

Packets == [packet : Nat, frames : DecodedFrames \cap Nat]
Samples == [packet : Nat, frame : Nat, from : SUBSET (1 .. InputChannels)]

InPlace(seq) == \A i \in 1 .. Len(seq) : seq[i].from = SourceChannels(ChannelAt(i))

(* The rates and channels are positive.                                      *)
LEMMA PlaybackBounds ==
    /\ InputRate \in Nat \ {0} /\ InputChannels \in Nat \ {0} /\ QueueSeconds \in Nat \ {0}
    /\ \A d \in OutputDevices : d.rate \in Nat \ {0} /\ d.channels \in Nat \ {0}
    /\ MaxAudioPackets \in Nat /\ CallbackFrames \subseteq Nat
BY PlaybackAssumption

(* A number c * q + r has the quotient q and the remainder r.                *)
LEMMA RemainderIs ==
    ASSUME NEW c \in Nat \ {0}, NEW q \in Nat, NEW r \in 0 .. c - 1
    PROVE  (c * q + r) % c = r /\ (c * q + r) \div c = q
<1> DEFINE a == c * q + r
<1>1. c * q \in Nat
  OBVIOUS
<1>2. a \in Nat /\ c * q <= a /\ a < c * q + c
  BY <1>1
<1>3. a \div c = q
  BY <1>2
<1>4. \A x \in Nat : x % c \in Nat /\ x = c * (x \div c) + (x % c)
  OBVIOUS
<1>5. a % c \in Nat /\ a = c * q + (a % c)
  BY <1>2, <1>3, <1>4
<1>6. \A y \in Nat : c * q + r = c * q + y => r = y
  BY <1>1
<1> QED BY <1>3, <1>5, <1>6

(* Whole frames do not move a place to another channel.                      *)
LEMMA WholeFrames ==
    ASSUME NEW c \in Nat \ {0}, NEW n \in Nat, NEW k \in Nat
    PROVE  (k + n * c) % c = k % c
<1> DEFINE q == k \div c
<1> DEFINE r == k % c
<1>1. q \in Nat
  OBVIOUS
<1>2. r \in 0 .. c - 1
  OBVIOUS
<1>3. k = c * q + r
  OBVIOUS
<1> HIDE DEF q, r
<1>4. c * (q + n) + r = k + n * c
  BY <1>1, <1>2, <1>3
<1>5. q + n \in Nat
  BY <1>1
<1>6. (c * (q + n) + r) % c = r
  BY <1>2, <1>5, RemainderIs
<1> QED BY <1>4, <1>6 DEF r

(* The frame that an output frame comes from, in order and inside its packet.*)
LEMMA SourceGrows ==
    ASSUME NEW a \in Nat, NEW b \in Nat, a <= b, NEW r \in Nat \ {0}
    PROVE  (a * InputRate) \div r <= (b * InputRate) \div r /\ (a * InputRate) \div r \in Nat
           /\ (b * InputRate) \div r \in Nat
<1> DEFINE x == a * InputRate
<1> DEFINE y == b * InputRate
<1>1. x \in Nat /\ y \in Nat /\ x <= y
  BY PlaybackBounds
<1> HIDE DEF x, y
<1>2. x \div r <= y \div r /\ x \div r \in Nat /\ y \div r \in Nat
  BY <1>1
<1> QED BY <1>2 DEF x, y

(* A frame of the output is resampled from a frame of the packet.            *)
LEMMA SourceInside ==
    ASSUME device \in OutputDevices, NEW frames \in Nat, NEW k \in 0 .. OutputFrames(frames) - 1
    PROVE  frames > 0 /\ SourceOf(k, frames) \in 0 .. frames - 1
<1>1. frames > 0
  BY DEF OutputFrames
<1>2. k \in Nat
  OBVIOUS
<1>3. (k * InputRate) \div device.rate \in Nat
  BY <1>2, PlaybackBounds, SourceGrows
<1> HIDE DEF OutputFrames
<1> QED BY <1>1, <1>3 DEF SourceOf

(* A place of a callback or a packet is an output channel, made from input   *)
(* channels.                                                                 *)
LEMMA ChannelsTyped ==
    ASSUME device \in OutputDevices, NEW i \in Nat \ {0}
    PROVE  ChannelAt(i) \in 1 .. device.channels /\ SourceChannels(ChannelAt(i)) \subseteq 1 .. InputChannels
<1>1. (i - 1) % device.channels \in 0 .. device.channels - 1
  <2>1. i - 1 \in Nat /\ device.channels \in Nat \ {0}
    BY PlaybackBounds
  <2> QED BY <2>1
<1>2. ChannelAt(i) \in 1 .. device.channels
  BY <1>1, PlaybackBounds DEF ChannelAt
<1> QED BY <1>2, PlaybackBounds DEF SourceChannels

(* Whole frames further on is the same channel.                              *)
LEMMA ChannelRepeats ==
    ASSUME device \in OutputDevices, NEW i \in Nat \ {0}, NEW n \in Nat
    PROVE  ChannelAt(n * device.channels + i) = ChannelAt(i)
<1> DEFINE c == device.channels
<1>1. c \in Nat \ {0} /\ i - 1 \in Nat /\ (n * c + i) - 1 = (i - 1) + n * c
  BY PlaybackBounds
<1> HIDE DEF c
<1>2. ((i - 1) + n * c) % c = (i - 1) % c
  BY <1>1, WholeFrames
<1>3. ChannelAt(n * c + i) = (((n * c + i) - 1) % c) + 1 /\ ChannelAt(i) = ((i - 1) % c) + 1
  BY DEF ChannelAt, c
<1>4. ChannelAt(n * c + i) = ChannelAt(i)
  BY <1>1, <1>2, <1>3
<1> QED BY <1>4 DEF c

(* What a packet becomes.                                                    *)
LEMMA ResampledFrames ==
    ASSUME device \in OutputDevices, NEW m \in Packets
    PROVE  LET r == ResampleInterleaved(m)
           IN /\ r \in Seq(Samples) /\ OutputFrames(m.frames) \in Nat
              /\ Len(r) = OutputFrames(m.frames) * device.channels
              /\ InPlace(r) /\ InOrder(r)
              /\ \A i \in 1 .. Len(r) : r[i].packet = m.packet
<1> DEFINE r == ResampleInterleaved(m)
<1> DEFINE c == device.channels
<1> DEFINE frames == OutputFrames(m.frames)
<1>0. c \in Nat \ {0} /\ device.rate \in Nat \ {0} /\ m.frames \in Nat /\ m.packet \in Nat
  BY PlaybackBounds DEF Packets
<1>1. frames \in Nat
  <2>1. (m.frames * device.rate) \div InputRate \in Nat
    <3>1. m.frames * device.rate \in Nat
      BY <1>0
    <3> QED BY <3>1, PlaybackBounds
  <2> QED BY <2>1 DEF OutputFrames
<1>2. frames * c \in Nat
  BY <1>0, <1>1
<1> DEFINE at(i) == (i - 1) \div c
<1>3. r = [i \in 1 .. frames * c |-> [packet |-> m.packet, frame |-> SourceOf(at(i), m.frames),
                                    from |-> SourceChannels(ChannelAt(i))]]
  BY DEF ResampleInterleaved
<1>4. ASSUME NEW i \in 1 .. frames * c
      PROVE  at(i) \in 0 .. frames - 1 /\ i - 1 \in Nat
  <2>1. i - 1 \in Nat /\ i - 1 < frames * c
    BY <1>2
  <2> HIDE DEF c, frames
  <2>2. (i - 1) \div c \in Nat /\ c * ((i - 1) \div c) <= i - 1
    BY <1>0, <2>1
  <2> DEFINE q == (i - 1) \div c
  <2> HIDE DEF q
  <2>3. q \in Nat /\ c * q < frames * c
    BY <1>0, <1>2, <2>1, <2>2 DEF q
  <2>4. q < frames
    BY <1>0, <1>1, <2>3
  <2> QED BY <1>1, <2>1, <2>3, <2>4 DEF q
<1>5. ASSUME NEW i \in 1 .. frames * c
      PROVE  /\ SourceOf(at(i), m.frames) \in 0 .. m.frames - 1
             /\ SourceChannels(ChannelAt(i)) \subseteq 1 .. InputChannels
  BY <1>0, <1>2, <1>4, SourceInside, ChannelsTyped
<1>6. ASSUME NEW i \in 1 .. frames * c, i + 1 \in 1 .. frames * c
      PROVE  SourceOf(at(i), m.frames) <= SourceOf(at(i + 1), m.frames)
  <2>1. at(i) \in Nat /\ at(i + 1) \in Nat /\ at(i) <= at(i + 1)
    <3>1. i - 1 \in Nat /\ (i + 1) - 1 \in Nat /\ i - 1 <= (i + 1) - 1
      BY <1>4
    <3> DEFINE x == i - 1
    <3> DEFINE y == (i + 1) - 1
    <3> HIDE DEF x, y, c
    <3>2. x \div c <= y \div c /\ x \div c \in Nat /\ y \div c \in Nat
      BY <1>0, <3>1 DEF x, y
    <3> QED BY <3>2 DEF x, y
  <2> DEFINE x == at(i)
  <2> DEFINE y == at(i + 1)
  <2> HIDE DEF x, y, at
  <2>2. x \in Nat /\ y \in Nat /\ x <= y
    BY <2>1 DEF x, y
  <2>3. /\ (x * InputRate) \div device.rate <= (y * InputRate) \div device.rate
        /\ (x * InputRate) \div device.rate \in Nat /\ (y * InputRate) \div device.rate \in Nat
    BY <1>0, <2>2, SourceGrows
  <2>4. SourceOf(x, m.frames) <= SourceOf(y, m.frames)
    BY <1>0, <2>3 DEF SourceOf
  <2> QED BY <2>4 DEF x, y
<1> HIDE DEF at, frames, c
<1>7. ASSUME NEW i \in 1 .. frames * c
      PROVE  /\ r[i] \in Samples /\ r[i].packet = m.packet /\ r[i].frame = SourceOf(at(i), m.frames)
             /\ r[i].from = SourceChannels(ChannelAt(i))
  BY <1>0, <1>3, <1>5 DEF Samples
<1>8. r \in Seq(Samples) /\ Len(r) = frames * c
  <2>1. r \in [1 .. frames * c -> Samples]
    BY <1>3, <1>7
  <2> HIDE DEF r
  <2> QED BY <1>2, <2>1
<1> HIDE DEF r
<1>9. InPlace(r)
  BY <1>7, <1>8 DEF InPlace
<1>10. InOrder(r)
  <2> SUFFICES ASSUME NEW i \in 1 .. Len(r) - 1
               PROVE  r[i].packet = r[i + 1].packet /\ r[i].frame <= r[i + 1].frame
    BY DEF InOrder
  <2>1. i \in 1 .. frames * c /\ i + 1 \in 1 .. frames * c
    BY <1>2, <1>8
  <2> QED BY <1>6, <1>7, <2>1
<1>11. r \in Seq(Samples) /\ frames \in Nat /\ Len(r) = frames * c /\ InPlace(r) /\ InOrder(r)
       /\ \A i \in 1 .. Len(r) : r[i].packet = m.packet
  BY <1>1, <1>7, <1>8, <1>9, <1>10
<1> QED BY <1>11 DEF r, frames, c

(* What is left when whole frames are taken from the front.                  *)
LEMMA FramesTaken ==
    ASSUME device \in OutputDevices, NEW seq \in Seq(Samples), NEW n \in Nat, InPlace(seq), InOrder(seq)
    PROVE  LET rest == SubSeq(seq, n * device.channels + 1, Len(seq))
           IN /\ rest \in Seq(Samples) /\ InPlace(rest) /\ InOrder(rest)
              /\ Len(rest) = IF n * device.channels <= Len(seq) THEN Len(seq) - n * device.channels ELSE 0
              /\ \A i \in 1 .. Len(rest) : \E j \in 1 .. Len(seq) : rest[i] = seq[j]
<1> DEFINE c == device.channels
<1> DEFINE rest == SubSeq(seq, n * c + 1, Len(seq))
<1>0. c \in Nat \ {0} /\ Len(seq) \in Nat
  BY PlaybackBounds, LenProperties
<1>1. n * c \in Nat
  BY <1>0
<1>2. /\ n * c + 1 \in Int /\ Len(seq) \in Int
      /\ \A i \in n * c + 1 .. Len(seq) : seq[i] \in Samples
  BY <1>0, <1>1, ElementOfSeq
<1> DEFINE k == n * c
<1> HIDE DEF c
<1>3. /\ rest \in Seq(Samples)
      /\ Len(rest) = IF k + 1 <= Len(seq) THEN Len(seq) - (k + 1) + 1 ELSE 0
      /\ \A i \in 1 .. Len(seq) - (k + 1) + 1 : rest[i] = seq[(k + 1) + i - 1]
  <2> HIDE DEF k
  <2>1. k \in Nat /\ k + 1 \in Int /\ rest = SubSeq(seq, k + 1, Len(seq))
    BY <1>1 DEF k
  <2>2. \A i \in k + 1 .. Len(seq) : seq[i] \in Samples
    BY <1>2 DEF k
  <2> HIDE DEF rest
  <2> QED BY <1>0, <2>1, <2>2, SubSeqProperties
<1> HIDE DEF rest
<1>4. k \in Nat
  BY <1>1
<1> HIDE DEF k
<1>5. Len(rest) \in Nat /\ Len(rest) = IF k <= Len(seq) THEN Len(seq) - k ELSE 0
  BY <1>0, <1>3, <1>4
<1>6. ASSUME NEW i \in 1 .. Len(rest)
      PROVE  rest[i] = seq[k + i] /\ k + i \in 1 .. Len(seq)
  <2>1. i \in 1 .. Len(seq) - (k + 1) + 1 /\ (k + 1) + i - 1 = k + i /\ k + i \in 1 .. Len(seq)
    BY <1>0, <1>4, <1>5
  <2> QED BY <1>3, <2>1
<1>7. InPlace(rest)
  <2> SUFFICES ASSUME NEW i \in 1 .. Len(rest) PROVE rest[i].from = SourceChannels(ChannelAt(i))
    BY DEF InPlace
  <2>1. ChannelAt(k + i) = ChannelAt(i)
    <3>1. i \in Nat \ {0}
      BY <1>5
    <3> QED BY <3>1, ChannelRepeats DEF k, c
  <2> QED BY <1>6, <2>1 DEF InPlace
<1>8. InOrder(rest)
  <2> SUFFICES ASSUME NEW i \in 1 .. Len(rest) - 1
               PROVE  \/ rest[i].packet < rest[i + 1].packet
                      \/ rest[i].packet = rest[i + 1].packet /\ rest[i].frame <= rest[i + 1].frame
    BY DEF InOrder
  <2>1. i \in 1 .. Len(rest) /\ i + 1 \in 1 .. Len(rest)
    BY <1>5
  <2>2. rest[i] = seq[k + i] /\ rest[i + 1] = seq[(k + i) + 1] /\ k + i \in 1 .. Len(seq) - 1
    <3>1. k + (i + 1) = (k + i) + 1
      BY <1>4, <2>1
    <3>2. rest[i + 1] = seq[k + (i + 1)] /\ k + (i + 1) \in 1 .. Len(seq) /\ k + i \in 1 .. Len(seq)
      BY <1>6, <2>1
    <3>3. k + i \in 1 .. Len(seq) - 1
      BY <1>0, <3>1, <3>2
    <3> QED BY <1>6, <2>1, <3>1, <3>2, <3>3
  <2> QED BY <2>2 DEF InOrder
<1>9. \A i \in 1 .. Len(rest) : \E j \in 1 .. Len(seq) : rest[i] = seq[j]
  BY <1>6
<1>10. Len(rest) = IF n * c <= Len(seq) THEN Len(seq) - n * c ELSE 0
  BY <1>5 DEF k
<1> QED BY <1>3, <1>7, <1>8, <1>9, <1>10 DEF rest, c

(* A converted packet goes behind what waits from earlier packets.           *)
LEMMA PacketJoined ==
    ASSUME device \in OutputDevices, NEW s \in Seq(Samples), NEW t \in Seq(Samples),
           InPlace(s), InOrder(s), InPlace(t), InOrder(t),
           NEW n \in Nat, Len(s) = n * device.channels,
           \A i \in 1 .. Len(s), j \in 1 .. Len(t) : s[i].packet < t[j].packet
    PROVE  s \o t \in Seq(Samples) /\ InPlace(s \o t) /\ InOrder(s \o t) /\ Len(s \o t) = Len(s) + Len(t)
           /\ \A i \in 1 .. Len(s \o t) : \/ \E j \in 1 .. Len(s) : (s \o t)[i] = s[j]
                                         \/ \E j \in 1 .. Len(t) : (s \o t)[i] = t[j]
<1> DEFINE all == s \o t
<1>1. /\ all \in Seq(Samples) /\ Len(all) = Len(s) + Len(t) /\ Len(s) \in Nat /\ Len(t) \in Nat
      /\ \A i \in 1 .. Len(s) + Len(t) : all[i] = IF i <= Len(s) THEN s[i] ELSE t[i - Len(s)]
  BY ConcatProperties, LenProperties
<1> HIDE DEF all
<1>2. \A i \in 1 .. Len(s) : i \in 1 .. Len(all) /\ all[i] = s[i]
  BY <1>1
<1>3. ASSUME NEW j \in 1 .. Len(t)
      PROVE  Len(s) + j \in 1 .. Len(all) /\ all[Len(s) + j] = t[j]
  <2>1. Len(s) + j \in 1 .. Len(s) + Len(t) /\ ~(Len(s) + j <= Len(s)) /\ (Len(s) + j) - Len(s) = j
    BY <1>1
  <2> QED BY <1>1, <2>1
<1>4. ASSUME NEW i \in 1 .. Len(all)
      PROVE  i \in 1 .. Len(s) \/ \E j \in 1 .. Len(t) : i = Len(s) + j
  <2>1. CASE i <= Len(s)
    BY <1>1, <2>1
  <2>2. CASE ~(i <= Len(s))
    <3>1. i - Len(s) \in 1 .. Len(t) /\ i = Len(s) + (i - Len(s))
      BY <1>1, <2>2
    <3> QED BY <3>1
  <2> QED BY <2>1, <2>2
<1>5. InPlace(all)
  <2> SUFFICES ASSUME NEW i \in 1 .. Len(all) PROVE all[i].from = SourceChannels(ChannelAt(i))
    BY DEF InPlace
  <2>1. CASE i \in 1 .. Len(s)
    BY <1>2, <2>1 DEF InPlace
  <2>2. ASSUME NEW j \in 1 .. Len(t), i = Len(s) + j PROVE all[i].from = SourceChannels(ChannelAt(i))
    <3>1. ChannelAt(Len(s) + j) = ChannelAt(j)
      <4>1. j \in Nat \ {0}
        OBVIOUS
      <4> QED BY <4>1, ChannelRepeats
    <3> QED BY <1>3, <2>2, <3>1 DEF InPlace
  <2> QED BY <1>4, <2>1, <2>2
<1>6. InOrder(all)
  <2> SUFFICES ASSUME NEW i \in 1 .. Len(all) - 1
               PROVE  \/ all[i].packet < all[i + 1].packet
                      \/ all[i].packet = all[i + 1].packet /\ all[i].frame <= all[i + 1].frame
    BY DEF InOrder
  <2>1. CASE i < Len(s)
    <3>1. i \in 1 .. Len(s) - 1 /\ i \in 1 .. Len(s) /\ i + 1 \in 1 .. Len(s)
      BY <1>1, <2>1
    <3> QED BY <1>2, <3>1 DEF InOrder
  <2>2. CASE i = Len(s)
    <3>1. i \in 1 .. Len(s) /\ 1 \in 1 .. Len(t)
      BY <1>1, <2>2
    <3>2. all[i] = s[i] /\ all[i + 1] = t[1]
      BY <1>2, <1>3, <2>2, <3>1
    <3> QED BY <3>1, <3>2
  <2>3. CASE i > Len(s)
    <3>1. i \in 1 .. Len(all) /\ ~(i \in 1 .. Len(s)) /\ i \in Nat /\ i + 1 <= Len(all)
      BY <1>1, <2>3
    <3>2. PICK j \in 1 .. Len(t) : i = Len(s) + j
      BY <1>4, <3>1
    <3>3. Len(s) + j + 1 <= Len(s) + Len(t)
      BY <1>1, <3>1, <3>2
    <3>4. j \in 1 .. Len(t) - 1 /\ j + 1 \in 1 .. Len(t)
      BY <1>1, <3>3
    <3>5. all[i] = t[j]
      BY <1>3, <3>2
    <3>6. all[i + 1] = t[j + 1]
      <4>1. i + 1 = Len(s) + (j + 1)
        <5>1. j \in Int /\ Len(s) \in Int
          BY <1>1
        <5>a. \A x, y \in Int : (x + y) + 1 = x + (y + 1)
          OBVIOUS
        <5>2. (Len(s) + j) + 1 = Len(s) + (j + 1)
          BY <5>1, <5>a
        <5> QED BY <3>2, <5>2
      <4> QED BY <1>3, <3>4, <4>1
    <3> QED BY <3>4, <3>5, <3>6 DEF InOrder
  <2> QED BY <1>1, <2>1, <2>2, <2>3
<1>7. \A i \in 1 .. Len(all) : \/ \E j \in 1 .. Len(s) : all[i] = s[j]
                              \/ \E j \in 1 .. Len(t) : all[i] = t[j]
  BY <1>2, <1>3, <1>4
<1> QED BY <1>1, <1>5, <1>6, <1>7 DEF all

-----------------------------------------------------------------------------
(* The variables, with the types of what the sequences hold.                 *)
PlaybackFields ==
    /\ device \in OutputDevices
    /\ sinkAt \in {"starting", "open", "disabled", "dropped"}
    /\ streamAt \in {"none", "playing", "ended"}
    /\ packetsHeard \in 0 .. MaxAudioPackets
    /\ decodedQueue \in Seq(Packets) /\ samples \in Seq(Samples) /\ output \in Seq(Samples)

(* What waits in the channel are packets received, in their order.           *)
QueueInOrder ==
    /\ \A i \in 1 .. Len(decodedQueue) : decodedQueue[i].packet \in 1 .. packetsHeard
    /\ \A i, j \in 1 .. Len(decodedQueue) : i < j => decodedQueue[i].packet < decodedQueue[j].packet

(* What waits in the buffer comes from packets before those.                 *)
BufferBeforeQueue ==
    /\ \A i \in 1 .. Len(samples) : samples[i].packet <= packetsHeard
    /\ \A i \in 1 .. Len(samples), j \in 1 .. Len(decodedQueue) : samples[i].packet < decodedQueue[j].packet

(* The buffer holds whole frames, each sample at the place of its channel.   *)
BufferInPlace ==
    /\ InPlace(samples) /\ InOrder(samples)
    /\ \E n \in Nat : Len(samples) = n * device.channels
    /\ Len(samples) <= MaxSamples

OutputInPlace ==
    /\ \A i \in 1 .. Len(output) : output[i].packet <= packetsHeard
    /\ \A i \in 1 .. Len(output) : output[i] = Silence \/ output[i].from = SourceChannels(ChannelAt(i))

PlaybackInv == PlaybackFields /\ QueueInOrder /\ BufferBeforeQueue /\ BufferInPlace /\ OutputInPlace

(* The lengths and the elements of the sequences.                            *)
LEMMA PlaybackLengths ==
    ASSUME PlaybackFields
    PROVE  /\ Len(decodedQueue) \in Nat /\ Len(samples) \in Nat /\ Len(output) \in Nat /\ packetsHeard \in Nat
           /\ DOMAIN decodedQueue = 1 .. Len(decodedQueue) /\ DOMAIN samples = 1 .. Len(samples)
           /\ DOMAIN output = 1 .. Len(output)
           /\ \A i \in 1 .. Len(decodedQueue) : decodedQueue[i] \in Packets
           /\ \A i \in 1 .. Len(samples) : samples[i] \in Samples
           /\ \A i \in 1 .. Len(output) : output[i] \in Samples
<1>1. /\ decodedQueue \in Seq(Packets) /\ samples \in Seq(Samples) /\ output \in Seq(Samples)
      /\ packetsHeard \in Nat
  BY PlaybackBounds DEF PlaybackFields
<1> QED BY <1>1, LenProperties, ElementOfSeq

(* A step that leaves device, buffer, channel and output alone.              *)
LEMMA PlaybackKept ==
    ASSUME PlaybackInv, PlaybackFields', UNCHANGED <<device, samples, output, decodedQueue>>,
           packetsHeard \in Nat, packetsHeard' \in Nat, packetsHeard <= packetsHeard'
    PROVE  PlaybackInv'
<1>1. BufferInPlace'
  BY DEF PlaybackInv, BufferInPlace, InPlace, InOrder, SourceChannels, ChannelAt, MaxSamples
<1>2. QueueInOrder'
  BY DEF PlaybackInv, QueueInOrder
<1>3. \A i \in 1 .. Len(samples) : samples[i].packet \in Nat
  BY PlaybackLengths DEF PlaybackInv, Samples
<1>4. BufferBeforeQueue'
  BY <1>3 DEF PlaybackInv, BufferBeforeQueue
<1>5. \A i \in 1 .. Len(output) : output[i].packet \in Nat
  BY PlaybackLengths DEF PlaybackInv, Samples
<1>6. OutputInPlace'
  <2>1. \A i \in 1 .. Len(output) : output[i].packet <= packetsHeard'
    BY <1>5 DEF PlaybackInv, OutputInPlace
  <2>2. \A i \in 1 .. Len(output') : output'[i] = Silence \/ output'[i].from = SourceChannels(ChannelAt(i))'
    BY DEF PlaybackInv, OutputInPlace, SourceChannels, ChannelAt
  <2> QED BY <2>1, <2>2 DEF OutputInPlace
<1> QED BY <1>1, <1>2, <1>4, <1>6 DEF PlaybackInv

(* A packet arrives.                                                         *)
LEMMA ReceiveKeeps ==
    ASSUME PlaybackInv, NEW frames \in DecodedFrames, ReceiveAudio(frames)
    PROVE  PlaybackInv'
<1>0. /\ Len(decodedQueue) \in Nat /\ packetsHeard \in Nat /\ decodedQueue \in Seq(Packets)
      /\ frames \in Int /\ packetsHeard < MaxAudioPackets /\ packetsHeard' = packetsHeard + 1
      /\ MaxAudioPackets \in Nat
  BY PlaybackLengths, PlaybackBounds, PlaybackAssumption DEF PlaybackInv, PlaybackFields, ReceiveAudio
<1>1. CASE decodedQueue' = decodedQueue
  <2>1. PlaybackFields'
    BY <1>0, <1>1 DEF PlaybackInv, PlaybackFields, ReceiveAudio
  <2>2. UNCHANGED <<device, samples, output, decodedQueue>>
    BY <1>1 DEF ReceiveAudio
  <2> QED BY <1>0, <2>1, <2>2, PlaybackKept
<1>2. CASE decodedQueue' = Append(decodedQueue, [packet |-> packetsHeard + 1, frames |-> frames]) /\ ~(frames < 0)
  <2> DEFINE m == [packet |-> packetsHeard + 1, frames |-> frames]
  <2>1. m \in Packets /\ m.packet = packetsHeard + 1
    BY <1>0, <1>2 DEF Packets
  <2> HIDE DEF m
  <2>2. /\ decodedQueue' \in Seq(Packets) /\ Len(decodedQueue') = Len(decodedQueue) + 1
        /\ \A i \in 1 .. Len(decodedQueue) : decodedQueue'[i] = decodedQueue[i]
        /\ decodedQueue'[Len(decodedQueue) + 1] = m
    BY <1>0, <1>2, <2>1, AppendProperties DEF m
  <2>3. PlaybackFields'
    BY <1>0, <2>2 DEF PlaybackInv, PlaybackFields, ReceiveAudio
  <2>4. UNCHANGED <<device, samples, output>>
    BY DEF ReceiveAudio
  <2>5. BufferInPlace'
    BY <2>4 DEF PlaybackInv, BufferInPlace, InPlace, InOrder, SourceChannels, ChannelAt, MaxSamples
  <2>6. OutputInPlace'
    <3>1. \A i \in 1 .. Len(output) : output[i].packet \in Nat
      BY PlaybackLengths DEF PlaybackInv, Samples
    <3>2. \A i \in 1 .. Len(output) : output[i].packet <= packetsHeard'
      BY <1>0, <3>1 DEF PlaybackInv, OutputInPlace
    <3>3. \A i \in 1 .. Len(output') : output'[i] = Silence \/ output'[i].from = SourceChannels(ChannelAt(i))'
      BY <2>4 DEF PlaybackInv, OutputInPlace, SourceChannels, ChannelAt
    <3> QED BY <2>4, <3>2, <3>3 DEF OutputInPlace
  <2>7. ASSUME NEW j \in 1 .. Len(decodedQueue')
        PROVE  j \in 1 .. Len(decodedQueue) \/ j = Len(decodedQueue) + 1
    BY <1>0, <2>2
  <2>8. QueueInOrder'
    <3>1. \A i \in 1 .. Len(decodedQueue) : decodedQueue[i].packet \in 1 .. packetsHeard
      BY DEF PlaybackInv, QueueInOrder
    <3>2. \A i \in 1 .. Len(decodedQueue') : decodedQueue'[i].packet \in 1 .. packetsHeard'
      BY <1>0, <2>1, <2>2, <2>7, <3>1
    <3>3. ASSUME NEW i \in 1 .. Len(decodedQueue'), NEW j \in 1 .. Len(decodedQueue'), i < j
          PROVE  decodedQueue'[i].packet < decodedQueue'[j].packet
      <4>1. i \in 1 .. Len(decodedQueue)
        BY <1>0, <2>2, <3>3
      <4>2. CASE j \in 1 .. Len(decodedQueue)
        BY <2>2, <3>3, <4>1, <4>2 DEF PlaybackInv, QueueInOrder
      <4>3. CASE j = Len(decodedQueue) + 1
        BY <1>0, <2>1, <2>2, <3>1, <4>1, <4>3
      <4> QED BY <2>7, <4>2, <4>3
    <3> QED BY <3>2, <3>3 DEF QueueInOrder
  <2>9. BufferBeforeQueue'
    <3>1. \A i \in 1 .. Len(samples) : samples[i].packet \in Nat /\ samples[i].packet <= packetsHeard
      BY PlaybackLengths DEF PlaybackInv, BufferBeforeQueue, Samples
    <3>2. ASSUME NEW i \in 1 .. Len(samples), NEW j \in 1 .. Len(decodedQueue')
          PROVE  samples[i].packet < decodedQueue'[j].packet
      <4>1. CASE j \in 1 .. Len(decodedQueue)
        BY <2>2, <4>1 DEF PlaybackInv, BufferBeforeQueue
      <4>2. CASE j = Len(decodedQueue) + 1
        BY <1>0, <2>1, <2>2, <3>1, <4>2
      <4> QED BY <2>7, <4>1, <4>2
    <3> QED BY <1>0, <2>4, <3>1, <3>2 DEF BufferBeforeQueue
  <2> QED BY <2>3, <2>5, <2>6, <2>8, <2>9 DEF PlaybackInv
<1> QED BY <1>1, <1>2 DEF ReceiveAudio

(* The thread takes a packet into the buffer.                                *)
LEMMA QueueKeeps ==
    ASSUME PlaybackInv, QueueSamples
    PROVE  PlaybackInv'
<1> DEFINE m == Head(decodedQueue)
<1> DEFINE r == ResampleInterleaved(m)
<1> DEFINE all == samples \o r
<1> DEFINE c == device.channels
<1>0. /\ Len(decodedQueue) \in Nat /\ packetsHeard \in Nat /\ decodedQueue \in Seq(Packets)
      /\ decodedQueue # <<>> /\ samples \in Seq(Samples) /\ device \in OutputDevices
      /\ c \in Nat \ {0} /\ device.rate \in Nat \ {0} /\ QueueSeconds \in Nat \ {0}
  BY PlaybackLengths, PlaybackBounds DEF PlaybackInv, PlaybackFields, QueueSamples
<1>1. /\ Len(decodedQueue) > 0 /\ m \in Packets /\ m = decodedQueue[1]
      /\ decodedQueue' \in Seq(Packets) /\ Len(decodedQueue') = Len(decodedQueue) - 1
      /\ \A i \in 1 .. Len(decodedQueue') : decodedQueue'[i] = decodedQueue[i + 1]
  BY <1>0, HeadTailProperties, EmptySeq DEF QueueSamples
<1> HIDE DEF m
<1>2. /\ r \in Seq(Samples) /\ OutputFrames(m.frames) \in Nat /\ Len(r) = OutputFrames(m.frames) * c
      /\ InPlace(r) /\ InOrder(r) /\ \A i \in 1 .. Len(r) : r[i].packet = m.packet
  BY <1>0, <1>1, ResampledFrames
<1> HIDE DEF r
<1>3. PICK n \in Nat : Len(samples) = n * c
  BY DEF PlaybackInv, BufferInPlace
<1>4. /\ all \in Seq(Samples) /\ InPlace(all) /\ InOrder(all) /\ Len(all) = Len(samples) + Len(r)
      /\ \A i \in 1 .. Len(all) : \/ \E j \in 1 .. Len(samples) : all[i] = samples[j]
                                \/ \E j \in 1 .. Len(r) : all[i] = r[j]
  <2>1. \A i \in 1 .. Len(samples), j \in 1 .. Len(r) : samples[i].packet < r[j].packet
    <3>1. 1 \in 1 .. Len(decodedQueue)
      BY <1>0, <1>1
    <3> QED BY <1>1, <1>2, <3>1 DEF PlaybackInv, BufferBeforeQueue
  <2>2. InPlace(samples) /\ InOrder(samples)
    BY DEF PlaybackInv, BufferInPlace
  <2> HIDE DEF c
  <2>3. Len(samples) = n * device.channels
    BY <1>3 DEF c
  <2> QED BY <1>0, <1>2, <2>1, <2>2, <2>3, PacketJoined
<1> DEFINE total == n + OutputFrames(m.frames)
<1> DEFINE most == device.rate * QueueSeconds
<1> DEFINE lost == IF total > most THEN total - most ELSE 0
<1>5. total \in Nat /\ most \in Nat /\ lost \in Nat /\ lost <= total /\ total - lost <= most
  <2>1. total \in Nat
    BY <1>2
  <2>2. most \in Nat
    BY <1>0
  <2> HIDE DEF total, most
  <2>3. lost \in Nat /\ lost <= total /\ total - lost <= most
    BY <2>1, <2>2
  <2> QED BY <2>1, <2>2, <2>3
<1>6. Len(all) = total * c /\ MaxSamples = most * c
  <2>1. Len(all) = total * c
    BY <1>0, <1>2, <1>3, <1>4
  <2>2. MaxSamples = most * c
    BY <1>0 DEF MaxSamples
  <2> QED BY <2>1, <2>2
<1>7. samples' = SubSeq(all, lost * c + 1, Len(all))
  <2>1. samples' = SubSeq(all, (IF Len(all) > MaxSamples THEN Len(all) - MaxSamples ELSE 0) + 1, Len(all))
    BY DEF QueueSamples, r, m
  <2> HIDE DEF all, total, most, c
  <2>2. (IF Len(all) > MaxSamples THEN Len(all) - MaxSamples ELSE 0) = lost * c
    <3>1. CASE total > most
      <4>1. total * c > most * c
        BY <1>0, <1>5, <3>1
      <4>2. (total - most) * c = total * c - most * c
        BY <1>0, <1>5
      <4> QED BY <1>6, <3>1, <4>1, <4>2
    <3>2. CASE ~(total > most)
      <4>1. ~(total * c > most * c)
        BY <1>0, <1>5, <3>2
      <4>2. lost = 0 /\ 0 * c = 0
        BY <1>0, <3>2
      <4> QED BY <1>6, <4>1, <4>2
    <3> QED BY <3>1, <3>2
  <2> HIDE DEF lost
  <2> QED BY <2>1, <2>2
<1> HIDE DEF all, total, most, lost
<1>8. /\ samples' \in Seq(Samples) /\ InPlace(samples') /\ InOrder(samples')
      /\ Len(samples') = IF lost * c <= Len(all) THEN Len(all) - lost * c ELSE 0
      /\ \A i \in 1 .. Len(samples') : \E j \in 1 .. Len(all) : samples'[i] = all[j]
  <2> DEFINE rest == SubSeq(all, lost * device.channels + 1, Len(all))
  <2>1. samples' = rest
    BY <1>7
  <2>2. /\ rest \in Seq(Samples) /\ InPlace(rest) /\ InOrder(rest)
        /\ Len(rest) = IF lost * device.channels <= Len(all) THEN Len(all) - lost * device.channels ELSE 0
        /\ \A i \in 1 .. Len(rest) : \E j \in 1 .. Len(all) : rest[i] = all[j]
    BY <1>0, <1>4, <1>5, FramesTaken
  <2> HIDE DEF rest
  <2> QED BY <2>1, <2>2
<1>9. Len(samples') = (total - lost) * c /\ total - lost \in Nat /\ Len(samples') <= MaxSamples
  <2> HIDE DEF c
  <2>1. lost * c <= total * c /\ total * c - lost * c = (total - lost) * c /\ (total - lost) * c <= most * c
    BY <1>0, <1>5
  <2>2. lost * c <= Len(all)
    BY <1>6, <2>1
  <2>3. Len(samples') = Len(all) - lost * c
    BY <1>8, <2>2
  <2>4. Len(samples') = (total - lost) * c
    BY <1>6, <2>1, <2>3
  <2>5. total - lost \in Nat
    BY <1>5
  <2> QED BY <1>6, <2>1, <2>4, <2>5
<1>10. UNCHANGED <<device, sinkAt, streamAt, packetsHeard, output>>
  BY DEF QueueSamples
<1>11. PlaybackFields'
  BY <1>1, <1>8, <1>10 DEF PlaybackInv, PlaybackFields
<1>12. BufferInPlace'
  <2>1. \E k \in Nat : Len(samples') = k * device'.channels
    BY <1>9, <1>10
  <2>2. InPlace(samples)' /\ InOrder(samples)'
    BY <1>8, <1>10 DEF InPlace, InOrder, SourceChannels, ChannelAt
  <2>3. Len(samples') <= MaxSamples'
    BY <1>9, <1>10 DEF MaxSamples
  <2> QED BY <2>1, <2>2, <2>3 DEF BufferInPlace
<1>13. ASSUME NEW i \in 1 .. Len(decodedQueue')
       PROVE  i + 1 \in 1 .. Len(decodedQueue) /\ decodedQueue'[i] = decodedQueue[i + 1]
  BY <1>0, <1>1
<1>14. QueueInOrder'
  <2>1. \A i \in 1 .. Len(decodedQueue') : decodedQueue'[i].packet \in 1 .. packetsHeard'
    BY <1>10, <1>13 DEF PlaybackInv, QueueInOrder
  <2>2. ASSUME NEW i \in 1 .. Len(decodedQueue'), NEW j \in 1 .. Len(decodedQueue'), i < j
        PROVE  decodedQueue'[i].packet < decodedQueue'[j].packet
    <3>1. i + 1 < j + 1
      BY <2>2
    <3> QED BY <1>13, <3>1 DEF PlaybackInv, QueueInOrder
  <2> QED BY <2>1, <2>2 DEF QueueInOrder
<1>15. ASSUME NEW i \in 1 .. Len(samples')
       PROVE  \/ samples'[i].packet = m.packet
              \/ \E j \in 1 .. Len(samples) : samples'[i] = samples[j]
  <2>1. PICK k \in 1 .. Len(all) : samples'[i] = all[k]
    BY <1>8
  <2> QED BY <1>2, <1>4, <2>1
<1>16. BufferBeforeQueue'
  <2>0. 1 \in 1 .. Len(decodedQueue)
    BY <1>0, <1>1
  <2>1. ASSUME NEW i \in 1 .. Len(samples') PROVE samples'[i].packet <= packetsHeard
    <3>1. m.packet <= packetsHeard
      BY <1>0, <1>1, <2>0 DEF PlaybackInv, QueueInOrder
    <3> QED BY <1>15, <3>1 DEF PlaybackInv, BufferBeforeQueue
  <2>2. ASSUME NEW i \in 1 .. Len(samples'), NEW j \in 1 .. Len(decodedQueue')
        PROVE  samples'[i].packet < decodedQueue'[j].packet
    <3>1. j + 1 \in 1 .. Len(decodedQueue) /\ decodedQueue'[j] = decodedQueue[j + 1] /\ 1 < j + 1
      BY <1>13
    <3>2. m.packet < decodedQueue[j + 1].packet
      BY <1>1, <2>0, <3>1 DEF PlaybackInv, QueueInOrder
    <3> QED BY <1>15, <3>1, <3>2 DEF PlaybackInv, BufferBeforeQueue
  <2> QED BY <1>10, <2>1, <2>2 DEF BufferBeforeQueue
<1>17. OutputInPlace'
  BY <1>10 DEF PlaybackInv, OutputInPlace, SourceChannels, ChannelAt
<1> QED BY <1>11, <1>12, <1>14, <1>16, <1>17 DEF PlaybackInv

(* The device's callback takes whole frames from the front.                  *)
LEMMA FillKeeps ==
    ASSUME PlaybackInv, NEW frames \in CallbackFrames, FillOutput(frames)
    PROVE  PlaybackInv'
<1>0. /\ samples \in Seq(Samples) /\ device \in OutputDevices /\ frames \in Nat
      /\ device.channels \in Nat \ {0} /\ packetsHeard \in Nat /\ Len(samples) \in Nat
      /\ device.rate \in Nat \ {0} /\ QueueSeconds \in Nat \ {0}
  BY PlaybackLengths, PlaybackBounds DEF PlaybackInv, PlaybackFields
<1>1. UNCHANGED <<device, sinkAt, streamAt, decodedQueue, packetsHeard>>
  BY DEF FillOutput
<1>2. InPlace(samples) /\ InOrder(samples)
  BY DEF PlaybackInv, BufferInPlace
<1>3. /\ samples' \in Seq(Samples) /\ InPlace(samples') /\ InOrder(samples')
      /\ Len(samples') = IF frames * device.channels <= Len(samples)
                        THEN Len(samples) - frames * device.channels ELSE 0
      /\ \A i \in 1 .. Len(samples') : \E j \in 1 .. Len(samples) : samples'[i] = samples[j]
  <2> DEFINE rest == SubSeq(samples, frames * device.channels + 1, Len(samples))
  <2>1. samples' = rest
    BY DEF FillOutput
  <2>2. /\ rest \in Seq(Samples) /\ InPlace(rest) /\ InOrder(rest)
        /\ Len(rest) = IF frames * device.channels <= Len(samples)
                      THEN Len(samples) - frames * device.channels ELSE 0
        /\ \A i \in 1 .. Len(rest) : \E j \in 1 .. Len(samples) : rest[i] = samples[j]
    BY <1>0, <1>2, FramesTaken
  <2> HIDE DEF rest
  <2> QED BY <2>1, <2>2
<1>4. BufferInPlace'
  <2>1. PICK n \in Nat : Len(samples) = n * device.channels
    BY DEF PlaybackInv, BufferInPlace
  <2>2. Len(samples) <= MaxSamples
    BY DEF PlaybackInv, BufferInPlace
  <2> DEFINE c == device.channels
  <2> DEFINE taken == frames * c
  <2>3. taken \in Nat
    BY <1>0
  <2>4. \E k \in Nat : Len(samples') = k * c
    <3>1. CASE frames <= n
      <4> HIDE DEF c
      <4>1. taken <= n * c /\ n * c - taken = (n - frames) * c /\ n - frames \in Nat
        BY <1>0, <2>1, <3>1 DEF c
      <4>2. Len(samples') = (n - frames) * c
        BY <1>3, <2>1, <4>1 DEF c
      <4> QED BY <4>1, <4>2
    <3>2. CASE ~(frames <= n)
      <4> HIDE DEF c
      <4>1. n * c < taken
        BY <1>0, <2>1, <3>2 DEF c
      <4>a. n * c \in Nat
        BY <1>0, <2>1 DEF c
      <4>2. Len(samples') = 0
        BY <1>3, <2>1, <2>3, <4>1, <4>a DEF c
      <4>3. 0 * c = 0
        BY <1>0 DEF c
      <4> QED BY <4>2, <4>3
    <3> QED BY <3>1, <3>2
  <2>5. Len(samples') <= Len(samples) /\ Len(samples') \in Nat
    <3> HIDE DEF taken
    <3>1. Len(samples') = IF taken <= Len(samples) THEN Len(samples) - taken ELSE 0
      BY <1>3 DEF taken
    <3> QED BY <1>0, <2>3, <3>1
  <2>6. MaxSamples \in Nat
    <3>1. device.rate * device.channels \in Nat
      BY <1>0
    <3> DEFINE perSecond == device.rate * device.channels
    <3> HIDE DEF perSecond
    <3>2. perSecond * QueueSeconds \in Nat
      BY <1>0, <3>1 DEF perSecond
    <3> QED BY <3>2 DEF MaxSamples, perSecond
  <2>7. Len(samples') <= MaxSamples'
    <3>1. MaxSamples' = MaxSamples
      BY <1>1 DEF MaxSamples
    <3> QED BY <1>0, <2>2, <2>5, <2>6, <3>1
  <2>8. InPlace(samples)' /\ InOrder(samples)'
    BY <1>1, <1>3 DEF InPlace, InOrder, SourceChannels, ChannelAt
  <2> QED BY <1>1, <2>4, <2>7, <2>8 DEF BufferInPlace
<1>5. BufferBeforeQueue'
  <2>1. \A i \in 1 .. Len(samples') : samples'[i].packet <= packetsHeard
    BY <1>3 DEF PlaybackInv, BufferBeforeQueue
  <2>2. \A i \in 1 .. Len(samples'), j \in 1 .. Len(decodedQueue) : samples'[i].packet < decodedQueue[j].packet
    BY <1>3 DEF PlaybackInv, BufferBeforeQueue
  <2> QED BY <1>1, <2>1, <2>2 DEF BufferBeforeQueue
<1>6. QueueInOrder'
  BY <1>1 DEF PlaybackInv, QueueInOrder
<1>7. frames * device.channels \in Nat
  BY <1>0
<1>8. Silence \in Samples /\ Silence.packet = 0
  BY DEF Silence, Samples
<1>9. ASSUME NEW i \in 1 .. frames * device.channels
      PROVE  \/ output'[i] = Silence
             \/ i \in 1 .. Len(samples) /\ output'[i] = samples[i]
  <2>1. output'[i] = IF i \in DOMAIN samples THEN samples[i] ELSE Silence
    BY DEF FillOutput
  <2>2. DOMAIN samples = 1 .. Len(samples)
    BY PlaybackLengths DEF PlaybackInv
  <2> QED BY <2>1, <2>2
<1>10. ASSUME NEW i \in 1 .. frames * device.channels
       PROVE  output'[i] \in Samples /\ output'[i].packet <= packetsHeard
  <2>1. CASE output'[i] = Silence
    BY <1>0, <1>8, <2>1
  <2>2. CASE i \in 1 .. Len(samples) /\ output'[i] = samples[i]
    <3>1. samples[i] \in Samples
      BY <1>0, <2>2, ElementOfSeq
    <3> QED BY <2>2, <3>1 DEF PlaybackInv, BufferBeforeQueue
  <2> QED BY <1>9, <2>1, <2>2
<1>11. output' \in Seq(Samples) /\ Len(output') = frames * device.channels
  <2>1. output' = [i \in 1 .. frames * device.channels |->
                    IF i \in DOMAIN samples THEN samples[i] ELSE Silence]
    BY DEF FillOutput
  <2>2. output' \in [1 .. frames * device.channels -> Samples]
    BY <1>10, <2>1
  <2> DEFINE k == frames * device.channels
  <2> HIDE DEF k
  <2>3. k \in Nat /\ output' \in [1 .. k -> Samples]
    BY <1>7, <2>2 DEF k
  <2>4. output' \in Seq(Samples) /\ Len(output') = k
    BY <2>3
  <2> QED BY <2>4 DEF k
<1>12. OutputInPlace'
  <2>1. \A i \in 1 .. Len(output') : output'[i].packet <= packetsHeard'
    BY <1>1, <1>10, <1>11
  <2>2. ASSUME NEW i \in 1 .. Len(output')
        PROVE  output'[i] = Silence \/ output'[i].from = SourceChannels(ChannelAt(i))
    BY <1>2, <1>9, <1>11 DEF InPlace
  <2>3. ASSUME NEW i \in 1 .. Len(output')
        PROVE  output'[i] = Silence \/ output'[i].from = SourceChannels(ChannelAt(i))'
    BY <1>1, <2>2 DEF SourceChannels, ChannelAt
  <2> QED BY <2>1, <2>3 DEF OutputInPlace
<1>13. PlaybackFields'
  BY <1>1, <1>3, <1>11 DEF PlaybackInv, PlaybackFields
<1> QED BY <1>4, <1>5, <1>6, <1>12, <1>13 DEF PlaybackInv

(* The thread ends and its buffer with it.                                   *)
LEMMA EndKeeps ==
    ASSUME PlaybackInv, EndPlayback
    PROVE  PlaybackInv'
<1>1. samples' = <<>> /\ UNCHANGED <<device, sinkAt, decodedQueue, packetsHeard, output>> /\ streamAt' = "ended"
  BY DEF EndPlayback
<1>2. Len(samples') = 0 /\ samples' \in Seq(Samples)
  BY <1>1
<1>3. PlaybackFields'
  BY <1>1, <1>2 DEF PlaybackInv, PlaybackFields
<1>4. BufferBeforeQueue' /\ QueueInOrder'
  BY <1>1, <1>2 DEF PlaybackInv, BufferBeforeQueue, QueueInOrder
<1>5. OutputInPlace'
  BY <1>1 DEF PlaybackInv, OutputInPlace, SourceChannels, ChannelAt
<1>6. BufferInPlace'
  <2>0. /\ device.channels \in Nat \ {0} /\ device.rate \in Nat \ {0} /\ QueueSeconds \in Nat \ {0}
    BY PlaybackBounds DEF PlaybackInv, PlaybackFields
  <2>1. 0 = 0 * device.channels /\ 0 \in Nat
    BY <2>0
  <2>2. MaxSamples \in Nat
    <3>1. device.rate * device.channels \in Nat
      BY <2>0
    <3> DEFINE perSecond == device.rate * device.channels
    <3> HIDE DEF perSecond
    <3>2. perSecond * QueueSeconds \in Nat
      BY <2>0, <3>1 DEF perSecond
    <3> QED BY <3>2 DEF MaxSamples, perSecond
  <2>3. Len(samples') <= MaxSamples'
    <3>1. MaxSamples' = MaxSamples
      BY <1>1 DEF MaxSamples
    <3> QED BY <1>2, <2>2, <3>1
  <2>4. InPlace(samples)'
    BY <1>2 DEF InPlace
  <2>5. InOrder(samples)'
    BY <1>2 DEF InOrder
  <2>6. \E n \in Nat : Len(samples)' = n * device.channels'
    BY <1>1, <1>2, <2>1
  <2> QED BY <2>3, <2>4, <2>5, <2>6 DEF BufferInPlace
<1> QED BY <1>3, <1>4, <1>5, <1>6 DEF PlaybackInv

(* PlaybackInv holds in every reachable state.                               *)
LEMMA PlaybackInvariant == PlaybackSpec => []PlaybackInv
<1>1. ASSUME NEW d \in OutputDevices, PlaybackInit(d) PROVE PlaybackInv
  <2>1. /\ device = d /\ decodedQueue = <<>> /\ samples = <<>> /\ output = <<>> /\ packetsHeard = 0
    BY <1>1 DEF PlaybackInit
  <2>2. PlaybackFields
    BY <1>1, <2>1, PlaybackBounds DEF PlaybackInit, PlaybackFields
  <2>3. Len(samples) = 0 /\ Len(output) = 0 /\ Len(decodedQueue) = 0
    BY <2>1
  <2>4. QueueInOrder /\ BufferBeforeQueue /\ OutputInPlace
    BY <2>3 DEF QueueInOrder, BufferBeforeQueue, OutputInPlace
  <2>5. BufferInPlace
    <3>1. InPlace(samples) /\ InOrder(samples)
      BY <2>3 DEF InPlace, InOrder
    <3>0. device.channels \in Nat \ {0} /\ device.rate \in Nat \ {0} /\ QueueSeconds \in Nat \ {0}
      BY <2>1, PlaybackBounds
    <3>2. 0 = 0 * device.channels /\ 0 \in Nat
      BY <3>0
    <3>3. MaxSamples \in Nat
      <4>1. device.rate * device.channels \in Nat
        BY <3>0
      <4> DEFINE perSecond == device.rate * device.channels
      <4> HIDE DEF perSecond
      <4>2. perSecond * QueueSeconds \in Nat
        BY <3>0, <4>1 DEF perSecond
      <4> QED BY <4>2 DEF MaxSamples, perSecond
    <3>4. \E n \in Nat : Len(samples) = n * device.channels
      BY <2>3, <3>2
    <3> QED BY <2>3, <3>1, <3>3, <3>4 DEF BufferInPlace
  <2> QED BY <2>2, <2>4, <2>5 DEF PlaybackInv
<1>2. ASSUME PlaybackInv, [PlaybackNext]_playbackVars PROVE PlaybackInv'
  <2>0. packetsHeard \in Nat
    BY <1>2, PlaybackBounds DEF PlaybackInv, PlaybackFields
  <2>1. CASE UNCHANGED playbackVars \/ OpenPlayback \/ DropPlayback
    <3>1. UNCHANGED <<device, samples, output, decodedQueue, packetsHeard>>
      BY <2>1 DEF playbackVars, OpenPlayback, DropPlayback
    <3>2. PlaybackFields'
      BY <1>2, <2>1 DEF PlaybackInv, PlaybackFields, playbackVars, OpenPlayback, DropPlayback
    <3>3. packetsHeard' = packetsHeard /\ packetsHeard <= packetsHeard
      BY <2>0, <3>1
    <3> QED BY <1>2, <2>0, <3>1, <3>2, <3>3, PlaybackKept
  <2>2. CASE QueueSamples
    BY <1>2, <2>2, QueueKeeps
  <2>3. CASE EndPlayback
    BY <1>2, <2>3, EndKeeps
  <2>4. ASSUME NEW frames \in DecodedFrames, ReceiveAudio(frames) PROVE PlaybackInv'
    BY <1>2, <2>4, ReceiveKeeps
  <2>5. ASSUME NEW frames \in CallbackFrames, FillOutput(frames) PROVE PlaybackInv'
    BY <1>2, <2>5, FillKeeps
  <2> QED BY <1>2, <2>1, <2>2, <2>3, <2>4, <2>5 DEF PlaybackNext
<1>3. (\E d \in OutputDevices : PlaybackInit(d)) => PlaybackInv
  BY <1>1
<1> QED BY <1>2, <1>3, PTL DEF PlaybackSpec

(* The variables keep their types, and every sample that waits or that the   *)
(* device was given is silence or from a packet that was received.           *)
THEOREM PlaybackTyped == PlaybackSpec => []PlaybackTypeOK
<1>1. ASSUME PlaybackInv PROVE PlaybackTypeOK
  <2>1. /\ DOMAIN decodedQueue = 1 .. Len(decodedQueue) /\ DOMAIN samples = 1 .. Len(samples)
        /\ DOMAIN output = 1 .. Len(output) /\ packetsHeard \in Nat
        /\ \A i \in 1 .. Len(decodedQueue) : decodedQueue[i] \in Packets
        /\ \A i \in 1 .. Len(samples) : samples[i] \in Samples
        /\ \A i \in 1 .. Len(output) : output[i] \in Samples
    BY <1>1, PlaybackLengths DEF PlaybackInv
  <2>2. \A i \in DOMAIN decodedQueue : decodedQueue[i].frames \in DecodedFrames
    BY <2>1 DEF Packets
  <2>3. ASSUME NEW s \in {samples[i] : i \in DOMAIN samples} \cup {output[i] : i \in DOMAIN output}
        PROVE  s.packet \in 0 .. packetsHeard /\ s.frame \in Nat /\ s.from \subseteq 1 .. InputChannels
    <3>1. s \in Samples /\ s.packet <= packetsHeard
      BY <1>1, <2>1 DEF PlaybackInv, BufferBeforeQueue, OutputInPlace
    <3>2. s.packet \in Nat /\ s.frame \in Nat /\ s.from \subseteq 1 .. InputChannels
      BY <3>1 DEF Samples
    <3> QED BY <2>1, <3>1, <3>2
  <2> QED BY <1>1, <2>2, <2>3 DEF PlaybackTypeOK, PlaybackInv, PlaybackFields
<1> QED BY <1>1, PlaybackInvariant, PTL

(* However packets and callbacks alternate, for every device, packet length  *)
(* and callback length: no channel moves to another place, the buffer stays  *)
(* within its seconds and in order, and no frame is read past its packet.    *)
THEOREM ChannelsKept == PlaybackSpec => []ChannelsStayInPlace
<1>1. ASSUME PlaybackInv PROVE ChannelsStayInPlace
  <2>1. /\ DOMAIN samples = 1 .. Len(samples) /\ DOMAIN output = 1 .. Len(output)
        /\ decodedQueue \in Seq(Packets) /\ device \in OutputDevices
    BY <1>1, PlaybackLengths DEF PlaybackInv, PlaybackFields
  <2>2. \A i \in DOMAIN output : output[i] = Silence \/ output[i].from = SourceChannels(ChannelAt(i))
    BY <1>1, <2>1 DEF PlaybackInv, OutputInPlace
  <2>3. /\ \A i \in DOMAIN samples : samples[i].from = SourceChannels(ChannelAt(i))
        /\ Len(samples) <= device.rate * device.channels * QueueSeconds
        /\ InOrder(samples)
    BY <1>1, <2>1 DEF PlaybackInv, BufferInPlace, InPlace, MaxSamples
  <2>4. ASSUME decodedQueue # <<>>
        PROVE  LET m == Head(decodedQueue)
               IN \A k \in 0 .. OutputFrames(m.frames) - 1 : SourceOf(k, m.frames) \in 0 .. m.frames - 1
    <3>1. Head(decodedQueue) \in Packets
      BY <2>1, <2>4, HeadTailProperties
    <3>2. Head(decodedQueue).frames \in Nat
      BY <3>1 DEF Packets
    <3> QED BY <2>1, <3>2, SourceInside
  <2> QED BY <2>2, <2>3, <2>4 DEF ChannelsStayInPlace
<1> QED BY <1>1, PlaybackInvariant, PTL

-----------------------------------------------------------------------------
(* MediaBytes                                                                 *)

(* A place in rows of s.                                                     *)
LEMMA PlaceInRows ==
    ASSUME NEW s \in Nat \ {0}, NEW rows \in Nat, NEW row \in 0 .. rows - 1, NEW col \in 0 .. s - 1
    PROVE  /\ row * s \in Nat /\ rows * s \in Nat /\ row * s + col < rows * s
           /\ (row * s + col) % s = col /\ (row * s + col) \div s = row
<1>1. row * s = s * row /\ row \in Nat /\ row * s \in Nat /\ rows * s \in Nat
  OBVIOUS
<1>2. (row * s + col) % s = col /\ (row * s + col) \div s = row
  BY <1>1, RemainderIs
<1>3. (row + 1) * s <= rows * s /\ (row + 1) * s = row * s + s
  BY <1>1
<1> DEFINE below == row * s
<1> DEFINE all == rows * s
<1>4. below \in Nat /\ all \in Nat /\ below + s <= all
  BY <1>1, <1>3
<1> HIDE DEF below, all
<1>5. below + col < all
  BY <1>4
<1> QED BY <1>1, <1>2, <1>5 DEF below, all

(* The halves of a number.                                                   *)
LEMMA Halves ==
    ASSUME NEW n \in Nat
    PROVE  /\ n \div 2 \in Nat /\ (2 * n) \div 2 = n /\ (2 * n + 1) \div 2 = n
           /\ (2 * n) % 2 = 0 /\ (2 * n + 1) % 2 = 1
           /\ HalfUp(n) \in Nat /\ \A m \in 0 .. n - 1 : m \div 2 \in 0 .. HalfUp(n) - 1
           /\ Even(n) => n = 2 * (n \div 2) /\ HalfUp(n) = n \div 2
BY DEF HalfUp, Even

-----------------------------------------------------------------------------
(* copy_strided_rows does not refuse a buffer that is long enough.           *)
LEMMA RowsFit ==
    ASSUME NEW len \in Nat, NEW rows \in Nat \ {0}, NEW rowLen \in Nat \ {0}, NEW stride \in Nat,
           NEW offset \in Nat, NEW topDown \in BOOLEAN,
           offset + stride * (rows - 1) + rowLen <= len
    PROVE  copy_strided_rows(len, rows, rowLen, stride, offset, topDown) # NoPlane
<1> DEFINE need == offset + stride * (rows - 1) + rowLen
<1>1. stride * (rows - 1) \in Nat
  OBVIOUS
<1>2. need \in Nat /\ ~(len < need)
  BY <1>1
<1>3. rows * rowLen \in Nat \ {0}
  OBVIOUS
<1>4. 0 \in 0 .. rows * rowLen - 1
  BY <1>3
<1>5. 0 \in DOMAIN copy_strided_rows(len, rows, rowLen, stride, offset, topDown)
  BY <1>2, <1>4 DEF copy_strided_rows
<1>6. DOMAIN NoPlane = {}
  BY DEF NoPlane
<1> QED BY <1>5, <1>6

(* The row of the buffer that a row of the picture is in.                    *)
RowOf(topDown, rows, row) == IF topDown THEN row ELSE rows - 1 - row

(* A byte of a row of a plane.                                               *)
ByteOf(plane, rowLen, row, col) == plane[row * rowLen + col]

(* Where copy_strided_rows reads a byte of a row.                            *)
LEMMA RowsAt ==
    ASSUME NEW len \in Nat, NEW rows \in Nat, NEW rowLen \in Nat, NEW stride \in Nat,
           NEW offset \in Nat, NEW topDown \in BOOLEAN,
           copy_strided_rows(len, rows, rowLen, stride, offset, topDown) # NoPlane,
           NEW row \in 0 .. rows - 1, NEW col \in 0 .. rowLen - 1
    PROVE  /\ ByteOf(copy_strided_rows(len, rows, rowLen, stride, offset, topDown), rowLen, row, col)
                 = offset + RowOf(topDown, rows, row) * stride + col
           /\ ByteOf(copy_strided_rows(len, rows, rowLen, stride, offset, topDown), rowLen, row, col) < len
           /\ RowOf(topDown, rows, row) \in 0 .. rows - 1
<1> DEFINE from == RowOf(topDown, rows, row)
<1> DEFINE place == row * rowLen + col
<1> DEFINE plane == copy_strided_rows(len, rows, rowLen, stride, offset, topDown)
<1>0. rows # 0 /\ rowLen # 0 /\ ~(len < offset + stride * (rows - 1) + rowLen)
  BY DEF copy_strided_rows
<1>1. /\ row * rowLen \in Nat /\ rows * rowLen \in Nat /\ place < rows * rowLen
      /\ place % rowLen = col /\ place \div rowLen = row
  BY <1>0, PlaceInRows
<1>2. place \in 0 .. rows * rowLen - 1
  BY <1>1
<1>3. from \in 0 .. rows - 1 /\ from \in Nat
  BY DEF RowOf
<1>4. plane[place] = offset + from * stride + col
  <2> HIDE DEF place
  <2>1. plane = [i \in 0 .. rows * rowLen - 1 |->
                  LET r == i \div rowLen
                  IN offset + (IF topDown THEN r ELSE rows - 1 - r) * stride + (i % rowLen)]
    BY <1>0 DEF copy_strided_rows
  <2> QED BY <1>1, <1>2, <2>1 DEF RowOf
<1>5. offset + from * stride + col < len
  <2>1. from * stride <= stride * (rows - 1) /\ from * stride \in Nat /\ stride * (rows - 1) \in Nat
    BY <1>0, <1>3
  <2> DEFINE skipped == from * stride
  <2> DEFINE most == stride * (rows - 1)
  <2> HIDE DEF skipped, most, from
  <2>2. skipped \in Nat /\ most \in Nat /\ skipped <= most
    BY <2>1 DEF skipped, most
  <2>3. ~(len < offset + most + rowLen)
    BY <1>0 DEF most
  <2>4. offset + skipped + col < len
    BY <2>2, <2>3
  <2> QED BY <2>4 DEF skipped
<1> HIDE DEF plane, place, from
<1>6. plane[place] = offset + from * stride + col /\ plane[place] < len /\ from \in 0 .. rows - 1
  BY <1>3, <1>4, <1>5
<1> QED BY <1>6 DEF ByteOf, plane, place, from

-----------------------------------------------------------------------------
(* What the agent sends of a pixel: its luma, and the chroma of its block.   *)
LEMMA SentPixel ==
    ASSUME NEW w \in Nat, NEW h \in Nat, bgra_to_nv12(w, h) # NoPlane,
           NEW x \in 0 .. w - 1, NEW y \in 0 .. h - 1
    PROVE  LET sent == bgra_to_nv12(w, h)
               at == NvIndices(x, y, w, h)
           IN /\ sent[at.y] = <<"y", <<x, y>>>>
              /\ sent[at.u] = <<"u", Block(x, y)>> /\ sent[at.v] = <<"v", Block(x, y)>>
<1> DEFINE a == x \div 2
<1> DEFINE b == y \div 2
<1> DEFINE half == h \div 2
<1> DEFINE size == w * h
<1> DEFINE sent == bgra_to_nv12(w, h)
<1>0. w # 0 /\ h # 0 /\ Even(w) /\ Even(h)
  BY DEF bgra_to_nv12
<1>1. /\ a \in 0 .. w \div 2 - 1 /\ b \in 0 .. half - 1 /\ w = 2 * (w \div 2) /\ h = 2 * half
      /\ w \div 2 \in Nat /\ half \in Nat /\ a \in Nat /\ b \in Nat
  BY <1>0, Halves
<1>2. size \in Nat /\ half * w \in Nat /\ size \div 2 = half * w
  <2> HIDE DEF half
  <2>1. half * w \in Nat /\ w * h = 2 * (half * w)
    BY <1>1
  <2>2. (2 * (half * w)) \div 2 = half * w
    BY <2>1, Halves
  <2> QED BY <2>1, <2>2
<1>3. sent = [i \in 0 .. size + half * w - 1 |->
                IF i < size THEN <<"y", <<i % w, i \div w>>>>
                ELSE LET j == i - size
                     IN <<IF Even(j) THEN "u" ELSE "v", Block(j % w, 2 * (j \div w))>>]
  BY <1>0, <1>2 DEF bgra_to_nv12
<1> HIDE DEF sent
<1>4. sent[y * w + x] = <<"y", <<x, y>>>>
  <2> DEFINE i == y * w + x
  <2>1. y * w \in Nat /\ i < h * w /\ i % w = x /\ i \div w = y
    BY <1>0, PlaceInRows
  <2>2. h * w = size /\ i \in Nat
    BY <2>1
  <2> HIDE DEF i, size
  <2>3. i \in 0 .. size + half * w - 1 /\ i < size
    BY <1>2, <2>1, <2>2
  <2> QED BY <1>3, <2>1, <2>3 DEF i
<1>5. ASSUME NEW odd \in {0, 1}
      PROVE  sent[size + (b * w + (2 * a + odd))] = <<IF odd = 0 THEN "u" ELSE "v", Block(x, y)>>
  <2> DEFINE col == 2 * a + odd
  <2> DEFINE j == b * w + col
  <2>1. col \in 0 .. w - 1
    BY <1>1
  <2>2. b * w \in Nat /\ j < half * w /\ j % w = col /\ j \div w = b
    <3>1. w \in Nat \ {0} /\ half \in Nat /\ b \in 0 .. half - 1
      BY <1>0, <1>1
    <3> HIDE DEF col, b, half
    <3> QED BY <2>1, <3>1, PlaceInRows
  <2>3. j \in Nat
    BY <2>1, <2>2
  <2>4. Even(j) <=> odd = 0
    <3> DEFINE pairs == b * (w \div 2)
    <3>1. pairs \in Nat /\ b * w = 2 * pairs
      BY <1>1
    <3> HIDE DEF pairs, a, b
    <3>2. pairs + a \in Nat /\ j = 2 * (pairs + a) + odd
      BY <1>1, <3>1
    <3>3. odd = 0 => j = 2 * (pairs + a)
      BY <3>2
    <3> HIDE DEF j
    <3> QED BY <3>2, <3>3, Halves DEF Even
  <2>5. Block(col, 2 * b) = <<a, b>>
    <3>1. col \div 2 = a /\ (2 * b) \div 2 = b
      BY <1>1, Halves
    <3> QED BY <3>1 DEF Block
  <2> HIDE DEF j, size
  <2>6. size + j \in 0 .. size + half * w - 1 /\ ~(size + j < size) /\ (size + j) - size = j
    BY <1>2, <2>2, <2>3
  <2>7. sent[size + j] = <<IF Even(j) THEN "u" ELSE "v", Block(col, 2 * b)>>
    BY <1>3, <2>2, <2>6
  <2>8. Block(x, y) = <<a, b>>
    BY DEF Block
  <2> HIDE DEF a, b, col
  <2>9. sent[size + j] = <<IF odd = 0 THEN "u" ELSE "v", Block(x, y)>>
    BY <2>4, <2>5, <2>7, <2>8
  <2> QED BY <2>9 DEF j, col, a, b
<1>6. LET at == NvIndices(x, y, w, h)
      IN at.y = y * w + x /\ at.u = size + (b * w + (2 * a + 0)) /\ at.v = size + (b * w + (2 * a + 1))
  <2>1. b * w \in Nat /\ a \in Nat
    BY <1>1
  <2> DEFINE rows == b * w
  <2> HIDE DEF rows, size, a, b
  <2>2. /\ size + rows + a * 2 = size + (rows + (2 * a + 0))
        /\ size + rows + a * 2 + 1 = size + (rows + (2 * a + 1))
    BY <1>2, <2>1 DEF rows
  <2> QED BY <2>2 DEF NvIndices, rows, size, a, b
<1> HIDE DEF a, b, size
<1>7. /\ sent[size + (b * w + (2 * a + 0))] = <<"u", Block(x, y)>>
      /\ sent[size + (b * w + (2 * a + 1))] = <<"v", Block(x, y)>>
  <2>1. sent[size + (b * w + (2 * a + 0))] = <<IF 0 = 0 THEN "u" ELSE "v", Block(x, y)>>
    BY <1>5
  <2>2. sent[size + (b * w + (2 * a + 1))] = <<IF 1 = 0 THEN "u" ELSE "v", Block(x, y)>>
    BY <1>5
  <2> QED BY <2>1, <2>2
<1> QED BY <1>4, <1>6, <1>7 DEF sent

-----------------------------------------------------------------------------
(* A picture the program can meet: its sides, stride and buffer.             *)
LEMMA PictureFields ==
    ASSUME NEW p \in Pictures
    PROVE  /\ p.width \in Nat /\ p.height \in Nat /\ p.topDown \in BOOLEAN /\ p.short \in BOOLEAN
           /\ Stride(p) \in Nat /\ p.width <= Stride(p) /\ BufferLength(p) \in Nat
<1>1. /\ p.width \in Nat /\ p.height \in Nat /\ p.padding \in Nat /\ p.slack \in Nat
      /\ p.topDown \in BOOLEAN /\ p.short \in BOOLEAN
  BY MediaAssumption DEF Pictures
<1>2. Stride(p) \in Nat /\ p.width <= Stride(p)
  BY <1>1 DEF Stride
<1> DEFINE area == Stride(p) * p.height
<1>3. area \in Nat
  BY <1>1, <1>2
<1> HIDE DEF area
<1> DEFINE whole == (area * 3) \div 2
<1>4. whole \in Nat
  BY <1>3
<1>5. BufferLength(p) = IF p.short /\ whole > 0 THEN whole - 1 ELSE whole + p.slack
  BY DEF BufferLength, area
<1> HIDE DEF whole
<1>6. BufferLength(p) \in Nat
  BY <1>1, <1>4, <1>5
<1> QED BY <1>1, <1>2, <1>6

(* What the client reads of a pixel it draws, in the buffer of the decoder,  *)
(* is inside that buffer and what the decoder wrote for that pixel.          *)
LEMMA DrawnPixel ==
    ASSUME NEW p \in Pictures, copy_strided_nv12(p, Stride(p), BufferLength(p)) # NoPlane,
           NEW x \in 0 .. p.width - 1, NEW y \in 0 .. p.height - 1
    PROVE  LET compact == copy_strided_nv12(p, Stride(p), BufferLength(p))
               at == NvIndices(x, y, p.width, p.height)
               wrote(i) == DecoderWrote(p, Stride(p), compact[i])
           IN /\ wrote(at.y) = <<"y", <<x, y>>>>
              /\ wrote(at.u) = <<"u", Block(x, y)>> /\ wrote(at.v) = <<"v", Block(x, y)>>
              /\ compact[at.y] < BufferLength(p) /\ compact[at.u] < BufferLength(p)
              /\ compact[at.v] < BufferLength(p)
<1> DEFINE w == p.width
<1> DEFINE h == p.height
<1> DEFINE s == Stride(p)
<1> DEFINE len == BufferLength(p)
<1> DEFINE top == p.topDown
<1> DEFINE a == x \div 2
<1> DEFINE b == y \div 2
<1> DEFINE half == h \div 2
<1> DEFINE size == w * h
<1> DEFINE luma == copy_strided_rows(len, h, w, s, 0, top)
<1> DEFINE chroma == copy_strided_rows(len, half, w, s, s * h, top)
<1> DEFINE compact == copy_strided_nv12(p, s, len)
<1>0. /\ w \in Nat /\ h \in Nat /\ s \in Nat /\ w <= s /\ len \in Nat /\ top \in BOOLEAN
      /\ x \in 0 .. w - 1 /\ y \in 0 .. h - 1
  BY PictureFields
<1>1. Even(w) /\ Even(h) /\ luma # NoPlane /\ chroma # NoPlane
  BY DEF copy_strided_nv12
<1>2. w # 0 /\ h # 0 /\ s # 0
  BY <1>0
<1>3. compact = [i \in 0 .. size + size \div 2 - 1 |-> IF i < size THEN luma[i] ELSE chroma[i - size]]
  BY <1>1 DEF copy_strided_nv12
<1> HIDE DEF compact, luma, chroma
<1> HIDE DEF s, len, top
<1>4. /\ a \in 0 .. w \div 2 - 1 /\ b \in 0 .. half - 1 /\ w = 2 * (w \div 2) /\ h = 2 * half
      /\ w \div 2 \in Nat /\ half \in Nat /\ a \in Nat /\ b \in Nat
  <2> HIDE DEF w, h
  <2> QED BY <1>0, <1>1, Halves
<1> HIDE DEF a, b
<1>5. size \in Nat /\ half * w \in Nat /\ size \div 2 = half * w
  <2> HIDE DEF half
  <2>1. half * w \in Nat /\ w * h = 2 * (half * w)
    BY <1>0, <1>4
  <2>2. (2 * (half * w)) \div 2 = half * w
    BY <2>1, Halves
  <2> QED BY <2>1, <2>2
<1>6. s * h \in Nat
  BY <1>0
<1>7. /\ DecoderWrote(p, s, compact[y * w + x]) = <<"y", <<x, y>>>>
      /\ compact[y * w + x] < len
  <2> DEFINE i == y * w + x
  <2> DEFINE from == RowOf(top, h, y)
  <2>1. y * w \in Nat /\ i < h * w
    BY <1>0, <1>2, PlaceInRows
  <2>2. h * w = size /\ i \in Nat
    BY <1>0, <2>1
  <2>3. luma[i] = 0 + from * s + x /\ luma[i] < len /\ from \in 0 .. h - 1
    <3> HIDE DEF w, h
    <3>1. 0 \in Nat /\ copy_strided_rows(len, h, w, s, 0, top) # NoPlane
      BY <1>1 DEF luma
    <3>2. /\ ByteOf(copy_strided_rows(len, h, w, s, 0, top), w, y, x) = 0 + RowOf(top, h, y) * s + x
          /\ ByteOf(copy_strided_rows(len, h, w, s, 0, top), w, y, x) < len
          /\ RowOf(top, h, y) \in 0 .. h - 1
      BY <1>0, <3>1, RowsAt, SMTT(60)
    <3>3. ByteOf(luma, w, y, x) = luma[i]
      BY DEF ByteOf
    <3>4. luma = copy_strided_rows(len, h, w, s, 0, top)
      BY DEF luma
    <3> HIDE DEF luma, i, from
    <3>5. luma[i] = 0 + RowOf(top, h, y) * s + x /\ luma[i] < len
      BY <3>2, <3>3, <3>4
    <3> QED BY <3>2, <3>5 DEF from
  <2> HIDE DEF i, size
  <2>4. i \in 0 .. size + half * w - 1 /\ i < size
    BY <1>5, <2>1, <2>2
  <2>5. compact[i] = luma[i]
    BY <1>3, <1>5, <2>4
  <2>6. x \in 0 .. s - 1
    BY <1>0
  <2>7. /\ from * s \in Nat /\ from * s + x < h * s /\ (from * s + x) % s = x
        /\ (from * s + x) \div s = from
    <3> HIDE DEF from
    <3> QED BY <1>0, <1>2, <2>3, <2>6, PlaceInRows
  <2> DEFINE place == from * s + x
  <2>8. place < s * h /\ 0 + from * s + x = place /\ place \in Nat
    BY <1>0, <2>6, <2>7
  <2> HIDE DEF place
  <2>9. DecoderWrote(p, s, place) = <<"y", <<x, IF top THEN from ELSE h - 1 - from>>>>
    <3>1. place \div s = from /\ place % s = x
      BY <2>7 DEF place
    <3> HIDE DEF from
    <3> QED BY <2>8, <3>1 DEF DecoderWrote, top
  <2>10. (IF top THEN from ELSE h - 1 - from) = y
    BY <1>0 DEF RowOf
  <2> HIDE DEF from
  <2>11. compact[i] = place /\ compact[i] < len
    BY <2>3, <2>5, <2>8
  <2>12. DecoderWrote(p, s, compact[i]) = <<"y", <<x, y>>>> /\ compact[i] < len
    BY <2>9, <2>10, <2>11
  <2> QED BY <2>12 DEF i
<1>8. ASSUME NEW odd \in {0, 1}
      PROVE  /\ DecoderWrote(p, s, compact[size + (b * w + (2 * a + odd))])
                    = <<IF odd = 0 THEN "u" ELSE "v", Block(x, y)>>
             /\ compact[size + (b * w + (2 * a + odd))] < len
  <2> DEFINE col == 2 * a + odd
  <2> DEFINE j == b * w + col
  <2> DEFINE from == RowOf(top, half, b)
  <2>1. col \in 0 .. w - 1 /\ col \in 0 .. s - 1 /\ col \in Nat
    BY <1>0, <1>4
  <2>2. b * w \in Nat /\ j < half * w
    <3> HIDE DEF col, half
    <3> QED BY <1>0, <1>2, <1>4, <2>1, PlaceInRows
  <2>3. j \in Nat
    BY <2>1, <2>2
  <2>4. chroma[j] = s * h + from * s + col /\ chroma[j] < len /\ from \in 0 .. half - 1
    <3> DEFINE offset == s * h
    <3>1. offset \in Nat /\ copy_strided_rows(len, half, w, s, offset, top) # NoPlane
      BY <1>1, <1>6 DEF chroma
    <3> HIDE DEF col, half, w, offset
    <3>2. /\ ByteOf(copy_strided_rows(len, half, w, s, offset, top), w, b, col)
               = offset + RowOf(top, half, b) * s + col
          /\ ByteOf(copy_strided_rows(len, half, w, s, offset, top), w, b, col) < len
          /\ RowOf(top, half, b) \in 0 .. half - 1
      <4>1. /\ len \in Nat /\ half \in Nat /\ w \in Nat /\ s \in Nat /\ top \in BOOLEAN
            /\ b \in 0 .. half - 1 /\ col \in 0 .. w - 1
        BY <1>0, <1>4, <2>1
      <4>2. RowOf(top, half, b) \in 0 .. half - 1
        BY <4>1 DEF RowOf
      <4>3. ByteOf(copy_strided_rows(len, half, w, s, offset, top), w, b, col) < len
        BY <3>1, <4>1, RowsAt
      <4>4. ByteOf(copy_strided_rows(len, half, w, s, offset, top), w, b, col)
               = offset + RowOf(top, half, b) * s + col
        BY <3>1, <4>1, RowsAt
      <4> QED BY <4>2, <4>3, <4>4
    <3> QED BY <3>2 DEF chroma, offset, ByteOf
  <2> HIDE DEF j, size
  <2>5. size + j \in 0 .. size + half * w - 1 /\ ~(size + j < size) /\ (size + j) - size = j
    BY <1>5, <2>2, <2>3
  <2>6. compact[size + j] = chroma[j]
    BY <1>3, <1>5, <2>5
  <2> HIDE DEF col
  <2>7. /\ from * s \in Nat /\ (from * s + col) % s = col /\ (from * s + col) \div s = from
    <3> HIDE DEF from, half
    <3> QED BY <1>0, <1>2, <1>4, <2>1, <2>4, PlaceInRows
  <2> DEFINE below == from * s + col
  <2> DEFINE place == s * h + from * s + col
  <2>8. ~(place < s * h) /\ place - s * h = below
    <3> DEFINE lumas == s * h
    <3> DEFINE skipped == from * s
    <3>1. lumas \in Nat /\ skipped \in Nat
      BY <1>6, <2>7
    <3> HIDE DEF lumas, skipped
    <3>2. ~(lumas + skipped + col < lumas) /\ (lumas + skipped + col) - lumas = skipped + col
      BY <2>1, <3>1
    <3> QED BY <3>2 DEF lumas, skipped
  <2>9. below \div s = from /\ below % s = col
    BY <2>7
  <2>10. chroma[j] = place
    BY <2>4
  <2> HIDE DEF place, below, from
  <2>11. DecoderWrote(p, s, place)
           = <<IF Even(col) THEN "u" ELSE "v", <<col \div 2, IF top THEN from ELSE half - 1 - from>>>>
    BY <2>8, <2>9 DEF DecoderWrote, top
  <2>12. (IF top THEN from ELSE half - 1 - from) = b
    BY <1>4 DEF from, RowOf
  <2>13. col \div 2 = a /\ (Even(col) <=> odd = 0)
    BY <1>4, Halves DEF col, Even
  <2>14. Block(x, y) = <<a, b>>
    BY DEF Block, a, b
  <2>15. /\ DecoderWrote(p, s, compact[size + j]) = <<IF odd = 0 THEN "u" ELSE "v", Block(x, y)>>
         /\ compact[size + j] < len
    BY <2>4, <2>6, <2>10, <2>11, <2>12, <2>13, <2>14
  <2> QED BY <2>15 DEF j, col
<1>9. LET at == NvIndices(x, y, w, h)
      IN at.y = y * w + x /\ at.u = size + (b * w + (2 * a + 0)) /\ at.v = size + (b * w + (2 * a + 1))
  <2> DEFINE rows == b * w
  <2>1. rows \in Nat /\ a \in Nat
    BY <1>0, <1>4
  <2> HIDE DEF rows, size
  <2>2. /\ size + rows + a * 2 = size + (rows + (2 * a + 0))
        /\ size + rows + a * 2 + 1 = size + (rows + (2 * a + 1))
    BY <1>5, <2>1
  <2> QED BY <2>2 DEF NvIndices, rows, size, a, b
<1> HIDE DEF a, b, size
<1>10. /\ DecoderWrote(p, s, compact[size + (b * w + (2 * a + 0))]) = <<"u", Block(x, y)>>
       /\ compact[size + (b * w + (2 * a + 0))] < len
  <2>1. /\ DecoderWrote(p, s, compact[size + (b * w + (2 * a + 0))]) = <<IF 0 = 0 THEN "u" ELSE "v", Block(x, y)>>
        /\ compact[size + (b * w + (2 * a + 0))] < len
    BY <1>8
  <2> QED BY <2>1
<1>11. /\ DecoderWrote(p, s, compact[size + (b * w + (2 * a + 1))]) = <<"v", Block(x, y)>>
       /\ compact[size + (b * w + (2 * a + 1))] < len
  <2>1. /\ DecoderWrote(p, s, compact[size + (b * w + (2 * a + 1))]) = <<IF 1 = 0 THEN "u" ELSE "v", Block(x, y)>>
        /\ compact[size + (b * w + (2 * a + 1))] < len
    BY <1>8
  <2> QED BY <2>1
<1> QED BY <1>7, <1>9, <1>10, <1>11 DEF compact, s, len

(* A buffer of the whole picture is not refused.                             *)
LEMMA PictureFits ==
    ASSUME NEW p \in Pictures, p.width > 0, p.height > 0, Even(p.width), Even(p.height), ~p.short
    PROVE  copy_strided_nv12(p, Stride(p), BufferLength(p)) # NoPlane
<1> DEFINE w == p.width
<1> DEFINE h == p.height
<1> DEFINE s == Stride(p)
<1> DEFINE len == BufferLength(p)
<1> DEFINE half == h \div 2
<1> DEFINE size == w * h
<1>0. /\ w \in Nat \ {0} /\ h \in Nat \ {0} /\ s \in Nat /\ w <= s /\ len \in Nat
      /\ p.topDown \in BOOLEAN /\ p.slack \in Nat
  BY PictureFields, MediaAssumption DEF Pictures
<1>1. half \in Nat \ {0} /\ h = 2 * half
  <2> HIDE DEF h
  <2> QED BY <1>0, Halves DEF h
<1> HIDE DEF s, half
<1>2. s * h \in Nat /\ s * half \in Nat /\ s * h = 2 * (s * half)
  BY <1>0, <1>1
<1>3. len = s * h + s * half + p.slack
  <2> DEFINE chroma == s * half
  <2> DEFINE luma == s * h
  <2>1. luma \in Nat /\ chroma \in Nat /\ luma = 2 * chroma
    BY <1>2
  <2> HIDE DEF luma, chroma
  <2>2. (luma * 3) \div 2 = luma + chroma
    BY <2>1
  <2>3. len = ((luma * 3) \div 2) + p.slack
    BY DEF BufferLength, luma, s
  <2> QED BY <2>2, <2>3 DEF luma, chroma
<1>4. s * (h - 1) = s * h - s /\ s * (half - 1) = s * half - s
  BY <1>0, <1>1
<1> HIDE DEF len, w, h
<1>5. s * h - s + w <= s * h /\ s * h + (s * half - s) + w <= s * h + s * half
  <2> DEFINE luma == s * h
  <2> DEFINE chroma == s * half
  <2>1. luma \in Nat /\ chroma \in Nat
    BY <1>2
  <2> HIDE DEF luma, chroma
  <2>2. luma - s + w <= luma /\ luma + (chroma - s) + w <= luma + chroma
    BY <1>0, <2>1
  <2> QED BY <2>2 DEF luma, chroma
<1>6. 0 + s * (h - 1) + w <= len /\ s * h + s * (half - 1) + w <= len
  <2> DEFINE luma == s * h
  <2> DEFINE chroma == s * half
  <2> DEFINE lumas == s * (h - 1)
  <2> DEFINE chromas == s * (half - 1)
  <2>1. luma \in Nat /\ chroma \in Nat /\ lumas = luma - s /\ chromas = chroma - s
    BY <1>2, <1>4
  <2>2. len = luma + chroma + p.slack
    BY <1>3
  <2> HIDE DEF luma, chroma, lumas, chromas
  <2>3. 0 + lumas + w <= len /\ luma + chromas + w <= len
    BY <1>0, <2>1, <2>2
  <2> QED BY <2>3 DEF luma, chroma, lumas, chromas
<1>7. copy_strided_rows(len, h, w, s, 0, p.topDown) # NoPlane
  BY <1>0, <1>6, RowsFit
<1>8. copy_strided_rows(len, half, w, s, s * h, p.topDown) # NoPlane
  <2> DEFINE offset == s * h
  <2>1. offset \in Nat /\ offset + s * (half - 1) + w <= len
    BY <1>2, <1>6
  <2> HIDE DEF offset
  <2>2. copy_strided_rows(len, half, w, s, offset, p.topDown) # NoPlane
    BY <1>0, <1>1, <2>1, RowsFit
  <2> QED BY <2>2 DEF offset
<1>9. size \in Nat \ {0}
  BY <1>0
<1>10. 0 \in 0 .. size + size \div 2 - 1
  <2> HIDE DEF size
  <2> QED BY <1>9
<1>11. 0 \in DOMAIN copy_strided_nv12(p, s, len)
  BY <1>7, <1>8, <1>10 DEF copy_strided_nv12, w, h, half
<1>12. DOMAIN NoPlane = {}
  BY DEF NoPlane
<1> QED BY <1>11, <1>12 DEF s, len

(* The indices of a pixel of an I420 picture.                                *)
LEMMA PlanarInside ==
    ASSUME NEW w \in Nat, NEW h \in Nat, NEW x \in 0 .. w - 1, NEW y \in 0 .. h - 1
    PROVE  LET planar == PlanarIndices(x, y, w, h)
           IN planar.y < planar.u /\ planar.u < planar.v /\ planar.v < PlanarLength(w, h)
<1> DEFINE cw == HalfUp(w)
<1> DEFINE ch == HalfUp(h)
<1> DEFINE a == x \div 2
<1> DEFINE b == y \div 2
<1> DEFINE c == b * cw + a
<1>1. cw \in Nat /\ ch \in Nat /\ a \in 0 .. cw - 1 /\ b \in 0 .. ch - 1
  BY Halves
<1>2. cw # 0
  BY <1>1
<1> DEFINE size == w * h
<1> DEFINE plane == cw * ch
<1>3. y * w + x < size /\ y * w \in Nat /\ size \in Nat
  <2>1. y * w + x < h * w /\ y * w \in Nat /\ h * w \in Nat
    BY PlaceInRows
  <2>2. h * w = w * h
    OBVIOUS
  <2> QED BY <2>1, <2>2
<1> HIDE DEF cw, ch, a, b
<1>4. c < plane /\ c \in Nat /\ plane \in Nat
  <2>1. b * cw + a < ch * cw /\ b * cw \in Nat /\ ch * cw \in Nat
    BY <1>1, <1>2, PlaceInRows
  <2>2. ch * cw = cw * ch
    BY <1>1
  <2> QED BY <1>1, <2>1, <2>2
<1>5. /\ PlanarIndices(x, y, w, h) = [y |-> y * w + x, u |-> size + c, v |-> size + plane + c]
      /\ PlanarLength(w, h) = size + 2 * plane
  <2>1. 2 * plane = 2 * cw * ch
    BY <1>1
  <2> QED BY <2>1 DEF PlanarIndices, PlanarLength, cw, ch, a, b
<1> DEFINE at == y * w + x
<1>6. at \in Nat /\ at < size
  BY <1>3
<1> HIDE DEF size, plane, c, at
<1>7. at < size + c /\ size + c < size + plane + c /\ size + plane + c < size + 2 * plane
  BY <1>3, <1>4, <1>6
<1> QED BY <1>5, <1>7 DEF at

-----------------------------------------------------------------------------
(* The variables keep their types.                                           *)
THEOREM MediaTyped == MediaSpec => []MediaTypeOK
<1>1. MediaInit => MediaTypeOK
  <2> SUFFICES ASSUME MediaInit PROVE MediaTypeOK
    OBVIOUS
  <2>1. <<>> \in Seq(ValidNals) /\ Len(<<>>) = 0
    OBVIOUS
  <2>2. NoPicture \in Pictures
    BY MediaAssumption DEF NoPicture, Pictures
  <2>3. 0 <= MaxNals
    BY MediaAssumption
  <2> QED BY <2>1, <2>2, <2>3 DEF MediaInit, MediaTypeOK
<1>2. MediaTypeOK /\ [MediaNext]_mediaVars => MediaTypeOK'
  <2> SUFFICES ASSUME MediaTypeOK, [MediaNext]_mediaVars PROVE MediaTypeOK'
    OBVIOUS
  <2>0. sample \in Seq(ValidNals) /\ Len(sample) \in Nat /\ MaxNals \in Nat
    BY LenProperties, MediaAssumption DEF MediaTypeOK
  <2>1. ASSUME NEW nal \in ValidNals, AppendNal(nal) PROVE MediaTypeOK'
    <3>1. sample' \in Seq(ValidNals) /\ Len(sample') = Len(sample) + 1
      BY <2>0, <2>1, AppendProperties DEF AppendNal
    <3>2. Len(sample) < MaxNals /\ picture' = picture
      BY <2>1 DEF AppendNal
    <3>3. Len(sample') <= MaxNals
      BY <2>0, <3>1, <3>2
    <3> QED BY <3>1, <3>2, <3>3 DEF MediaTypeOK
  <2>2. ASSUME NEW p \in Pictures, ShowPicture(p) PROVE MediaTypeOK'
    BY <2>2 DEF ShowPicture, MediaTypeOK
  <2>3. CASE UNCHANGED mediaVars
    BY <2>3 DEF mediaVars, MediaTypeOK
  <2> QED BY <2>1, <2>2, <2>3 DEF MediaNext
<1> QED BY <1>1, <1>2, PTL DEF MediaSpec

(* For pictures of every size, stride, order of rows and length of the       *)
(* buffer: each pixel drawn shows its own luma and the chroma of its block,   *)
(* no buffer is read past its end, and none that is whole is refused.         *)
THEOREM PixelsKept == MediaSpec => []PixelsInPlace
<1>1. ASSUME MediaTypeOK PROVE PixelsInPlace
  <2> DEFINE w == picture.width
  <2> DEFINE h == picture.height
  <2> DEFINE compact == copy_strided_nv12(picture, Stride(picture), BufferLength(picture))
  <2> DEFINE sent == bgra_to_nv12(w, h)
  <2>0. picture \in Pictures /\ w \in Nat /\ h \in Nat
    BY <1>1, PictureFields DEF MediaTypeOK
  <2> SUFFICES ASSUME NEW x \in 0 .. w - 1, NEW y \in 0 .. h - 1
               PROVE  LET at == NvIndices(x, y, w, h)
                          planar == PlanarIndices(x, y, w, h)
                      IN /\ sent # NoPlane =>
                              /\ sent[at.y] = <<"y", <<x, y>>>>
                              /\ sent[at.u] = <<"u", Block(x, y)>> /\ sent[at.v] = <<"v", Block(x, y)>>
                         /\ compact # NoPlane =>
                              \A plane \in {"y", "u", "v"} :
                                 /\ compact[at[plane]] < BufferLength(picture)
                                 /\ DecoderWrote(picture, Stride(picture), compact[at[plane]]) = sent[at[plane]]
                         /\ sent # NoPlane /\ ~picture.short => compact # NoPlane
                         /\ planar.y < planar.u /\ planar.u < planar.v /\ planar.v < PlanarLength(w, h)
    BY DEF PixelsInPlace, Pixels
  <2> DEFINE at == NvIndices(x, y, w, h)
  <2>1. sent # NoPlane => /\ sent[at.y] = <<"y", <<x, y>>>>
                          /\ sent[at.u] = <<"u", Block(x, y)>> /\ sent[at.v] = <<"v", Block(x, y)>>
    <3> HIDE DEF w, h
    <3> QED BY <2>0, SentPixel
  <2>2. ASSUME compact # NoPlane
        PROVE  /\ DecoderWrote(picture, Stride(picture), compact[at.y]) = <<"y", <<x, y>>>>
               /\ DecoderWrote(picture, Stride(picture), compact[at.u]) = <<"u", Block(x, y)>>
               /\ DecoderWrote(picture, Stride(picture), compact[at.v]) = <<"v", Block(x, y)>>
               /\ compact[at.y] < BufferLength(picture) /\ compact[at.u] < BufferLength(picture)
               /\ compact[at.v] < BufferLength(picture)
    BY <2>0, <2>2, DrawnPixel
  <2>3. sent # NoPlane => w > 0 /\ h > 0 /\ Even(w) /\ Even(h)
    BY <2>0 DEF bgra_to_nv12
  <2>4. compact # NoPlane => sent # NoPlane
    <3> SUFFICES ASSUME compact # NoPlane PROVE sent # NoPlane
      OBVIOUS
    <3>1. Even(w) /\ Even(h) /\ w # 0 /\ h # 0
      BY <2>0 DEF copy_strided_nv12
    <3> DEFINE size == w * h
    <3>2. size \in Nat \ {0}
      BY <2>0, <3>1
    <3>3. sent = [i \in 0 .. size + size \div 2 - 1 |-> sent[i]]
      BY <3>1 DEF bgra_to_nv12
    <3> HIDE DEF sent
    <3>4. 0 \in 0 .. size + size \div 2 - 1
      <4> HIDE DEF size
      <4> QED BY <3>2
    <3>5. 0 \in DOMAIN sent
      BY <3>3, <3>4
    <3>6. DOMAIN NoPlane = {}
      BY DEF NoPlane
    <3> QED BY <3>5, <3>6
  <2>5. sent # NoPlane /\ ~picture.short => compact # NoPlane
    BY <2>0, <2>3, PictureFits
  <2>6. LET planar == PlanarIndices(x, y, w, h)
        IN planar.y < planar.u /\ planar.u < planar.v /\ planar.v < PlanarLength(w, h)
    <3> HIDE DEF w, h
    <3> QED BY <2>0, PlanarInside
  <2> HIDE DEF sent, compact
  <2>7. compact # NoPlane => \A plane \in {"y", "u", "v"} :
                                /\ compact[at[plane]] < BufferLength(picture)
                                /\ DecoderWrote(picture, Stride(picture), compact[at[plane]]) = sent[at[plane]]
    <3>1. at["y"] = at.y /\ at["u"] = at.u /\ at["v"] = at.v
      OBVIOUS
    <3> HIDE DEF at
    <3> QED BY <2>1, <2>2, <2>4, <3>1
  <2> QED BY <2>1, <2>5, <2>6, <2>7
<1> QED BY <1>1, MediaTyped, PTL

-----------------------------------------------------------------------------
(* MediaBytes: the bytes of a sample                                          *)

(* Code points: what the tests on slices say of the bytes.                   *)
LEMMA SliceIs ==
    ASSUME NEW b \in Seq(Nat), NEW i \in Nat \ {0}
    PROVE  /\ LongCodeAt(b, i) <=>
                 i + 3 <= Len(b) /\ b[i] = 0 /\ b[i + 1] = 0 /\ b[i + 2] = 0 /\ b[i + 3] = 1
           /\ ShortCodeAt(b, i) <=> i + 2 <= Len(b) /\ b[i] = 0 /\ b[i + 1] = 0 /\ b[i + 2] = 1
<1>0. Len(b) \in Nat
  OBVIOUS
<1>1. ASSUME i + 3 <= Len(b)
      PROVE  SubSeq(b, i, i + 3) = StartCode <=> b[i] = 0 /\ b[i + 1] = 0 /\ b[i + 2] = 0 /\ b[i + 3] = 1
  <2> DEFINE s == SubSeq(b, i, i + 3)
  <2>1. i \in 1 .. Len(b) + 1 /\ i + 3 \in i - 1 .. Len(b) /\ i + 3 - i + 1 = 4
    <3>1. ASSUME NEW x \in Nat \ {0}, NEW m \in Nat, x + 3 <= m
          PROVE  x \in 1 .. m + 1 /\ x + 3 \in x - 1 .. m /\ x + 3 - x + 1 = 4
      BY <3>1
    <3> QED BY <1>0, <1>1, <3>1
  <2>2. Len(s) = 4 /\ s \in Seq(Nat) /\ \A k \in 1 .. 4 : s[k] = b[i + k - 1]
    <3>1. i <= i + 3 /\ i \in Int /\ i + 3 \in Int /\ \A k \in i .. i + 3 : b[k] \in Nat
      BY <1>0, <1>1
    <3>2. /\ s \in Seq(Nat) /\ Len(s) = IF i <= i + 3 THEN i + 3 - i + 1 ELSE 0
          /\ \A k \in 1 .. i + 3 - i + 1 : s[k] = b[i + k - 1]
      BY <3>1, SubSeqProperties
    <3> QED BY <2>1, <3>1, <3>2
  <2>3. s[1] = b[i] /\ s[2] = b[i + 1] /\ s[3] = b[i + 2] /\ s[4] = b[i + 3]
    BY <2>2
  <2>4. StartCode \in Seq(Nat) /\ Len(StartCode) = 4 /\ StartCode[1] = 0 /\ StartCode[2] = 0
        /\ StartCode[3] = 0 /\ StartCode[4] = 1
    BY DEF StartCode
  <2> HIDE DEF s
  <2>5. (\A k \in 1 .. 4 : s[k] = StartCode[k]) <=> s[1] = 0 /\ s[2] = 0 /\ s[3] = 0 /\ s[4] = 1
    BY <2>4
  <2>6. s = StartCode <=> \A k \in 1 .. 4 : s[k] = StartCode[k]
    BY <2>2, <2>4, SeqEqual
  <2> QED BY <2>3, <2>5, <2>6 DEF s
<1>2. ASSUME i + 2 <= Len(b)
      PROVE  SubSeq(b, i, i + 2) = <<0, 0, 1>> <=> b[i] = 0 /\ b[i + 1] = 0 /\ b[i + 2] = 1
  <2> DEFINE s == SubSeq(b, i, i + 2)
             code == <<0, 0, 1>>
  <2>1. i \in 1 .. Len(b) + 1 /\ i + 2 \in i - 1 .. Len(b) /\ i + 2 - i + 1 = 3
    BY <1>0, <1>2
  <2>2. Len(s) = 3 /\ s \in Seq(Nat) /\ \A k \in 1 .. 3 : s[k] = b[i + k - 1]
    <3>1. i <= i + 2 /\ i \in Int /\ i + 2 \in Int /\ \A k \in i .. i + 2 : b[k] \in Nat
      BY <1>0, <1>2
    <3>2. /\ s \in Seq(Nat) /\ Len(s) = IF i <= i + 2 THEN i + 2 - i + 1 ELSE 0
          /\ \A k \in 1 .. i + 2 - i + 1 : s[k] = b[i + k - 1]
      BY <3>1, SubSeqProperties
    <3> QED BY <2>1, <3>1, <3>2
  <2>3. s[1] = b[i] /\ s[2] = b[i + 1] /\ s[3] = b[i + 2]
    BY <2>2
  <2>4. code \in Seq(Nat) /\ Len(code) = 3 /\ code[1] = 0 /\ code[2] = 0 /\ code[3] = 1
    OBVIOUS
  <2> HIDE DEF s, code
  <2>5. (\A k \in 1 .. 3 : s[k] = code[k]) <=> s[1] = 0 /\ s[2] = 0 /\ s[3] = 1
    BY <2>4
  <2>6. s = code <=> \A k \in 1 .. 3 : s[k] = code[k]
    BY <2>2, <2>4, SeqEqual
  <2> QED BY <2>3, <2>5, <2>6 DEF s, code
<1> QED BY <1>1, <1>2 DEF LongCodeAt, ShortCodeAt

(* The first code from a place is the one with none before it.               *)
LEMMA CodeFound ==
    ASSUME NEW b \in Seq(Nat), NEW from \in Nat \ {0}, NEW at \in from .. Len(b), CodeAt(b, at),
           \A i \in from .. at - 1 : ~CodeAt(b, i)
    PROVE  find_start_code(b, from) = at
<1> DEFINE First(i) == CodeAt(b, i) /\ \A j \in from .. i - 1 : ~CodeAt(b, j)
<1>0. Len(b) \in Nat
  OBVIOUS
<1>1. First(at)
  OBVIOUS
<1>2. ASSUME NEW i \in from .. Len(b), First(i) PROVE i = at
  <2>1. ~(i < at)
    <3>1. i < at => i \in from .. at - 1
      BY <1>0
    <3> QED BY <3>1, <1>2
  <2>2. ~(at < i)
    <3>1. at < i => at \in from .. i - 1
      BY <1>0
    <3> QED BY <3>1, <1>2
  <2> QED BY <2>1, <2>2, <1>0
<1> HIDE DEF First
<1>3. (CHOOSE i \in from .. Len(b) : First(i)) = at
  BY <1>1, <1>2, Zenon
<1>4. find_start_code(b, from) = CHOOSE i \in from .. Len(b) : First(i)
  BY Zenon DEF find_start_code, First
<1> QED BY <1>3, <1>4

(* A search ends at a start code, or just past the end.                     *)
LEMMA CodeFoundFrom ==
    ASSUME NEW b \in Seq(Nat), NEW from \in Nat \ {0}
    PROVE  LET at == find_start_code(b, from)
           IN /\ at \in Nat
              /\ at <= Len(b) => at \in from .. Len(b) /\ CodeAt(b, at)
              /\ at > Len(b) => at = Len(b) + 1
<1>0. Len(b) \in Nat
  OBVIOUS
<1>1. CASE \E i \in from .. Len(b) : CodeAt(b, i)
  <2> DEFINE T == {i \in from .. Len(b) : CodeAt(b, i)}
  <2>1. T # {} /\ T \in SUBSET Nat
    BY <1>1
  <2>2. PICK at \in T : \A i \in T : at <= i
    <3> HIDE DEF T
    <3> DEFINE R == {pair \in Nat \X Nat : pair[1] < pair[2]}
    <3>1. IsWellFoundedOn(R, Nat)
      BY NatLessThanWellFounded, Zenon DEF OpToRel
    <3>2. IsWellFoundedOn(R, T)
      BY <3>1, <2>1, IsWellFoundedOnSubset
    <3>3. PICK at \in T : \A y \in T : ~(<<y, at>> \in R)
      BY <2>1, <3>2, WFMin
    <3>4. \A y \in T : ~(y < at)
      BY <2>1, <3>3
    <3> QED BY <2>1, <3>4
  <2>3. at \in from .. Len(b) /\ CodeAt(b, at) /\ \A i \in from .. at - 1 : ~CodeAt(b, i)
    BY <1>0, <2>2
  <2> HIDE DEF T
  <2>4. find_start_code(b, from) = at
    <3>1. at \in from .. Len(b)
      BY <2>3
    <3> QED BY <2>3, <3>1, CodeFound
  <2> QED BY <1>0, <2>3, <2>4
<1>2. CASE ~(\E i \in from .. Len(b) : CodeAt(b, i))
  BY <1>0, <1>2 DEF find_start_code
<1> QED BY <1>1, <1>2

(* It ends past the end when no code is there.                              *)
LEMMA NoCodeFound ==
    ASSUME NEW b \in Seq(Nat), NEW from \in Nat, \A i \in from .. Len(b) : ~CodeAt(b, i)
    PROVE  find_start_code(b, from) = Len(b) + 1
BY DEF find_start_code

-----------------------------------------------------------------------------
(* Concat, part by part.                                                     *)
ConcatSteps(parts) == [i \in 1 .. Len(parts) |-> [s \in Seq(Nat) |-> s \o parts[i]]]

(* The step of a part adds it to what is there.                             *)
LEMMA ConcatStepsTyped ==
    ASSUME NEW parts \in Seq(Seq(Nat))
    PROVE  /\ ConcatSteps(parts) \in Seq([Seq(Nat) -> Seq(Nat)])
           /\ Len(ConcatSteps(parts)) = Len(parts) /\ <<>> \in Seq(Nat)
<1> DEFINE step(i) == [s \in Seq(Nat) |-> s \o parts[i]]
<1>1. ASSUME NEW i \in 1 .. Len(parts) PROVE step(i) \in [Seq(Nat) -> Seq(Nat)]
  <2>1. parts[i] \in Seq(Nat)
    OBVIOUS
  <2>2. ASSUME NEW s \in Seq(Nat) PROVE s \o parts[i] \in Seq(Nat)
    BY <2>1, ConcatProperties
  <2> QED BY <2>2
<1>2. ConcatSteps(parts) = [i \in 1 .. Len(parts) |-> step(i)]
  BY DEF ConcatSteps
<1> HIDE DEF step
<1>3. ConcatSteps(parts) \in [1 .. Len(parts) -> [Seq(Nat) -> Seq(Nat)]]
  BY <1>1, <1>2
<1>4. Len(parts) \in Nat /\ <<>> \in Seq(Nat)
  OBVIOUS
<1> DEFINE F == [Seq(Nat) -> Seq(Nat)]
           steps == ConcatSteps(parts)
<1>5. steps \in [1 .. Len(parts) -> F]
  BY <1>3
<1> HIDE DEF F, steps
<1>6. Len(parts) \in Nat
  BY <1>4
<1>7. steps \in Seq(F) /\ Len(steps) = Len(parts)
  BY <1>5, <1>6, FunctionIsSequence
<1> QED BY <1>4, <1>7 DEF F, steps

(* Concat is what its parts make, one after the other.                      *)
LEMMA ConcatIs ==
    ASSUME NEW parts \in Seq(Seq(Nat))
    PROVE  Concat(parts) = After(<<>>, ConcatSteps(parts))
<1> DEFINE none == <<>>
           steps == ConcatSteps(parts)
           n == Len(parts)
           Body(f) == f = [i \in 0 .. Len(parts) |-> IF i = 0 THEN <<>> ELSE f[i - 1] \o parts[i]]
           g == CHOOSE f : Body(f)
<1>1. steps \in Seq([Seq(Nat) -> Seq(Nat)]) /\ Len(steps) = n /\ none \in Seq(Nat) /\ n \in Nat
  BY ConcatStepsTyped
<1>2. \A i \in 1 .. n : \A s \in Seq(Nat) : steps[i][s] = s \o parts[i]
  BY DEF ConcatSteps
<1> HIDE DEF steps, none
<1>3. PICK f \in [0 .. Len(steps) -> Seq(Nat)] : Passes(f, none, steps)
  <2>1. steps \in Seq([Seq(Nat) -> Seq(Nat)])
    BY <1>1
  <2>2. none \in Seq(Nat)
    BY <1>1
  <2> QED BY <2>1, <2>2, PassesExists, Zenon
<1>4. Body(f)
  <2>1. f = [i \in 0 .. n |-> IF i = 0 THEN none ELSE steps[i][f[i - 1]]]
    BY <1>1, <1>3 DEF Passes
  <2>2. ASSUME NEW i \in 0 .. n, i # 0 PROVE steps[i][f[i - 1]] = f[i - 1] \o parts[i]
    <3>1. i \in 1 .. n /\ i - 1 \in 0 .. Len(steps)
      BY <1>1, <2>2
    <3>2. f[i - 1] \in Seq(Nat)
      BY <1>3, <3>1
    <3> QED BY <1>2, <3>1, <3>2
  <2> HIDE DEF n
  <2>3. f = [i \in 0 .. n |-> IF i = 0 THEN none ELSE f[i - 1] \o parts[i]]
    BY <2>1, <2>2
  <2> QED BY <2>3 DEF n, none
<1>5. Body(g)
  BY <1>4, Zenon
<1>6. Concat(parts) = g[n]
  BY Zenon DEF Concat
<1>7. Yields(g, none, steps, Seq(Nat))
  <2> HIDE DEF g, n
  <2>1. \A i \in 0 .. n : g[i] = IF i = 0 THEN none ELSE g[i - 1] \o parts[i]
    <3>1. g = [i \in 0 .. n |-> IF i = 0 THEN none ELSE g[i - 1] \o parts[i]]
      BY <1>5, Zenon DEF none, n
    <3> QED BY <3>1, Zenon
  <2>2. 0 \in 0 .. n /\ \A i \in 1 .. n : i \in 0 .. n /\ i # 0
    BY <1>1
  <2> QED BY <1>1, <1>2, <2>1, <2>2 DEF Yields
<1> HIDE DEF g
<1>8. After(none, steps) = g[Len(steps)]
  <2>1. steps \in Seq([Seq(Nat) -> Seq(Nat)])
    BY <1>1
  <2>2. none \in Seq(Nat)
    BY <1>1
  <2> QED BY <2>1, <2>2, <1>7, AfterIs, Zenon
<1> QED BY <1>1, <1>6, <1>8 DEF steps, none

(* No part makes no bytes.                                                  *)
LEMMA ConcatNone == Concat(<<>>) = <<>>
<1> DEFINE none == <<>>
<1>1. none \in Seq(Seq(Nat)) /\ Len(none) = 0 /\ none \in Seq(Nat)
  OBVIOUS
<1> HIDE DEF none
<1>2. ConcatSteps(none) \in Seq([Seq(Nat) -> Seq(Nat)]) /\ Len(ConcatSteps(none)) = 0
  BY <1>1, ConcatStepsTyped
<1>3. ConcatSteps(none) = none
  BY <1>2, EmptySeq DEF none
<1>4. After(none, none) = none
  BY <1>1, AfterNone DEF none
<1>5. Concat(none) = After(<<>>, ConcatSteps(none))
  BY <1>1, ConcatIs
<1> QED BY <1>3, <1>4, <1>5 DEF none

(* One part more.                                                            *)
LEMMA ConcatMore ==
    ASSUME NEW parts \in Seq(Seq(Nat)), NEW part \in Seq(Nat)
    PROVE  Concat(parts) \in Seq(Nat) /\ Concat(Append(parts, part)) = Concat(parts) \o part
<1> DEFINE none == <<>>
           steps == ConcatSteps(parts)
           step == [s \in Seq(Nat) |-> s \o part]
           more == Append(parts, part)
           F == [Seq(Nat) -> Seq(Nat)]
<1>1. more \in Seq(Seq(Nat)) /\ Len(more) = Len(parts) + 1 /\ Len(parts) \in Nat
      /\ more[Len(parts) + 1] = part /\ \A i \in 1 .. Len(parts) : more[i] = parts[i]
  BY AppendProperties
<1>2. steps \in Seq(F) /\ Len(steps) = Len(parts) /\ none \in Seq(Nat)
  BY ConcatStepsTyped
<1>3. step \in F
  BY ConcatProperties
<1>4. ConcatSteps(more) = Append(steps, step)
  <2> DEFINE t == Append(steps, step)
             s == ConcatSteps(more)
  <2>1. t \in Seq(F) /\ Len(t) = Len(parts) + 1
        /\ t[Len(parts) + 1] = step /\ \A i \in 1 .. Len(parts) : t[i] = steps[i]
    <3> HIDE DEF steps, step, F
    <3>1. steps \in Seq(F)
      BY <1>2
    <3>2. /\ t \in Seq(F) /\ Len(t) = Len(steps) + 1
          /\ t[Len(steps) + 1] = step /\ \A i \in 1 .. Len(steps) : t[i] = steps[i]
      BY <3>1, <1>3, AppendProperties
    <3> QED BY <1>2, <3>2
  <2>2. s \in Seq(F) /\ Len(s) = Len(parts) + 1
    <3> HIDE DEF more
    <3> QED BY <1>1, ConcatStepsTyped
  <2>3. ASSUME NEW i \in 1 .. Len(parts) + 1 PROVE s[i] = t[i]
    <3>1. s[i] = [q \in Seq(Nat) |-> q \o more[i]]
      BY <1>1, <2>3 DEF ConcatSteps
    <3>2. CASE i = Len(parts) + 1
      <4>1. t[i] = step /\ more[i] = part
        BY <3>2, <2>1, <1>1
      <4> HIDE DEF s, t, more
      <4> QED BY <3>1, <4>1
    <3>3. CASE i # Len(parts) + 1
      <4>1. i \in 1 .. Len(parts)
        BY <3>3, <1>1
      <4>2. steps[i] = [q \in Seq(Nat) |-> q \o parts[i]]
        BY <4>1 DEF ConcatSteps
      <4>3. t[i] = steps[i] /\ more[i] = parts[i]
        BY <4>1, <2>1, <1>1
      <4> HIDE DEF s, t, more, steps
      <4> QED BY <3>1, <4>2, <4>3
    <3> QED BY <3>2, <3>3
  <2> HIDE DEF s, t
  <2>4. s = t
    BY <2>1, <2>2, <2>3, SeqEqual
  <2> QED BY <2>4 DEF s, t
<1> HIDE DEF steps, step, more, none
<1>5. After(none, Append(steps, step)) = step[After(none, steps)]
  <2>1. none \in Seq(Nat)
    BY <1>2
  <2>2. steps \in Seq(F)
    BY <1>2
  <2> QED BY <2>1, <2>2, <1>3, AfterMore
<1>6. After(none, steps) \in Seq(Nat)
  <2>1. none \in Seq(Nat)
    BY <1>2
  <2>2. steps \in Seq(F)
    BY <1>2
  <2> QED BY <2>1, <2>2, AfterTyped
<1>7. Concat(parts) = After(none, steps)
  BY ConcatIs DEF steps, none
<1>8. Concat(more) = After(none, ConcatSteps(more))
  BY <1>1, ConcatIs DEF none
<1>9. step[Concat(parts)] = Concat(parts) \o part
  BY <1>6, <1>7 DEF step
<1> QED BY <1>4, <1>5, <1>6, <1>7, <1>8, <1>9 DEF more

(* Where the parts are: part j of b starts after off[j - 1] bytes.           *)
Laid(b, parts, off) ==
    /\ off \in [0 .. Len(parts) -> Nat] /\ off[0] = 0 /\ off[Len(parts)] = Len(b)
    /\ \A j \in 0 .. Len(parts) : off[j] <= Len(b)
    /\ \A j \in 1 .. Len(parts) :
          /\ off[j] = off[j - 1] + Len(parts[j])
          /\ \A k \in 1 .. Len(parts[j]) : b[off[j - 1] + k] = parts[j][k]

(* No part lies in no bytes.                                                *)
LEMMA LaidNone == Laid(<<>>, <<>>, [j \in 0 .. 0 |-> 0])
<1> DEFINE none == <<>>
           off == [j \in 0 .. 0 |-> 0]
<1>1. Len(none) = 0 /\ off \in [0 .. 0 -> Nat] /\ off[0] = 0
  OBVIOUS
<1> HIDE DEF none, off
<1>2. Laid(none, none, off)
  BY <1>1 DEF Laid
<1> QED BY <1>2 DEF none, off

(* One part more lies behind the others.                                    *)
LEMMA LaidMore ==
    ASSUME NEW b \in Seq(Nat), NEW parts \in Seq(Seq(Nat)), NEW off, Laid(b, parts, off),
           NEW part \in Seq(Nat)
    PROVE  \E o : Laid(b \o part, Append(parts, part), o)
<1> DEFINE n == Len(parts)
           m == Len(b)
           p == Len(part)
           o == [j \in 0 .. n + 1 |-> IF j = n + 1 THEN m + p ELSE off[j]]
           all == b \o part
           more == Append(parts, part)
<1>1. /\ n \in Nat /\ m \in Nat /\ p \in Nat
      /\ Len(all) = m + p /\ \A i \in 1 .. m : all[i] = b[i]
      /\ \A i \in 1 .. p : all[m + i] = part[i]
  OBVIOUS
<1>2. /\ Len(more) = n + 1 /\ more[n + 1] = part /\ \A j \in 1 .. n : more[j] = parts[j]
  BY AppendProperties
<1>3. \A j \in 1 .. n : Len(parts[j]) \in Nat
  OBVIOUS
<1> HIDE DEF n, m, p, all, more
<1>4. /\ off \in [0 .. n -> Nat] /\ off[0] = 0 /\ off[n] = m /\ \A j \in 0 .. n : off[j] <= m
      /\ \A j \in 1 .. n :
          /\ off[j] = off[j - 1] + Len(parts[j])
          /\ \A k \in 1 .. Len(parts[j]) : b[off[j - 1] + k] = parts[j][k]
  BY DEF Laid, n, m
<1>5. \A j \in 0 .. n : o[j] = off[j] /\ off[j] \in Nat
  BY <1>1, <1>4
<1>6. o[n + 1] = m + p
  BY <1>1
<1>7. o \in [0 .. n + 1 -> Nat] /\ o[0] = 0 /\ \A j \in 0 .. n + 1 : o[j] <= m + p
  BY <1>1, <1>4, <1>5, <1>6
<1>8. ASSUME NEW j \in 1 .. n + 1
      PROVE  /\ o[j] = o[j - 1] + Len(more[j])
             /\ \A k \in 1 .. Len(more[j]) : all[o[j - 1] + k] = more[j][k]
  <2>1. CASE j = n + 1
    <3>1. j - 1 = n /\ more[j] = part /\ o[j - 1] = m /\ o[j] = m + p /\ Len(part) = p
      BY <2>1, <1>1, <1>2, <1>4, <1>5, <1>6 DEF p
    <3> HIDE DEF o
    <3> QED BY <3>1, <1>1
  <2>2. CASE j # n + 1
    <3>1. j \in 1 .. n /\ j - 1 \in 0 .. n /\ j \in 0 .. n
      BY <2>2, <1>1
    <3>2. o[j] = off[j] /\ o[j - 1] = off[j - 1] /\ more[j] = parts[j]
      BY <3>1, <1>2, <1>5
    <3> HIDE DEF o
    <3>3. ASSUME NEW k \in 1 .. Len(parts[j]) PROVE all[off[j - 1] + k] = parts[j][k]
      <4>1. b[off[j - 1] + k] = parts[j][k]
        BY <3>1, <1>4
      <4>2. off[j - 1] + k \in 1 .. m
        <5>1. off[j] = off[j - 1] + Len(parts[j]) /\ off[j] <= m /\ off[j - 1] \in Nat
              /\ Len(parts[j]) \in Nat /\ off[j] \in Nat
          BY <3>1, <1>3, <1>4, <1>5
        <5>2. k \in Nat /\ 1 <= k /\ k <= Len(parts[j]) /\ m \in Nat
          BY <5>1, <1>1
        <5> HIDE DEF m
        <5>3. ASSUME NEW x \in Nat, NEW y \in Nat, NEW l \in Nat, NEW z \in Nat,
                     y = x + l, y <= m, z <= l, 1 <= z
              PROVE  x + z \in 1 .. m
          BY <5>2, <5>3
        <5> QED BY <5>1, <5>2, <5>3
      <4> QED BY <4>1, <4>2, <1>1
    <3> QED BY <3>1, <3>2, <3>3, <1>4
  <2> QED BY <2>1, <2>2
<1> HIDE DEF o
<1>9. Laid(all, more, o)
  BY <1>1, <1>2, <1>6, <1>7, <1>8 DEF Laid
<1> QED BY <1>9 DEF all, more

(* What Concat makes has all its parts, in order and without gaps.          *)
LEMMA ConcatLaid ==
    \A parts \in Seq(Seq(Nat)) : Concat(parts) \in Seq(Nat) /\ \E off : Laid(Concat(parts), parts, off)
<1> DEFINE T == {parts \in Seq(Seq(Nat)) : \E off : Laid(Concat(parts), parts, off)}
<1>1. <<>> \in T
  BY LaidNone, ConcatNone
<1>2. ASSUME NEW parts \in Seq(Seq(Nat)), NEW part \in Seq(Nat), parts \in T PROVE Append(parts, part) \in T
  <2>1. PICK off : Laid(Concat(parts), parts, off)
    BY <1>2
  <2>2. Append(parts, part) \in Seq(Seq(Nat))
    BY AppendProperties
  <2>3. Concat(parts) \in Seq(Nat) /\ Concat(Append(parts, part)) = Concat(parts) \o part
    BY ConcatMore
  <2>4. \E o : Laid(Concat(parts) \o part, Append(parts, part), o)
    <3>1. Concat(parts) \in Seq(Nat)
      BY <2>3
    <3> QED BY <2>1, <3>1, LaidMore
  <2> QED BY <2>2, <2>3, <2>4
<1> HIDE DEF T
<1>3. Seq(Seq(Nat)) \subseteq T
  BY <1>1, <1>2, SequenceInduction
<1>4. <<>> \in Seq(Nat)
  OBVIOUS
<1>5. \A parts \in Seq(Seq(Nat)) : Concat(parts) \in Seq(Nat)
  BY <1>4, ConcatMore
<1> QED BY <1>3, <1>5 DEF T

-----------------------------------------------------------------------------
(* What H.264 says of NAL units, byte by byte.                               *)
LEMMA NalBytes ==
    ASSUME NEW nal \in ValidNals
    PROVE  /\ nal \in Seq(Nat) /\ Len(nal) \in 1 .. MaxPayload + 1 /\ nal[Len(nal)] # 0
           /\ \A k \in 1 .. Len(nal) - 2 : ~(nal[k] = 0 /\ nal[k + 1] = 0 /\ nal[k + 2] <= 2)
<1>0. PICK h \in Headers, p \in Payloads : nal = <<h>> \o p
  <2>1. nal \in NalUnits
    BY Zenon DEF ValidNals
  <2> QED BY <2>1 DEF NalUnits
<1>1. PICK n \in 0 .. MaxPayload : p \in [1 .. n -> Bytes]
  BY DEF Payloads
<1>2. MaxPayload \in Nat /\ Headers \subseteq Nat /\ Bytes \subseteq Nat
  BY MediaAssumption
<1>3. n \in Nat /\ p \in [1 .. n -> Nat]
  <2>1. n \in Nat
    BY <1>2
  <2>2. \A i \in 1 .. n : p[i] \in Nat
    BY <1>1, <1>2
  <2> QED BY <1>1, <2>1, <2>2
<1>4. p \in Seq(Nat) /\ Len(p) = n
  BY <1>3
<1> DEFINE one == <<h>>
<1>5. one \in Seq(Nat) /\ Len(one) = 1
  BY <1>2
<1> HIDE DEF one
<1>6. one \o p \in Seq(Nat) /\ Len(one \o p) = 1 + n
  BY <1>4, <1>5, ConcatProperties
<1>7. nal \in Seq(Nat) /\ Len(nal) = 1 + n
  BY <1>0, <1>6 DEF one
<1>8. nal[Len(nal)] # 0 /\ ~HasCode(nal)
  BY DEF ValidNals
<1> QED BY <1>2, <1>3, <1>7, <1>8 DEF HasCode

(* NAL units one after the other, each behind a head of four bytes.          *)
Framed(b, nals, heads, off) ==
    /\ off \in [0 .. Len(nals) -> Nat] /\ off[0] = 0 /\ off[Len(nals)] = Len(b)
    /\ \A j \in 1 .. Len(nals) :
          /\ off[j] = off[j - 1] + 4 + Len(nals[j]) /\ off[j] <= Len(b)
          /\ \A k \in 1 .. 4 : b[off[j - 1] + k] = heads[j][k]
          /\ \A k \in 1 .. Len(nals[j]) : b[off[j - 1] + 4 + k] = nals[j][k]

Heads(nals) == {heads \in [1 .. Len(nals) -> Seq(Nat)] : \A j \in 1 .. Len(nals) : Len(heads[j]) = 4}

(* What Concat makes of heads and units is laid out in that way.            *)
LEMMA FramedIs ==
    ASSUME NEW nals \in Seq(Seq(Nat)), NEW heads \in Heads(nals)
    PROVE  LET parts == [i \in DOMAIN nals |-> heads[i] \o nals[i]]
           IN /\ parts \in Seq(Seq(Nat)) /\ Concat(parts) \in Seq(Nat)
              /\ \E off : Framed(Concat(parts), nals, heads, off)
<1> DEFINE n == Len(nals)
           parts == [i \in DOMAIN nals |-> heads[i] \o nals[i]]
           b == Concat(parts)
<1>1. n \in Nat /\ DOMAIN nals = 1 .. n /\ \A j \in 1 .. n : nals[j] \in Seq(Nat) /\ Len(nals[j]) \in Nat
  OBVIOUS
<1>2. \A j \in 1 .. n : heads[j] \in Seq(Nat) /\ Len(heads[j]) = 4
  BY DEF Heads
<1> HIDE DEF n
<1>3. ASSUME NEW j \in 1 .. n
      PROVE  /\ parts[j] \in Seq(Nat) /\ Len(parts[j]) = 4 + Len(nals[j])
             /\ \A k \in 1 .. 4 : parts[j][k] = heads[j][k]
             /\ \A k \in 1 .. Len(nals[j]) : parts[j][4 + k] = nals[j][k]
  <2> DEFINE h == heads[j]
             a == nals[j]
  <2>1. h \in Seq(Nat) /\ Len(h) = 4 /\ a \in Seq(Nat) /\ Len(a) \in Nat /\ parts[j] = h \o a
    BY <1>1, <1>2
  <2> HIDE DEF h, a, parts
  <2>2. /\ h \o a \in Seq(Nat) /\ Len(h \o a) = 4 + Len(a)
        /\ \A i \in 1 .. 4 + Len(a) : (h \o a)[i] = IF i <= 4 THEN h[i] ELSE a[i - 4]
    <3>1. h \in Seq(Nat)
      BY <2>1
    <3>2. a \in Seq(Nat)
      BY <2>1
    <3>3. /\ h \o a \in Seq(Nat) /\ Len(h \o a) = Len(h) + Len(a)
          /\ \A i \in 1 .. Len(h) + Len(a) : (h \o a)[i] = IF i <= Len(h) THEN h[i] ELSE a[i - Len(h)]
      BY <3>1, <3>2, ConcatProperties
    <3> QED BY <2>1, <3>3
  <2>3. \A k \in 1 .. 4 : (h \o a)[k] = h[k]
    BY <2>1, <2>2
  <2>4. \A k \in 1 .. Len(a) : (h \o a)[4 + k] = a[k]
    BY <2>1, <2>2
  <2> QED BY <2>1, <2>2, <2>3, <2>4 DEF h, a
<1>4. parts \in [1 .. n -> Seq(Nat)] /\ n \in Nat
  BY <1>1, <1>3
<1> HIDE DEF parts
<1>5. parts \in Seq(Seq(Nat)) /\ Len(parts) = n
  BY <1>1, <1>4, FunctionIsSequence
<1>6. PICK off : Laid(b, parts, off)
  BY <1>5, ConcatLaid
<1>7. b \in Seq(Nat)
  BY <1>5, ConcatLaid
<1> HIDE DEF b
<1>8. /\ off \in [0 .. n -> Nat] /\ off[0] = 0 /\ off[n] = Len(b) /\ \A j \in 0 .. n : off[j] <= Len(b)
      /\ \A j \in 1 .. n :
          /\ off[j] = off[j - 1] + Len(parts[j])
          /\ \A k \in 1 .. Len(parts[j]) : b[off[j - 1] + k] = parts[j][k]
  BY <1>5, <1>6 DEF Laid
<1>9. ASSUME NEW j \in 1 .. n
      PROVE  /\ off[j] = off[j - 1] + 4 + Len(nals[j]) /\ off[j] <= Len(b)
             /\ \A k \in 1 .. 4 : b[off[j - 1] + k] = heads[j][k]
             /\ \A k \in 1 .. Len(nals[j]) : b[off[j - 1] + 4 + k] = nals[j][k]
  <2>1. /\ off[j] = off[j - 1] + Len(parts[j]) /\ off[j] <= Len(b) /\ j - 1 \in 0 .. n
        /\ off[j - 1] \in Nat /\ Len(nals[j]) \in Nat /\ Len(parts[j]) = 4 + Len(nals[j])
    BY <1>1, <1>3, <1>8
  <2>2. ASSUME NEW k \in 1 .. 4 PROVE b[off[j - 1] + k] = heads[j][k]
    <3>1. k \in 1 .. Len(parts[j])
      BY <2>1
    <3> QED BY <3>1, <1>3, <1>8
  <2>3. ASSUME NEW k \in 1 .. Len(nals[j]) PROVE b[off[j - 1] + 4 + k] = nals[j][k]
    <3>1. 4 + k \in 1 .. Len(parts[j]) /\ off[j - 1] + (4 + k) = off[j - 1] + 4 + k
      <4>1. ASSUME NEW x \in Nat, NEW l \in Nat, NEW z \in 1 .. l
            PROVE  4 + z \in 1 .. 4 + l /\ x + (4 + z) = x + 4 + z
        OBVIOUS
      <4> QED BY <2>1, <4>1
    <3>2. b[off[j - 1] + (4 + k)] = parts[j][4 + k]
      BY <3>1, <1>8
    <3> QED BY <3>1, <3>2, <1>3
  <2>4. off[j] = off[j - 1] + 4 + Len(nals[j])
    <3>1. ASSUME NEW x \in Nat, NEW l \in Nat PROVE x + (4 + l) = x + 4 + l
      OBVIOUS
    <3> QED BY <2>1, <3>1
  <2> QED BY <2>1, <2>2, <2>3, <2>4
<1>10. Framed(b, nals, heads, off)
  BY <1>8, <1>9 DEF Framed, n
<1> QED BY <1>5, <1>7, <1>10 DEF b, parts

(* Where a place is: in one of the units with its head.                      *)
LEMMA FramedAt ==
    ASSUME NEW b \in Seq(Nat), NEW nals \in Seq(Seq(Nat)), NEW heads, NEW off,
           Framed(b, nals, heads, off), NEW i \in 1 .. Len(b)
    PROVE  \E j \in 1 .. Len(nals) : off[j - 1] < i /\ i <= off[j]
<1> DEFINE T == {j \in 0 .. Len(nals) : i <= off[j] => \E m \in 1 .. Len(nals) : off[m - 1] < i /\ i <= off[m]}
<1>0. Len(nals) \in Nat /\ Len(b) \in Nat
  OBVIOUS
<1>1. 0 \in T
  BY <1>0 DEF Framed
<1>2. ASSUME NEW j \in 1 .. Len(nals), j - 1 \in T PROVE j \in T
  <2>0. j \in 0 .. Len(nals) /\ j - 1 \in 0 .. Len(nals) /\ off \in [0 .. Len(nals) -> Nat]
    BY <1>0 DEF Framed
  <2>1. off[j] \in Nat /\ off[j - 1] \in Nat /\ j \in 0 .. Len(nals)
    BY <2>0
  <2>2. CASE i <= off[j - 1]
    BY <2>1, <2>2, <1>2
  <2>3. CASE ~(i <= off[j - 1])
    BY <2>1, <2>3, <1>0
  <2> QED BY <2>2, <2>3
<1> HIDE DEF T
<1>3. 0 .. Len(nals) \subseteq T
  BY <1>0, <1>1, <1>2, BoundedInduction
<1>4. Len(nals) \in 0 .. Len(nals)
  BY <1>0
<1>5. Len(nals) \in T
  BY <1>3, <1>4
<1> QED BY <1>0, <1>5 DEF T, Framed

(* In Annex B every head is a start code.                                    *)
Coded(b, nals, off) == Framed(b, nals, [i \in DOMAIN nals |-> StartCode], off)

(* What is known of the units of a sample.                                  *)
LEMMA ValidSequence ==
    ASSUME NEW nals \in Seq(ValidNals)
    PROVE  /\ nals \in Seq(Seq(Nat)) /\ Len(nals) \in Nat /\ DOMAIN nals = 1 .. Len(nals)
           /\ \A j \in 1 .. Len(nals) :
                 /\ nals[j] \in Seq(Nat) /\ Len(nals[j]) \in 1 .. MaxPayload + 1 /\ Len(nals[j]) \in Nat
                 /\ nals[j][Len(nals[j])] # 0
                 /\ \A k \in 1 .. Len(nals[j]) - 2 :
                       ~(nals[j][k] = 0 /\ nals[j][k + 1] = 0 /\ nals[j][k + 2] <= 2)
<1>1. Len(nals) \in Nat /\ DOMAIN nals = 1 .. Len(nals) /\ \A j \in 1 .. Len(nals) : nals[j] \in ValidNals
  OBVIOUS
<1>2. ASSUME NEW j \in 1 .. Len(nals)
      PROVE  /\ nals[j] \in Seq(Nat) /\ Len(nals[j]) \in 1 .. MaxPayload + 1 /\ Len(nals[j]) \in Nat
             /\ nals[j][Len(nals[j])] # 0
             /\ \A k \in 1 .. Len(nals[j]) - 2 :
                   ~(nals[j][k] = 0 /\ nals[j][k + 1] = 0 /\ nals[j][k + 2] <= 2)
  <2> DEFINE nal == nals[j]
  <2>1. nal \in ValidNals
    BY <1>1
  <2> HIDE DEF nal
  <2>2. /\ nal \in Seq(Nat) /\ Len(nal) \in 1 .. MaxPayload + 1 /\ nal[Len(nal)] # 0
        /\ \A k \in 1 .. Len(nal) - 2 : ~(nal[k] = 0 /\ nal[k + 1] = 0 /\ nal[k + 2] <= 2)
    BY <2>1, NalBytes
  <2>3. Len(nal) \in Nat
    BY <2>2
  <2> QED BY <2>2, <2>3 DEF nal
<1>3. nals \in [1 .. Len(nals) -> Seq(Nat)]
  <2>1. \A j \in 1 .. Len(nals) : nals[j] \in Seq(Nat)
    BY <1>2
  <2> QED BY <1>1, <2>1
<1>4. nals \in Seq(Seq(Nat))
  <2>1. Len(nals) \in Nat
    BY <1>1
  <2> QED BY <1>3, <2>1, FunctionIsSequence
<1> QED BY <1>1, <1>2, <1>4

(* The bytes AnnexB makes are units behind start codes.                     *)
LEMMA AnnexBCoded ==
    ASSUME NEW nals \in Seq(ValidNals)
    PROVE  AnnexB(nals) \in Seq(Nat) /\ \E off : Coded(AnnexB(nals), nals, off)
<1> DEFINE heads == [i \in DOMAIN nals |-> StartCode]
<1>1. StartCode \in Seq(Nat) /\ Len(StartCode) = 4
  BY DEF StartCode
<1>2. heads \in Heads(nals)
  BY <1>1, ValidSequence DEF Heads
<1>3. AnnexB(nals) = Concat([i \in DOMAIN nals |-> heads[i] \o nals[i]])
  BY DEF AnnexB
<1> HIDE DEF heads
<1>4. nals \in Seq(Seq(Nat))
  BY ValidSequence
<1>5. AnnexB(nals) \in Seq(Nat) /\ \E off : Framed(AnnexB(nals), nals, heads, off)
  BY <1>2, <1>3, <1>4, FramedIs
<1> QED BY <1>5 DEF Coded, heads

(* The bytes of a unit and of the start code before it, after the first at.  *)
UnitAt(b, nal, at) ==
    /\ Len(nal) >= 1 /\ at + 4 + Len(nal) <= Len(b)
    /\ b[at + 1] = 0 /\ b[at + 2] = 0 /\ b[at + 3] = 0 /\ b[at + 4] = 1
    /\ \A k \in 1 .. Len(nal) : b[at + 4 + k] = nal[k]
    /\ nal[Len(nal)] # 0
    /\ \A k \in 1 .. Len(nal) - 2 : ~(nal[k] = 0 /\ nal[k + 1] = 0 /\ nal[k + 2] <= 2)

(* Each unit of b is such a place, and the next one begins where it ends.    *)
LEMMA CodedUnit ==
    ASSUME NEW b \in Seq(Nat), NEW nals \in Seq(ValidNals), NEW off, Coded(b, nals, off),
           NEW j \in 1 .. Len(nals)
    PROVE  /\ off[j - 1] \in Nat /\ nals[j] \in Seq(Nat) /\ Len(nals[j]) \in Nat
           /\ UnitAt(b, nals[j], off[j - 1]) /\ off[j] = off[j - 1] + 4 + Len(nals[j])
<1> DEFINE at == off[j - 1]
           nal == nals[j]
           l == Len(nals[j])
<1>0. Len(nals) \in Nat /\ j - 1 \in 0 .. Len(nals)
  OBVIOUS
<1>1. nal \in Seq(Nat) /\ l \in 1 .. MaxPayload + 1 /\ l \in Nat /\ nal[l] # 0
      /\ \A k \in 1 .. l - 2 : ~(nal[k] = 0 /\ nal[k + 1] = 0 /\ nal[k + 2] <= 2)
  BY ValidSequence
<1>2. /\ at \in Nat /\ off[j] = at + 4 + l /\ off[j] <= Len(b)
      /\ \A k \in 1 .. l : b[at + 4 + k] = nal[k]
  BY <1>0 DEF Coded, Framed
<1>3. \A k \in 1 .. 4 : b[at + k] = StartCode[k]
  <2>1. DOMAIN nals = 1 .. Len(nals)
    OBVIOUS
  <2> QED BY <2>1 DEF Coded, Framed
<1>4. b[at + 1] = 0 /\ b[at + 2] = 0 /\ b[at + 3] = 0 /\ b[at + 4] = 1
  BY <1>3 DEF StartCode
<1>5. l >= 1
  <2>1. l \in 1 .. MaxPayload + 1
    BY <1>1
  <2>2. MaxPayload \in Nat
    BY MediaAssumption
  <2> HIDE DEF l
  <2> QED BY <2>1, <2>2
<1>6. at + 4 + l <= Len(b)
  BY <1>2
<1>7. UnitAt(b, nal, at)
  BY <1>1, <1>2, <1>4, <1>5, <1>6 DEF UnitAt
<1> QED BY <1>1, <1>2, <1>7

(* Where the start codes are in it, and where they are not.                  *)
LEMMA UnitCodes ==
    ASSUME NEW b \in Seq(Nat), NEW nal \in Seq(Nat), NEW at \in Nat, UnitAt(b, nal, at)
    PROVE  /\ LongCodeAt(b, at + 1) /\ CodeAt(b, at + 1)
           /\ CodeAt(b, at + 2) /\ ~LongCodeAt(b, at + 2)
           /\ \A i \in at + 3 .. at + 4 + Len(nal) : ~CodeAt(b, i)
<1> DEFINE l == Len(nal)
           m == Len(b)
<1>0. m \in Nat /\ l \in Nat
  OBVIOUS
<1>1. /\ l >= 1 /\ at + 4 + l <= m
      /\ b[at + 1] = 0 /\ b[at + 2] = 0 /\ b[at + 3] = 0 /\ b[at + 4] = 1
      /\ \A k \in 1 .. l : b[at + 4 + k] = nal[k]
      /\ nal[l] # 0
      /\ \A k \in 1 .. l - 2 : ~(nal[k] = 0 /\ nal[k + 1] = 0 /\ nal[k + 2] <= 2)
  BY DEF UnitAt
<1> HIDE DEF l, m
<1>2. at + 1 \in Nat \ {0} /\ at + 1 + 3 <= m
  BY <1>0, <1>1
<1>3. at + 2 \in Nat \ {0} /\ at + 2 + 2 <= m
  BY <1>0, <1>1
<1>4. /\ at + 1 + 1 = at + 2 /\ at + 1 + 2 = at + 3 /\ at + 1 + 3 = at + 4
      /\ at + 2 + 1 = at + 3 /\ at + 2 + 2 = at + 4
  OBVIOUS
<1>5. LongCodeAt(b, at + 1) /\ CodeAt(b, at + 1)
  <2>1. at + 1 \in Nat \ {0}
    BY <1>2
  <2>2. LongCodeAt(b, at + 1) <=> at + 1 + 3 <= m /\ b[at + 1] = 0 /\ b[at + 1 + 1] = 0
                                  /\ b[at + 1 + 2] = 0 /\ b[at + 1 + 3] = 1
    BY <2>1, SliceIs DEF m
  <2>3. LongCodeAt(b, at + 1)
    BY <2>2, <1>1, <1>2, <1>4
  <2> QED BY <2>3 DEF CodeAt
<1>6. ~LongCodeAt(b, at + 2) /\ CodeAt(b, at + 2)
  <2>1. at + 2 \in Nat \ {0}
    BY <1>3
  <2>2. LongCodeAt(b, at + 2) => b[at + 2 + 2] = 0
    BY <2>1, SliceIs
  <2>3. ShortCodeAt(b, at + 2) <=> at + 2 + 2 <= m /\ b[at + 2] = 0 /\ b[at + 2 + 1] = 0
                                   /\ b[at + 2 + 2] = 1
    BY <2>1, SliceIs DEF m
  <2>4. ShortCodeAt(b, at + 2) /\ ~LongCodeAt(b, at + 2)
    BY <2>2, <2>3, <1>1, <1>3, <1>4
  <2> QED BY <2>4 DEF CodeAt
<1>7. ASSUME NEW i \in at + 3 .. at + 4 + l, CodeAt(b, i) PROVE FALSE
  <2>1. i \in Nat \ {0}
    BY <1>0
  <2>2. b[i] = 0 /\ b[i + 1] = 0 /\ (b[i + 2] = 0 \/ b[i + 2] = 1) /\ i + 2 <= m
    <3>1. LongCodeAt(b, i) => i + 2 <= Len(b) /\ b[i] = 0 /\ b[i + 1] = 0 /\ b[i + 2] = 0
      <4>1. LongCodeAt(b, i) => i + 3 <= m /\ b[i] = 0 /\ b[i + 1] = 0 /\ b[i + 2] = 0
        BY <2>1, SliceIs DEF m
      <4>2. i + 3 <= m => i + 2 <= m
        BY <2>1, <1>0
      <4> QED BY <4>1, <4>2 DEF m
    <3>2. ShortCodeAt(b, i) => i + 2 <= Len(b) /\ b[i] = 0 /\ b[i + 1] = 0 /\ b[i + 2] = 1
      BY <2>1, SliceIs
    <3> QED BY <3>1, <3>2, <1>7 DEF CodeAt, m
  <2>3. i # at + 3 /\ i # at + 4
    <3>1. ASSUME i = at + 4 PROVE FALSE
      BY <3>1, <2>2, <1>1
    <3>2. ASSUME i = at + 3 PROVE FALSE
      <4>1. i + 1 = at + 4
        BY <3>2
      <4>2. b[i + 1] = 0 /\ b[at + 4] = 1
        BY <2>2, <1>1
      <4> QED BY <4>1, <4>2
    <3> QED BY <3>1, <3>2
  <2> DEFINE k == i - at - 4
  <2>4. k \in 1 .. l /\ i = at + 4 + k /\ i + 1 = at + 4 + (k + 1) /\ i + 2 = at + 4 + (k + 2)
    BY <2>3, <1>0
  <2> HIDE DEF k
  <2>5. nal[k] = 0
    BY <2>2, <2>4, <1>1
  <2>6. k # l
    BY <2>5, <1>1
  <2>7. k + 1 \in 1 .. l
    BY <2>4, <2>6, <1>0
  <2>8. nal[k + 1] = 0
    BY <2>2, <2>4, <2>7, <1>1
  <2>9. k + 1 # l
    BY <2>8, <1>1
  <2>10. k + 2 \in 1 .. l /\ k \in 1 .. l - 2
    BY <2>4, <2>7, <2>9, <1>0
  <2>11. nal[k + 2] = 0 \/ nal[k + 2] = 1
    BY <2>2, <2>4, <2>10, <1>1
  <2>12. nal[k + 2] <= 2
    BY <2>11
  <2> QED BY <2>5, <2>8, <2>10, <2>12, <1>1
<1> QED BY <1>5, <1>6, <1>7 DEF l

(* A start code in b is that of a unit, or its last three bytes.             *)
LEMMA CodesAreUnits ==
    ASSUME NEW b \in Seq(Nat), NEW nals \in Seq(ValidNals), NEW off, Coded(b, nals, off),
           NEW i \in 1 .. Len(b), CodeAt(b, i)
    PROVE  \E j \in 1 .. Len(nals) : i = off[j - 1] + 1 \/ i = off[j - 1] + 2
<1>1. PICK j \in 1 .. Len(nals) : off[j - 1] < i /\ i <= off[j]
  <2>1. nals \in Seq(Seq(Nat))
    BY ValidSequence
  <2> QED BY <2>1, FramedAt DEF Coded
<1> DEFINE at == off[j - 1]
           nal == nals[j]
<1>2. at \in Nat /\ nal \in Seq(Nat) /\ Len(nal) \in Nat /\ UnitAt(b, nal, at) /\ off[j] = at + 4 + Len(nal)
  BY CodedUnit
<1>3. at < i /\ i <= at + 4 + Len(nal)
  BY <1>1, <1>2
<1> HIDE DEF at, nal
<1>4. \A k \in at + 3 .. at + 4 + Len(nal) : ~CodeAt(b, k)
  <2>1. at \in Nat
    BY <1>2
  <2>2. nal \in Seq(Nat)
    BY <1>2
  <2>3. UnitAt(b, nal, at)
    BY <1>2
  <2> QED BY <2>1, <2>2, <2>3, UnitCodes
<1>5. i \in Nat /\ i \notin at + 3 .. at + 4 + Len(nal)
  BY <1>4
<1>6. i = at + 1 \/ i = at + 2
  <2>1. ASSUME NEW x \in Nat, NEW y \in Nat, NEW l \in Nat, y < x, x <= y + 4 + l, x \notin y + 3 .. y + 4 + l
        PROVE  x = y + 1 \/ x = y + 2
    BY <2>1
  <2> QED BY <1>2, <1>3, <1>5, <2>1
<1> QED BY <1>6 DEF at

(* One turn of the parser at a place: the code from there, where the unit    *)
(* after it begins, the next code, and the unit in between.                  *)
FirstFrom(b, c) == find_start_code(b, c) + start_code_len(b, find_start_code(b, c))
NextFrom(b, c) == find_start_code(b, FirstFrom(b, c))
UnitFrom(b, c) ==
    IF FirstFrom(b, c) < NextFrom(b, c) THEN <<SubSeq(b, FirstFrom(b, c), NextFrom(b, c) - 1)>> ELSE <<>>

Parses(f, b) ==
    f = [c \in 1 .. Len(b) + 1 |->
            IF find_start_code(b, c) > Len(b) THEN <<>>
            ELSE UnitFrom(b, c) \o (IF NextFrom(b, c) > Len(b) THEN <<>> ELSE f[NextFrom(b, c)])]

(* A turn yields a unit of bytes at most, and goes forward.                  *)
LEMMA TurnTyped ==
    ASSUME NEW b \in Seq(Nat), NEW c \in 1 .. Len(b) + 1, find_start_code(b, c) <= Len(b)
    PROVE  /\ UnitFrom(b, c) \in Seq(Seq(Nat)) /\ NextFrom(b, c) \in Nat
           /\ NextFrom(b, c) <= Len(b) => NextFrom(b, c) \in c + 1 .. Len(b) + 1
<1> DEFINE start == find_start_code(b, c)
           first == FirstFrom(b, c)
           next == NextFrom(b, c)
           m == Len(b)
<1>0. m \in Nat /\ c \in Nat \ {0} /\ c <= m + 1
  OBVIOUS
<1>1. start \in c .. m /\ start \in Nat
  <2>1. c \in Nat \ {0}
    BY <1>0
  <2> QED BY <2>1, CodeFoundFrom
<1>2. start_code_len(b, start) \in {3, 4}
  BY DEF start_code_len
<1>3. first \in Nat \ {0} /\ first > c
  <2>1. first = start + start_code_len(b, start)
    BY DEF FirstFrom
  <2> HIDE DEF start, first
  <2> QED BY <1>0, <1>1, <1>2, <2>1
<1> HIDE DEF start
<1>4. next \in Nat /\ (next <= m => next \in first .. m)
  <2>1. first \in Nat \ {0}
    BY <1>3
  <2>2. next = find_start_code(b, first)
    BY DEF NextFrom
  <2> HIDE DEF first, next
  <2> QED BY <2>1, <2>2, CodeFoundFrom
<1>5. ASSUME first < next PROVE SubSeq(b, first, next - 1) \in Seq(Nat)
  <2>1. CASE next <= m
    <3>1. first \in Int /\ next - 1 \in Int /\ \A i \in first .. next - 1 : i \in 1 .. m
      BY <1>0, <1>3, <1>4, <2>1
    <3>2. \A i \in first .. next - 1 : b[i] \in Nat
      BY <3>1
    <3> HIDE DEF first, next
    <3> QED BY <3>1, <3>2, SubSeqProperties
  <2>2. CASE ~(next <= m)
    <3>1. next = m + 1
      <4>1. first \in Nat \ {0}
        BY <1>3
      <4>2. next = find_start_code(b, first)
        BY DEF NextFrom
      <4> HIDE DEF first, next
      <4>3. next > Len(b) => next = Len(b) + 1
        BY <4>1, <4>2, CodeFoundFrom
      <4> QED BY <4>3, <2>2, <1>0, <1>4
    <3>2. first \in Int /\ next - 1 \in Int /\ \A i \in first .. next - 1 : i \in 1 .. m
      BY <1>0, <1>3, <1>4, <3>1
    <3>3. \A i \in first .. next - 1 : b[i] \in Nat
      BY <3>2
    <3> HIDE DEF first, next
    <3> QED BY <3>2, <3>3, SubSeqProperties
  <2> QED BY <2>1, <2>2
<1>6. UnitFrom(b, c) \in Seq(Seq(Nat))
  <2> DEFINE u == SubSeq(b, first, next - 1)
             none == <<>>
             one == <<u>>
  <2>1. UnitFrom(b, c) = IF first < next THEN one ELSE none
    BY DEF UnitFrom
  <2>2. none \in Seq(Seq(Nat))
    OBVIOUS
  <2>3. ASSUME first < next PROVE one \in Seq(Seq(Nat))
    <3>1. u \in Seq(Nat)
      BY <1>5, <2>3
    <3> HIDE DEF u
    <3> QED BY <3>1
  <2> HIDE DEF one, none, first, next
  <2> QED BY <2>1, <2>2, <2>3
<1> HIDE DEF first, next
<1>7. next <= m => next \in c + 1 .. m + 1
  BY <1>0, <1>3, <1>4
<1> QED BY <1>4, <1>6, <1>7 DEF next, m

(* The parser is one function of the place.                                  *)
LEMMA NalusAre ==
    ASSUME NEW b \in Seq(Nat)
    PROVE  \E f : Parses(f, b) /\ annex_b_nalus(b) = f[1]
<1> DEFINE N == Len(b) + 1
           S == Seq(Seq(Nat))
           none == <<>>
           done == {c \in 1 .. N : find_start_code(b, c) > Len(b) \/ NextFrom(b, c) > Len(b)}
           here == [c \in 1 .. N |-> IF find_start_code(b, c) > Len(b) THEN none ELSE UnitFrom(b, c) \o none]
           step == [c \in 1 .. N |-> [r \in S |-> IF c \in done THEN r ELSE UnitFrom(b, c) \o r]]
           next == [c \in 1 .. N |-> NextFrom(b, c)]
<1>0. N \in Nat /\ Len(b) \in Nat /\ none \in S
  OBVIOUS
<1>1. ASSUME NEW c \in 1 .. N PROVE find_start_code(b, c) \in Nat
  <2>1. c \in Nat \ {0}
    BY <1>0
  <2> QED BY <2>1, CodeFoundFrom
<1>2. ASSUME NEW c \in 1 .. N, ~(find_start_code(b, c) > Len(b))
      PROVE  /\ UnitFrom(b, c) \in S /\ NextFrom(b, c) \in Nat
             /\ NextFrom(b, c) <= Len(b) => NextFrom(b, c) \in c + 1 .. N
  <2>1. find_start_code(b, c) <= Len(b)
    BY <1>0, <1>1, <1>2
  <2> QED BY <2>1, TurnTyped
<1>3. ASSUME NEW c \in 1 .. N PROVE here[c] \in S
  <2>1. CASE find_start_code(b, c) > Len(b)
    BY <1>0, <2>1
  <2>2. CASE ~(find_start_code(b, c) > Len(b))
    <3> DEFINE u == UnitFrom(b, c)
    <3>1. u \in S
      BY <1>2, <2>2
    <3>2. here[c] = u \o none
      BY <2>2
    <3> HIDE DEF u, none, here
    <3> QED BY <3>1, <3>2, <1>0, ConcatProperties
  <2> QED BY <2>1, <2>2
<1>4. ASSUME NEW c \in 1 .. N PROVE step[c] \in [S -> S]
  <2>1. CASE c \in done
    BY <2>1
  <2>2. CASE c \notin done
    <3>1. UnitFrom(b, c) \in S
      BY <1>2, <2>2
    <3>2. \A r \in S : UnitFrom(b, c) \o r \in S
      BY <3>1, ConcatProperties
    <3>3. step[c] = [r \in S |-> UnitFrom(b, c) \o r]
      BY <2>2
    <3> QED BY <3>2, <3>3
  <2> QED BY <2>1, <2>2
<1>5. ASSUME NEW c \in 1 .. N, c \notin done PROVE next[c] \in c + 1 .. N
  <2>1. ~(find_start_code(b, c) > Len(b)) /\ ~(NextFrom(b, c) > Len(b))
    BY <1>5
  <2>2. NextFrom(b, c) \in Nat
    BY <1>2, <2>1
  <2> QED BY <1>0, <1>2, <2>1, <2>2
<1>6. ASSUME NEW c \in 1 .. N, c \notin done, NEW r \in S PROVE step[c][r] = UnitFrom(b, c) \o r
  BY <1>6
<1>7. here \in [1 .. N -> S] /\ step \in [1 .. N -> [S -> S]]
  <2>1. here = [c \in 1 .. N |-> here[c]] /\ step = [c \in 1 .. N |-> step[c]]
    OBVIOUS
  <2> HIDE DEF here, step
  <2> QED BY <1>3, <1>4, <2>1
<1>8. \A c \in 1 .. N : (c \in done <=> find_start_code(b, c) > Len(b) \/ NextFrom(b, c) > Len(b))
                        /\ here[c] = (IF find_start_code(b, c) > Len(b) THEN none ELSE UnitFrom(b, c) \o none)
                        /\ next[c] = NextFrom(b, c)
  OBVIOUS
<1> HIDE DEF done, here, step, next, S, N, none
<1>9. PICK f \in [1 .. N -> S] : Jumps(f, N, done, here, step, next)
  <2>1. N \in Nat
    BY <1>0
  <2>2. here \in [1 .. N -> S]
    BY <1>7
  <2>3. step \in [1 .. N -> [S -> S]]
    BY <1>7
  <2> QED BY <2>1, <2>2, <2>3, <1>5, JumpsExist, Zenon
<1>10. ASSUME NEW c \in 1 .. N
       PROVE  f[c] = IF find_start_code(b, c) > Len(b) THEN none
                     ELSE UnitFrom(b, c) \o (IF NextFrom(b, c) > Len(b) THEN none ELSE f[NextFrom(b, c)])
  <2>1. f[c] = IF c \in done THEN here[c] ELSE step[c][f[next[c]]]
    BY <1>9 DEF Jumps
  <2>2. CASE c \in done
    BY <2>1, <2>2, <1>8
  <2>3. CASE c \notin done
    <3>1. next[c] \in 1 .. N
      BY <1>5, <2>3, <1>0
    <3>2. f[next[c]] \in S
      BY <3>1
    <3>3. step[c][f[next[c]]] = UnitFrom(b, c) \o f[next[c]]
      BY <1>6, <2>3, <3>2
    <3> QED BY <2>1, <2>3, <3>3, <1>8
  <2> QED BY <2>2, <2>3
<1>11. Parses(f, b)
  <2> DEFINE v(c) == IF find_start_code(b, c) > Len(b) THEN none
                     ELSE UnitFrom(b, c) \o (IF NextFrom(b, c) > Len(b) THEN none ELSE f[NextFrom(b, c)])
  <2>1. f = [c \in 1 .. N |-> f[c]]
    OBVIOUS
  <2>2. \A c \in 1 .. N : f[c] = v(c)
    BY <1>10
  <2> HIDE DEF v
  <2>3. f = [c \in 1 .. N |-> v(c)]
    BY <2>1, <2>2
  <2> QED BY <2>3, Zenon DEF v, Parses, N, none
<1> DEFINE g == CHOOSE g : Parses(g, b)
<1>12. Parses(g, b)
  BY <1>11, Zenon
<1>13. annex_b_nalus(b) = g[1]
  BY Zenon DEF annex_b_nalus, Parses, UnitFrom, NextFrom, FirstFrom
<1> HIDE DEF g
<1> QED BY <1>12, <1>13

(* The bytes after a head of four are those of the unit.                     *)
LEMMA UnitSlice ==
    ASSUME NEW b \in Seq(Nat), NEW nal \in Seq(Nat), NEW at \in Nat, at + 4 + Len(nal) <= Len(b),
           \A k \in 1 .. Len(nal) : b[at + 4 + k] = nal[k]
    PROVE  SubSeq(b, at + 5, at + 4 + Len(nal)) = nal
<1> DEFINE l == Len(nal)
           last == at + 4 + l
           s == SubSeq(b, at + 5, last)
<1>0. l \in Nat /\ Len(b) \in Nat
  OBVIOUS
<1>1. at + 5 \in Int /\ last \in Int /\ \A i \in at + 5 .. last : b[i] \in Nat
  <2>1. \A i \in at + 5 .. last : i \in 1 .. Len(b)
    BY <1>0
  <2> QED BY <1>0, <2>1
<1>2. last - (at + 5) + 1 = l /\ (at + 5 <= last \/ l = 0)
  BY <1>0
<1>3. \A k \in 1 .. l : at + 5 + k - 1 = at + 4 + k
  OBVIOUS
<1> HIDE DEF last
<1>4. /\ s \in Seq(Nat) /\ Len(s) = IF at + 5 <= last THEN last - (at + 5) + 1 ELSE 0
      /\ \A k \in 1 .. last - (at + 5) + 1 : s[k] = b[at + 5 + k - 1]
  BY <1>1, SubSeqProperties
<1>5. Len(s) = l
  BY <1>0, <1>2, <1>4
<1>6. \A k \in 1 .. l : s[k] = nal[k]
  BY <1>2, <1>3, <1>4
<1> HIDE DEF s, l
<1>7. s = nal
  BY <1>4, <1>5, <1>6, SeqEqual DEF l
<1> QED BY <1>7 DEF s, last, l

(* The parser, at a unit, finds it and goes on at the next.                  *)
LEMMA UnitsFollow ==
    ASSUME NEW b \in Seq(Nat), NEW nals \in Seq(ValidNals), NEW off, Coded(b, nals, off),
           NEW j \in 1 .. Len(nals)
    PROVE  /\ find_start_code(b, off[j - 1] + 1) = off[j - 1] + 1 /\ off[j - 1] + 1 \in 1 .. Len(b)
           /\ UnitFrom(b, off[j - 1] + 1) = <<nals[j]>>
           /\ NextFrom(b, off[j - 1] + 1) = off[j] + 1 /\ off[j] + 1 \in 1 .. Len(b) + 1
<1> DEFINE at == off[j - 1]
           nal == nals[j]
           l == Len(nal)
           m == Len(b)
           end == off[j]
<1>0. m \in Nat /\ Len(nals) \in Nat
  OBVIOUS
<1>1. at \in Nat /\ nal \in Seq(Nat) /\ l \in Nat /\ UnitAt(b, nal, at) /\ end = at + 4 + l
  BY CodedUnit
<1>2. j # Len(nals) => end \in Nat /\ UnitAt(b, nals[j + 1], end) /\ nals[j + 1] \in Seq(Nat)
  <2>1. ASSUME j # Len(nals) PROVE j + 1 \in 1 .. Len(nals) /\ (j + 1) - 1 = j
    BY <2>1, <1>0
  <2>2. ASSUME NEW i \in 1 .. Len(nals)
        PROVE  off[i - 1] \in Nat /\ UnitAt(b, nals[i], off[i - 1]) /\ nals[i] \in Seq(Nat)
    BY CodedUnit
  <2> HIDE DEF end
  <2>3. ASSUME j # Len(nals)
        PROVE  off[(j + 1) - 1] \in Nat /\ UnitAt(b, nals[j + 1], off[(j + 1) - 1]) /\ nals[j + 1] \in Seq(Nat)
    BY <2>1, <2>2, <2>3
  <2> QED BY <2>1, <2>3 DEF end
<1>3. j = Len(nals) => end = m
  BY DEF Coded, Framed
<1> DEFINE after == nals[j + 1]
<1> HIDE DEF at, nal, end, after
<1>4. at \in Nat
  BY <1>1
<1>5. nal \in Seq(Nat)
  BY <1>1
<1>6. UnitAt(b, nal, at)
  BY <1>1
<1>7. /\ LongCodeAt(b, at + 1) /\ CodeAt(b, at + 1) /\ \A i \in at + 3 .. at + 4 + Len(nal) : ~CodeAt(b, i)
  BY <1>4, <1>5, <1>6, UnitCodes
<1>8. /\ l >= 1 /\ at + 4 + l <= m /\ \A k \in 1 .. l : b[at + 4 + k] = nal[k]
  BY <1>6 DEF UnitAt
<1>9. at + 1 \in 1 .. m /\ at + 1 \in Nat \ {0} /\ at + 1 + 4 = at + 5
  <2>1. at + 4 + l <= m
    BY <1>8
  <2>2. ASSUME NEW x \in Nat, NEW y \in Nat, NEW z \in Nat, x + 4 + y <= z
        PROVE  x + 1 \in 1 .. z /\ x + 1 \in Nat \ {0} /\ x + 1 + 4 = x + 5
    BY <2>2
  <2> QED BY <1>0, <1>1, <2>1, <2>2
<1>10. find_start_code(b, at + 1) = at + 1
  <2>1. at + 1 \in Nat \ {0}
    BY <1>9
  <2>2. at + 1 \in at + 1 .. Len(b)
    BY <1>9
  <2>3. CodeAt(b, at + 1)
    BY <1>7
  <2>4. \A i \in at + 1 .. (at + 1) - 1 : ~CodeAt(b, i)
    BY <1>4
  <2> QED BY <2>1, <2>2, <2>3, <2>4, CodeFound
<1>11. FirstFrom(b, at + 1) = at + 5
  BY <1>7, <1>9, <1>10 DEF FirstFrom, start_code_len
<1>12. find_start_code(b, at + 5) = end + 1
  <2>0. at + 5 \in Nat \ {0}
    BY <1>4
  <2>1. \A i \in at + 5 .. end : ~CodeAt(b, i)
    <3>1. \A i \in at + 5 .. end : i \in at + 3 .. at + 4 + Len(nal)
      BY <1>1
    <3> QED BY <3>1, <1>7
  <2>2. CASE j = Len(nals)
    <3>1. \A i \in at + 5 .. Len(b) : ~CodeAt(b, i)
      BY <1>3, <2>1, <2>2
    <3>2. at + 5 \in Nat
      BY <2>0
    <3>3. find_start_code(b, at + 5) = Len(b) + 1
      BY <3>1, <3>2, NoCodeFound
    <3> QED BY <3>3, <1>3, <2>2
  <2>3. CASE j # Len(nals)
    <3>1. end \in Nat
      BY <1>2, <2>3
    <3>2. after \in Seq(Nat)
      BY <1>2, <2>3 DEF after
    <3>3. UnitAt(b, after, end)
      BY <1>2, <2>3 DEF after
    <3>4. CodeAt(b, end + 1)
      BY <3>1, <3>2, <3>3, UnitCodes
    <3>5. Len(after) \in Nat /\ end + 4 + Len(after) <= m
      BY <3>2, <3>3 DEF UnitAt
    <3>6. end + 1 \in at + 5 .. Len(b)
      BY <3>1, <3>5, <1>0, <1>1, <1>8
    <3>7. \A i \in at + 5 .. (end + 1) - 1 : ~CodeAt(b, i)
      BY <2>1, <3>1
    <3> QED BY <2>0, <3>4, <3>6, <3>7, CodeFound
  <2> QED BY <2>2, <2>3
<1>13. NextFrom(b, at + 1) = end + 1
  BY <1>11, <1>12 DEF NextFrom
<1>14. UnitFrom(b, at + 1) = <<nal>>
  <2>1. at + 5 < end + 1 /\ (end + 1) - 1 = at + 4 + Len(nal)
    BY <1>1, <1>8
  <2>2. at + 4 + Len(nal) <= Len(b)
    BY <1>8
  <2>3. \A k \in 1 .. Len(nal) : b[at + 4 + k] = nal[k]
    BY <1>8
  <2>4. SubSeq(b, at + 5, at + 4 + Len(nal)) = nal
    BY <1>4, <1>5, <2>2, <2>3, UnitSlice
  <2> QED BY <1>11, <1>13, <2>1, <2>4 DEF UnitFrom
<1>15. end + 1 \in 1 .. m + 1
  BY <1>0, <1>1, <1>8
<1> QED BY <1>9, <1>10, <1>13, <1>14, <1>15 DEF at, nal, end

(* The units of Annex B bytes come out of the parser as they went in.        *)
LEMMA NalusOfAnnexB ==
    ASSUME NEW nals \in Seq(ValidNals)
    PROVE  annex_b_nalus(AnnexB(nals)) = nals
<1> DEFINE b == AnnexB(nals)
           n == Len(nals)
<1>0. n \in Nat
  OBVIOUS
<1>1. PICK off : Coded(b, nals, off)
  BY AnnexBCoded
<1>2. b \in Seq(Nat)
  BY AnnexBCoded
<1> HIDE DEF b
<1>3. PICK f : Parses(f, b) /\ annex_b_nalus(b) = f[1]
  BY <1>2, NalusAre
<1> DEFINE g == [j \in 0 .. n |-> f[off[j] + 1]]
           m == Len(b)
           none == <<>>
<1>4. off[0] = 0 /\ off[n] = m /\ m \in Nat
  BY <1>1, <1>2 DEF Coded, Framed
<1>5. \A c \in 1 .. m + 1 : f[c] =
         IF find_start_code(b, c) > m THEN none
         ELSE UnitFrom(b, c) \o (IF NextFrom(b, c) > m THEN none ELSE f[NextFrom(b, c)])
  <2>1. f = [c \in 1 .. m + 1 |->
         IF find_start_code(b, c) > m THEN none
         ELSE UnitFrom(b, c) \o (IF NextFrom(b, c) > m THEN none ELSE f[NextFrom(b, c)])]
    BY <1>3, Zenon DEF Parses
  <2> QED BY <2>1, Zenon
<1> HIDE DEF m, none
<1>6. f[m + 1] = none
  <2>1. m + 1 \in Nat /\ \A i \in m + 1 .. Len(b) : ~CodeAt(b, i)
    BY <1>4 DEF m
  <2>2. m + 1 \in Nat
    BY <2>1
  <2>3. \A i \in m + 1 .. Len(b) : ~CodeAt(b, i)
    BY <2>1
  <2>4. find_start_code(b, m + 1) = Len(b) + 1
    BY <1>2, <2>2, <2>3, NoCodeFound
  <2>5. find_start_code(b, m + 1) > m /\ m + 1 \in 1 .. m + 1
    BY <1>4, <2>4 DEF m
  <2> QED BY <1>5, <2>5
<1>7. ASSUME NEW j \in 1 .. n PROVE g[j - 1] = <<nals[j]>> \o g[j]
  <2> DEFINE at == off[j - 1]
             end == off[j]
  <2>1. /\ find_start_code(b, at + 1) = at + 1 /\ at + 1 \in 1 .. m
        /\ UnitFrom(b, at + 1) = <<nals[j]>>
        /\ NextFrom(b, at + 1) = end + 1 /\ end + 1 \in 1 .. m + 1
    BY <1>1, <1>2, UnitsFollow DEF m
  <2>2. g[j - 1] = f[at + 1] /\ g[j] = f[end + 1]
    <3>1. j \in 0 .. n /\ j - 1 \in 0 .. n
      BY <1>0
    <3> QED BY <3>1
  <2> HIDE DEF at, end, g
  <2>3. at + 1 \in 1 .. m + 1 /\ ~(at + 1 > m)
    BY <1>4, <2>1
  <2>4. f[at + 1] = <<nals[j]>> \o (IF end + 1 > m THEN none ELSE f[end + 1])
    BY <1>5, <2>1, <2>3
  <2>5. end + 1 > m => end + 1 = m + 1
    BY <1>4, <2>1
  <2>6. (IF end + 1 > m THEN none ELSE f[end + 1]) = f[end + 1]
    BY <1>6, <2>5
  <2> QED BY <2>2, <2>4, <2>6
<1>8. g[n] = none /\ g[0] = f[1]
  <2>1. 0 \in 0 .. n /\ n \in 0 .. n /\ 0 + 1 = 1
    BY <1>0
  <2> QED BY <2>1, <1>4, <1>6
<1> HIDE DEF g
<1>9. Unrolls(g, nals)
  BY <1>7, <1>8 DEF Unrolls, n, none
<1>10. g[0] = nals
  BY <1>9, Unrolled
<1> QED BY <1>3, <1>8, <1>10 DEF b

(* The four digits of a length that fits them give it back.                  *)
Number(a, b, c, d) == ((a * LengthBase + b) * LengthBase + c) * LengthBase + d

(* A number is its last digit and the rest.                                 *)
LEMMA DigitSplit ==
    ASSUME NEW n \in Nat, NEW base \in Nat \ {0}
    PROVE  (n \div base) * base + (n % base) = n /\ n \div base \in Nat /\ n % base \in Nat
OBVIOUS

(* The rest has one digit less.                                             *)
LEMMA DigitDrop ==
    ASSUME NEW n \in Nat, NEW base \in Nat \ {0}, NEW m \in Nat, n < base * m
    PROVE  n \div base < m
<1> DEFINE q == n \div base
<1>1. q \in Nat /\ base * q <= n
  BY Quotient
<1> HIDE DEF q
<1>2. base * q < base * m
  <2>1. base * q \in Nat /\ base * m \in Nat
    BY <1>1
  <2> QED BY <1>1, <2>1
<1>3. ~(m <= q)
  <2>1. ASSUME m <= q PROVE base * m <= base * q
    BY <2>1, <1>1
  <2>2. base * q \in Nat /\ base * m \in Nat
    BY <1>1
  <2> QED BY <1>2, <2>1, <2>2
<1> QED BY <1>1, <1>3 DEF q

(* Four digits are a number.                                                *)
LEMMA NumberTyped ==
    ASSUME NEW a \in Nat, NEW b \in Nat, NEW c \in Nat, NEW d \in Nat
    PROVE  Number(a, b, c, d) \in Nat
<1>1. ASSUME NEW x \in Nat, NEW y \in Nat PROVE x * LengthBase + y \in Nat
  <2>1. LengthBase \in Nat
    BY MediaAssumption
  <2>2. x * LengthBase \in Nat
    BY <2>1
  <2> QED BY <2>2
<1>2. a * LengthBase + b \in Nat
  BY <1>1
<1>3. (a * LengthBase + b) * LengthBase + c \in Nat
  BY <1>1, <1>2
<1> DEFINE x == (a * LengthBase + b) * LengthBase + c
<1>4. x \in Nat
  BY <1>3
<1>5. Number(a, b, c, d) = x * LengthBase + d
  BY DEF Number
<1> HIDE DEF x
<1> QED BY <1>1, <1>4, <1>5

(* A length that four digits can hold is the number of its digits.          *)
LEMMA DigitsGiveBack ==
    ASSUME NEW n \in Nat, n <= MaxPayload + 1
    PROVE  /\ LengthDigits(n) \in Seq(Nat) /\ Len(LengthDigits(n)) = 4
           /\ Number(LengthDigits(n)[1], LengthDigits(n)[2], LengthDigits(n)[3], LengthDigits(n)[4]) = n
<1> DEFINE B == LengthBase
           q2 == n \div B
           q3 == q2 \div B
           q4 == q3 \div B
           digits == <<q4 % B, q3 % B, q2 % B, n % B>>
<1>0. B \in Nat \ {0} /\ MaxPayload \in Nat /\ MaxPayload + 1 < B * (B * (B * B))
  BY MediaAssumption
<1>1. LengthDigits(n) = digits
  BY Zenon DEF LengthDigits
<1>2. B * B \in Nat /\ B * (B * B) \in Nat /\ B * (B * (B * B)) \in Nat
  <2>1. ASSUME NEW x \in Nat, NEW y \in Nat PROVE x * y \in Nat
    OBVIOUS
  <2> HIDE DEF B
  <2>2. B \in Nat
    BY <1>0
  <2>3. B * B \in Nat
    BY <2>1, <2>2
  <2>4. B * (B * B) \in Nat
    BY <2>1, <2>2, <2>3
  <2>5. B * (B * (B * B)) \in Nat
    BY <2>1, <2>2, <2>4
  <2> QED BY <2>3, <2>4, <2>5
<1>3. n < B * (B * (B * B))
  BY <1>0, <1>2
<1> DEFINE p2 == B * B
           p3 == B * p2
<1>4. q2 * B + (n % B) = n /\ q2 \in Nat /\ n % B \in Nat
  <2>1. B \in Nat \ {0}
    BY <1>0
  <2> QED BY <2>1, DigitSplit
<1>5. q2 < p3
  <2>1. B \in Nat \ {0}
    BY <1>0
  <2>2. p3 \in Nat
    BY <1>2
  <2>3. n < B * p3
    BY <1>3
  <2> HIDE DEF p3, B
  <2> QED BY <2>1, <2>2, <2>3, DigitDrop
<1>6. q3 * B + (q2 % B) = q2 /\ q3 \in Nat /\ q2 % B \in Nat
  <2>1. B \in Nat \ {0}
    BY <1>0
  <2>2. q2 \in Nat
    BY <1>4
  <2> HIDE DEF q2, B
  <2> QED BY <2>1, <2>2, DigitSplit
<1>7. q3 < p2
  <2>1. B \in Nat \ {0}
    BY <1>0
  <2>2. p2 \in Nat
    BY <1>2
  <2>3. q2 < B * p2
    BY <1>5
  <2>4. q2 \in Nat
    BY <1>4
  <2> HIDE DEF p2, q2, B
  <2> QED BY <2>1, <2>2, <2>3, <2>4, DigitDrop
<1>8. q4 * B + (q3 % B) = q3 /\ q4 \in Nat /\ q3 % B \in Nat
  <2>1. B \in Nat \ {0}
    BY <1>0
  <2>2. q3 \in Nat
    BY <1>6
  <2> HIDE DEF q3, B
  <2> QED BY <2>1, <2>2, DigitSplit
<1>9. q4 < B
  <2>1. B \in Nat \ {0}
    BY <1>0
  <2>2. B \in Nat
    BY <1>0
  <2>3. q3 < B * B
    BY <1>7
  <2>4. q3 \in Nat
    BY <1>6
  <2> HIDE DEF q3, B
  <2> QED BY <2>1, <2>2, <2>3, <2>4, DigitDrop
<1> HIDE DEF q2, q3, q4, B, digits
<1>10. q4 % B = q4
  BY <1>0, <1>8, <1>9
<1>11. ((q4 * B + (q3 % B)) * B + (q2 % B)) * B + (n % B) = n
  BY <1>4, <1>6, <1>8
<1>12. digits \in Seq(Nat) /\ Len(digits) = 4
       /\ digits[1] = q4 /\ digits[2] = q3 % B /\ digits[3] = q2 % B /\ digits[4] = n % B
  BY <1>4, <1>6, <1>8, <1>10 DEF digits
<1>13. Number(q4, q3 % B, q2 % B, n % B) = n
  BY <1>11 DEF Number, B
<1> QED BY <1>1, <1>12, <1>13

(* In AVCC every head is a length.                                           *)
Measured(b, nals, off) == Framed(b, nals, [i \in DOMAIN nals |-> LengthDigits(Len(nals[i]))], off)

(* The bytes Avcc makes are units behind their lengths.                     *)
LEMMA AvccMeasured ==
    ASSUME NEW nals \in Seq(ValidNals)
    PROVE  Avcc(nals) \in Seq(Nat) /\ \E off : Measured(Avcc(nals), nals, off)
<1> DEFINE heads == [i \in DOMAIN nals |-> LengthDigits(Len(nals[i]))]
<1>1. ASSUME NEW i \in DOMAIN nals PROVE LengthDigits(Len(nals[i])) \in Seq(Nat) /\ Len(LengthDigits(Len(nals[i]))) = 4
  <2> DEFINE n == Len(nals[i])
  <2>1. MaxPayload \in Nat
    BY MediaAssumption
  <2>2. n \in 1 .. MaxPayload + 1 /\ n \in Nat
    BY ValidSequence
  <2>3. n <= MaxPayload + 1
    BY <2>1, <2>2
  <2>4. n \in Nat
    BY <2>2
  <2> HIDE DEF n
  <2>5. LengthDigits(n) \in Seq(Nat) /\ Len(LengthDigits(n)) = 4
    BY <2>3, <2>4, DigitsGiveBack
  <2> QED BY <2>5 DEF n
<1>2. DOMAIN nals = 1 .. Len(nals)
  BY ValidSequence
<1>3. heads \in Heads(nals)
  BY <1>1, <1>2 DEF Heads
<1>4. Avcc(nals) = Concat([i \in DOMAIN nals |-> heads[i] \o nals[i]])
  BY DEF Avcc
<1> HIDE DEF heads
<1>5. nals \in Seq(Seq(Nat))
  BY ValidSequence
<1>6. Avcc(nals) \in Seq(Nat) /\ \E off : Framed(Avcc(nals), nals, heads, off)
  BY <1>3, <1>4, <1>5, FramedIs
<1> QED BY <1>6 DEF Measured, heads

(* The length at a place of length-prefixed bytes, and whether no unit of it *)
(* is there.                                                                 *)
LengthAt(b, o) == Number(b[o], b[o + 1], b[o + 2], b[o + 3])
Stuck(b, o) == LengthAt(b, o) = 0 \/ o + 3 + LengthAt(b, o) > Len(b)

Measures(f, b) ==
    f = [o \in 1 .. Len(b) + 1 |->
            IF o + 3 > Len(b) THEN [nals |-> <<>>, whole |-> o = Len(b) + 1]
            ELSE IF Stuck(b, o) THEN [nals |-> <<>>, whole |-> FALSE]
            ELSE [nals |-> <<SubSeq(b, o + 4, o + 3 + LengthAt(b, o))>> \o f[o + 4 + LengthAt(b, o)].nals,
                  whole |-> f[o + 4 + LengthAt(b, o)].whole]]

(* What the reader of lengths makes is one function of the place.            *)
LEMMA UnitsAre ==
    ASSUME NEW b \in Seq(Nat)
    PROVE  \E f : Measures(f, b) /\ AvccUnits(b) = f[1]
<1> DEFINE N == Len(b) + 1
           Q == Seq(Seq(Nat))
           S == [nals : Q, whole : BOOLEAN]
           ends(o) == o + 3 > Len(b)
           unit(o) == <<SubSeq(b, o + 4, o + 3 + LengthAt(b, o))>>
           more(o, r) == [nals |-> unit(o) \o r.nals, whole |-> r.whole]
           last(o) == IF ends(o) THEN [nals |-> <<>>, whole |-> o = N] ELSE [nals |-> <<>>, whole |-> FALSE]
           done == {o \in 1 .. N : ends(o) \/ Stuck(b, o)}
           here == [o \in 1 .. N |-> last(o)]
           step == [o \in 1 .. N |-> [r \in S |-> IF o \in done THEN r ELSE more(o, r)]]
           next == [o \in 1 .. N |-> o + 4 + LengthAt(b, o)]
<1>0. N \in Nat /\ Len(b) \in Nat
  OBVIOUS
<1>1. ASSUME NEW o \in 1 .. N, ~ends(o), ~Stuck(b, o)
      PROVE  LengthAt(b, o) \in Nat /\ o + 4 + LengthAt(b, o) \in o + 1 .. N /\ unit(o) \in Q
  <2>1. o \in Nat /\ o + 3 <= Len(b)
    BY <1>0, <1>1
  <2>2. o \in 1 .. Len(b) /\ o + 1 \in 1 .. Len(b) /\ o + 2 \in 1 .. Len(b) /\ o + 3 \in 1 .. Len(b)
    BY <1>0, <2>1
  <2>3. b[o] \in Nat
    BY <2>2
  <2>4. b[o + 1] \in Nat
    BY <2>2
  <2>5. b[o + 2] \in Nat
    BY <2>2
  <2>6. b[o + 3] \in Nat
    BY <2>2
  <2>7. LengthAt(b, o) \in Nat
    BY <2>3, <2>4, <2>5, <2>6, NumberTyped DEF LengthAt
  <2> DEFINE n == LengthAt(b, o)
             u == SubSeq(b, o + 4, o + 3 + n)
  <2>8. n # 0 /\ ~(o + 3 + n > Len(b))
    BY <1>1 DEF Stuck
  <2>9. n \in Nat
    BY <2>7
  <2> HIDE DEF n
  <2>10. /\ o + 4 + n \in o + 1 .. N
         /\ o + 4 \in Int /\ o + 3 + n \in Int /\ \A i \in o + 4 .. o + 3 + n : i \in 1 .. Len(b)
    BY <1>0, <2>1, <2>8, <2>9
  <2>11. \A i \in o + 4 .. o + 3 + n : b[i] \in Nat
    BY <2>10
  <2>12. u \in Seq(Nat)
    BY <2>10, <2>11, SubSeqProperties
  <2>13. <<u>> \in Q
    <3> HIDE DEF u
    <3> QED BY <2>12
  <2> QED BY <2>7, <2>10, <2>13 DEF n
<1>2. ASSUME NEW o \in 1 .. N PROVE last(o) \in S
  <2> DEFINE none == <<>>
  <2>1. none \in Q
    OBVIOUS
  <2>2. \A w \in BOOLEAN : [nals |-> none, whole |-> w] \in S
    <3> HIDE DEF none, Q
    <3> QED BY <2>1
  <2>3. (o = N) \in BOOLEAN /\ FALSE \in BOOLEAN
    OBVIOUS
  <2> HIDE DEF S
  <2> QED BY <2>2, <2>3, Zenon
<1>3. ASSUME NEW o \in 1 .. N, o \notin done, NEW r \in S PROVE more(o, r) \in S
  <2> DEFINE u == unit(o)
  <2>1. u \in Q
    BY <1>1, <1>3
  <2> HIDE DEF u, Q
  <2>2. r.nals \in Q /\ r.whole \in BOOLEAN
    BY <1>3
  <2>3. u \o r.nals \in Q
    BY <2>1, <2>2, ConcatProperties DEF Q
  <2> QED BY <2>2, <2>3 DEF u
<1>4. ASSUME NEW o \in 1 .. N PROVE step[o] \in [S -> S]
  <2>1. CASE o \in done
    <3> HIDE DEF S
    <3> QED BY <2>1
  <2>2. CASE o \notin done
    <3>1. step[o] = [r \in S |-> more(o, r)]
      <4> HIDE DEF S, done, more
      <4> QED BY <2>2
    <3> HIDE DEF more, step, done, S
    <3> QED BY <1>3, <2>2, <3>1
  <2> QED BY <2>1, <2>2
<1>5. ASSUME NEW o \in 1 .. N, o \notin done PROVE next[o] \in o + 1 .. N
  BY <1>1, <1>5
<1>6. ASSUME NEW o \in 1 .. N, o \notin done, NEW r \in S PROVE step[o][r] = more(o, r)
  <2> HIDE DEF S, done, more
  <2> QED BY <1>6
<1>7. here \in [1 .. N -> S] /\ step \in [1 .. N -> [S -> S]]
  <2>1. step = [o \in 1 .. N |-> step[o]]
    <3> HIDE DEF S, done, more
    <3> QED OBVIOUS
  <2> HIDE DEF step, last, S
  <2> QED BY <1>2, <1>4, <2>1
<1>8. \A o \in 1 .. N : /\ o \in done <=> ends(o) \/ Stuck(b, o)
                        /\ here[o] = last(o) /\ next[o] = o + 4 + LengthAt(b, o)
  <2> HIDE DEF last, ends
  <2> QED OBVIOUS
<1> HIDE DEF done, here, step, next, S, N, last, more
<1>9. PICK f \in [1 .. N -> S] : Jumps(f, N, done, here, step, next)
  <2>1. N \in Nat
    BY <1>0
  <2>2. here \in [1 .. N -> S]
    BY <1>7
  <2>3. step \in [1 .. N -> [S -> S]]
    BY <1>7
  <2> QED BY <2>1, <2>2, <2>3, <1>5, JumpsExist, Zenon
<1> DEFINE v(o) == IF ends(o) THEN [nals |-> <<>>, whole |-> o = N]
                   ELSE IF Stuck(b, o) THEN [nals |-> <<>>, whole |-> FALSE]
                   ELSE more(o, f[o + 4 + LengthAt(b, o)])
<1>10. ASSUME NEW o \in 1 .. N PROVE f[o] = v(o)
  <2>1. f[o] = IF o \in done THEN here[o] ELSE step[o][f[next[o]]]
    <3>1. f = [c \in 1 .. N |-> IF c \in done THEN here[c] ELSE step[c][f[next[c]]]]
      BY <1>9, Zenon DEF Jumps
    <3> HIDE DEF v, ends
    <3> QED BY <3>1, Zenon
  <2>2. CASE o \in done
    <3>1. f[o] = last(o)
      <4> HIDE DEF v, ends
      <4> QED BY <2>1, <2>2, <1>8
    <3>2. last(o) = v(o)
      <4>1. ends(o) \/ Stuck(b, o)
        BY <1>8, <2>2
      <4> HIDE DEF ends
      <4> QED BY <4>1, Zenon DEF last
    <3> QED BY <3>1, <3>2, Zenon
  <2>3. CASE o \notin done
    <3>0. next[o] \in 1 .. N
      BY <1>5, <2>3, <1>0
    <3>1. f[next[o]] \in S
      BY <3>0
    <3>2. step[o][f[next[o]]] = more(o, f[next[o]])
      BY <1>6, <2>3, <3>1
    <3>3. ~ends(o) /\ ~Stuck(b, o) /\ next[o] = o + 4 + LengthAt(b, o)
      BY <1>8, <2>3
    <3> HIDE DEF ends
    <3> QED BY <2>1, <2>3, <3>2, <3>3, Zenon
  <2> QED BY <2>2, <2>3
<1>11. Measures(f, b)
  <2>1. f = [o \in 1 .. N |-> f[o]]
    OBVIOUS
  <2> HIDE DEF v
  <2>2. f = [o \in 1 .. N |-> v(o)]
    BY <1>10, <2>1
  <2> QED BY <2>2, Zenon DEF v, Measures, N, more
<1> DEFINE g == CHOOSE g : Measures(g, b)
<1>12. Measures(g, b)
  BY <1>11, Zenon
<1>13. AvccUnits(b) = g[1]
  BY Zenon DEF AvccUnits, Measures, LengthAt, Number, Stuck
<1> HIDE DEF g
<1> QED BY <1>12, <1>13

(* The reader of lengths, at a unit, takes it and goes on at the next.       *)
LEMMA LengthsFollow ==
    ASSUME NEW b \in Seq(Nat), NEW nals \in Seq(ValidNals), NEW off, Measured(b, nals, off),
           NEW j \in 1 .. Len(nals)
    PROVE  /\ off[j - 1] + 1 \in 1 .. Len(b) /\ ~(off[j - 1] + 1 + 3 > Len(b))
           /\ ~Stuck(b, off[j - 1] + 1) /\ off[j - 1] + 1 + 4 + LengthAt(b, off[j - 1] + 1) = off[j] + 1
           /\ SubSeq(b, off[j - 1] + 1 + 4, off[j - 1] + 1 + 3 + LengthAt(b, off[j - 1] + 1)) = nals[j]
<1> DEFINE at == off[j - 1]
           nal == nals[j]
           l == Len(nals[j])
           m == Len(b)
           end == off[j]
           digits == LengthDigits(l)
<1>0. m \in Nat /\ Len(nals) \in Nat /\ j - 1 \in 0 .. Len(nals) /\ DOMAIN nals = 1 .. Len(nals) /\ MaxPayload \in Nat
  BY MediaAssumption
<1>1. nal \in Seq(Nat) /\ l \in 1 .. MaxPayload + 1 /\ l \in Nat
  BY ValidSequence
<1>2. /\ at \in Nat /\ end = at + 4 + l /\ end <= m
      /\ \A k \in 1 .. l : b[at + 4 + k] = nal[k]
  BY <1>0 DEF Measured, Framed
<1>3. \A k \in 1 .. 4 : b[at + k] = digits[k]
  BY <1>0 DEF Measured, Framed
<1> HIDE DEF at, nal, end
<1>4. Number(digits[1], digits[2], digits[3], digits[4]) = l
  <2> HIDE DEF l
  <2>1. l <= MaxPayload + 1
    BY <1>0, <1>1
  <2>2. l \in Nat
    BY <1>1
  <2> QED BY <2>1, <2>2, DigitsGiveBack
<1> HIDE DEF digits, l
<1>5. at + 1 + 1 = at + 2 /\ at + 1 + 2 = at + 3 /\ at + 1 + 3 = at + 4 /\ at + 1 + 4 = at + 5
      /\ at + 1 + 3 + l = at + 4 + l /\ at + 1 + 4 + l = end + 1
  BY <1>1, <1>2
<1>6. LengthAt(b, at + 1) = l
  <2>1. b[at + 1] = digits[1] /\ b[at + 2] = digits[2] /\ b[at + 3] = digits[3] /\ b[at + 4] = digits[4]
    BY <1>3
  <2> QED BY <1>4, <1>5, <2>1 DEF LengthAt
<1>7. l # 0 /\ ~(at + 4 + l > m) /\ at + 1 \in 1 .. m /\ ~(at + 4 > m) /\ at + 4 + l <= m
  <2>1. l >= 1
    BY <1>0, <1>1
  <2>2. at + 4 + l <= m
    BY <1>2
  <2>3. ASSUME NEW x \in Nat, NEW y \in Nat, NEW z \in Nat, y >= 1, x + 4 + y <= z
        PROVE  y # 0 /\ ~(x + 4 + y > z) /\ x + 1 \in 1 .. z /\ ~(x + 4 > z)
    BY <2>3
  <2> QED BY <1>0, <1>1, <1>2, <2>1, <2>2, <2>3
<1>8. ~Stuck(b, at + 1)
  BY <1>5, <1>6, <1>7 DEF Stuck, m
<1>9. SubSeq(b, at + 5, at + 4 + l) = nal
  <2>1. Len(nal) = l
    BY DEF nal, l
  <2>2. at \in Nat
    BY <1>2
  <2>3. nal \in Seq(Nat)
    BY <1>1
  <2>4. at + 4 + Len(nal) <= Len(b)
    BY <1>7, <2>1 DEF m
  <2>5. \A k \in 1 .. Len(nal) : b[at + 4 + k] = nal[k]
    BY <1>2, <2>1
  <2>6. SubSeq(b, at + 5, at + 4 + Len(nal)) = nal
    BY <2>2, <2>3, <2>4, <2>5, UnitSlice
  <2> QED BY <2>1, <2>6
<1> QED BY <1>5, <1>6, <1>7, <1>8, <1>9 DEF at, nal, end

(* The units of length-prefixed bytes come out of the reader as they went in.*)
LEMMA UnitsOfAvcc ==
    ASSUME NEW nals \in Seq(ValidNals)
    PROVE  AvccUnits(Avcc(nals)).nals = nals /\ AvccUnits(Avcc(nals)).whole = TRUE
<1> DEFINE b == Avcc(nals)
           n == Len(nals)
<1>0. n \in Nat
  OBVIOUS
<1>1. PICK off : Measured(b, nals, off)
  BY AvccMeasured
<1>2. b \in Seq(Nat)
  BY AvccMeasured
<1> HIDE DEF b
<1>3. PICK f : Measures(f, b) /\ AvccUnits(b) = f[1]
  BY <1>2, UnitsAre
<1> DEFINE m == Len(b)
           g == [j \in 0 .. n |-> f[off[j] + 1].nals]
           none == <<>>
           unit(o) == SubSeq(b, o + 4, o + 3 + LengthAt(b, o))
<1>4. off[0] = 0 /\ off[n] = m /\ m \in Nat
  BY <1>1, <1>2 DEF Measured, Framed
<1>5. \A o \in 1 .. m + 1 : f[o] =
            IF o + 3 > m THEN [nals |-> none, whole |-> o = m + 1]
            ELSE IF Stuck(b, o) THEN [nals |-> none, whole |-> FALSE]
            ELSE [nals |-> <<unit(o)>> \o f[o + 4 + LengthAt(b, o)].nals,
                  whole |-> f[o + 4 + LengthAt(b, o)].whole]
  <2>1. f = [o \in 1 .. m + 1 |->
            IF o + 3 > m THEN [nals |-> none, whole |-> o = m + 1]
            ELSE IF Stuck(b, o) THEN [nals |-> none, whole |-> FALSE]
            ELSE [nals |-> <<unit(o)>> \o f[o + 4 + LengthAt(b, o)].nals,
                  whole |-> f[o + 4 + LengthAt(b, o)].whole]]
    BY <1>3, Zenon DEF Measures
  <2> QED BY <2>1, Zenon
<1> HIDE DEF m, none, unit
<1>6. f[m + 1].nals = none /\ f[m + 1].whole = TRUE
  <2>1. m + 1 \in 1 .. m + 1 /\ m + 1 + 3 > m
    BY <1>4
  <2>2. f[m + 1] = [nals |-> none, whole |-> m + 1 = m + 1]
    BY <1>5, <2>1
  <2>3. (m + 1 = m + 1) = TRUE
    OBVIOUS
  <2>4. f[m + 1] = [nals |-> none, whole |-> TRUE]
    BY <2>2, <2>3, Zenon
  <2> QED BY <2>4
<1>7. ASSUME NEW j \in 1 .. n
      PROVE  /\ f[off[j - 1] + 1].nals = <<nals[j]>> \o f[off[j] + 1].nals
             /\ f[off[j - 1] + 1].whole = f[off[j] + 1].whole
  <2> DEFINE o == off[j - 1] + 1
             end == off[j] + 1
             nal == nals[j]
  <2>1. o \in 1 .. m /\ ~(o + 3 > m) /\ ~Stuck(b, o) /\ o + 4 + LengthAt(b, o) = end /\ unit(o) = nal
    BY <1>1, <1>2, LengthsFollow DEF m, unit
  <2> HIDE DEF o, end, nal
  <2>2. o \in 1 .. m + 1
    BY <1>4, <2>1
  <2>3. f[o] = [nals |-> <<unit(o)>> \o f[o + 4 + LengthAt(b, o)].nals,
                whole |-> f[o + 4 + LengthAt(b, o)].whole]
    BY <1>5, <2>1, <2>2, Zenon
  <2>4. f[o].nals = <<unit(o)>> \o f[o + 4 + LengthAt(b, o)].nals
        /\ f[o].whole = f[o + 4 + LengthAt(b, o)].whole
    <3> DEFINE x == <<unit(o)>> \o f[o + 4 + LengthAt(b, o)].nals
               y == f[o + 4 + LengthAt(b, o)].whole
    <3>1. f[o] = [nals |-> x, whole |-> y]
      BY <2>3, Zenon
    <3> HIDE DEF x, y
    <3>2. f[o].nals = x /\ f[o].whole = y
      BY <3>1
    <3> QED BY <3>2 DEF x, y
  <2>5. f[o].nals = <<nal>> \o f[end].nals /\ f[o].whole = f[end].whole
    BY <2>1, <2>4, Zenon
  <2> QED BY <2>5 DEF o, end, nal
<1>8. g[0] = nals
  <2>1. ASSUME NEW j \in 1 .. n PROVE g[j - 1] = <<nals[j]>> \o g[j]
    <3>1. j \in 0 .. n /\ j - 1 \in 0 .. n
      BY <1>0
    <3> QED BY <1>7, <3>1
  <2>2. g[n] = none
    BY <1>0, <1>4, <1>6
  <2> HIDE DEF g
  <2>3. Unrolls(g, nals)
    BY <2>1, <2>2 DEF Unrolls, none, n
  <2> QED BY <2>3, Unrolled
<1>9. f[1].nals = nals
  <2>1. 0 \in 0 .. n /\ 0 + 1 = 1
    BY <1>0
  <2> QED BY <1>4, <1>8, <2>1
<1> DEFINE w == [k \in 0 .. n |-> f[off[k] + 1].whole]
           T == {k \in 0 .. n : w[k] = w[0]}
<1>10. 0 \in T
  BY <1>0
<1>11. ASSUME NEW j \in 1 .. n, j - 1 \in T PROVE j \in T
  <2>1. j \in 0 .. n /\ j - 1 \in 0 .. n
    BY <1>0
  <2>2. w[j - 1] = w[j]
    BY <1>7, <2>1
  <2> HIDE DEF w
  <2>3. w[j - 1] = w[0]
    BY <1>11
  <2> QED BY <2>1, <2>2, <2>3
<1> HIDE DEF T
<1>12. 0 .. n \subseteq T
  BY <1>0, <1>10, <1>11, BoundedInduction
<1>13. n \in T
  BY <1>0, <1>12
<1>14. f[1].whole = TRUE
  <2>1. w[n] = w[0]
    BY <1>13 DEF T
  <2>2. w[n] = f[off[n] + 1].whole /\ w[0] = f[off[0] + 1].whole
    BY <1>0
  <2> HIDE DEF w
  <2>3. f[m + 1].whole = f[1].whole
    <3>1. 0 + 1 = 1
      OBVIOUS
    <3> QED BY <1>4, <2>1, <2>2, <3>1, Zenon
  <2> QED BY <1>6, <2>3, Zenon
<1> QED BY <1>3, <1>9, <1>14 DEF b

(* Two sequences of units, one after the other, in Annex B.                  *)
LEMMA AnnexBMore ==
    ASSUME NEW nals \in Seq(ValidNals), NEW nal \in ValidNals
    PROVE  AnnexB(Append(nals, nal)) = AnnexB(nals) \o (StartCode \o nal)
<1> DEFINE parts == [i \in DOMAIN nals |-> StartCode \o nals[i]]
           part == StartCode \o nal
           more == Append(nals, nal)
           all == [i \in DOMAIN more |-> StartCode \o more[i]]
           n == Len(nals)
<1>0. n \in Nat
  OBVIOUS
<1>1. StartCode \in Seq(Nat)
  BY DEF StartCode
<1>2. ASSUME NEW x \in ValidNals PROVE StartCode \o x \in Seq(Nat)
  <2>1. x \in Seq(Nat)
    BY NalBytes
  <2> QED BY <1>1, <2>1, ConcatProperties
<1>3. part \in Seq(Nat)
  BY <1>2
<1>4. parts \in Seq(Seq(Nat)) /\ Len(parts) = n
  <2>1. \A i \in 1 .. n : nals[i] \in ValidNals
    OBVIOUS
  <2>2. parts \in [1 .. n -> Seq(Nat)]
    <3>1. DOMAIN nals = 1 .. n
      OBVIOUS
    <3>2. \A i \in 1 .. n : StartCode \o nals[i] \in Seq(Nat)
      BY <1>2, <2>1
    <3> QED BY <3>1, <3>2
  <2> HIDE DEF parts, n
  <2> QED BY <1>0, <2>2, FunctionIsSequence
<1>5. /\ more \in Seq(ValidNals) /\ Len(more) = n + 1 /\ DOMAIN more = 1 .. n + 1
      /\ more[n + 1] = nal /\ \A i \in 1 .. n : more[i] = nals[i]
  BY AppendProperties
<1>6. all = Append(parts, part)
  <2> DEFINE joined == Append(parts, part)
  <2>1. /\ joined \in Seq(Seq(Nat)) /\ Len(joined) = n + 1
        /\ joined[n + 1] = part /\ \A i \in 1 .. n : joined[i] = parts[i]
    <3> HIDE DEF parts, part
    <3> QED BY <1>3, <1>4, AppendProperties
  <2>2. all \in Seq(Seq(Nat)) /\ Len(all) = n + 1
    <3>1. \A i \in 1 .. n + 1 : more[i] \in ValidNals
      BY <1>5
    <3>2. all \in [1 .. n + 1 -> Seq(Nat)]
      <4> HIDE DEF more
      <4>1. \A i \in 1 .. n + 1 : StartCode \o more[i] \in Seq(Nat)
        BY <1>2, <3>1
      <4> QED BY <1>5, <4>1
    <3>3. n + 1 \in Nat
      BY <1>0
    <3> HIDE DEF all, n
    <3> QED BY <3>2, <3>3, FunctionIsSequence
  <2>3. ASSUME NEW i \in 1 .. n + 1 PROVE all[i] = joined[i]
    <3>1. all[i] = StartCode \o more[i]
      <4> HIDE DEF more
      <4> QED BY <1>5
    <3>2. CASE i = n + 1
      BY <3>1, <3>2, <2>1, <1>5
    <3>3. CASE i # n + 1
      <4>1. i \in 1 .. n /\ DOMAIN nals = 1 .. n
        BY <3>3, <1>0
      <4>2. parts[i] = StartCode \o nals[i]
        BY <4>1
      <4> HIDE DEF all, joined, parts, more
      <4> QED BY <4>1, <4>2, <3>1, <2>1, <1>5
    <3> QED BY <3>2, <3>3
  <2> HIDE DEF all, joined
  <2>4. all = joined
    BY <2>1, <2>2, <2>3, SeqEqual
  <2> QED BY <2>4 DEF joined
<1> HIDE DEF parts, part
<1>7. Concat(Append(parts, part)) = Concat(parts) \o part
  BY <1>3, <1>4, ConcatMore
<1>8. AnnexB(more) = Concat(all) /\ AnnexB(nals) = Concat(parts)
  BY DEF AnnexB, parts
<1> QED BY <1>6, <1>7, <1>8 DEF part

(* Of no unit, both make no bytes.                                          *)
LEMMA NothingFramed == AnnexB(<<>>) = <<>> /\ Avcc(<<>>) = <<>>
<1> DEFINE none == <<>>
           coded == [i \in DOMAIN none |-> StartCode \o none[i]]
           measured == [i \in DOMAIN none |-> LengthDigits(Len(none[i])) \o none[i]]
<1>1. DOMAIN none = 1 .. 0 /\ \A i : ~(i \in 1 .. 0)
  OBVIOUS
<1>2. coded \in [1 .. 0 -> Seq(Nat)] /\ measured \in [1 .. 0 -> Seq(Nat)]
  <2> HIDE DEF none
  <2> QED BY <1>1
<1>3. AnnexB(none) = Concat(coded) /\ Avcc(none) = Concat(measured)
  BY DEF AnnexB, Avcc
<1> HIDE DEF coded, measured
<1>4. 0 \in Nat
  OBVIOUS
<1>5. ASSUME NEW s \in [1 .. 0 -> Seq(Nat)] PROVE s = none
  <2>1. s \in Seq(Seq(Nat)) /\ Len(s) = 0
    BY <1>4, FunctionIsSequence
  <2> QED BY <2>1, EmptySeq
<1>6. coded = none /\ measured = none
  BY <1>2, <1>5
<1>7. AnnexB(none) = Concat(none) /\ Avcc(none) = Concat(none)
  BY <1>3, <1>6
<1> QED BY <1>7, ConcatNone

(* The units of two samples, one after the other.                            *)
LEMMA AnnexBBoth ==
    ASSUME NEW first \in Seq(ValidNals)
    PROVE  \A second \in Seq(ValidNals) : AnnexB(first) \o AnnexB(second) = AnnexB(first \o second)
<1> DEFINE T == {second \in Seq(ValidNals) : AnnexB(first) \o AnnexB(second) = AnnexB(first \o second)}
           none == <<>>
<1>0. none \in Seq(ValidNals)
  OBVIOUS
<1>1. none \in T
  <2>1. first \o none = first
    OBVIOUS
  <2>2. AnnexB(first) \o none = AnnexB(first)
    <3> DEFINE b == AnnexB(first)
    <3>1. b \in Seq(Nat)
      BY AnnexBCoded
    <3> HIDE DEF b
    <3>2. b \o none = b
      BY <3>1
    <3> QED BY <3>2 DEF b
  <2>3. AnnexB(none) = none
    BY NothingFramed
  <2> HIDE DEF none
  <2> QED BY <1>0, <2>1, <2>2, <2>3
<1>2. ASSUME NEW second \in Seq(ValidNals), NEW nal \in ValidNals, second \in T
      PROVE  Append(second, nal) \in T
  <2> DEFINE more == Append(second, nal)
             unit == StartCode \o nal
             both == first \o second
  <2>1. first \o more = Append(both, nal) /\ both \in Seq(ValidNals) /\ more \in Seq(ValidNals)
    OBVIOUS
  <2>2. AnnexB(more) = AnnexB(second) \o unit
    BY AnnexBMore
  <2>3. AnnexB(Append(both, nal)) = AnnexB(both) \o unit
    <3>1. both \in Seq(ValidNals)
      BY <2>1
    <3> HIDE DEF both
    <3> QED BY <3>1, AnnexBMore
  <2>4. unit \in Seq(Nat)
    <3>1. StartCode \in Seq(Nat)
      BY DEF StartCode
    <3>2. nal \in Seq(Nat)
      BY NalBytes
    <3> QED BY <3>1, <3>2, ConcatProperties
  <2>5. AnnexB(first) \in Seq(Nat)
    BY AnnexBCoded
  <2>6. AnnexB(second) \in Seq(Nat)
    BY AnnexBCoded
  <2> DEFINE x == AnnexB(first)
             y == AnnexB(second)
  <2> HIDE DEF unit, both, more, x, y
  <2>7. x \in Seq(Nat) /\ y \in Seq(Nat)
    BY <2>5, <2>6 DEF x, y
  <2>8. (x \o y) \o unit = x \o (y \o unit)
    BY <2>4, <2>7
  <2>9. x \o y = AnnexB(both)
    BY <1>2 DEF both, x, y
  <2>10. AnnexB(first) \o AnnexB(more) = AnnexB(first \o more)
    BY <2>1, <2>2, <2>3, <2>8, <2>9 DEF x, y
  <2> QED BY <2>1, <2>10 DEF more
<1> HIDE DEF T
<1>3. <<>> \in T
  BY <1>1
<1>4. Seq(ValidNals) \subseteq T
  BY <1>2, <1>3, SequenceInduction
<1> QED BY <1>4 DEF T

(* The units chosen from a sample are units.                                 *)
LEMMA ChosenTyped ==
    ASSUME NEW nals \in Seq(ValidNals), NEW parameterSets
    PROVE  Chosen(nals, parameterSets) \in Seq(ValidNals)
<1> DEFINE S == Seq(ValidNals)
           n == Len(nals)
           none == <<>>
           turn(i, s) == IF IsParameterSet(nals[i]) = parameterSets THEN Append(s, nals[i]) ELSE s
           steps == [i \in 1 .. n |-> [s \in S |-> turn(i, s)]]
           Body(f) == f = [i \in 0 .. Len(nals) |->
                            IF i = 0 THEN <<>>
                            ELSE IF IsParameterSet(nals[i]) = parameterSets THEN Append(f[i - 1], nals[i])
                            ELSE f[i - 1]]
           g == CHOOSE f : Body(f)
<1>0. n \in Nat /\ none \in S /\ \A i \in 1 .. n : nals[i] \in ValidNals
  OBVIOUS
<1>1. ASSUME NEW i \in 1 .. n, NEW s \in S PROVE turn(i, s) \in S
  <2> DEFINE nal == nals[i]
  <2>1. nal \in ValidNals
    BY <1>0
  <2> HIDE DEF nal
  <2>2. Append(s, nal) \in S
    BY <2>1, AppendProperties
  <2> HIDE DEF S
  <2> QED BY <2>2 DEF nal
<1> HIDE DEF turn, S
<1>2. steps \in [1 .. n -> [S -> S]]
  BY <1>1
<1>3. \A i \in 1 .. n : \A s \in S : steps[i][s] = turn(i, s)
  OBVIOUS
<1> HIDE DEF steps, none
<1>4. steps \in Seq([S -> S]) /\ Len(steps) = n
  <2> DEFINE F == [S -> S]
  <2>1. steps \in [1 .. n -> F] /\ n \in Nat
    BY <1>0, <1>2
  <2>2. n \in Nat
    BY <1>0
  <2> HIDE DEF F, n
  <2> QED BY <2>1, <2>2, FunctionIsSequence DEF F
<1>5. PICK f \in [0 .. Len(steps) -> S] : Passes(f, none, steps)
  <2>1. steps \in Seq([S -> S])
    BY <1>4
  <2>2. none \in S
    BY <1>0
  <2> QED BY <2>1, <2>2, PassesExists, Zenon
<1>6. Body(f)
  <2>1. f = [i \in 0 .. n |-> IF i = 0 THEN none ELSE steps[i][f[i - 1]]]
    BY <1>4, <1>5 DEF Passes
  <2>2. ASSUME NEW i \in 0 .. n, i # 0 PROVE steps[i][f[i - 1]] = turn(i, f[i - 1])
    <3>1. i \in 1 .. n /\ i - 1 \in 0 .. Len(steps)
      BY <1>0, <1>4, <2>2
    <3>2. f[i - 1] \in S
      BY <1>5, <3>1
    <3> QED BY <1>3, <3>1, <3>2
  <2> HIDE DEF n
  <2>3. f = [i \in 0 .. n |-> IF i = 0 THEN none ELSE turn(i, f[i - 1])]
    BY <2>1, <2>2
  <2> QED BY <2>3, Zenon DEF n, none, turn
<1>7. Body(g)
  BY <1>6, Zenon
<1>8. Chosen(nals, parameterSets) = g[n]
  BY Zenon DEF Chosen
<1>9. Yields(g, none, steps, S)
  <2> HIDE DEF g, n
  <2>1. \A i \in 0 .. n : g[i] = IF i = 0 THEN none ELSE turn(i, g[i - 1])
    <3>1. g = [i \in 0 .. n |-> IF i = 0 THEN none ELSE turn(i, g[i - 1])]
      BY <1>7, Zenon DEF none, n, turn
    <3> QED BY <3>1, Zenon
  <2>2. 0 \in 0 .. n /\ \A i \in 1 .. n : i \in 0 .. n /\ i # 0
    BY <1>0
  <2> QED BY <1>3, <1>4, <2>1, <2>2 DEF Yields
<1> HIDE DEF g
<1>10. g[Len(steps)] \in S
  <2>1. steps \in Seq([S -> S])
    BY <1>4
  <2>2. none \in S
    BY <1>0
  <2>3. After(none, steps) = g[Len(steps)] /\ g[Len(steps)] \in S
    BY <2>1, <2>2, <1>9, AfterIs, Zenon
  <2> QED BY <2>3
<1> QED BY <1>4, <1>8, <1>10 DEF S

(* Bytes made of units have a start code.                                    *)
LEMMA CodeInAnnexB ==
    ASSUME NEW nals \in Seq(ValidNals), nals # <<>>
    PROVE  has_annex_b_start_code(AnnexB(nals))
<1> DEFINE b == AnnexB(nals)
<1>1. PICK off : Coded(b, nals, off)
  BY AnnexBCoded
<1>2. b \in Seq(Nat)
  BY AnnexBCoded
<1>3. Len(nals) \in Nat /\ Len(nals) # 0
  BY EmptySeq
<1>4. 1 \in 1 .. Len(nals)
  BY <1>3
<1> DEFINE at == off[1 - 1]
           nal == nals[1]
<1> HIDE DEF b
<1>5. at \in Nat /\ nal \in Seq(Nat) /\ Len(nal) \in Nat /\ UnitAt(b, nal, at)
  BY <1>1, <1>2, <1>4, CodedUnit
<1> HIDE DEF at, nal
<1>6. at \in Nat
  BY <1>5
<1>7. nal \in Seq(Nat)
  BY <1>5
<1>8. UnitAt(b, nal, at)
  BY <1>5
<1>9. CodeAt(b, at + 1)
  BY <1>2, <1>6, <1>7, <1>8, UnitCodes
<1>10. at + 1 \in DOMAIN b
  <2>1. Len(nal) >= 1 /\ at + 4 + Len(nal) <= Len(b)
    BY <1>8 DEF UnitAt
  <2>2. Len(b) \in Nat /\ DOMAIN b = 1 .. Len(b)
    BY <1>2
  <2> QED BY <1>5, <2>1, <2>2
<1> QED BY <1>9, <1>10 DEF has_annex_b_start_code, b

(* A key frame is told by its units.                                         *)
LEMMA IdrInAnnexB ==
    ASSUME NEW nals \in Seq(ValidNals)
    PROVE  annex_b_contains_idr(AnnexB(nals)) <=> \E i \in DOMAIN nals : NalType(nals[i]) \in {5, 7}
<1> DEFINE b == AnnexB(nals)
           m == Len(b)
           told(i) == /\ CodeAt(b, i) /\ i + 3 <= m
                      /\ i + start_code_len(b, i) <= m
                      /\ b[i + start_code_len(b, i)] % 32 \in {5, 7}
<1>1. PICK off : Coded(b, nals, off)
  BY AnnexBCoded
<1>2. b \in Seq(Nat)
  BY AnnexBCoded
<1>3. annex_b_contains_idr(b) <=> \E i \in DOMAIN b : told(i)
  BY DEF annex_b_contains_idr
<1>4. DOMAIN b = 1 .. m /\ m \in Nat /\ DOMAIN nals = 1 .. Len(nals)
  BY <1>2
<1> HIDE DEF b
<1>5. ASSUME NEW j \in 1 .. Len(nals)
      PROVE  /\ off[j - 1] + 1 \in 1 .. m
             /\ told(off[j - 1] + 1) <=> NalType(nals[j]) \in {5, 7}
             /\ told(off[j - 1] + 2) => NalType(nals[j]) \in {5, 7}
  <2> DEFINE at == off[j - 1]
             nal == nals[j]
  <2>1. at \in Nat /\ nal \in Seq(Nat) /\ Len(nal) \in Nat /\ UnitAt(b, nal, at)
    BY <1>1, <1>2, CodedUnit
  <2> HIDE DEF at, nal
  <2>2. at \in Nat
    BY <2>1
  <2>3. nal \in Seq(Nat)
    BY <2>1
  <2>4. UnitAt(b, nal, at)
    BY <2>1
  <2>5. LongCodeAt(b, at + 1) /\ CodeAt(b, at + 1) /\ ~LongCodeAt(b, at + 2)
    BY <1>2, <2>2, <2>3, <2>4, UnitCodes
  <2>6. start_code_len(b, at + 1) = 4 /\ start_code_len(b, at + 2) = 3
    BY <2>5 DEF start_code_len
  <2>7. Len(nal) >= 1 /\ at + 4 + Len(nal) <= m /\ \A k \in 1 .. Len(nal) : b[at + 4 + k] = nal[k]
    BY <2>4 DEF UnitAt
  <2>8. b[at + 4 + 1] = nal[1]
    <3>1. 1 \in 1 .. Len(nal)
      BY <2>1, <2>7
    <3> QED BY <2>7, <3>1
  <2>9. at + 4 + 1 = at + 5 /\ at + 1 + 4 = at + 5 /\ at + 2 + 3 = at + 5 /\ at + 1 + 3 <= m /\ at + 5 <= m
        /\ at + 1 \in 1 .. m
    BY <1>4, <2>1, <2>7
  <2>10. NalType(nal) = b[at + 5] % 32
    BY <2>8, <2>9 DEF NalType
  <2>11. told(at + 1) <=> NalType(nal) \in {5, 7}
    BY <2>5, <2>6, <2>9, <2>10
  <2>12. told(at + 2) => NalType(nal) \in {5, 7}
    BY <2>6, <2>9, <2>10
  <2> HIDE DEF told
  <2> QED BY <2>9, <2>11, <2>12 DEF at, nal
<1>6. ASSUME NEW i \in 1 .. m, told(i) PROVE \E j \in 1 .. Len(nals) : NalType(nals[j]) \in {5, 7}
  <2>1. i \in 1 .. Len(b)
    OBVIOUS
  <2>2. CodeAt(b, i)
    BY <1>6
  <2>3. PICK j \in 1 .. Len(nals) : i = off[j - 1] + 1 \/ i = off[j - 1] + 2
    BY <1>1, <1>2, <2>1, <2>2, CodesAreUnits
  <2> HIDE DEF told
  <2> QED BY <1>5, <1>6, <2>3
<1>7. ASSUME NEW j \in 1 .. Len(nals), NalType(nals[j]) \in {5, 7} PROVE \E i \in 1 .. m : told(i)
  <2> HIDE DEF told
  <2> QED BY <1>5, <1>7
<1> HIDE DEF told, m
<1>8. annex_b_contains_idr(b) <=> \E j \in 1 .. Len(nals) : NalType(nals[j]) \in {5, 7}
  BY <1>3, <1>4, <1>6, <1>7
<1> QED BY <1>4, <1>8 DEF b

(* What becomes of a sample, on every way it takes.                          *)
LEMMA SampleKept ==
    ASSUME sample \in Seq(ValidNals)
    PROVE  SamplesSurvive
<1> DEFINE avcc == Avcc(sample)
           bytes == AnnexB(sample)
           params == Chosen(sample, TRUE)
           others == Chosen(sample, FALSE)
           none == <<>>
<1>1. params \in Seq(ValidNals) /\ others \in Seq(ValidNals)
  BY ChosenTyped
<1>2. annex_b_nalus(bytes) = sample
  BY NalusOfAnnexB
<1>3. AvccUnits(avcc).nals = sample /\ AvccUnits(avcc).whole = TRUE
  BY UnitsOfAvcc
<1>4. AnnexB(none) = none /\ Avcc(none) = none
  BY NothingFramed
<1>5. AvccUnits(none).nals = none
  <2>1. none \in Seq(ValidNals)
    OBVIOUS
  <2> HIDE DEF none
  <2> QED BY <1>4, <2>1, UnitsOfAvcc
<1>6. annex_b_to_avcc_sample(bytes) = Avcc(others)
  BY <1>2 DEF annex_b_to_avcc_sample
<1>7. annex_b_contains_idr(bytes) <=> \E i \in DOMAIN sample : NalType(sample[i]) \in {5, 7}
  BY IdrInAnnexB
<1>8. sample # none => has_annex_b_start_code(bytes)
  BY CodeInAnnexB
<1> HIDE DEF params, none, avcc
<1>9. ensure_annex_b(bytes) = bytes
  <2>1. CASE sample = none
    <3>1. bytes = none
      BY <1>4, <2>1
    <3> HIDE DEF bytes
    <3> QED BY <1>5, <3>1 DEF ensure_annex_b, none
  <2>2. CASE sample # none
    <3> HIDE DEF bytes
    <3> QED BY <1>8, <2>2 DEF ensure_annex_b
  <2> QED BY <2>1, <2>2
<1>10. ASSUME sample # none, ~has_annex_b_start_code(avcc) PROVE ensure_annex_b(avcc) = bytes
  BY <1>3, <1>10 DEF ensure_annex_b, none
<1>11. sample_to_annex_b(avcc, params, params # none) = AnnexB(params) \o bytes
  <2>1. (IF params # none THEN AnnexB(params) ELSE none) = AnnexB(params)
    BY <1>4
  <2>2. sample_to_annex_b(avcc, params, params # none) =
           (IF params # none THEN AnnexB(params) ELSE none) \o AnnexB(AvccUnits(avcc).nals)
    BY Zenon DEF sample_to_annex_b, none
  <2> QED BY <1>3, <2>1, <2>2
<1>12. AnnexB(params) \o bytes = AnnexB(params \o sample)
  <2>1. params \in Seq(ValidNals)
    BY <1>1
  <2> QED BY <2>1, AnnexBBoth
<1>13. annex_b_nalus(AnnexB(params \o sample)) = params \o sample
  <2>1. params \o sample \in Seq(ValidNals)
    BY <1>1, ConcatProperties
  <2> QED BY <2>1, NalusOfAnnexB
<1>14. annex_b_nalus(sample_to_annex_b(avcc, params, params # none)) = params \o sample
  BY <1>11, <1>12, <1>13
<1> HIDE DEF bytes, others
<1> QED BY <1>2, <1>6, <1>7, <1>9, <1>10, <1>14 DEF SamplesSurvive, avcc, params, none, bytes, others

(* Every sample the agent sends is the one its encoder made, whatever it is.  *)
THEOREM SamplesKept == MediaSpec => []SamplesSurvive
<1>1. MediaTypeOK => SamplesSurvive
  BY SampleKept DEF MediaTypeOK
<1> QED BY <1>1, MediaTyped, PTL

-----------------------------------------------------------------------------
(* ClientVideo                                                                *)

(* A packet, the NAL units made of packets, and a packet of the frames sent. *)
PacketRecords == [frame : Nat \ {0}, index : Nat \ {0}, kind : Kinds, marker : BOOLEAN]
Nals == Seq(PacketRecords) \ {<<>>}
PacketOf(sent, f, i) == [frame |-> f, index |-> i, kind |-> sent[f][i], marker |-> i = Len(sent[f])]
IsPacket(sent, p) ==
    /\ p.frame \in 1 .. Len(sent) /\ p.index \in 1 .. Len(sent[p.frame])
    /\ p = PacketOf(sent, p.frame, p.index)

(* VideoTypeOK, with the types of what the sequences hold.                   *)
VideoFields ==
    /\ onWindows \in BOOLEAN
    /\ framesSent \in Seq(Shapes) /\ Len(framesSent) <= MaxFrames
    /\ \A p \in flight \cup swallowed : IsPacket(framesSent, p)
    /\ faults \in [net : 0 .. MaxNetFaults, dec : 0 .. MaxDecFaults]
    /\ fuBuffer \in Seq(PacketRecords) /\ \A i \in 1 .. Len(fuBuffer) : fuBuffer[i].kind = "fragment"
    /\ pendingUnit \in Seq(Nals)
    /\ pendingTs \in FrameNumbers /\ (pendingUnit = <<>> <=> pendingTs = 0)
    /\ lastUnit \in [ts : FrameNumbers, nals : Seq(Nals)]
    /\ unitsOut \in Nat
    /\ known \in {"none", "params A", "params B"} /\ decoder \in {"none", "params A", "params B"}
    /\ inDecoder \in Seq(FrameNumbers) /\ waiting \in Seq(FrameNumbers)
    /\ shown \in FrameNumbers

(* A frame ends with the end of a NAL unit.                                  *)
LEMMA ShapesTyped ==
    /\ MaxFrames \in Nat /\ MaxNetFaults \in Nat /\ MaxDecFaults \in Nat
    /\ \A s \in Shapes : /\ s \in Seq(Kinds) /\ Len(s) \in Nat \ {0} /\ DOMAIN s = 1 .. Len(s)
                         /\ \A i \in 1 .. Len(s) : s[i] \in Kinds
                         /\ s[Len(s)] # "fragment"
<1>1. MaxFrames \in Nat /\ MaxNetFaults \in Nat /\ MaxDecFaults \in Nat
  BY VideoAssumption
<1>2. ASSUME NEW s \in Shapes
      PROVE  /\ s \in Seq(Kinds) /\ Len(s) \in Nat \ {0} /\ DOMAIN s = 1 .. Len(s)
             /\ \A i \in 1 .. Len(s) : s[i] \in Kinds
             /\ s[Len(s)] # "fragment"
  <2>1. s \in Seq(Kinds) /\ s # <<>> /\ s[Len(s)] # "fragment"
    BY VideoAssumption
  <2> QED BY <2>1, LenProperties, ElementOfSeq, EmptySeq
<1> QED BY <1>1, <1>2

(* A packet that was sent is a record of its fields.                         *)
LEMMA PacketTyped ==
    ASSUME NEW sent \in Seq(Shapes), Len(sent) <= MaxFrames, NEW p, IsPacket(sent, p)
    PROVE  /\ p \in PacketRecords /\ p.frame \in FrameNumbers /\ p.frame # 0
           /\ sent[p.frame] \in Shapes /\ p.kind = sent[p.frame][p.index]
           /\ p.marker <=> p.index = Len(sent[p.frame])
           /\ p.marker => p.kind # "fragment"
<1>1. Len(sent) \in Nat /\ p.frame \in 1 .. Len(sent) /\ p.index \in 1 .. Len(sent[p.frame])
  BY LenProperties DEF IsPacket
<1>2. sent[p.frame] \in Shapes
  BY <1>1, ElementOfSeq
<1>3. p = [frame |-> p.frame, index |-> p.index, kind |-> sent[p.frame][p.index],
           marker |-> p.index = Len(sent[p.frame])]
  BY DEF IsPacket, PacketOf
<1>4. sent[p.frame][p.index] \in Kinds /\ Len(sent[p.frame]) \in Nat /\ sent[p.frame][Len(sent[p.frame])] # "fragment"
  BY <1>1, <1>2, ShapesTyped
<1>5. p.frame \in Nat \ {0} /\ p.index \in Nat \ {0} /\ p.frame \in FrameNumbers
  BY <1>1, <1>4, ShapesTyped DEF FrameNumbers
<1> DEFINE last == p.index = Len(sent[p.frame])
<1>6. last \in BOOLEAN
  OBVIOUS
<1>7. p \in PacketRecords
  <2> DEFINE f == p.frame
  <2> DEFINE i == p.index
  <2> DEFINE k == sent[p.frame][p.index]
  <2>1. p = [frame |-> f, index |-> i, kind |-> k, marker |-> last]
    BY <1>3
  <2>2. f \in Nat \ {0} /\ i \in Nat \ {0} /\ k \in Kinds
    BY <1>4, <1>5
  <2> HIDE DEF f, i, k, last
  <2> QED BY <1>6, <2>1, <2>2 DEF PacketRecords
<1>8. p.kind = sent[p.frame][p.index]
  BY <1>3
<1>9. p.marker <=> last
  <2> DEFINE f == p.frame
  <2> DEFINE i == p.index
  <2> DEFINE k == sent[p.frame][p.index]
  <2>1. p = [frame |-> f, index |-> i, kind |-> k, marker |-> last]
    BY <1>3
  <2> HIDE DEF f, i, k, last
  <2>2. [frame |-> f, index |-> i, kind |-> k, marker |-> last].marker = last
    OBVIOUS
  <2>3. p.marker = last
    BY <2>1, <2>2, Zenon
  <2> QED BY <2>3
<1> QED BY <1>2, <1>4, <1>5, <1>7, <1>8, <1>9

(* An element is added at the end.                                           *)
LEMMA Joined ==
    ASSUME NEW S, NEW s \in Seq(S), NEW e \in S
    PROVE  /\ s \o <<e>> \in Seq(S) /\ Len(s \o <<e>>) = Len(s) + 1 /\ Len(s) \in Nat
           /\ \A i \in 1 .. Len(s) : (s \o <<e>>)[i] = s[i]
           /\ (s \o <<e>>)[Len(s) + 1] = e
<1>1. Append(s, e) = s \o <<e>>
  BY AppendIsConcat
<1>2. /\ Append(s, e) \in Seq(S) /\ Len(Append(s, e)) = Len(s) + 1
      /\ \A i \in 1 .. Len(s) : Append(s, e)[i] = s[i]
      /\ Append(s, e)[Len(s) + 1] = e
  BY AppendProperties
<1> QED BY <1>1, <1>2, LenProperties

(* What the depacketizer makes of a packet: a NAL unit that it completes.    *)
LEMMA DepacketizedIs ==
    ASSUME VideoFields, NEW p \in PacketRecords
    PROVE  /\ Depacketized(p).buffer \in Seq(PacketRecords)
           /\ \A i \in 1 .. Len(Depacketized(p).buffer) : Depacketized(p).buffer[i].kind = "fragment"
           /\ p.kind = "fragment" => Depacketized(p).nals = <<>>
           /\ p.kind # "fragment" => \E nal \in Nals : Depacketized(p).nals = <<nal>> /\ LastOf(nal) = p
<1>0. fuBuffer \in Seq(PacketRecords) /\ \A i \in 1 .. Len(fuBuffer) : fuBuffer[i].kind = "fragment"
  BY DEF VideoFields
<1> DEFINE more == Append(fuBuffer, p)
<1>1. /\ more \in Seq(PacketRecords) /\ Len(more) = Len(fuBuffer) + 1 /\ Len(fuBuffer) \in Nat
      /\ \A i \in 1 .. Len(fuBuffer) : more[i] = fuBuffer[i]
      /\ more[Len(fuBuffer) + 1] = p
  BY <1>0, AppendProperties, LenProperties
<1> HIDE DEF more
<1>2. CASE p.kind = "fragment"
  <2>1. Depacketized(p) = [buffer |-> more, nals |-> <<>>]
    BY <1>2 DEF Depacketized, more
  <2>2. \A i \in 1 .. Len(more) : more[i].kind = "fragment"
    <3> SUFFICES ASSUME NEW i \in 1 .. Len(more) PROVE more[i].kind = "fragment"
      OBVIOUS
    <3>1. i \in 1 .. Len(fuBuffer) \/ i = Len(fuBuffer) + 1
      BY <1>1
    <3> QED BY <1>0, <1>1, <1>2, <3>1
  <2> QED BY <1>1, <1>2, <2>1, <2>2
<1>3. CASE p.kind = "last fragment"
  <2>1. Depacketized(p) = [buffer |-> <<>>, nals |-> <<more>>]
    BY <1>3 DEF Depacketized, more
  <2>2. <<>> \in Seq(PacketRecords) /\ Len(<<>>) = 0
    OBVIOUS
  <2>3. more \in Nals
    BY <1>1, EmptySeq DEF Nals
  <2>4. LastOf(more) = p
    BY <1>1 DEF LastOf
  <2>5. Depacketized(p).buffer = <<>> /\ Depacketized(p).nals = <<more>>
    BY <2>1
  <2>6. \A i \in 1 .. Len(<<>>) : <<>>[i].kind = "fragment"
    BY <2>2
  <2>7. Depacketized(p).buffer \in Seq(PacketRecords)
        /\ \A i \in 1 .. Len(Depacketized(p).buffer) : Depacketized(p).buffer[i].kind = "fragment"
    BY <2>2, <2>5, <2>6
  <2> HIDE DEF more
  <2> QED BY <1>3, <2>3, <2>4, <2>5, <2>7
<1>4. CASE p.kind # "fragment" /\ p.kind # "last fragment"
  <2>1. Depacketized(p) = [buffer |-> fuBuffer, nals |-> <<<<p>>>>]
    BY <1>4 DEF Depacketized
  <2>2. <<p>> \in Nals /\ LastOf(<<p>>) = p
    BY DEF Nals, LastOf
  <2>3. Depacketized(p).buffer = fuBuffer /\ Depacketized(p).nals = <<<<p>>>>
    BY <2>1
  <2> QED BY <1>0, <1>4, <2>2, <2>3
<1> QED BY <1>2, <1>3, <1>4

(* How a NAL unit joins what is pending: alone after the frame before, which *)
(* comes out; with the rest of its frame, which comes out; or to wait.       *)
FlushesBefore(p, nal, step) ==
    /\ pendingUnit # <<>> /\ pendingTs # p.frame
    /\ step = [pending |-> <<nal>>, ts |-> p.frame, unit |-> [ts |-> pendingTs, nals |-> pendingUnit]]
CompletesFrame(p, nal, step) ==
    /\ pendingUnit = <<>> \/ pendingTs = p.frame
    /\ p.marker
    /\ step = [pending |-> <<>>, ts |-> 0, unit |-> [ts |-> p.frame, nals |-> pendingUnit \o <<nal>>]]
WaitsForMore(p, nal, step) ==
    /\ pendingUnit = <<>> \/ pendingTs = p.frame
    /\ ~p.marker
    /\ step = [pending |-> pendingUnit \o <<nal>>, ts |-> p.frame, unit |-> NoUnit]

(* The assembler makes one of these steps of a packet that ends a NAL unit.  *)
LEMMA AssembledIs ==
    ASSUME VideoFields, NEW p \in PacketRecords
    PROVE  /\ p.kind = "fragment" => Assembled(p) = [pending |-> pendingUnit, ts |-> pendingTs, unit |-> NoUnit]
           /\ p.kind # "fragment" =>
                \E nal \in Nals : /\ LastOf(nal) = p
                                  /\ \/ FlushesBefore(p, nal, Assembled(p))
                                     \/ CompletesFrame(p, nal, Assembled(p))
                                     \/ WaitsForMore(p, nal, Assembled(p))
<1>1. CASE p.kind = "fragment"
  <2>1. Depacketized(p).nals = <<>>
    BY <1>1, DepacketizedIs
  <2> QED BY <1>1, <2>1 DEF Assembled
<1>2. CASE p.kind # "fragment"
  <2>1. PICK nal \in Nals : Depacketized(p).nals = <<nal>> /\ LastOf(nal) = p
    BY <1>2, DepacketizedIs
  <2>2. <<nal>> # <<>>
    OBVIOUS
  <2>3. CASE pendingUnit # <<>> /\ pendingTs # p.frame
    BY <1>2, <2>1, <2>2, <2>3 DEF Assembled, FlushesBefore
  <2>4. CASE ~(pendingUnit # <<>> /\ pendingTs # p.frame) /\ p.marker
    BY <1>2, <2>1, <2>2, <2>4 DEF Assembled, CompletesFrame
  <2>5. CASE ~(pendingUnit # <<>> /\ pendingTs # p.frame) /\ ~p.marker
    BY <1>2, <2>1, <2>2, <2>5 DEF Assembled, WaitsForMore
  <2> QED BY <2>3, <2>4, <2>5
<1> QED BY <1>1, <1>2

(* A packet on macOS is a unit, or none.                                     *)
LEMMA PacketUnitIs ==
    ASSUME VideoFields, NEW p \in PacketRecords
    PROVE  /\ p.kind = "fragment" => PacketUnit(p) = [pending |-> <<>>, ts |-> 0, unit |-> NoUnit]
           /\ p.kind # "fragment" =>
                \E nal \in Nals : /\ LastOf(nal) = p
                                  /\ PacketUnit(p) = [pending |-> <<>>, ts |-> 0,
                                                      unit |-> [ts |-> p.frame, nals |-> <<nal>>]]
<1>1. CASE p.kind = "fragment"
  BY <1>1, DepacketizedIs DEF PacketUnit
<1>2. CASE p.kind # "fragment"
  <2>1. PICK nal \in Nals : Depacketized(p).nals = <<nal>> /\ LastOf(nal) = p
    BY <1>2, DepacketizedIs
  <2>2. <<nal>> # <<>>
    OBVIOUS
  <2> QED BY <1>2, <2>1, <2>2 DEF PacketUnit
<1> QED BY <1>1, <1>2

Units == [ts : FrameNumbers, nals : Seq(Nals)]

(* What a packet makes of the unit has the types of its variables.           *)
LEMMA StepTyped ==
    ASSUME VideoFields, NEW p, IsPacket(framesSent, p), NEW step \in {Assembled(p), PacketUnit(p)}
    PROVE  /\ step.pending \in Seq(Nals) /\ step.ts \in FrameNumbers
           /\ step.pending = <<>> <=> step.ts = 0
           /\ step.unit \in Units /\ (step.unit = NoUnit <=> step.unit.ts = 0)
<1>0. /\ p \in PacketRecords /\ p.frame \in FrameNumbers /\ p.frame # 0 /\ 0 \in FrameNumbers
      /\ pendingUnit \in Seq(Nals) /\ pendingTs \in FrameNumbers
      /\ pendingUnit = <<>> <=> pendingTs = 0
  <2>1. framesSent \in Seq(Shapes) /\ Len(framesSent) <= MaxFrames
    BY DEF VideoFields
  <2>2. p \in PacketRecords /\ p.frame \in FrameNumbers /\ p.frame # 0
    BY <2>1, PacketTyped
  <2>3. 0 \in FrameNumbers
    BY ShapesTyped DEF FrameNumbers
  <2>4. pendingUnit \in Seq(Nals) /\ pendingTs \in FrameNumbers
    BY DEF VideoFields
  <2>5. pendingUnit = <<>> <=> pendingTs = 0
    BY DEF VideoFields
  <2> QED BY <2>2, <2>3, <2>4, <2>5
<1>1. <<>> \in Seq(Nals) /\ NoUnit \in Units /\ NoUnit.ts = 0
  BY <1>0 DEF NoUnit, Units
<1>2. ASSUME NEW unit \in Units, unit.ts # 0 PROVE unit # NoUnit
  BY <1>1, <1>2
<1>3. CASE p.kind = "fragment"
  <2>1. CASE step = Assembled(p)
    <3>1. step.pending = pendingUnit /\ step.ts = pendingTs /\ step.unit = NoUnit
      BY <1>0, <1>3, <2>1, AssembledIs
    <3> QED BY <1>0, <1>1, <3>1
  <2>2. CASE step = PacketUnit(p)
    <3>1. step.pending = <<>> /\ step.ts = 0 /\ step.unit = NoUnit
      BY <1>0, <1>3, <2>2, PacketUnitIs
    <3> QED BY <1>0, <1>1, <3>1
  <2> QED BY <2>1, <2>2
<1>4. CASE p.kind # "fragment"
  <2>1. CASE step = Assembled(p)
    <3>1. PICK nal \in Nals : FlushesBefore(p, nal, step) \/ CompletesFrame(p, nal, step) \/ WaitsForMore(p, nal, step)
      BY <1>0, <1>4, <2>1, AssembledIs
    <3>2. /\ <<nal>> \in Seq(Nals) /\ <<nal>> # <<>>
      OBVIOUS
    <3>3. pendingUnit \o <<nal>> \in Seq(Nals) /\ pendingUnit \o <<nal>> # <<>>
      <4>1. pendingUnit \o <<nal>> \in Seq(Nals) /\ Len(pendingUnit \o <<nal>>) = Len(pendingUnit) + 1
            /\ Len(pendingUnit) \in Nat
        BY <1>0, Joined
      <4>2. Len(<<>>) = 0
        OBVIOUS
      <4>3. Len(pendingUnit \o <<nal>>) # 0
        BY <4>1
      <4> QED BY <4>1, <4>2, <4>3
    <3>4. CASE FlushesBefore(p, nal, step)
      <4>1. step.pending = <<nal>> /\ step.ts = p.frame /\ step.unit = [ts |-> pendingTs, nals |-> pendingUnit]
            /\ pendingUnit # <<>>
        BY <3>4 DEF FlushesBefore
      <4>2. step.unit \in Units /\ step.unit.ts # 0
        BY <1>0, <4>1 DEF Units
      <4> QED BY <1>0, <1>2, <3>2, <4>1, <4>2
    <3>5. CASE CompletesFrame(p, nal, step)
      <4>1. step.pending = <<>> /\ step.ts = 0 /\ step.unit = [ts |-> p.frame, nals |-> pendingUnit \o <<nal>>]
        BY <3>5 DEF CompletesFrame
      <4>2. step.unit \in Units /\ step.unit.ts # 0
        BY <1>0, <3>3, <4>1 DEF Units
      <4> QED BY <1>0, <1>1, <1>2, <4>1, <4>2
    <3>6. CASE WaitsForMore(p, nal, step)
      <4>1. step.pending = pendingUnit \o <<nal>> /\ step.ts = p.frame /\ step.unit = NoUnit
        BY <3>6 DEF WaitsForMore
      <4> QED BY <1>0, <1>1, <3>3, <4>1
    <3> QED BY <3>1, <3>4, <3>5, <3>6
  <2>2. CASE step = PacketUnit(p)
    <3>1. PICK nal \in Nals : step = [pending |-> <<>>, ts |-> 0, unit |-> [ts |-> p.frame, nals |-> <<nal>>]]
      BY <1>0, <1>4, <2>2, PacketUnitIs
    <3>2. <<nal>> \in Seq(Nals)
      OBVIOUS
    <3>3. step.pending = <<>> /\ step.ts = 0 /\ step.unit = [ts |-> p.frame, nals |-> <<nal>>]
      BY <3>1
    <3>4. step.unit \in Units /\ step.unit.ts # 0
      BY <1>0, <3>2, <3>3 DEF Units
    <3> QED BY <1>0, <1>1, <1>2, <3>3, <3>4
  <2> QED BY <2>1, <2>2
<1> QED BY <1>3, <1>4

(* Each NAL unit of a unit was completed by a packet of the unit's frame.    *)
EndsMatch(nals, ts) == \A i \in 1 .. Len(nals) : LastOf(nals[i]).frame = ts
UnitsMatch == EndsMatch(pendingUnit, pendingTs) /\ EndsMatch(lastUnit.nals, lastUnit.ts)

(* What a packet makes of the units keeps each to one frame.                 *)
LEMMA StepMatches ==
    ASSUME VideoFields, UnitsMatch, NEW p, IsPacket(framesSent, p), NEW step \in {Assembled(p), PacketUnit(p)}
    PROVE  EndsMatch(step.pending, step.ts) /\ EndsMatch(step.unit.nals, step.unit.ts)
<1>0. /\ p \in PacketRecords /\ pendingUnit \in Seq(Nals) /\ EndsMatch(pendingUnit, pendingTs)
  <2>1. framesSent \in Seq(Shapes) /\ Len(framesSent) <= MaxFrames
    BY DEF VideoFields
  <2>2. p \in PacketRecords
    BY <2>1, PacketTyped
  <2> QED BY <2>2 DEF VideoFields, UnitsMatch
<1>1. \A ts : EndsMatch(<<>>, ts)
  BY DEF EndsMatch
<1>2. NoUnit.nals = <<>>
  BY DEF NoUnit
<1>3. ASSUME NEW nal \in Nals, LastOf(nal) = p PROVE EndsMatch(<<nal>>, p.frame)
  BY <1>3 DEF EndsMatch
<1>4. ASSUME NEW nal \in Nals, LastOf(nal) = p, pendingUnit = <<>> \/ pendingTs = p.frame
      PROVE  EndsMatch(pendingUnit \o <<nal>>, p.frame)
  <2> DEFINE more == pendingUnit \o <<nal>>
  <2>1. /\ Len(more) = Len(pendingUnit) + 1 /\ Len(pendingUnit) \in Nat
        /\ \A i \in 1 .. Len(pendingUnit) : more[i] = pendingUnit[i]
        /\ more[Len(pendingUnit) + 1] = nal
    BY <1>0, Joined
  <2> HIDE DEF more
  <2> SUFFICES ASSUME NEW i \in 1 .. Len(more) PROVE LastOf(more[i]).frame = p.frame
    BY DEF EndsMatch, more
  <2>2. CASE i \in 1 .. Len(pendingUnit)
    <3>1. pendingUnit # <<>>
      BY <2>2
    <3> QED BY <1>0, <1>4, <2>1, <2>2, <3>1 DEF EndsMatch
  <2>3. CASE i = Len(pendingUnit) + 1
    BY <1>4, <2>1, <2>3
  <2>4. i \in 1 .. Len(pendingUnit) \/ i = Len(pendingUnit) + 1
    BY <2>1
  <2> QED BY <2>2, <2>3, <2>4
<1>5. CASE p.kind = "fragment"
  <2>1. CASE step = Assembled(p)
    <3>1. step.unit = NoUnit /\ step.pending = pendingUnit /\ step.ts = pendingTs
      BY <1>0, <1>5, <2>1, AssembledIs
    <3> QED BY <1>0, <1>1, <1>2, <3>1
  <2>2. CASE step = PacketUnit(p)
    <3>1. step.unit = NoUnit /\ step.pending = <<>> /\ step.ts = 0
      BY <1>0, <1>5, <2>2, PacketUnitIs
    <3> QED BY <1>1, <1>2, <3>1
  <2> QED BY <2>1, <2>2
<1>6. CASE p.kind # "fragment"
  <2>1. CASE step = Assembled(p)
    <3>1. PICK nal \in Nals : /\ LastOf(nal) = p
                              /\ \/ FlushesBefore(p, nal, step) \/ CompletesFrame(p, nal, step)
                                 \/ WaitsForMore(p, nal, step)
      BY <1>0, <1>6, <2>1, AssembledIs
    <3>2. CASE FlushesBefore(p, nal, step)
      <4>1. step.pending = <<nal>> /\ step.ts = p.frame /\ step.unit = [ts |-> pendingTs, nals |-> pendingUnit]
        BY <3>2 DEF FlushesBefore
      <4> QED BY <1>0, <1>3, <3>1, <4>1
    <3>3. CASE CompletesFrame(p, nal, step)
      <4>1. step.pending = <<>> /\ step.ts = 0 /\ step.unit = [ts |-> p.frame, nals |-> pendingUnit \o <<nal>>]
            /\ (pendingUnit = <<>> \/ pendingTs = p.frame)
        BY <3>3 DEF CompletesFrame
      <4> QED BY <1>1, <1>4, <3>1, <4>1
    <3>4. CASE WaitsForMore(p, nal, step)
      <4>1. step.pending = pendingUnit \o <<nal>> /\ step.ts = p.frame /\ step.unit = NoUnit
            /\ (pendingUnit = <<>> \/ pendingTs = p.frame)
        BY <3>4 DEF WaitsForMore
      <4> QED BY <1>1, <1>2, <1>4, <3>1, <4>1
    <3> QED BY <3>1, <3>2, <3>3, <3>4
  <2>2. CASE step = PacketUnit(p)
    <3>1. PICK nal \in Nals : LastOf(nal) = p
                  /\ step = [pending |-> <<>>, ts |-> 0, unit |-> [ts |-> p.frame, nals |-> <<nal>>]]
      BY <1>0, <1>6, <2>2, PacketUnitIs
    <3>2. step.pending = <<>> /\ step.ts = 0 /\ step.unit = [ts |-> p.frame, nals |-> <<nal>>]
      BY <3>1
    <3> QED BY <1>1, <1>3, <3>1, <3>2
  <2> QED BY <2>1, <2>2
<1> QED BY <1>5, <1>6

-----------------------------------------------------------------------------
(* The parameter sets a unit leaves.                                         *)
LEMMA ObservedTyped ==
    ASSUME VideoFields, NEW unit
    PROVE  Observed(unit) \in {"none", "params A", "params B"}
<1>1. ParamsIn(unit) # {} => Observed(unit) \in ParamsIn(unit)
  BY DEF Observed
<1>2. ParamsIn(unit) \subseteq {"params A", "params B"}
  BY DEF ParamsIn
<1> QED BY <1>1, <1>2 DEF Observed, VideoFields

(* A part of a sequence is a sequence of the same elements.                  *)
LEMMA SubTyped ==
    ASSUME NEW S, NEW s \in Seq(S), NEW m \in Nat \ {0}, NEW n \in 0 .. Len(s)
    PROVE  SubSeq(s, m, n) \in Seq(S)
<1>1. Len(s) \in Nat /\ \A i \in m .. n : s[i] \in S
  BY LenProperties, ElementOfSeq
<1>2. m \in Int /\ n \in Int
  BY <1>1
<1> QED BY <1>1, <1>2, SubSeqProperties

(* The faults counted stay within their bounds.                              *)
LEMMA FaultTyped ==
    ASSUME VideoFields, NetFault \/ DecoderFails \/ UNCHANGED faults
    PROVE  faults' \in [net : 0 .. MaxNetFaults, dec : 0 .. MaxDecFaults]
<1>0. /\ faults \in [net : 0 .. MaxNetFaults, dec : 0 .. MaxDecFaults]
      /\ faults.net \in 0 .. MaxNetFaults /\ faults.dec \in 0 .. MaxDecFaults
      /\ MaxNetFaults \in Nat /\ MaxDecFaults \in Nat
  BY ShapesTyped DEF VideoFields
<1>1. CASE NetFault
  <2>1. faults.net + 1 \in 0 .. MaxNetFaults
    BY <1>0, <1>1 DEF NetFault
  <2> QED BY <1>0, <1>1, <2>1 DEF NetFault
<1>2. CASE DecoderFails
  <2>1. faults.dec + 1 \in 0 .. MaxDecFaults
    BY <1>0, <1>2 DEF DecoderFails
  <2> QED BY <1>0, <1>2, <2>1 DEF DecoderFails
<1>3. CASE UNCHANGED faults
  BY <1>0, <1>3
<1> QED BY <1>1, <1>2, <1>3

(* A frame more is sent: the packets of the frames before stay, its own are  *)
(* those of the next number.                                                 *)
LEMMA SentGrows ==
    ASSUME NEW sent \in Seq(Shapes), NEW shape \in Shapes
    PROVE  /\ Append(sent, shape) \in Seq(Shapes) /\ Len(Append(sent, shape)) = Len(sent) + 1
           /\ \A p : IsPacket(sent, p) => IsPacket(Append(sent, shape), p) /\ p.frame \in 1 .. Len(sent)
           /\ \A i \in DOMAIN shape :
                 LET p == [frame |-> Len(sent) + 1, index |-> i, kind |-> shape[i], marker |-> i = Len(shape)]
                 IN IsPacket(Append(sent, shape), p) /\ p.frame = Len(sent) + 1
           /\ \A p : IsPacket(Append(sent, shape), p) =>
                 \/ IsPacket(sent, p)
                 \/ \E i \in DOMAIN shape :
                       p = [frame |-> Len(sent) + 1, index |-> i, kind |-> shape[i], marker |-> i = Len(shape)]
<1> DEFINE more == Append(sent, shape)
<1> DEFINE n == Len(sent) + 1
<1>1. /\ more \in Seq(Shapes) /\ Len(more) = n /\ Len(sent) \in Nat
      /\ \A f \in 1 .. Len(sent) : more[f] = sent[f]
      /\ more[n] = shape
  BY AppendProperties, LenProperties
<1>2. n \in Nat /\ n = Len(sent) + 1 /\ Len(shape) \in Nat /\ DOMAIN shape = 1 .. Len(shape)
  BY <1>1, ShapesTyped
<1> HIDE DEF more
<1>3. ASSUME NEW p, IsPacket(sent, p) PROVE IsPacket(more, p) /\ p.frame \in 1 .. Len(sent)
  <2>1. p.frame \in 1 .. Len(sent) /\ p.frame \in 1 .. Len(more) /\ more[p.frame] = sent[p.frame]
    BY <1>1, <1>3 DEF IsPacket
  <2> QED BY <1>3, <2>1 DEF IsPacket, PacketOf
<1>4. ASSUME NEW i \in DOMAIN shape
      PROVE  IsPacket(more, [frame |-> n, index |-> i, kind |-> shape[i], marker |-> i = Len(shape)])
  <2>1. n \in 1 .. Len(more) /\ i \in 1 .. Len(more[n]) /\ more[n] = shape
    BY <1>1, <1>2
  <2> HIDE DEF n
  <2> QED BY <2>1 DEF IsPacket, PacketOf
<1>5. ASSUME NEW p, IsPacket(more, p), ~IsPacket(sent, p)
      PROVE  \E i \in DOMAIN shape :
                p = [frame |-> n, index |-> i, kind |-> shape[i], marker |-> i = Len(shape)]
  <2>1. p.frame \in 1 .. Len(more)
    BY <1>5 DEF IsPacket
  <2>2. p.frame \in 1 .. Len(sent) \/ p.frame = n
    BY <1>1, <1>2, <2>1
  <2>3. CASE p.frame \in 1 .. Len(sent)
    <3>1. more[p.frame] = sent[p.frame]
      BY <1>1, <2>3
    <3> QED BY <1>5, <2>3, <3>1 DEF IsPacket, PacketOf
  <2>4. CASE p.frame = n
    <3>1. p.index \in DOMAIN shape /\ p = PacketOf(more, n, p.index)
      BY <1>1, <1>2, <1>5, <2>4 DEF IsPacket
    <3> HIDE DEF n
    <3> QED BY <1>1, <3>1 DEF PacketOf
  <2> QED BY <2>2, <2>3, <2>4
<1> QED
  <2>1. \A i \in DOMAIN shape :
           [frame |-> n, index |-> i, kind |-> shape[i], marker |-> i = Len(shape)].frame = n
    OBVIOUS
  <2> QED BY <1>1, <1>3, <1>4, <1>5, <2>1 DEF more

(* What a packet leaves in the depacketizer and the assembler.               *)
LEMMA ReassembledTyped ==
    ASSUME VideoFields, NEW p, IsPacket(framesSent, p), NEW step \in {Assembled(p), PacketUnit(p)},
           Reassemble(p, step)
    PROVE  /\ fuBuffer' \in Seq(PacketRecords) /\ \A i \in 1 .. Len(fuBuffer') : fuBuffer'[i].kind = "fragment"
           /\ pendingUnit' \in Seq(Nals)
           /\ pendingTs' \in FrameNumbers /\ (pendingUnit' = <<>> <=> pendingTs' = 0)
           /\ lastUnit' \in Units
           /\ unitsOut' \in Nat
<1>0. framesSent \in Seq(Shapes) /\ Len(framesSent) <= MaxFrames /\ lastUnit \in Units /\ unitsOut \in Nat
  BY DEF VideoFields, Units
<1>1. p \in PacketRecords
  BY <1>0, PacketTyped
<1>2. /\ fuBuffer' = Depacketized(p).buffer
      /\ pendingUnit' = step.pending /\ pendingTs' = step.ts
      /\ \/ step.unit = NoUnit /\ lastUnit' = lastUnit /\ unitsOut' = unitsOut
         \/ step.unit # NoUnit /\ lastUnit' = step.unit /\ unitsOut' = unitsOut + 1
  BY DEF Reassemble
<1>3. /\ Depacketized(p).buffer \in Seq(PacketRecords)
      /\ \A i \in 1 .. Len(Depacketized(p).buffer) : Depacketized(p).buffer[i].kind = "fragment"
  BY <1>1, DepacketizedIs
<1>4. /\ step.pending \in Seq(Nals) /\ step.ts \in FrameNumbers
      /\ step.pending = <<>> <=> step.ts = 0
      /\ step.unit \in Units
  BY StepTyped
<1>5. lastUnit' \in Units /\ unitsOut' \in Nat
  BY <1>0, <1>2, <1>4
<1> QED BY <1>2, <1>3, <1>4, <1>5

(* What Media Foundation holds, gives out and shows are frames.              *)
LEMMA FoundationTyped ==
    ASSUME VideoFields, NEW ts \in FrameNumbers, MediaFoundationDecodes(ts)
    PROVE  inDecoder' \in Seq(FrameNumbers) /\ waiting' \in Seq(FrameNumbers) /\ shown' \in FrameNumbers
<1>0. inDecoder \in Seq(FrameNumbers) /\ Len(inDecoder) \in Nat /\ shown \in FrameNumbers
  BY LenProperties DEF VideoFields
<1>1. PICK discarded \in 0 .. Len(inDecoder) :
         LET all == Append(SubSeq(inDecoder, discarded + 1, Len(inDecoder)), ts)
         IN \E n \in 0 .. Len(all) :
               /\ inDecoder' = SubSeq(all, n + 1, Len(all))
               /\ waiting' = SubSeq(all, 2, n)
               /\ shown' = IF n > 0 THEN all[1] ELSE shown
  BY DEF MediaFoundationDecodes
<1> DEFINE all == Append(SubSeq(inDecoder, discarded + 1, Len(inDecoder)), ts)
<1>2. PICK n \in 0 .. Len(all) :
         /\ inDecoder' = SubSeq(all, n + 1, Len(all))
         /\ waiting' = SubSeq(all, 2, n)
         /\ shown' = IF n > 0 THEN all[1] ELSE shown
  BY <1>1
<1>3. all \in Seq(FrameNumbers) /\ Len(all) \in Nat
  <2>1. discarded + 1 \in Nat \ {0} /\ Len(inDecoder) \in 0 .. Len(inDecoder)
    BY <1>0
  <2>2. SubSeq(inDecoder, discarded + 1, Len(inDecoder)) \in Seq(FrameNumbers)
    BY <1>0, <2>1, SubTyped
  <2> QED BY <2>2, AppendProperties, LenProperties
<1> HIDE DEF all
<1>4. n + 1 \in Nat \ {0} /\ 2 \in Nat \ {0} /\ Len(all) \in 0 .. Len(all)
  BY <1>3
<1>5. SubSeq(all, n + 1, Len(all)) \in Seq(FrameNumbers) /\ SubSeq(all, 2, n) \in Seq(FrameNumbers)
  BY <1>3, <1>4, SubTyped
<1>6. shown' \in FrameNumbers
  <2>1. n > 0 => all[1] \in FrameNumbers
    BY <1>3, ElementOfSeq
  <2> QED BY <1>0, <1>2, <2>1
<1> QED BY <1>2, <1>5, <1>6

(* A packet on Windows or macOS is decoded.                                  *)
LEMMA DecodedTyped ==
    ASSUME VideoFields, NEW p \in flight, WindowsDecodes(p) \/ MacDecodes(p)
    PROVE  VideoFields'
<1>0. /\ framesSent \in Seq(Shapes) /\ Len(framesSent) <= MaxFrames /\ onWindows \in BOOLEAN
      /\ \A q \in flight \cup swallowed : IsPacket(framesSent, q)
      /\ known \in {"none", "params A", "params B"} /\ decoder \in {"none", "params A", "params B"}
      /\ inDecoder \in Seq(FrameNumbers) /\ waiting \in Seq(FrameNumbers) /\ shown \in FrameNumbers
      /\ Len(inDecoder) \in Nat
  BY LenProperties DEF VideoFields
<1>1. IsPacket(framesSent, p) /\ p.frame \in FrameNumbers
  BY <1>0, PacketTyped
<1>2. /\ flight' = flight \ {p} /\ UNCHANGED <<onWindows, framesSent, swallowed>>
      /\ NetFault \/ DecoderFails \/ UNCHANGED faults
  BY DEF WindowsDecodes, MacDecodes
<1> DEFINE step == IF onWindows THEN Assembled(p) ELSE PacketUnit(p)
<1> DEFINE seen == IF step.unit = NoUnit THEN known ELSE Observed(step.unit)
<1>3. Reassemble(p, step) /\ known' = seen /\ step \in {Assembled(p), PacketUnit(p)}
  BY DEF WindowsDecodes, MacDecodes
<1>4. seen \in {"none", "params A", "params B"}
  BY <1>0, ObservedTyped
<1>5. step.unit.ts \in FrameNumbers
  BY <1>1, <1>3, StepTyped DEF Units
<1>6. /\ decoder' \in {"none", "params A", "params B"}
      /\ inDecoder' \in Seq(FrameNumbers) /\ waiting' \in Seq(FrameNumbers) /\ shown' \in FrameNumbers
  <2>1. CASE WindowsDecodes(p)
    <3>0. onWindows /\ step = Assembled(p)
      BY <2>1 DEF WindowsDecodes
    <3>1. \/ NothingDecoded
          \/ decoder' = (IF decoder = "none" THEN seen ELSE decoder) /\ MediaFoundationDecodes(step.unit.ts)
          \/ /\ decoder' \in IF decoder = "none" THEN {"none", seen} ELSE {decoder}
             /\ \E n \in 0 .. Len(inDecoder) : inDecoder' = SubSeq(inDecoder, n + 1, Len(inDecoder))
             /\ UNCHANGED <<waiting, shown>>
      BY <2>1, <3>0 DEF WindowsDecodes
    <3> HIDE DEF step, seen
    <3>2. CASE NothingDecoded
      BY <1>0, <3>2 DEF NothingDecoded
    <3>3. CASE decoder' = (IF decoder = "none" THEN seen ELSE decoder) /\ MediaFoundationDecodes(step.unit.ts)
      <4>1. decoder' \in {"none", "params A", "params B"}
        BY <1>0, <1>4, <3>3
      <4> QED BY <1>5, <3>3, <4>1, FoundationTyped
    <3>4. CASE /\ decoder' \in IF decoder = "none" THEN {"none", seen} ELSE {decoder}
               /\ \E n \in 0 .. Len(inDecoder) : inDecoder' = SubSeq(inDecoder, n + 1, Len(inDecoder))
               /\ UNCHANGED <<waiting, shown>>
      <4>1. decoder' \in {"none", "params A", "params B"}
        BY <1>0, <1>4, <3>4
      <4>2. PICK n \in 0 .. Len(inDecoder) : inDecoder' = SubSeq(inDecoder, n + 1, Len(inDecoder))
        BY <3>4
      <4>3. n + 1 \in Nat \ {0} /\ Len(inDecoder) \in 0 .. Len(inDecoder)
        <5>1. Len(inDecoder) \in Nat
          BY <1>0
        <5> QED BY <5>1
      <4>4. inDecoder' \in Seq(FrameNumbers)
        BY <1>0, <4>2, <4>3, SubTyped
      <4> QED BY <1>0, <3>4, <4>1, <4>4
    <3> QED BY <3>1, <3>2, <3>3, <3>4
  <2>2. CASE MacDecodes(p)
    <3>0. ~onWindows /\ step = PacketUnit(p) /\ UNCHANGED <<inDecoder, waiting>>
      BY <2>2 DEF MacDecodes
    <3>1. decoder' \in {decoder, seen} /\ shown' \in {shown, p.frame}
      BY <2>2, <3>0 DEF MacDecodes
    <3> HIDE DEF step, seen
    <3> QED BY <1>0, <1>1, <1>4, <3>0, <3>1
  <2> QED BY <2>1, <2>2
<1>7. faults' \in [net : 0 .. MaxNetFaults, dec : 0 .. MaxDecFaults]
  BY <1>2, FaultTyped
<1>8. \A q \in flight' \cup swallowed' : IsPacket(framesSent', q)
  <2>1. framesSent' = framesSent
    BY <1>2
  <2> QED BY <1>0, <1>2, <2>1
<1> HIDE DEF step, seen
<1>9. /\ fuBuffer' \in Seq(PacketRecords) /\ \A i \in 1 .. Len(fuBuffer') : fuBuffer'[i].kind = "fragment"
      /\ pendingUnit' \in Seq(Nals)
      /\ pendingTs' \in FrameNumbers /\ (pendingUnit' = <<>> <=> pendingTs' = 0)
      /\ lastUnit' \in Units
      /\ unitsOut' \in Nat
  BY <1>1, <1>3, ReassembledTyped
<1>10. known' \in {"none", "params A", "params B"}
  BY <1>3, <1>4
<1>11. framesSent' \in Seq(Shapes) /\ Len(framesSent') <= MaxFrames /\ onWindows' \in BOOLEAN
  BY <1>0, <1>2
<1> QED BY <1>6, <1>7, <1>8, <1>9, <1>10, <1>11 DEF VideoFields, Units

(* The packets of a frame more are on the way.                               *)
LEMMA PacketizedTyped ==
    ASSUME VideoFields, NEW shape \in Shapes, PacketizeFrame(shape)
    PROVE  VideoFields'
<1>0. /\ framesSent \in Seq(Shapes) /\ Len(framesSent) < MaxFrames /\ Len(framesSent) \in Nat /\ MaxFrames \in Nat
      /\ \A q \in flight \cup swallowed : IsPacket(framesSent, q)
      /\ framesSent' = Append(framesSent, shape)
      /\ UNCHANGED <<onWindows, faults, fuBuffer, pendingUnit, pendingTs, lastUnit, unitsOut, known,
                     decoder, inDecoder, waiting, shown, swallowed>>
  BY ShapesTyped, LenProperties DEF VideoFields, PacketizeFrame, receiverVars
<1>1. framesSent' \in Seq(Shapes) /\ Len(framesSent') <= MaxFrames
  BY <1>0, SentGrows
<1>2. \A q \in flight' \cup swallowed' : IsPacket(framesSent', q)
  <2> SUFFICES ASSUME NEW q \in flight' \cup swallowed' PROVE IsPacket(framesSent', q)
    OBVIOUS
  <2>1. CASE q \in flight \cup swallowed
    BY <1>0, <2>1, SentGrows
  <2>2. CASE q \notin flight \cup swallowed
    <3>1. \E i \in DOMAIN shape :
             q = [frame |-> Len(framesSent) + 1, index |-> i, kind |-> shape[i], marker |-> i = Len(shape)]
      BY <1>0, <2>2 DEF PacketizeFrame
    <3> QED BY <1>0, <3>1, SentGrows
  <2> QED BY <2>1, <2>2
<1> QED BY <1>0, <1>1, <1>2 DEF VideoFields

(* A packet is lost, or swallowed while a frame waits.                       *)
LEMMA DroppedTyped ==
    ASSUME VideoFields, NEW p \in flight, LosePacket(p) \/ WindowsPops(p)
    PROVE  VideoFields'
<1>1. CASE LosePacket(p)
  <2>1. faults' \in [net : 0 .. MaxNetFaults, dec : 0 .. MaxDecFaults]
    BY <1>1, FaultTyped DEF LosePacket
  <2>2. /\ flight' \subseteq flight
        /\ UNCHANGED <<onWindows, framesSent, fuBuffer, pendingUnit, pendingTs, lastUnit, unitsOut, known,
                       decoder, inDecoder, waiting, shown, swallowed>>
    BY <1>1 DEF LosePacket, receiverVars
  <2> QED BY <2>1, <2>2 DEF VideoFields
<1>2. CASE WindowsPops(p)
  <2>1. faults' \in [net : 0 .. MaxNetFaults, dec : 0 .. MaxDecFaults]
    BY <1>2, FaultTyped DEF WindowsPops, Arrives
  <2>2. /\ flight' \subseteq flight /\ swallowed' = swallowed \cup {p}
        /\ UNCHANGED <<onWindows, framesSent, fuBuffer, pendingUnit, pendingTs, lastUnit, unitsOut, known,
                       decoder, inDecoder>>
        /\ waiting # <<>> /\ shown' = Head(waiting) /\ waiting' = Tail(waiting)
    BY <1>2 DEF WindowsPops, Arrives
  <2>3. shown' \in FrameNumbers /\ waiting' \in Seq(FrameNumbers)
    BY <2>2, HeadTailProperties DEF VideoFields
  <2>4. \A q \in flight' \cup swallowed' : IsPacket(framesSent', q)
    BY <2>2 DEF VideoFields
  <2> QED BY <2>1, <2>2, <2>3, <2>4 DEF VideoFields
<1> QED BY <1>1, <1>2

(* Every step keeps the types.                                               *)
LEMMA FieldsKept == VideoFields /\ [VideoNext]_videoVars => VideoFields'
<1> SUFFICES ASSUME VideoFields, [VideoNext]_videoVars PROVE VideoFields'
  OBVIOUS
<1>1. CASE \E shape \in Shapes : PacketizeFrame(shape)
  BY <1>1, PacketizedTyped
<1>2. CASE \E p \in flight : LosePacket(p) \/ WindowsPops(p)
  BY <1>2, DroppedTyped
<1>3. CASE \E p \in flight : WindowsDecodes(p) \/ MacDecodes(p)
  BY <1>3, DecodedTyped
<1>4. CASE UNCHANGED videoVars
  BY <1>4 DEF videoVars, VideoFields
<1> QED BY <1>1, <1>2, <1>3, <1>4 DEF VideoNext

(* The video begins with the types.                                          *)
LEMMA FieldsInit == (\E windows \in BOOLEAN : VideoInit(windows)) => VideoFields
<1> SUFFICES ASSUME NEW windows \in BOOLEAN, VideoInit(windows) PROVE VideoFields
  OBVIOUS
<1>1. MaxFrames \in Nat /\ MaxNetFaults \in Nat /\ MaxDecFaults \in Nat /\ 0 \in FrameNumbers
  BY ShapesTyped DEF FrameNumbers
<1>2. faults \in [net : 0 .. MaxNetFaults, dec : 0 .. MaxDecFaults]
  BY <1>1 DEF VideoInit
<1>3. lastUnit \in [ts : FrameNumbers, nals : Seq(Nals)]
  BY <1>1 DEF VideoInit, NoUnit
<1>4. framesSent \in Seq(Shapes) /\ Len(framesSent) <= MaxFrames
  BY <1>1 DEF VideoInit
<1>5. fuBuffer \in Seq(PacketRecords) /\ \A i \in 1 .. Len(fuBuffer) : fuBuffer[i].kind = "fragment"
  BY DEF VideoInit
<1> QED BY <1>1, <1>2, <1>3, <1>4, <1>5 DEF VideoInit, VideoFields

(* The types of the fields give the type of the module.                      *)
LEMMA FieldsType == VideoFields => VideoTypeOK
<1> SUFFICES ASSUME VideoFields PROVE VideoTypeOK
  OBVIOUS
<1>1. ASSUME NEW p \in flight \cup swallowed
      PROVE  p.frame \in DOMAIN framesSent /\ p = Packet(p.frame, p.index)
  BY LenProperties DEF VideoFields, IsPacket, PacketOf, Packet
<1>2. \A i \in DOMAIN fuBuffer : fuBuffer[i].kind = "fragment"
  BY LenProperties DEF VideoFields
<1>3. lastUnit.ts \in FrameNumbers
  BY DEF VideoFields
<1> QED BY <1>1, <1>2, <1>3 DEF VideoFields, VideoTypeOK

(* The video's variables keep their types: packets on the way are packets of *)
(* frames that were sent, and nothing is pending without its timestamp.      *)
THEOREM VideoTyped == VideoSpec => []VideoTypeOK
BY FieldsInit, FieldsKept, FieldsType, PTL DEF VideoSpec

-----------------------------------------------------------------------------
(* What arrives in order. The packets on the way are the last ones: with a   *)
(* packet, all later ones are on the way. The frames handed out are those    *)
(* whose last packet is not.                                                 *)
Suffix(sent, way) ==
    \A p \in way : \A q : IsPacket(sent, q) /\ Earlier(p, q) => q \in way
DoneFrames(sent, way, out) ==
    /\ out \in 0 .. Len(sent)
    /\ \A q : IsPacket(sent, q) /\ q.index = Len(sent[q.frame]) => (q \in way <=> q.frame > out)

(* The NAL units gathered of a frame: one for each packet that arrived and   *)
(* ends a NAL unit, in the order of the packets.                             *)
EndsOf(sent, way, f, q) == IsPacket(sent, q) /\ q.frame = f /\ q.kind # "fragment" /\ q \notin way
Gathers(sent, way, nals, f) ==
    /\ \A i \in 1 .. Len(nals) : EndsOf(sent, way, f, LastOf(nals[i]))
    /\ \A q : EndsOf(sent, way, f, q) => \E i \in 1 .. Len(nals) : q = LastOf(nals[i])
    /\ \A i, j \in 1 .. Len(nals) : i < j => LastOf(nals[i]).index < LastOf(nals[j]).index

(* As long as nothing was lost, overtaken or swallowed.                      *)
Undisturbed == onWindows /\ faults.net = 0 /\ swallowed = {}
FramesInOrder ==
    /\ Suffix(framesSent, flight) /\ DoneFrames(framesSent, flight, unitsOut)
    /\ Gathers(framesSent, flight, pendingUnit, unitsOut + 1)
    /\ lastUnit.ts = unitsOut
    /\ unitsOut > 0 => Gathers(framesSent, {}, lastUnit.nals, unitsOut)

VideoInv == VideoFields /\ UnitsMatch /\ (Undisturbed => FramesInOrder)

(* A NAL unit that ends with p joins those gathered before it.               *)
LEMMA GathersMore ==
    ASSUME NEW sent, NEW way, NEW f, NEW nals \in Seq(Nals), NEW nal \in Nals,
           Gathers(sent, way, nals, f),
           NEW p, LastOf(nal) = p, IsPacket(sent, p), p.frame = f, p.kind # "fragment", p \in way,
           \A i \in 1 .. Len(nals) : LastOf(nals[i]).index < p.index
    PROVE  Gathers(sent, way \ {p}, nals \o <<nal>>, f)
<1> DEFINE more == nals \o <<nal>>
<1>1. /\ Len(more) = Len(nals) + 1 /\ Len(nals) \in Nat
      /\ \A i \in 1 .. Len(nals) : more[i] = nals[i]
      /\ more[Len(nals) + 1] = nal
  BY Joined
<1> HIDE DEF more
<1>2. \A i \in 1 .. Len(more) : i \in 1 .. Len(nals) \/ i = Len(nals) + 1
  BY <1>1
<1>3. \A i \in 1 .. Len(nals) : i \in 1 .. Len(more)
  BY <1>1
<1>4. Len(nals) + 1 \in 1 .. Len(more)
  BY <1>1
<1>5. ASSUME NEW i \in 1 .. Len(more) PROVE EndsOf(sent, way \ {p}, f, LastOf(more[i]))
  BY <1>1, <1>2 DEF Gathers, EndsOf
<1>6. ASSUME NEW q, EndsOf(sent, way \ {p}, f, q) PROVE \E i \in 1 .. Len(more) : q = LastOf(more[i])
  <2>1. CASE q = p
    BY <1>1, <1>4, <2>1
  <2>2. CASE q # p
    <3>1. EndsOf(sent, way, f, q)
      BY <1>6, <2>2 DEF EndsOf
    <3>2. PICK i \in 1 .. Len(nals) : q = LastOf(nals[i])
      BY <3>1 DEF Gathers
    <3> QED BY <1>1, <1>3, <3>2
  <2> QED BY <2>1, <2>2
<1>7. ASSUME NEW i \in 1 .. Len(more), NEW j \in 1 .. Len(more), i < j
      PROVE  LastOf(more[i]).index < LastOf(more[j]).index
  <2>1. i \in 1 .. Len(nals)
    BY <1>1, <1>7
  <2>2. CASE j \in 1 .. Len(nals)
    BY <1>1, <1>7, <2>1, <2>2 DEF Gathers
  <2>3. CASE j = Len(nals) + 1
    BY <1>1, <2>1, <2>3
  <2> QED BY <1>2, <2>2, <2>3
<1> QED BY <1>5, <1>6, <1>7 DEF Gathers, more

(* The packet that arrives is of the frame after those handed out, after     *)
(* every packet of it that arrived before.                                   *)
LEMMA ArrivesNext ==
    ASSUME VideoFields, FramesInOrder, NEW p \in flight, ~\E q \in flight : Earlier(q, p)
    PROVE  /\ p.frame = unitsOut + 1
           /\ \A q : IsPacket(framesSent, q) => (q \in flight <=> q = p \/ Earlier(p, q))
           /\ \A q : IsPacket(framesSent, q) /\ q \notin flight =>
                        q.frame < p.frame \/ (q.frame = p.frame /\ q.index < p.index)
<1> DEFINE last(f) == PacketOf(framesSent, f, Len(framesSent[f]))
<1>0. /\ framesSent \in Seq(Shapes) /\ Len(framesSent) \in Nat /\ IsPacket(framesSent, p)
      /\ Suffix(framesSent, flight) /\ DoneFrames(framesSent, flight, unitsOut)
  BY LenProperties DEF VideoFields, FramesInOrder
<1>1. ASSUME NEW f \in 1 .. Len(framesSent)
      PROVE  /\ IsPacket(framesSent, last(f)) /\ last(f).frame = f /\ last(f).index = Len(framesSent[f])
             /\ last(f) \in flight <=> f > unitsOut
  <2>1. framesSent[f] \in Shapes
    BY <1>0, ElementOfSeq
  <2>2. Len(framesSent[f]) \in 1 .. Len(framesSent[f])
    BY <2>1, ShapesTyped
  <2>3. last(f).frame = f /\ last(f).index = Len(framesSent[f])
    BY DEF PacketOf
  <2>4. IsPacket(framesSent, last(f))
    BY <2>2, <2>3 DEF IsPacket
  <2> HIDE DEF last
  <2> QED BY <1>0, <2>3, <2>4 DEF DoneFrames
<1> HIDE DEF last
<1>2. p.frame \in 1 .. Len(framesSent) /\ p.index \in 1 .. Len(framesSent[p.frame])
      /\ unitsOut \in 0 .. Len(framesSent) /\ framesSent[p.frame] \in Shapes
  BY <1>0, ElementOfSeq DEF IsPacket, DoneFrames
<1>3. Len(framesSent[p.frame]) \in Nat
  BY <1>2, ShapesTyped
<1>4. p.frame > unitsOut
  <2>1. /\ IsPacket(framesSent, last(p.frame)) /\ last(p.frame).frame = p.frame
        /\ last(p.frame).index = Len(framesSent[p.frame])
        /\ last(p.frame) \in flight <=> p.frame > unitsOut
    BY <1>1, <1>2
  <2>2. CASE p.index = Len(framesSent[p.frame])
    <3>1. last(p.frame) = p
      BY <1>0, <2>1, <2>2 DEF IsPacket
    <3> QED BY <2>1, <3>1
  <2>3. CASE p.index # Len(framesSent[p.frame])
    <3>1. Earlier(p, last(p.frame))
      BY <1>2, <1>3, <2>1, <2>3 DEF Earlier
    <3>2. last(p.frame) \in flight
      BY <1>0, <2>1, <3>1 DEF Suffix
    <3> QED BY <2>1, <3>2
  <2> QED BY <2>2, <2>3
<1>5. p.frame = unitsOut + 1
  <2>1. SUFFICES ASSUME p.frame > unitsOut + 1 PROVE FALSE
    BY <1>2, <1>4
  <2>2. unitsOut + 1 \in 1 .. Len(framesSent) /\ unitsOut + 1 > unitsOut
    BY <1>2, <2>1
  <2>3. last(unitsOut + 1) \in flight /\ last(unitsOut + 1).frame = unitsOut + 1
    BY <1>1, <2>2
  <2>4. Earlier(last(unitsOut + 1), p)
    BY <2>1, <2>3 DEF Earlier
  <2> QED BY <2>3, <2>4
<1>6. ASSUME NEW q, IsPacket(framesSent, q)
      PROVE  q = p \/ Earlier(p, q) \/ Earlier(q, p)
  <2>1. q.frame \in 1 .. Len(framesSent) /\ q.index \in 1 .. Len(framesSent[q.frame])
        /\ framesSent[q.frame] \in Shapes
    BY <1>0, <1>6, ElementOfSeq DEF IsPacket
  <2>2. Len(framesSent[q.frame]) \in Nat
    BY <2>1, ShapesTyped
  <2>3. CASE q.frame = p.frame /\ q.index = p.index
    <3>1. q = p
      BY <1>0, <1>6, <2>3 DEF IsPacket
    <3> QED BY <3>1
  <2>4. CASE ~(q.frame = p.frame /\ q.index = p.index)
    BY <1>2, <1>3, <2>1, <2>2, <2>4 DEF Earlier
  <2> QED BY <2>3, <2>4
<1>7. ASSUME NEW q, IsPacket(framesSent, q) PROVE q \in flight <=> q = p \/ Earlier(p, q)
  BY <1>0, <1>6, <1>7 DEF Suffix
<1>8. ASSUME NEW q, IsPacket(framesSent, q), q \notin flight
      PROVE  q.frame < p.frame \/ (q.frame = p.frame /\ q.index < p.index)
  BY <1>6, <1>7, <1>8 DEF Earlier
<1> QED BY <1>5, <1>7, <1>8

(* A packet arrives in order on Windows: a fragment waits, any other packet  *)
(* joins its frame, and the last one hands the frame out.                    *)
LEMMA ArrivalInOrder ==
    ASSUME VideoFields, UnitsMatch, Undisturbed, FramesInOrder, NEW p \in flight, WindowsDecodes(p),
           ~\E q \in flight : Earlier(q, p)
    PROVE  FramesInOrder'
<1>0. /\ framesSent \in Seq(Shapes) /\ Len(framesSent) <= MaxFrames /\ Len(framesSent) \in Nat
      /\ IsPacket(framesSent, p) /\ pendingUnit \in Seq(Nals) /\ unitsOut \in 0 .. Len(framesSent)
      /\ pendingUnit = <<>> <=> pendingTs = 0
  BY LenProperties DEF VideoFields, FramesInOrder, DoneFrames
<1>1. /\ p \in PacketRecords /\ framesSent[p.frame] \in Shapes
      /\ p.marker <=> p.index = Len(framesSent[p.frame])
      /\ p.marker => p.kind # "fragment"
  BY <1>0, PacketTyped
<1>2. /\ p.frame = unitsOut + 1
      /\ \A q : IsPacket(framesSent, q) => (q \in flight <=> q = p \/ Earlier(p, q))
      /\ \A q : IsPacket(framesSent, q) /\ q \notin flight =>
                   q.frame < p.frame \/ (q.frame = p.frame /\ q.index < p.index)
  BY ArrivesNext
<1>3. framesSent' = framesSent /\ flight' = flight \ {p} /\ Reassemble(p, Assembled(p))
  BY DEF WindowsDecodes
<1>4. /\ Suffix(framesSent, flight) /\ DoneFrames(framesSent, flight, unitsOut)
      /\ Gathers(framesSent, flight, pendingUnit, unitsOut + 1)
      /\ lastUnit.ts = unitsOut
      /\ unitsOut > 0 => Gathers(framesSent, {}, lastUnit.nals, unitsOut)
  BY DEF FramesInOrder
<1>5. Suffix(framesSent, flight \ {p})
  <2> SUFFICES ASSUME NEW a \in flight \ {p}, NEW q, IsPacket(framesSent, q), Earlier(a, q)
               PROVE  q \in flight \ {p}
    BY DEF Suffix
  <2>1. q \in flight
    BY <1>4 DEF Suffix
  <2> QED BY <2>1
<1>6. \A i \in 1 .. Len(pendingUnit) : LastOf(pendingUnit[i]).index < p.index
  <2> SUFFICES ASSUME NEW i \in 1 .. Len(pendingUnit) PROVE LastOf(pendingUnit[i]).index < p.index
    OBVIOUS
  <2>1. EndsOf(framesSent, flight, unitsOut + 1, LastOf(pendingUnit[i]))
    BY <1>4 DEF Gathers
  <2> DEFINE q == LastOf(pendingUnit[i])
  <2>2. IsPacket(framesSent, q) /\ q \notin flight /\ q.frame = p.frame
    BY <1>2, <2>1 DEF EndsOf
  <2> HIDE DEF q
  <2>3. q.frame \in 1 .. Len(framesSent)
    BY <2>2 DEF IsPacket
  <2>4. q.frame < p.frame \/ q.index < p.index
    BY <1>2, <2>2
  <2>5. q.index < p.index
    BY <2>2, <2>3, <2>4
  <2> QED BY <2>5 DEF q
<1>7. \A nal \in Nals : LastOf(nal) = p /\ p.kind # "fragment" =>
         Gathers(framesSent, flight \ {p}, pendingUnit \o <<nal>>, unitsOut + 1)
  BY <1>0, <1>2, <1>4, <1>6, GathersMore
<1>8. ~p.marker => DoneFrames(framesSent, flight \ {p}, unitsOut)
  BY <1>1, <1>4 DEF DoneFrames
<1>9. CASE p.kind = "fragment"
  <2>1. Assembled(p) = [pending |-> pendingUnit, ts |-> pendingTs, unit |-> NoUnit]
    BY <1>1, <1>9, AssembledIs
  <2>2. UNCHANGED <<pendingUnit, pendingTs, lastUnit, unitsOut>>
    BY <1>3, <2>1 DEF Reassemble
  <2>3. Gathers(framesSent, flight \ {p}, pendingUnit, unitsOut + 1)
    <3>1. \A q : EndsOf(framesSent, flight \ {p}, unitsOut + 1, q) <=> EndsOf(framesSent, flight, unitsOut + 1, q)
      BY <1>9 DEF EndsOf
    <3> QED BY <1>4, <3>1 DEF Gathers
  <2>4. ~p.marker
    BY <1>1, <1>9
  <2>5. unitsOut' = unitsOut /\ pendingUnit' = pendingUnit /\ lastUnit' = lastUnit
    BY <2>2
  <2> QED BY <1>3, <1>4, <1>5, <1>8, <2>3, <2>4, <2>5 DEF FramesInOrder
<1>10. CASE p.kind # "fragment"
  <2>1. PICK nal \in Nals : /\ LastOf(nal) = p
                            /\ \/ FlushesBefore(p, nal, Assembled(p))
                               \/ CompletesFrame(p, nal, Assembled(p))
                               \/ WaitsForMore(p, nal, Assembled(p))
    BY <1>1, <1>10, AssembledIs
  <2>2. ~FlushesBefore(p, nal, Assembled(p))
    <3> SUFFICES ASSUME pendingUnit # <<>> PROVE pendingTs = p.frame
      BY DEF FlushesBefore
    <3>1. 1 \in 1 .. Len(pendingUnit)
      BY <1>0, EmptySeq, LenProperties
    <3>2. LastOf(pendingUnit[1]).frame = pendingTs
      BY <3>1 DEF UnitsMatch, EndsMatch
    <3>3. LastOf(pendingUnit[1]).frame = unitsOut + 1
      BY <1>4, <3>1 DEF Gathers, EndsOf
    <3> QED BY <1>2, <3>2, <3>3
  <2> DEFINE more == pendingUnit \o <<nal>>
  <2>3. Gathers(framesSent, flight \ {p}, more, unitsOut + 1)
    BY <1>7, <1>10, <2>1
  <2> HIDE DEF more
  <2>4. CASE WaitsForMore(p, nal, Assembled(p))
    <3>1. ~p.marker /\ Assembled(p) = [pending |-> more, ts |-> p.frame, unit |-> NoUnit]
      BY <2>4 DEF WaitsForMore, more
    <3>2. pendingUnit' = more /\ lastUnit' = lastUnit /\ unitsOut' = unitsOut
      BY <1>3, <3>1 DEF Reassemble
    <3> QED BY <1>3, <1>4, <1>5, <1>8, <2>3, <3>1, <3>2 DEF FramesInOrder
  <2>5. CASE CompletesFrame(p, nal, Assembled(p))
    <3>1. p.marker /\ Assembled(p) = [pending |-> <<>>, ts |-> 0, unit |-> [ts |-> p.frame, nals |-> more]]
      BY <2>5 DEF CompletesFrame, more
    <3>2. Assembled(p).unit # NoUnit
      <4>1. Assembled(p).unit.ts = p.frame /\ NoUnit.ts = 0 /\ p.frame # 0
        BY <1>0, <1>2, <3>1 DEF NoUnit
      <4> QED BY <4>1
    <3>3. pendingUnit' = <<>> /\ lastUnit' = [ts |-> p.frame, nals |-> more] /\ unitsOut' = unitsOut + 1
      BY <1>3, <3>1, <3>2 DEF Reassemble
    <3>4. p.frame \in 1 .. Len(framesSent) /\ p.index = Len(framesSent[p.frame])
      BY <1>0, <1>1, <3>1 DEF IsPacket
    <3>5. DoneFrames(framesSent, flight \ {p}, unitsOut + 1)
      <4>1. unitsOut + 1 \in 0 .. Len(framesSent)
        BY <1>0, <1>2, <3>4
      <4>2. ASSUME NEW q, IsPacket(framesSent, q), q.index = Len(framesSent[q.frame])
            PROVE  q \in flight \ {p} <=> q.frame > unitsOut + 1
        <5>1. q \in flight <=> q.frame > unitsOut
          BY <1>4, <4>2 DEF DoneFrames
        <5>2. q.frame \in 1 .. Len(framesSent)
          BY <4>2 DEF IsPacket
        <5>3. q.frame = p.frame => q = p
          BY <1>0, <3>4, <4>2 DEF IsPacket
        <5> QED BY <1>0, <1>2, <5>1, <5>2, <5>3
      <4> QED BY <4>1, <4>2 DEF DoneFrames
    <3>6. Gathers(framesSent, flight \ {p}, <<>>, unitsOut + 1 + 1)
      <4>1. ASSUME NEW q, EndsOf(framesSent, flight \ {p}, unitsOut + 1 + 1, q) PROVE FALSE
        <5>1. IsPacket(framesSent, q) /\ q.frame = unitsOut + 1 + 1 /\ q \notin flight \ {p}
          BY <4>1 DEF EndsOf
        <5>2. Earlier(p, q) /\ q # p
          BY <1>0, <1>2, <5>1 DEF Earlier
        <5> QED BY <1>2, <5>1, <5>2
      <4>2. Len(<<>>) = 0
        OBVIOUS
      <4> QED BY <4>1, <4>2 DEF Gathers
    <3>7. Gathers(framesSent, {}, more, unitsOut + 1)
      <4>1. ASSUME NEW q, EndsOf(framesSent, {}, unitsOut + 1, q)
            PROVE  EndsOf(framesSent, flight \ {p}, unitsOut + 1, q)
        <5>1. IsPacket(framesSent, q) /\ q.frame = p.frame /\ q.kind # "fragment"
          BY <1>2, <4>1 DEF EndsOf
        <5>2. q.index \in 1 .. Len(framesSent[p.frame]) /\ Len(framesSent[p.frame]) \in Nat
          BY <1>1, <5>1, ShapesTyped DEF IsPacket
        <5>3. p.frame \in 1 .. Len(framesSent)
          BY <3>4
        <5>4. ~Earlier(p, q)
          BY <3>4, <5>1, <5>2, <5>3 DEF Earlier
        <5>5. q \notin flight \ {p}
          BY <1>2, <5>1, <5>4
        <5> QED BY <4>1, <5>1, <5>5 DEF EndsOf
      <4>2. \A q : EndsOf(framesSent, flight \ {p}, unitsOut + 1, q) => EndsOf(framesSent, {}, unitsOut + 1, q)
        BY DEF EndsOf
      <4> QED BY <2>3, <4>1, <4>2 DEF Gathers
    <3>8. lastUnit'.ts = unitsOut' /\ lastUnit'.nals = more
      BY <1>2, <3>3
    <3> QED BY <1>3, <1>5, <3>3, <3>5, <3>6, <3>7, <3>8 DEF FramesInOrder
  <2> QED BY <2>1, <2>2, <2>4, <2>5
<1> QED BY <1>9, <1>10

(* A frame more is sent behind those on the way.                             *)
LEMMA SendInOrder ==
    ASSUME VideoFields, FramesInOrder, NEW shape \in Shapes, PacketizeFrame(shape)
    PROVE  FramesInOrder'
<1> DEFINE more == Append(framesSent, shape)
<1> DEFINE new == {[frame |-> Len(framesSent) + 1, index |-> i, kind |-> shape[i], marker |-> i = Len(shape)]
                      : i \in DOMAIN shape}
<1>0. /\ framesSent \in Seq(Shapes) /\ Len(framesSent) \in Nat
      /\ framesSent' = more /\ flight' = flight \cup new
      /\ UNCHANGED <<pendingUnit, lastUnit, unitsOut>>
      /\ \A q \in flight : IsPacket(framesSent, q)
  BY LenProperties DEF VideoFields, PacketizeFrame, receiverVars
<1>1. /\ Len(more) = Len(framesSent) + 1
      /\ \A q : IsPacket(framesSent, q) => IsPacket(more, q) /\ q.frame \in 1 .. Len(framesSent)
      /\ \A q \in new : q.frame = Len(framesSent) + 1
      /\ \A q : IsPacket(more, q) => IsPacket(framesSent, q) \/ q \in new
      /\ \A f \in 1 .. Len(framesSent) : more[f] = framesSent[f]
  BY <1>0, SentGrows, AppendProperties
<1> HIDE DEF more, new
<1>2. /\ Suffix(framesSent, flight) /\ DoneFrames(framesSent, flight, unitsOut)
      /\ Gathers(framesSent, flight, pendingUnit, unitsOut + 1)
      /\ lastUnit.ts = unitsOut
      /\ unitsOut > 0 => Gathers(framesSent, {}, lastUnit.nals, unitsOut)
      /\ unitsOut \in 0 .. Len(framesSent)
  BY DEF FramesInOrder, DoneFrames
<1>3. \A q : IsPacket(framesSent, q) => q \notin new
  BY <1>0, <1>1
<1>4. Suffix(more, flight \cup new)
  <2> SUFFICES ASSUME NEW a \in flight \cup new, NEW q, IsPacket(more, q), Earlier(a, q), q \notin new
               PROVE  q \in flight
    BY DEF Suffix
  <2>1. IsPacket(framesSent, q) /\ q.frame \in 1 .. Len(framesSent)
    BY <1>1
  <2>2. a \notin new
    BY <1>0, <1>1, <2>1 DEF Earlier
  <2> QED BY <1>2, <2>1, <2>2 DEF Suffix
<1>5. DoneFrames(more, flight \cup new, unitsOut)
  <2>1. ASSUME NEW q, IsPacket(more, q), q.index = Len(more[q.frame])
        PROVE  q \in flight \cup new <=> q.frame > unitsOut
    <3>1. CASE q \in new
      BY <1>0, <1>1, <1>2, <3>1
    <3>2. CASE q \notin new
      <4>1. IsPacket(framesSent, q) /\ q.frame \in 1 .. Len(framesSent)
        BY <1>1, <2>1, <3>2
      <4>2. q.index = Len(framesSent[q.frame])
        BY <1>1, <2>1, <4>1
      <4> QED BY <1>2, <3>2, <4>1, <4>2 DEF DoneFrames
    <3> QED BY <3>1, <3>2
  <2>2. unitsOut \in 0 .. Len(more)
    BY <1>0, <1>1, <1>2
  <2> QED BY <2>1, <2>2 DEF DoneFrames
<1>6. \A f, q : EndsOf(more, flight \cup new, f, q) <=> EndsOf(framesSent, flight, f, q)
  BY <1>1, <1>3 DEF EndsOf
<1>7. \A q : EndsOf(more, {}, unitsOut, q) <=> EndsOf(framesSent, {}, unitsOut, q)
  BY <1>0, <1>1, <1>2 DEF EndsOf
<1>8. Gathers(more, flight \cup new, pendingUnit, unitsOut + 1)
  BY <1>2, <1>6 DEF Gathers
<1>9. unitsOut > 0 => Gathers(more, {}, lastUnit.nals, unitsOut)
  BY <1>2, <1>7 DEF Gathers
<1> QED BY <1>0, <1>2, <1>4, <1>5, <1>8, <1>9 DEF FramesInOrder

(* At first nothing was sent, and no unit was handed out.                    *)
LEMMA VideoInvInit == (\E windows \in BOOLEAN : VideoInit(windows)) => VideoInv
<1> SUFFICES ASSUME NEW windows \in BOOLEAN, VideoInit(windows) PROVE VideoInv
  OBVIOUS
<1>1. VideoFields
  BY FieldsInit
<1>2. /\ framesSent = <<>> /\ flight = {} /\ pendingUnit = <<>> /\ unitsOut = 0
      /\ lastUnit.nals = <<>> /\ lastUnit.ts = 0 /\ Len(<<>>) = 0
  BY DEF VideoInit, NoUnit
<1>3. \A q : ~IsPacket(framesSent, q)
  BY <1>2 DEF IsPacket
<1>4. UnitsMatch
  BY <1>2 DEF UnitsMatch, EndsMatch
<1>5. FramesInOrder
  <2>1. Suffix(framesSent, flight) /\ DoneFrames(framesSent, flight, unitsOut)
    BY <1>2, <1>3 DEF Suffix, DoneFrames
  <2>2. Gathers(framesSent, flight, pendingUnit, unitsOut + 1)
    BY <1>2, <1>3 DEF Gathers, EndsOf
  <2> QED BY <1>2, <2>1, <2>2 DEF FramesInOrder
<1> QED BY <1>1, <1>4, <1>5 DEF VideoInv

(* A packet that is decoded in an undisturbed video came in order.           *)
LEMMA DecodedInOrder ==
    ASSUME VideoInv, NEW p \in flight, WindowsDecodes(p) \/ MacDecodes(p)
    PROVE  UnitsMatch' /\ (Undisturbed' => FramesInOrder')
<1>0. VideoFields /\ UnitsMatch /\ (Undisturbed => FramesInOrder) /\ IsPacket(framesSent, p)
  BY DEF VideoInv, VideoFields
<1>1. UnitsMatch'
  <2>1. PICK step \in {Assembled(p), PacketUnit(p)} : Reassemble(p, step)
    BY DEF WindowsDecodes, MacDecodes
  <2>2. EndsMatch(step.pending, step.ts) /\ EndsMatch(step.unit.nals, step.unit.ts)
    BY <1>0, StepMatches
  <2>3. /\ pendingUnit' = step.pending /\ pendingTs' = step.ts
        /\ lastUnit' = lastUnit \/ lastUnit' = step.unit
    BY <2>1 DEF Reassemble
  <2>4. EndsMatch(pendingUnit', pendingTs')
    BY <2>2, <2>3
  <2>5. EndsMatch(lastUnit'.nals, lastUnit'.ts)
    BY <1>0, <2>2, <2>3 DEF UnitsMatch
  <2> QED BY <2>4, <2>5 DEF UnitsMatch
<1>2. ASSUME Undisturbed' PROVE FramesInOrder'
  <2>1. onWindows' /\ faults'.net = 0 /\ swallowed' = {}
    BY <1>2 DEF Undisturbed
  <2>2. WindowsDecodes(p) /\ onWindows /\ swallowed = {}
    BY <2>1 DEF WindowsDecodes, MacDecodes
  <2>3. faults \in [net : 0 .. MaxNetFaults, dec : 0 .. MaxDecFaults] /\ MaxNetFaults \in Nat
    BY <1>0, ShapesTyped DEF VideoFields
  <2>4. ~NetFault
    BY <2>1, <2>3 DEF NetFault
  <2>5. ~\E q \in flight : Earlier(q, p)
    BY <2>2, <2>4 DEF WindowsDecodes
  <2>6. UNCHANGED faults \/ DecoderFails
    BY <2>2, <2>4, <2>5 DEF WindowsDecodes
  <2>7. faults.net = 0
    BY <2>1, <2>3, <2>6 DEF DecoderFails
  <2> QED BY <1>0, <2>2, <2>5, <2>7, ArrivalInOrder DEF Undisturbed
<1> QED BY <1>1, <1>2

(* Every step keeps the invariant: it stays in order, or is disturbed.       *)
LEMMA VideoInvKept == VideoInv /\ [VideoNext]_videoVars => VideoInv'
<1> SUFFICES ASSUME VideoInv, [VideoNext]_videoVars PROVE VideoInv'
  OBVIOUS
<1>0. VideoFields /\ UnitsMatch /\ (Undisturbed => FramesInOrder) /\ VideoFields'
  BY FieldsKept DEF VideoInv
<1>1. ASSUME NEW shape \in Shapes, PacketizeFrame(shape) PROVE VideoInv'
  <2>1. UnitsMatch'
    BY <1>0, <1>1 DEF PacketizeFrame, receiverVars, UnitsMatch
  <2>2. Undisturbed' => Undisturbed
    BY <1>1 DEF PacketizeFrame, receiverVars, Undisturbed
  <2> QED BY <1>0, <1>1, <2>1, <2>2, SendInOrder DEF VideoInv
<1>2. ASSUME NEW p \in flight, LosePacket(p) PROVE VideoInv'
  <2>1. UnitsMatch'
    BY <1>0, <1>2 DEF LosePacket, receiverVars, UnitsMatch
  <2>2. ~Undisturbed'
    <3>1. faults \in [net : 0 .. MaxNetFaults, dec : 0 .. MaxDecFaults] /\ MaxNetFaults \in Nat
      BY <1>0, ShapesTyped DEF VideoFields
    <3>2. faults' = [faults EXCEPT !.net = @ + 1]
      BY <1>2 DEF LosePacket, NetFault
    <3>3. faults'.net = faults.net + 1 /\ faults.net \in Nat
      BY <3>1, <3>2
    <3> QED BY <3>3 DEF Undisturbed
  <2> QED BY <1>0, <2>1, <2>2 DEF VideoInv
<1>3. ASSUME NEW p \in flight, WindowsPops(p) PROVE VideoInv'
  <2>1. UnitsMatch'
    BY <1>0, <1>3 DEF WindowsPops, UnitsMatch
  <2>2. ~Undisturbed'
    BY <1>3 DEF WindowsPops, Undisturbed
  <2> QED BY <1>0, <2>1, <2>2 DEF VideoInv
<1>4. ASSUME NEW p \in flight, WindowsDecodes(p) \/ MacDecodes(p) PROVE VideoInv'
  BY <1>0, <1>4, DecodedInOrder DEF VideoInv
<1>5. CASE UNCHANGED videoVars
  <2>1. UNCHANGED <<onWindows, framesSent, flight, faults, pendingUnit, pendingTs, lastUnit, unitsOut, swallowed>>
    BY <1>5 DEF videoVars
  <2>2. UnitsMatch'
    BY <1>0, <2>1 DEF UnitsMatch
  <2>3. Undisturbed' => Undisturbed
    BY <2>1 DEF Undisturbed
  <2>4. FramesInOrder => FramesInOrder'
    BY <2>1 DEF FramesInOrder
  <2> QED BY <1>0, <2>2, <2>3, <2>4 DEF VideoInv
<1> QED BY <1>1, <1>2, <1>3, <1>4, <1>5 DEF VideoNext

(* Units that are gathered in order are the frames.                          *)
LEMMA VideoInvWhole == VideoInv => UnitsWhole
<1> SUFFICES ASSUME VideoInv, onWindows PROVE UnitsWhole
  BY DEF UnitsWhole
<1>0. /\ VideoFields /\ UnitsMatch /\ (Undisturbed => FramesInOrder)
      /\ framesSent \in Seq(Shapes) /\ Len(framesSent) \in Nat /\ Len(framesSent) <= MaxFrames
      /\ DOMAIN lastUnit.nals = 1 .. Len(lastUnit.nals) /\ DOMAIN pendingUnit = 1 .. Len(pendingUnit)
  BY LenProperties DEF VideoInv, VideoFields
<1>1. \A i \in DOMAIN lastUnit.nals : LastOf(lastUnit.nals[i]).frame = lastUnit.ts
  BY <1>0 DEF UnitsMatch, EndsMatch
<1>2. ASSUME Undisturbed
      PROVE  /\ lastUnit.ts = unitsOut
             /\ lastUnit.ts > 0 =>
                  /\ {LastOf(lastUnit.nals[i]) : i \in DOMAIN lastUnit.nals} = NalEnds(lastUnit.ts)
                  /\ \A i, j \in DOMAIN lastUnit.nals :
                        i < j => LastOf(lastUnit.nals[i]).index < LastOf(lastUnit.nals[j]).index
             /\ \A i \in DOMAIN pendingUnit : ~LastOf(pendingUnit[i]).marker
  <2>1. /\ DoneFrames(framesSent, flight, unitsOut)
        /\ Gathers(framesSent, flight, pendingUnit, unitsOut + 1)
        /\ lastUnit.ts = unitsOut /\ unitsOut \in 0 .. Len(framesSent)
        /\ unitsOut > 0 => Gathers(framesSent, {}, lastUnit.nals, unitsOut)
    BY <1>0, <1>2 DEF FramesInOrder, DoneFrames
  <2>2. ASSUME lastUnit.ts > 0
        PROVE  /\ {LastOf(lastUnit.nals[i]) : i \in DOMAIN lastUnit.nals} = NalEnds(lastUnit.ts)
               /\ \A i, j \in DOMAIN lastUnit.nals :
                     i < j => LastOf(lastUnit.nals[i]).index < LastOf(lastUnit.nals[j]).index
    <3> DEFINE f == unitsOut
    <3>1. Gathers(framesSent, {}, lastUnit.nals, f) /\ f \in 1 .. Len(framesSent) /\ lastUnit.ts = f
      BY <1>0, <2>1, <2>2
    <3> HIDE DEF f
    <3>2. framesSent[f] \in Shapes
      BY <1>0, <3>1, ElementOfSeq
    <3>3. DOMAIN framesSent[f] = 1 .. Len(framesSent[f])
      BY <3>2, ShapesTyped
    <3>4. ASSUME NEW q, EndsOf(framesSent, {}, f, q) PROVE q \in NalEnds(f)
      <4>1. IsPacket(framesSent, q) /\ q.frame = f /\ q.kind # "fragment"
        BY <3>4 DEF EndsOf
      <4>2. q.kind = framesSent[f][q.index]
        BY <1>0, <4>1, PacketTyped
      <4>3. q.index \in 1 .. Len(framesSent[f]) /\ q = PacketOf(framesSent, f, q.index)
        BY <4>1 DEF IsPacket
      <4> QED BY <3>3, <4>1, <4>2, <4>3 DEF NalEnds, Packet, PacketOf
    <3>5. ASSUME NEW q \in NalEnds(f) PROVE EndsOf(framesSent, {}, f, q)
      <4>1. PICK k \in 1 .. Len(framesSent[f]) : q = PacketOf(framesSent, f, k) /\ framesSent[f][k] # "fragment"
        BY <3>3 DEF NalEnds, Packet, PacketOf
      <4>2. q.frame = f /\ q.index = k /\ q.kind = framesSent[f][k]
        BY <4>1 DEF PacketOf
      <4> QED BY <3>1, <4>1, <4>2 DEF EndsOf, IsPacket
    <3>6. {LastOf(lastUnit.nals[i]) : i \in DOMAIN lastUnit.nals} = NalEnds(f)
      BY <1>0, <3>1, <3>4, <3>5 DEF Gathers
    <3> QED BY <1>0, <3>1, <3>6 DEF Gathers
  <2>3. ASSUME NEW i \in DOMAIN pendingUnit PROVE ~LastOf(pendingUnit[i]).marker
    <3> DEFINE q == LastOf(pendingUnit[i])
    <3>1. IsPacket(framesSent, q) /\ q.frame = unitsOut + 1 /\ q \notin flight
      BY <1>0, <2>1, <2>3 DEF Gathers, EndsOf
    <3> HIDE DEF q
    <3>2. q.marker <=> q.index = Len(framesSent[q.frame])
      BY <1>0, <3>1, PacketTyped
    <3>3. q.index # Len(framesSent[q.frame])
      BY <2>1, <3>1 DEF DoneFrames
    <3> QED BY <3>2, <3>3 DEF q
  <2> QED BY <2>1, <2>2, <2>3
<1>3. faults.net = 0 /\ swallowed = {} => Undisturbed
  BY DEF Undisturbed
<1> QED BY <1>1, <1>2, <1>3 DEF UnitsWhole

(* What the decoder of Windows is given never mixes two frames; and while    *)
(* nothing is lost, overtaken or swallowed, the units are the frames, whole  *)
(* and in order, for frames of every shape: each packet that arrives is the  *)
(* next one, and what is pending is what came of the frame after the last.   *)
THEOREM UnitsKept == VideoSpec => []UnitsWhole
BY VideoInvInit, VideoInvKept, VideoInvWhole, PTL DEF VideoSpec
=============================================================================
