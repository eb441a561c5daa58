------------------------------- MODULE InputPath -------------------------------
(* The user's input: each frame of the window collects its events and gives   *)
(* them to a task of their own, the tasks send them one by one over the       *)
(* control channel, which is ordered and reliable while it is open, and the   *)
(* agent injects them in the order they come.                                 *)
EXTENDS Integers, Sequences

CONSTANTS
    Positions,    \* places of the pointer
    Usages,       \* HID usages of the keys pressed and released
    MaxPerFrame,  \* bound on the events of a frame
    MaxEvents,    \* bound on the events of all frames
    DesktopSpans, \* widths of the host's desktop, in pixels
    DesktopOrigins \* where it may begin

ASSUME InputAssumption ==
    /\ Usages \subseteq Nat /\ {MaxPerFrame, MaxEvents} \subseteq Nat
    /\ DesktopSpans \subseteq Nat \ {0, 1} /\ DesktopOrigins \subseteq Int

Moves == [kind : {"move"}, what : Positions]
Keys == [kind : {"down", "up"}, what : Usages]
InputEvents == Moves \cup Keys

VARIABLES
    typed,      \* what the user did, frame after frame
    overlapped, \* a frame was handed over before the task of an earlier one was done
    tasks,      \* the events each task has not sent
    channelAt,  \* the control channel: "opening", "open", "closed"
    onTheWay,   \* events in the channel and in the agent's incoming queue
    lastPos,    \* InputInjector.last_pos
    injected    \* what the agent gave the operating system: [event, pos]

inputVars == <<typed, overlapped, tasks, channelAt, onTheWay, lastPos, injected>>

NoPosition == "nowhere"

InputTypeOK ==
    /\ typed \in Seq(InputEvents) /\ Len(typed) <= MaxEvents
    /\ overlapped \in BOOLEAN
    /\ tasks \in Seq(Seq(InputEvents))
    /\ channelAt \in {"opening", "open", "closed"}
    /\ onTheWay \in Seq(InputEvents)
    /\ lastPos \in Positions \cup {NoPosition}
    /\ injected \in Seq([event : InputEvents, pos : Positions \cup {NoPosition}])

InputInit ==
    /\ typed = <<>> /\ overlapped = FALSE /\ tasks = <<>>
    /\ channelAt = "opening" /\ onTheWay = <<>>
    /\ lastPos = NoPosition /\ injected = <<>>

-----------------------------------------------------------------------------
(* Keys and places.                                                         *)

(* egui_key_to_hid: the keys the client knows, as their usages.             *)
ClientUsages == (4 .. 44) \cup (79 .. 82)
NoKey == -1

(* hid_to_vk of Windows.                                                    *)
hid_to_vk(hid) ==
    CASE hid \in 4 .. 29 -> 65 + (hid - 4)
      [] hid \in 30 .. 38 -> 49 + (hid - 30)
      [] hid = 39 -> 48
      [] hid \in 40 .. 44 -> <<13, 27, 8, 9, 32>>[hid - 39]
      [] hid \in 79 .. 82 -> <<39, 37, 40, 38>>[hid - 78]
      [] hid \in 224 .. 231 -> <<17, 16, 18, 91>>[((hid - 224) % 4) + 1]
      [] OTHER -> NoKey

(* hid_to_macos_keycode.                                                    *)
hid_to_macos_keycode(hid) ==
    CASE hid \in 4 .. 29 -> <<0, 11, 8, 2, 14, 3, 5, 4, 34, 38, 40, 37, 46, 45, 31, 35, 12, 15, 1,
                              17, 32, 9, 13, 7, 16, 6>>[hid - 3]
      [] hid \in 30 .. 39 -> <<18, 19, 20, 21, 23, 22, 26, 28, 25, 29>>[hid - 29]
      [] hid \in 40 .. 44 -> <<36, 53, 51, 48, 49>>[hid - 39]
      [] hid \in 79 .. 82 -> <<124, 123, 125, 126>>[hid - 78]
      [] hid \in 224 .. 231 -> <<59, 56, 58, 55, 62, 60, 61, 54>>[hid - 223]
      [] OTHER -> NoKey

(* Mutant: the last pixel is not the end of the axis.                       *)
AxisOfWholeSpan(value, origin, span) ==
    LET offset == value - origin
        inside == IF offset < 0 THEN 0 ELSE IF offset > span - 1 THEN span - 1 ELSE offset
    IN (2 * inside * 65535 + span) \div (2 * span)

(* to_absolute_axis: pixels of the desktop to the 0 .. 65535 of SendInput.  *)
to_absolute_axis(value, origin, span) ==
    LET offset == value - origin
        inside == IF offset < 0 THEN 0 ELSE IF offset > span - 1 THEN span - 1 ELSE offset
    IN (2 * inside * 65535 + (span - 1)) \div (2 * (span - 1))

-----------------------------------------------------------------------------
(* wire_data_channel: the channel opens, and ClientSession has it.          *)
OpenChannel ==
    /\ channelAt = "opening"
    /\ channelAt' = "open"
    /\ UNCHANGED <<typed, overlapped, tasks, onTheWay, lastPos, injected>>

(* Mutant: each event gets a task of its own.                               *)
TaskPerEvent(events) == [i \in DOMAIN events |-> <<events[i]>>]

TaskPerFrame(events) == <<events>>

(* ClientApp::forward_input, with a session.                                *)
ForwardInput(events) ==
    /\ channelAt = "open" /\ Len(typed) + Len(events) <= MaxEvents
    /\ typed' = typed \o events
    /\ overlapped' = (overlapped \/ \E i \in DOMAIN tasks : tasks[i] # <<>>)
    /\ tasks' = tasks \o TaskPerFrame(events)
    /\ UNCHANGED <<channelAt, onTheWay, lastPos, injected>>

(* A task sends its next event; the channel's lock orders the tasks. A send  *)
(* on a closed channel fails and is ignored.                                 *)
SendNext(i) ==
    /\ tasks[i] # <<>>
    /\ tasks' = [tasks EXCEPT ![i] = Tail(@)]
    /\ onTheWay' = IF channelAt = "open" THEN Append(onTheWay, Head(tasks[i])) ELSE onTheWay
    /\ UNCHANGED <<typed, overlapped, channelAt, lastPos, injected>>

(* run_session: recv, then InputInjector::inject.                           *)
Inject ==
    /\ onTheWay # <<>>
    /\ LET event == Head(onTheWay)
           pos == IF event.kind = "move" THEN event.what ELSE lastPos
       IN /\ lastPos' = pos
          /\ injected' = Append(injected, [event |-> event, pos |-> pos])
    /\ onTheWay' = Tail(onTheWay)
    /\ UNCHANGED <<typed, overlapped, tasks, channelAt>>

(* The client disconnects: what is on the way is lost, and the agent is not  *)
(* told; the keys it holds down stay down.                                   *)
CloseChannel ==
    /\ channelAt = "open"
    /\ channelAt' = "closed" /\ onTheWay' \in {SubSeq(onTheWay, 1, n) : n \in 0 .. Len(onTheWay)}
    /\ UNCHANGED <<typed, overlapped, tasks, lastPos, injected>>

InputNext ==
    \/ OpenChannel \/ Inject \/ CloseChannel
    \/ \E n \in 1 .. MaxPerFrame : \E events \in [1 .. n -> InputEvents] : ForwardInput(events)
    \/ \E i \in DOMAIN tasks : SendNext(i)

InputSpec == InputInit /\ [][InputNext]_inputVars

-----------------------------------------------------------------------------
(* Where the pointer is after the first n things the user did.              *)
PointerAfter(n) ==
    LET moves == {i \in 1 .. n : typed[i].kind = "move"}
    IN IF moves = {} THEN NoPosition
       ELSE typed[CHOOSE i \in moves : \A j \in moves : j <= i].what

(* As long as the events of a frame are sent before the next frame has any,  *)
(* the host gets exactly what the user did, in order and each click at the   *)
(* place of the pointer, up to the end of the connection; nothing is ever    *)
(* injected twice. The tasks of two frames may overtake each other: then     *)
(* only the number is right. Two keys of the client are never one key of the *)
(* host, and the pixels of its desktop cover the axis of SendInput from end  *)
(* to end, in order, each at a place of its own while they are no more than  *)
(* the axis has places (forward_input, inject, the key tables).              *)
InputOrder ==
    /\ Len(injected) <= Len(typed)
    /\ ~overlapped =>
         \A n \in DOMAIN injected : injected[n] = [event |-> typed[n], pos |-> PointerAfter(n)]
    /\ channelAt = "open" /\ Len(typed) = 1 /\ injected = <<>> => \* about constants
         /\ \A a, b \in ClientUsages : a # b =>
               /\ hid_to_vk(a) \notin {NoKey, hid_to_vk(b)}
               /\ hid_to_macos_keycode(a) \notin {NoKey, hid_to_macos_keycode(b)}
         /\ \A span \in DesktopSpans, o \in DesktopOrigins :
               /\ to_absolute_axis(o, o, span) = 0 /\ to_absolute_axis(o - 1, o, span) = 0
               /\ to_absolute_axis(o + span, o, span) = 65535
               /\ \A x \in o .. o + span - 2 :
                     /\ to_absolute_axis(x, o, span) <= to_absolute_axis(x + 1, o, span)
                     /\ span <= 65536 => to_absolute_axis(x, o, span) # to_absolute_axis(x + 1, o, span)
=============================================================================
