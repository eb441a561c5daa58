------------------------------ MODULE AgentSession ------------------------------
(* The agent's process on Windows: one WebSocket to the server, one task per  *)
(* connection request, and for each of these a video pipeline whose capture   *)
(* loop runs on a thread of its own. The process is over only when main has   *)
(* returned and all these threads have. (Audio's thread, in AudioPipeline,    *)
(* looks at its channel before each packet and holds nothing up.)             *)
EXTENDS Naturals, Sequences, FiniteSets

CONSTANTS
    RequestIds,    \* session ids of connection requests
    RequireVideo,  \* --require-video
    FrameCapacity, \* capacity of the channel of captured frames
    MaxRequests,   \* bound on requests
    MaxAgentFaults \* bound on calls that fail

ASSUME AgentAssumption ==
    /\ RequireVideo \in BOOLEAN /\ FrameCapacity \in Nat \ {0}
    /\ {MaxRequests, MaxAgentFaults} \subseteq Nat

VARIABLES
    processAt, \* "connecting", "serving", "exiting" once main returned, "gone"
    readerAt,  \* ServerClient's reader task, which holds the sender of requests
    writerOn,  \* ServerClient's writer task, which holds the receiver of answers
    requests,  \* the channel of requests to main
    runs,      \* a record for each run_session started
    answers,   \* session ids whose answers the writer was given
    agentBudget \* [requests, faults |-> so far]

agentVars == <<processAt, readerAt, writerOn, requests, runs, answers, agentBudget>>

(* capture is the thread, frames the channel to the encoding task.          *)
NewRun(id) == [id |-> id, at |-> "video", capture |-> "none", frames |-> 0]

AgentTypeOK ==
    /\ processAt \in {"connecting", "serving", "exiting", "gone"}
    /\ readerAt \in {"none", "running", "ended"} /\ writerOn \in BOOLEAN
    /\ requests \in Seq(RequestIds)
    /\ \A r \in DOMAIN runs :
          runs[r] \in [id : RequestIds, at : {"video", "offer", "messages", "failed"},
                       capture : {"none", "opening", "looping", "sending", "ended"},
                       frames : 0 .. FrameCapacity]
    /\ answers \in Seq(RequestIds)
    /\ agentBudget \in [requests : 0 .. MaxRequests, faults : 0 .. MaxAgentFaults]

AgentInit ==
    /\ processAt = "connecting" /\ readerAt = "none" /\ writerOn = FALSE
    /\ requests = <<>> /\ runs = <<>> /\ answers = <<>>
    /\ agentBudget = [requests |-> 0, faults |-> 0]

AgentFault ==
    /\ agentBudget.faults < MaxAgentFaults
    /\ agentBudget' = [agentBudget EXCEPT !.faults = @ + 1]

Live == processAt = "serving"

-----------------------------------------------------------------------------
(* run_standalone and ServerClient.                                         *)

Connect ==
    /\ processAt = "connecting"
    /\ \/ processAt' = "serving" /\ readerAt' = "running" /\ writerOn' = TRUE /\ UNCHANGED agentBudget
       \/ AgentFault /\ processAt' = "gone" /\ UNCHANGED <<readerAt, writerOn>>
    /\ UNCHANGED <<requests, runs, answers>>

(* A connect_request or a signaling_offer: either is a request, also when    *)
(* one of that session came before.                                          *)
ReadRequest(id) ==
    /\ Live /\ readerAt = "running" /\ agentBudget.requests < MaxRequests
    /\ requests' = Append(requests, id)
    /\ agentBudget' = [agentBudget EXCEPT !.requests = @ + 1]
    /\ UNCHANGED <<processAt, readerAt, writerOn, runs, answers>>

(* The server closes the socket: the reader ends, and with it the channel of *)
(* requests; the writer fails with the next message.                         *)
ReaderEnds ==
    /\ Live /\ readerAt = "running"
    /\ readerAt' = "ended"
    /\ UNCHANGED <<processAt, writerOn, requests, runs, answers, agentBudget>>

WriterEnds ==
    /\ Live /\ writerOn /\ AgentFault
    /\ writerOn' = FALSE
    /\ UNCHANGED <<processAt, readerAt, requests, runs, answers>>

TakeRequest ==
    /\ Live /\ requests # <<>>
    /\ requests' = Tail(requests)
    /\ runs' = Append(runs, NewRun(Head(requests)))
    /\ UNCHANGED <<processAt, readerAt, writerOn, answers, agentBudget>>

(* The channel of requests is closed, or Ctrl+C: main returns, and the       *)
(* runtime drops its tasks.                                                  *)
MainReturns ==
    /\ Live
    /\ processAt' = "exiting"
    /\ readerAt' = "ended" /\ writerOn' = FALSE /\ requests' = <<>>
    /\ UNCHANGED <<runs, answers, agentBudget>>

(* The runtime waits for the threads of spawn_blocking.                     *)
ProcessEnds ==
    /\ processAt = "exiting"
    /\ \A r \in DOMAIN runs : runs[r].capture \in {"none", "ended"}
    /\ processAt' = "gone"
    /\ UNCHANGED <<readerAt, writerOn, requests, runs, answers, agentBudget>>

-----------------------------------------------------------------------------
(* run_session. An error returns early: the pipelines are dropped, which     *)
(* neither stops the capture thread nor aborts the tasks. The stop of the    *)
(* pipelines comes after recv returned None, which it never does: the        *)
(* session it waits on holds the sender.                                     *)

Set(r, changes) == runs' = [runs EXCEPT ![r] = changes]

StartVideo(r) ==
    /\ Live /\ runs[r].at = "video"
    /\ \/ /\ Set(r, [runs[r] EXCEPT !.at = "offer", !.capture = "opening"])
          /\ UNCHANGED agentBudget
       \/ /\ AgentFault
          /\ Set(r, [runs[r] EXCEPT !.at = IF RequireVideo THEN "failed" ELSE "offer"])
    /\ UNCHANGED <<processAt, readerAt, writerOn, requests, answers>>

AcceptOffer(r) ==
    /\ Live /\ runs[r].at = "offer"
    /\ \/ /\ AgentFault /\ Set(r, [runs[r] EXCEPT !.at = "failed"]) /\ UNCHANGED answers
       \/ /\ writerOn
          /\ Set(r, [runs[r] EXCEPT !.at = "messages"])
          /\ answers' = Append(answers, runs[r].id)
          /\ UNCHANGED agentBudget
       \/ /\ ~writerOn
          /\ Set(r, [runs[r] EXCEPT !.at = "failed"]) /\ UNCHANGED <<answers, agentBudget>>
    /\ UNCHANGED <<processAt, readerAt, writerOn, requests>>

(* A hello whose answer cannot be sent ends the run.                        *)
HelloFails(r) ==
    /\ Live /\ runs[r].at = "messages" /\ AgentFault
    /\ Set(r, [runs[r] EXCEPT !.at = "failed"])
    /\ UNCHANGED <<processAt, readerAt, writerOn, requests, answers>>

-----------------------------------------------------------------------------
(* capture_loop, on its thread.                                             *)

OpenDuplication(r) ==
    /\ runs[r].capture = "opening" /\ processAt # "gone"
    /\ \/ Set(r, [runs[r] EXCEPT !.capture = "looping"]) /\ UNCHANGED agentBudget
       \/ AgentFault /\ Set(r, [runs[r] EXCEPT !.capture = "ended"])
    /\ UNCHANGED <<processAt, readerAt, writerOn, requests, answers>>

(* A frame of the desktop, if it changed; an error ends the loop, unless it  *)
(* is the loss of the access, after which the duplication is made anew.      *)
CaptureFrame(r) ==
    /\ runs[r].capture = "looping" /\ processAt # "gone"
    /\ \/ Set(r, [runs[r] EXCEPT !.capture = "sending"]) /\ UNCHANGED agentBudget
       \/ /\ AgentFault
          /\ \E next \in {"opening", "ended"} : Set(r, [runs[r] EXCEPT !.capture = next])
    /\ UNCHANGED <<processAt, readerAt, writerOn, requests, answers>>

(* Mutant: a frame that cannot be sent is dropped and the loop goes on.     *)
SendIgnored(r) ==
    /\ runs[r].capture = "sending" /\ processAt # "gone"
    /\ \/ processAt = "exiting" /\ Set(r, [runs[r] EXCEPT !.capture = "looping"])
       \/ /\ Live /\ runs[r].frames < FrameCapacity
          /\ Set(r, [runs[r] EXCEPT !.capture = "looping", !.frames = @ + 1])
    /\ UNCHANGED <<processAt, readerAt, writerOn, requests, answers, agentBudget>>

(* blocking_send: waits for room, fails when the encoding task is gone.     *)
SendFrame(r) ==
    /\ runs[r].capture = "sending" /\ processAt # "gone"
    /\ \/ processAt = "exiting" /\ Set(r, [runs[r] EXCEPT !.capture = "ended"])
       \/ /\ Live /\ runs[r].frames < FrameCapacity
          /\ Set(r, [runs[r] EXCEPT !.capture = "looping", !.frames = @ + 1])
    /\ UNCHANGED <<processAt, readerAt, writerOn, requests, answers, agentBudget>>

(* The encoding task takes a frame; what becomes of it is not its business.  *)
TakeFrame(r) ==
    /\ Live /\ runs[r].frames > 0
    /\ Set(r, [runs[r] EXCEPT !.frames = @ - 1])
    /\ UNCHANGED <<processAt, readerAt, writerOn, requests, answers, agentBudget>>

CaptureThread(r) == OpenDuplication(r) \/ CaptureFrame(r) \/ SendFrame(r)

AgentNext ==
    \/ Connect \/ ReaderEnds \/ WriterEnds \/ TakeRequest \/ MainReturns \/ ProcessEnds
    \/ \E id \in RequestIds : ReadRequest(id)
    \/ \E r \in DOMAIN runs :
          StartVideo(r) \/ AcceptOffer(r) \/ HelloFails(r) \/ CaptureThread(r) \/ TakeFrame(r)

(* The threads run, main and its tasks are scheduled; a closed channel of    *)
(* requests makes main return. The desktop changes now and then: while it    *)
(* does not, AcquireNextFrame times out, and the thread, which finds out     *)
(* about its channel only by sending, goes on.                               *)
AgentFairness ==
    /\ WF_agentVars(Connect)
    /\ WF_agentVars(TakeRequest)
    /\ WF_agentVars(readerAt = "ended" /\ requests = <<>> /\ MainReturns)
    /\ WF_agentVars(ProcessEnds)
    /\ \A r \in 1 .. MaxRequests :
          /\ WF_agentVars(r \in DOMAIN runs /\ CaptureThread(r))
          /\ WF_agentVars(r \in DOMAIN runs /\ TakeFrame(r))

AgentSpec == AgentInit /\ [][AgentNext]_agentVars /\ AgentFairness

-----------------------------------------------------------------------------
(* When the server's connection ends the agent's process does too, so that   *)
(* the controller of the service can start another: no capture thread keeps  *)
(* it alive, neither one of a run that failed and whose handles are gone nor *)
(* one that waits for room in its channel (run_standalone, capture_loop).    *)
AgentProcessExits == readerAt = "ended" ~> processAt = "gone"
=============================================================================
