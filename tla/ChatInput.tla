----------------------------- MODULE ChatInput -----------------------------
(***************************************************************************)
(* The input of the chat page: components/chat/chat-input.tsx with         *)
(* hooks/use-voice-recorder.ts, and the attachments that                   *)
(* pages/chat/chat-page.tsx keeps for it.  The microphone (getUserMedia)   *)
(* and MediaRecorder are the browser's (external): a recorder ends with    *)
(* one last dataavailable and a stop event, after stop() or after the      *)
(* tracks of its stream ended, whatever else has happened by then.         *)
(*                                                                         *)
(* An attachment is a file, or the set of the recordings one hears in it.  *)
(***************************************************************************)
EXTENDS Naturals

CONSTANTS
    File,            \* files the user can attach
    MaxRecordings    \* bound: times the microphone is asked for

ASSUME InputAssumption == MaxRecordings \in Nat

Recording == 1..MaxRecordings    \* a call of startRecording, its stream and its recorder
NoRecording == 0

VARIABLES
    mounted,
    isRecording,                \* the state the buttons are rendered from
    recorder, stream, interval, \* mediaRecorderRef, streamRef, timerRef: of which recording
    chunks,                     \* chunksRef: whose audio is in it
    waiting,                    \* resolveRef: the recording a call of stopRecording awaits
    captured, heard,            \* the attachments handleVoiceToggle will add its own to
    phase,                      \* of each recording, as the browser has it
    live, ticking,              \* streams whose tracks are not stopped; intervals not cleared
    files, voices,              \* the attachments
    added,                      \* history: files the user attached, and neither removed nor sent
    wanted,                     \* history: recordings the user stopped to attach them
    overlap,                    \* history: the microphone was asked for twice at once, or a
                                \* recording began before an earlier one had ended
    racing,                     \* history: attachments changed while a recording was stopping
    stray                       \* history: streams that came without a button to end them, the
                                \* input being unmounted or their recorder having thrown

hookRefs == <<recorder, stream, interval, chunks>>
promise == <<waiting, captured, heard>>
browser == <<phase, live, ticking>>
attached == <<files, voices>>
inputGhosts == <<added, wanted, overlap, racing, stray>>
inputVars == <<mounted, isRecording, hookRefs, promise, browser, attached, inputGhosts>>

InputInit ==
    /\ mounted = TRUE /\ isRecording = FALSE
    /\ recorder = NoRecording /\ stream = NoRecording /\ interval = NoRecording /\ chunks = {}
    /\ waiting = NoRecording /\ captured = {} /\ heard = {}
    /\ phase = [r \in Recording |-> "none"] /\ live = {} /\ ticking = {}
    /\ files = {} /\ voices = {}
    /\ added = {} /\ wanted = {} /\ overlap = FALSE /\ racing = FALSE
    /\ stray = {}

-----------------------------------------------------------------------------
(* The recorder. *)

CleanupKeepsStream(of) ==   \* mutant: the tracks are not stopped
    /\ ticking' = ticking \ {interval} /\ live' = live
    /\ phase' = of
    /\ recorder' = NoRecording /\ stream' = NoRecording /\ interval' = NoRecording
    /\ chunks' = {}

\* Stopping the tracks ends the recorder of the stream, which has yet to say so.
Cleanup(of) ==
    /\ ticking' = ticking \ {interval}
    /\ live' = live \ {stream}
    /\ phase' = [r \in Recording |-> IF r = stream /\ of[r] = "recording"
                                     THEN "stopping" ELSE of[r]]
    /\ recorder' = NoRecording /\ stream' = NoRecording /\ interval' = NoRecording
    /\ chunks' = {}

\* startRecording up to its await: the button is there until the microphone is.
PressMic(r) ==
    /\ mounted /\ ~isRecording
    /\ phase[r] = "none" /\ \A q \in 1..(r - 1) : phase[q] # "none"
    /\ Cleanup([phase EXCEPT ![r] = "asked"])
    /\ overlap' = (overlap \/ \E q \in Recording : phase[q] = "asked")
    /\ UNCHANGED <<mounted, isRecording, promise, attached, added, wanted, racing, stray>>

\* A microphone that is granted now comes before an earlier recording has ended.
Overlapping == \E q \in Recording : phase[q] \in {"recording", "stopping"}

Granted(r) ==
    /\ phase[r] = "asked"
    /\ phase' = [phase EXCEPT ![r] = "recording"]
    /\ live' = live \cup {r} /\ stream' = r
    /\ recorder' = r /\ chunks' = {}
    /\ interval' = r /\ ticking' = ticking \cup {r}
    /\ isRecording' = TRUE
    /\ overlap' = (overlap \/ Overlapping)
    /\ stray' = IF mounted THEN stray ELSE stray \cup {r}
    /\ UNCHANGED <<mounted, promise, attached, added, wanted, racing>>

\* The constructor of the recorder throws, or its start, before the interval is set: the
\* catch shows the error, and leaves streamRef and the tracks as they are.
RecorderThrows(r) ==
    /\ phase[r] = "asked"
    /\ phase' = [phase EXCEPT ![r] = "ended"]
    /\ live' = live \cup {r} /\ stream' = r
    /\ \/ UNCHANGED <<recorder, chunks>>
       \/ recorder' = r /\ chunks' = {}
    /\ isRecording' = FALSE
    /\ overlap' = (overlap \/ Overlapping)
    /\ stray' = stray \cup {r}
    /\ UNCHANGED <<mounted, interval, ticking, promise, attached, added, wanted, racing>>

\* getUserMedia throws: the same catch, with no stream yet.
Denied(r) ==
    /\ phase[r] = "asked"
    /\ phase' = [phase EXCEPT ![r] = "ended"]
    /\ isRecording' = FALSE
    /\ UNCHANGED <<mounted, hookRefs, promise, live, ticking, attached, inputGhosts>>

\* ondataavailable of the slices: the ref is that of the hook, not of the recorder.
Slice(r) ==
    /\ phase[r] = "recording"
    /\ chunks' = chunks \cup {r}
    /\ UNCHANGED <<mounted, isRecording, recorder, stream, interval, promise, browser,
                   attached, inputGhosts>>

\* stopRecording of handleVoiceToggle; without an active recorder it returns null.
PressStop ==
    /\ mounted /\ isRecording
    /\ recorder # NoRecording /\ phase[recorder] = "recording"
    /\ waiting' = recorder /\ captured' = files /\ heard' = voices
    /\ phase' = [phase EXCEPT ![recorder] = "stopping"]
    /\ wanted' = wanted \cup {recorder}
    /\ UNCHANGED <<mounted, isRecording, hookRefs, live, ticking, attached, added, overlap, racing, stray>>

CancelLater ==   \* mutant: cancels by stopping, the promise is left
    /\ mounted /\ isRecording
    /\ Cleanup(phase)
    /\ wanted' = {q \in wanted : phase[q] = "ended"}
    /\ isRecording' = FALSE
    /\ UNCHANGED <<mounted, promise, attached, added, overlap, racing, stray>>

\* A call of stopRecording that waits gets null.
PressCancel ==
    /\ mounted /\ isRecording
    /\ waiting' = NoRecording /\ captured' = {} /\ heard' = {}
    /\ Cleanup(phase)
    /\ isRecording' = FALSE
    /\ wanted' = {q \in wanted : phase[q] = "ended"}
    /\ UNCHANGED <<mounted, attached, added, overlap, racing, stray>>


\* The last dataavailable and onstop: whoever waits gets what the hook has recorded.
OnStop(r) ==
    /\ phase[r] = "stopping"
    /\ IF waiting # NoRecording /\ mounted
       THEN files' = captured /\ voices' = heard \cup {chunks \cup {r}}
       ELSE UNCHANGED attached
    /\ waiting' = NoRecording /\ captured' = {} /\ heard' = {}
    /\ Cleanup([phase EXCEPT ![r] = "ended"])
    /\ isRecording' = FALSE
    /\ UNCHANGED <<mounted, inputGhosts>>

\* onerror, which the stop event follows.
OnError(r) ==
    /\ phase[r] = "recording"
    /\ Cleanup([phase EXCEPT ![r] = "stopping"])
    /\ UNCHANGED <<mounted, isRecording, promise, attached, inputGhosts>>

Unmount ==
    /\ mounted
    /\ mounted' = FALSE
    /\ Cleanup(phase)
    /\ UNCHANGED <<isRecording, promise, attached, inputGhosts>>

-----------------------------------------------------------------------------
(* The attachments. *)

\* Files dropped on the chat, at any time, or picked, while nothing is recorded.
Attach(f) ==
    /\ mounted /\ f \notin files
    /\ files' = files \cup {f}
    /\ added' = added \cup {f}
    /\ racing' = (racing \/ waiting # NoRecording)
    /\ UNCHANGED <<mounted, isRecording, hookRefs, promise, browser, voices, wanted, overlap, stray>>

RemoveFile(f) ==
    /\ mounted /\ f \in files
    /\ files' = files \ {f}
    /\ added' = added \ {f}
    /\ racing' = (racing \/ waiting # NoRecording)
    /\ UNCHANGED <<mounted, isRecording, hookRefs, promise, browser, voices, wanted, overlap, stray>>

RemoveVoice(v) ==
    /\ mounted /\ v \in voices
    /\ voices' = voices \ {v}
    /\ wanted' = wanted \ v
    /\ racing' = (racing \/ waiting # NoRecording)
    /\ UNCHANGED <<mounted, isRecording, hookRefs, promise, browser, files, added, overlap,
                   stray>>

\* handleSend, from the textarea that is there while nothing is recorded.
HandleSend ==
    /\ mounted /\ ~isRecording
    /\ files # {} \/ voices # {}
    /\ files' = {} /\ voices' = {}
    /\ added' = {} /\ wanted' = {q \in wanted : phase[q] # "ended"}
    /\ racing' = (racing \/ waiting # NoRecording)
    /\ UNCHANGED <<mounted, isRecording, hookRefs, promise, browser, overlap, stray>>

-----------------------------------------------------------------------------

InputNext ==
    \/ \E r \in Recording :
           \/ PressMic(r) \/ Granted(r) \/ RecorderThrows(r) \/ Denied(r)
           \/ Slice(r) \/ OnStop(r) \/ OnError(r)
    \/ PressStop \/ PressCancel \/ Unmount \/ HandleSend
    \/ \E f \in File : Attach(f) \/ RemoveFile(f)
    \/ \E v \in SUBSET Recording : RemoveVoice(v)

InputSpec == InputInit /\ [][InputNext]_inputVars

\* A recorder that stops says so; the user may never answer for the microphone.
InputFairSpec == InputSpec /\ \A r \in Recording : WF_inputVars(OnStop(r))

-----------------------------------------------------------------------------
(* Properties. *)

\* Types (use-voice-recorder.ts:22-33, chat-input.tsx:21-33).
InputTypeOK ==
    /\ mounted \in BOOLEAN /\ isRecording \in BOOLEAN
    /\ {recorder, stream, interval} \subseteq Recording \cup {NoRecording}
    /\ chunks \subseteq Recording
    /\ waiting \in Recording \cup {NoRecording}
    /\ captured \subseteq File /\ heard \subseteq SUBSET Recording
    /\ phase \in [Recording -> {"none", "asked", "recording", "stopping", "ended"}]
    /\ live \subseteq Recording /\ ticking \subseteq Recording
    /\ files \subseteq File /\ voices \subseteq SUBSET Recording
    /\ added \subseteq File /\ wanted \subseteq Recording
    /\ overlap \in BOOLEAN /\ racing \in BOOLEAN /\ stray \subseteq Recording

\* Unless two recordings overlapped, the microphone is on for the one in streamRef, and for
\* no other: whatever ends it, a stop, a cancel, an error, a late stop event, cleanup finds
\* the stream and the timer that it has to end, and as long as it is on the input shows the
\* buttons that do (use-voice-recorder.ts:35-46).  Except for a stream that comes when the
\* input is gone, and one whose recorder throws: the catch does not clean up (line 91), and
\* the microphone stays on behind an idle input until it is pressed again or unmounted.
OneRecording ==
    ~overlap =>
        /\ live = {stream} \ {NoRecording}
        /\ ticking = {interval} \ {NoRecording}
        /\ stream \notin {NoRecording} \cup stray => mounted /\ isRecording

\* What is attached is what the user attached and has not removed or sent: the files, and as
\* a voice message of its own each recording that was stopped and not cancelled, nothing of
\* an earlier one with it.  Except that handleVoiceToggle adds its recording to the
\* attachments there were when stop was pressed (chat-input.tsx:46).
AttachmentsKept ==
    mounted /\ ~racing =>
        /\ files = added
        /\ ~overlap => voices = {{r} : r \in {q \in wanted : phase[q] = "ended"}}

=============================================================================
