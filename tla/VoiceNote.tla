----------------------------- MODULE VoiceNote -----------------------------
(***************************************************************************)
(* The dispatcher's voice note for a driver: recorder.js in the order      *)
(* page, and order_voice, which stores the recording and its length.  Time *)
(* is counted in ticks (a second or so); a recording is as long as the     *)
(* ticks of sound in it.  The start button stays on the page while the     *)
(* browser asks for the microphone, so it can be pressed again: the        *)
(* recorder then has two microphones and two timers and can stop only the  *)
(* last of each.                                                           *)
(***************************************************************************)
EXTENDS Integers, FiniteSets, FiniteSetsExt

CONSTANTS
  MaxSeconds,  \* VOICE_NOTE_MAX_SECONDS, where the recorder stops by itself
  TooBig,      \* ticks of sound in the largest file order_voice takes
  Horizon,     \* bound: ticks a page stays open
  MaxStarts,   \* bound: microphones a page opens
  Desks,       \* dispatchers' requests that overlap
  None         \* no voice note

VARIABLES
  now,         \* ticks since the page was opened
  asking,      \* the browser's questions for the microphone, not answered yet
  opened,      \* microphones opened so far
  mic,         \* `stream`, `processor` and `ctx`: the last microphone opened
  live,        \* microphones whose tracks run
  timers,      \* intervals that run; the last one set has the number of `mic`
  started,     \* when the last recording began
  chunks,      \* ticks of sound recorded since then
  sheet,       \* what is on the page: the buttons, the form, its file and seconds
  note,        \* the trip's voice note: its sound and voice_note_seconds
  desk,        \* the requests being served
  once         \* the start button is not pressed again before the browser's answer

recorder == <<now, asking, opened, mic, live, timers, started, chunks, sheet>>
vars     == <<recorder, note, desk, once>>

Clamp(n) == Max({1, Min({MaxSeconds, n})})

\* UploadService.validate: the size of the file and its head; the recorder's own file
\* has the head of a WAV.
Storable(file) == file <= TooBig

Blank == [recording |-> FALSE, form |-> FALSE, file |-> None, seconds |-> 0]

Init ==
  /\ now = 0 /\ asking = 0 /\ opened = 0 /\ mic = 0
  /\ live = {} /\ timers = {} /\ started = 0 /\ chunks = 0
  /\ sheet = Blank
  /\ note = None
  /\ desk = [d \in Desks |-> None]
  /\ once \in BOOLEAN

----------------------------------------------------------------------------
(* The recorder.                                                           *)

\* A tick: every microphone that runs adds to the same chunks.
Tick ==
  /\ now < Horizon
  /\ now' = now + 1
  /\ chunks' = chunks + Cardinality(live)
  /\ UNCHANGED <<asking, opened, mic, live, timers, started, sheet, note, desk, once>>

\* The start button, hidden only once a recording runs.
Start ==
  /\ ~sheet.recording /\ opened + asking < MaxStarts
  /\ once => asking = 0
  /\ asking' = asking + 1
  /\ UNCHANGED <<now, opened, mic, live, timers, started, chunks, sheet, note, desk, once>>

\* getUserMedia: the microphone is there.
Granted ==
  /\ asking > 0
  /\ asking' = asking - 1
  /\ opened' = opened + 1 /\ mic' = opened + 1
  /\ live' = live \union {mic'}
  /\ timers' = timers \union {mic'}
  /\ started' = now /\ chunks' = 0
  /\ sheet' = [recording |-> TRUE, form |-> FALSE, file |-> sheet.file, seconds |-> sheet.seconds]
  /\ UNCHANGED <<now, note, desk, once>>

\* The dispatcher says no: an alert.
Denied ==
  /\ asking > 0
  /\ asking' = asking - 1
  /\ UNCHANGED <<now, opened, mic, live, timers, started, chunks, sheet, note, desk, once>>

\* Slip: the interval is left running.
StopAllButTimer ==
  /\ UNCHANGED timers
  /\ live' = live \ {mic}

\* stopAll: the last timer, the last microphone.
StopAll ==
  /\ timers' = timers \ {mic}
  /\ live' = live \ {mic}

\* finish: the chunks become the form's file, the time since the start its seconds.
Finish ==
  /\ StopAll
  /\ sheet' = [recording |-> FALSE, form |-> TRUE, file |-> chunks, seconds |-> Clamp(now - started)]
  /\ UNCHANGED <<now, asking, opened, mic, started, chunks, note, desk, once>>

StopPressed == sheet.recording /\ Finish

\* An interval finds that the time is up.
TimeUp == timers # {} /\ now - started >= MaxSeconds /\ Finish

\* Discard hides the form and leaves its file where it is.
Discard ==
  /\ sheet.form
  /\ sheet' = [sheet EXCEPT !.form = FALSE]
  /\ UNCHANGED <<now, asking, opened, mic, live, timers, started, chunks, note, desk, once>>

----------------------------------------------------------------------------
(* order_voice.                                                            *)

Free(d) == desk[d] = None

\* The form is posted and the page is left, its microphones and timers with it.
Post(d) ==
  /\ Free(d) /\ sheet.form
  /\ desk' = [desk EXCEPT ![d] = [file |-> sheet.file, seconds |-> sheet.seconds]]
  /\ now' = 0 /\ asking' = 0 /\ opened' = 0 /\ mic' = 0 /\ live' = {} /\ timers' = {}
  /\ started' = 0 /\ chunks' = 0 /\ sheet' = Blank
  /\ UNCHANGED <<note, once>>

\* The remove button of the note, in a page of its own.
PostRemove(d) ==
  /\ Free(d) /\ note # None
  /\ desk' = [desk EXCEPT ![d] = [file |-> None, seconds |-> 0]]
  /\ UNCHANGED <<recorder, note, once>>

\* The length is clamped again, the file stored, and both columns saved in one UPDATE.
Store(d) ==
  /\ ~Free(d)
  /\ LET request == desk[d]
     IN note' = IF request.file = None THEN None
                ELSE IF Storable(request.file) THEN [sound |-> request.file, seconds |-> Clamp(request.seconds)]
                ELSE note
  /\ desk' = [desk EXCEPT ![d] = None]
  /\ UNCHANGED <<recorder, once>>

Next ==
  \/ Tick \/ Start \/ Granted \/ Denied \/ StopPressed \/ TimeUp \/ Discard
  \/ \E d \in Desks : Post(d) \/ PostRemove(d) \/ Store(d)

Spec == Init /\ [][Next]_vars

----------------------------------------------------------------------------
\* recorder.js: while the start button is pressed once at a time, no microphone and no
\* timer runs but that of the recording on the page.
MicrophoneOff == once => live = timers /\ live = IF sheet.recording THEN {mic} ELSE {}

\* finish and order_voice: the length that is shown, sent and stored is that of the
\* recording, whatever was recorded, thrown away or stored before.
LengthIsTheSounds ==
  once => /\ sheet.form => sheet.seconds = Clamp(sheet.file)
          /\ note # None => note.seconds = Clamp(note.sound)

VoiceAgrees == MicrophoneOff /\ LengthIsTheSounds
=============================================================================
