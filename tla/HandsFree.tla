------------------------------- MODULE HandsFree -------------------------------
(***************************************************************************)
(* The macOS host's hands-free conversation: the coordinator, the wake     *)
(* detector, the speech transcriber, the conversation controller and the   *)
(* synthesizer.  Their methods run one at a time on the main actor; every  *)
(* callback is a task posted to it (inbox) and may be run after the        *)
(* session it belongs to.  A callback holds the coordinator's generation   *)
(* of its making, which is only ever compared with the current one: fresh  *)
(* says that they are still equal.  The transcriber has a generation of    *)
(* its own, which own stands for in the same way.                          *)
(*                                                                         *)
(* turnActive is set and cleared together with isVoiceSessionActive: one   *)
(* variable, session, is both.  Words are heard or ask to close the chat.  *)
(***************************************************************************)
EXTENDS Naturals, FiniteSets

CONSTANT MaxPending   \* bound on the callbacks posted and not yet run

ASSUME BoundAssumption == MaxPending \in Nat \ {0}

VARIABLES
  state,       \* state of the coordinator, as shown to the person
  enabled,     \* wakeListeningEnabled
  armed,       \* wakeListenerArmed
  session,     \* isVoiceSessionActive, turnActive
  accepted,    \* transcriptAccepted
  detector,    \* the wake detector, running or not
  microphone,  \* what the person has said about the microphone
  asks,        \* starts of the transcriber that wait for a permission
  task,        \* the recognition under way, with the audio engine running
  request,     \* the conversation request in flight
  speech,      \* the answer being spoken
  inbox,       \* callbacks posted to the main actor
  unanswered   \* nothing more will come for this turn

coordinator == <<state, enabled, armed, session, accepted>>
transcriber == <<asks, task>>
vars == <<coordinator, detector, microphone, transcriber, request, speech, inbox, unanswered>>

Nothing == [kind |-> "nothing", fresh |-> FALSE]

Post(kind, fresh) == [kind |-> kind, fresh |-> fresh]

Init ==
  /\ state = "disabled"
  /\ enabled = FALSE /\ armed = FALSE /\ session = FALSE /\ accepted = FALSE
  /\ detector = Nothing
  /\ microphone \in {"undetermined", "granted", "denied"}
  /\ asks = {} /\ task = Nothing
  /\ request = Nothing /\ speech = Nothing
  /\ inbox = {}
  /\ unanswered = FALSE

----------------------------------------------------------------------------
(* The state machine *)

Legal ==
  {<<"disabled", "waitingForWake">>, <<"disabled", "requestingSpeechPermission">>,
   <<"waitingForWake", "wakeDetected">>, <<"wakeDetected", "requestingSpeechPermission">>,
   <<"requestingSpeechPermission", "listening">>, <<"listening", "transcribing">>,
   <<"transcribing", "thinking">>, <<"thinking", "speaking">>, <<"speaking", "listening">>}
  \cup ({"waitingForWake", "wakeDetected", "requestingSpeechPermission", "listening",
         "transcribing", "thinking", "speaking", "error"} \X {"disabled"})

\* An illegal transition leads to the error state.
To(from, next) == IF from = next \/ <<from, next>> \in Legal THEN next ELSE "error"

ToListening(from) == To(To(To(from, "disabled"), "requestingSpeechPermission"), "listening")

\* generation.advance: whatever was made before is stale.
Old(m)      == [m EXCEPT !.fresh = FALSE]
AllOld(set) == {Old(m) : m \in set}

----------------------------------------------------------------------------
(* Starting and stopping the components *)

\* start of the transcriber: refused while a recognition is under way.
Listen ==
  IF task # Nothing
  THEN /\ asks' = AllOld(asks) /\ task' = Old(task)
       /\ unanswered' = TRUE
  ELSE /\ asks' = {[Old(a) EXCEPT !.own = FALSE] : a \in asks}
                    \cup {[stage |-> "authorize", own |-> TRUE, fresh |-> TRUE]}
       /\ task' = Nothing
       /\ unanswered' = FALSE

\* Mutant: the synthesizer is left speaking.
StopVoice_KeepsSpeech ==
  /\ asks' = {[Old(a) EXCEPT !.own = FALSE] : a \in asks}
  /\ task' = Nothing
  /\ request' = Nothing /\ speech' = Old(speech)
  /\ unanswered' = FALSE

\* cancelVoiceComponents.  A permission asked for is not withdrawn, and a typed
\* request is cancelled like a spoken one.
StopVoice ==
  /\ asks' = {[Old(a) EXCEPT !.own = FALSE] : a \in asks}
  /\ task' = Nothing
  /\ request' = Nothing /\ speech' = Nothing
  /\ unanswered' = FALSE

StopWake == armed' = FALSE /\ detector' = IF armed THEN Nothing ELSE detector

Fail(rest) ==
  /\ session' = FALSE /\ accepted' = FALSE
  /\ StopWake /\ StopVoice
  /\ state' = "error"
  /\ inbox' = AllOld(rest)

\* startWake.  The first start asks for the microphone and holds the main actor
\* for the answer, thirty seconds at most; a detector that cannot start is a
\* failure of the conversation.
StartWake(rest) ==
  /\ microphone' \in IF microphone = "undetermined"
                     THEN {"undetermined", "granted", "denied"} ELSE {microphone}
  /\ \/ /\ microphone' = "granted"
        /\ armed' = TRUE /\ detector' = Post("wake", TRUE)
        /\ state' = To(state, "waitingForWake")
        /\ inbox' = rest
        /\ UNCHANGED <<session, accepted, transcriber, request, speech, unanswered>>
     \/ Fail(rest)

\* Mutant: the session starts beside the wake detector.
StartSession_KeepsWake(from, rest) ==
  /\ state' = ToListening(from)
  /\ session' = TRUE /\ accepted' = FALSE
  /\ UNCHANGED <<armed, detector>>
  /\ Listen
  /\ inbox' = AllOld(rest)
  /\ UNCHANGED <<enabled, microphone, request, speech>>

StartSession(from, rest) ==
  /\ state' = ToListening(from)
  /\ session' = TRUE /\ accepted' = FALSE
  /\ StopWake
  /\ Listen
  /\ inbox' = AllOld(rest)
  /\ UNCHANGED <<enabled, microphone, request, speech>>

\* Mutant: the token is read before the generation advances.
Rearm_OldToken == IF enabled THEN {Post("rearm", FALSE)} ELSE {}

\* scheduleWakeRearm.
Rearm == IF enabled THEN {Post("rearm", TRUE)} ELSE {}

EndSession(rest) ==
  /\ session' = FALSE /\ accepted' = FALSE
  /\ StopVoice
  /\ state' = To(state, "disabled")
  /\ inbox' = AllOld(rest) \cup Rearm
  /\ UNCHANGED <<enabled, armed, detector, microphone>>

----------------------------------------------------------------------------
(* The person *)

EnableWakeListening ==
  /\ enabled' = TRUE
  /\ IF session \/ armed
     THEN UNCHANGED <<state, armed, session, accepted, detector, microphone, transcriber,
                      request, speech, inbox, unanswered>>
     ELSE StartWake(inbox)

StartVoiceSession ==
  /\ ~session
  /\ StartSession(state, inbox)

EndVoiceSession == session /\ EndSession(inbox)

\* disableWakeListening and, when the host ends, shutdown.
DisableWakeListening ==
  /\ enabled \/ session \/ state # "disabled"
  /\ enabled' = FALSE /\ session' = FALSE /\ accepted' = FALSE
  /\ StopWake /\ StopVoice
  /\ state' = To(state, "disabled")
  /\ inbox' = AllOld(inbox)
  /\ UNCHANGED microphone

\* A request typed into the window; it takes the controller for itself.
Type ==
  /\ request = Nothing
  /\ request' = Post("typed", TRUE)
  /\ UNCHANGED <<coordinator, detector, microphone, transcriber, speech, inbox, unanswered>>

----------------------------------------------------------------------------
(* The components *)

MayPost == Cardinality(inbox) < MaxPending

OnlyTranscriber == UNCHANGED <<coordinator, detector, request, speech>>

\* The wake phrase: the detector stops by itself and reports once.
Detect ==
  /\ detector # Nothing
  /\ MayPost
  /\ detector' = Nothing
  /\ inbox' = inbox \cup {Post("wake", detector.fresh)}
  /\ UNCHANGED <<coordinator, microphone, transcriber, request, speech, unanswered>>

\* The recognition under way is that of the last start.
Heard == task # Nothing /\ task.own

Refuse(a) ==
  /\ MayPost
  /\ inbox' = inbox \cup {Post("sttError", a.fresh)}
  /\ asks' = asks \ {a}
  /\ UNCHANGED <<task, unanswered>>

Recognition(a) == [kind |-> "recognition", own |-> a.own, fresh |-> a.fresh]

\* begin: the audio engine and the recognition start, or cannot.  One that is begun
\* late takes the engine, the request and the timer of the one under way, which may
\* or may not report any more.
Begin(a) ==
  \/ Refuse(a)
  \/ /\ task' \in {Recognition(a)} \cup (IF Heard THEN {task} ELSE {})
     /\ unanswered' = (unanswered \/ (Heard /\ task' # task))
     /\ asks' = asks \ {a}
     /\ UNCHANGED inbox

\* The answer of the speech framework; a start that was stopped goes no further.
Authorize(a) ==
  /\ a.stage = "authorize"
  /\ IF ~a.own
     THEN asks' = asks \ {a} /\ UNCHANGED <<task, inbox, unanswered>>
     ELSE \/ Refuse(a)
          \/ /\ microphone = "undetermined"
             /\ asks' = (asks \ {a}) \cup {[a EXCEPT !.stage = "prompt"]}
             /\ UNCHANGED <<task, inbox, unanswered>>
          \/ microphone = "granted" /\ Begin(a)
  /\ UNCHANGED microphone
  /\ OnlyTranscriber

\* The answer at the microphone prompt.  The generation is not compared again.
AnswerPrompt(a) ==
  /\ a.stage = "prompt"
  /\ microphone' \in IF microphone = "undetermined" THEN {"granted", "denied"}
                     ELSE {microphone}
  /\ IF microphone' = "granted" THEN Begin(a) ELSE Refuse(a)
  /\ OnlyTranscriber

\* A recognition ends by silence, by its thirty seconds or by an error.  A final
\* result without words ends it without a callback.
Recognize(kind) ==
  /\ Heard
  /\ MayPost
  /\ task' = Nothing
  /\ asks' = {[a EXCEPT !.own = FALSE] : a \in asks}
  /\ inbox' = IF kind = "empty" THEN inbox ELSE inbox \cup {Post(kind, task.fresh)}
  /\ unanswered' = (unanswered \/ kind = "empty")
  /\ UNCHANGED <<coordinator, detector, microphone, request, speech>>

Recognized == \E kind \in {"words", "close", "noSpeech", "sttError", "empty"} : Recognize(kind)

\* Cauco Core answers, or the request fails.
Respond ==
  /\ request # Nothing
  /\ MayPost
  /\ request' = Nothing
  /\ IF request.kind = "typed" THEN UNCHANGED inbox
     ELSE \E kind \in {"answer", "noAnswer"} : inbox' = inbox \cup {Post(kind, request.fresh)}
  /\ UNCHANGED <<coordinator, detector, microphone, transcriber, speech, unanswered>>

\* The answer has been played, or neither synthesizer could.
Speak ==
  /\ speech # Nothing
  /\ MayPost
  /\ speech' = Nothing
  /\ \E kind \in {"spoken", "ttsError"} : inbox' = inbox \cup {Post(kind, speech.fresh)}
  /\ UNCHANGED <<coordinator, detector, microphone, transcriber, request, unanswered>>

----------------------------------------------------------------------------
(* The callbacks on the main actor *)

Dropped(m) ==
  /\ inbox' = inbox \ {m}
  /\ UNCHANGED <<coordinator, detector, microphone, transcriber, request, speech, unanswered>>

WakeDetected(m) ==
  /\ m.kind = "wake"
  /\ IF m.fresh /\ enabled /\ armed /\ state = "waitingForWake" /\ ~session
     THEN StartSession(To(state, "wakeDetected"), inbox \ {m})
     ELSE Dropped(m)

\* conversation.respond: ignored, without a callback, while a request is in flight.
Ask ==
  /\ request' = IF request = Nothing THEN Post("voice", TRUE) ELSE request
  /\ unanswered' = (unanswered \/ request # Nothing)

Transcript(m) ==
  /\ m.kind \in {"words", "close"}
  /\ CASE ~(m.fresh /\ session /\ ~accepted) -> Dropped(m)
       [] OTHER ->
            \/ m.kind = "close" /\ EndSession(inbox \ {m})
            \/ /\ m.kind = "words"
               /\ accepted' = TRUE
               /\ state' = To(To(state, "transcribing"), "thinking")
               /\ Ask
               /\ inbox' = inbox \ {m}
               /\ UNCHANGED <<enabled, armed, session, detector, microphone, transcriber, speech>>

SpeechError(m) ==
  /\ m.kind \in {"noSpeech", "sttError"}
  /\ CASE m.fresh /\ m.kind = "sttError" -> Fail(inbox \ {m}) /\ UNCHANGED <<enabled, microphone>>
       [] m.fresh /\ m.kind = "noSpeech" /\ session -> EndSession(inbox \ {m})
       [] OTHER -> Dropped(m)

\* conversationResult and speak.
ConversationResult(m) ==
  /\ m.kind \in {"answer", "noAnswer"}
  /\ CASE ~(m.fresh /\ session /\ state = "thinking") -> Dropped(m)
       [] OTHER ->
            \/ m.kind = "noAnswer" /\ Fail(inbox \ {m}) /\ UNCHANGED <<enabled, microphone>>
            \/ /\ m.kind = "answer"
               /\ state' = To(state, "speaking")
               /\ IF speech = Nothing
                  THEN speech' = Post("answer", TRUE) /\ inbox' = inbox \ {m}
                  ELSE UNCHANGED speech
                       /\ inbox' = (inbox \ {m}) \cup {Post("ttsError", TRUE)}
               /\ UNCHANGED <<enabled, armed, session, accepted, detector, microphone,
                              transcriber, request, unanswered>>

\* Mutant: the next turn starts with the last transcript still accepted.
Spoken_KeepsAccepted(m) ==
  /\ m.kind = "spoken"
  /\ IF m.fresh /\ session
     THEN /\ state' = To(state, "listening")
          /\ Listen
          /\ inbox' = AllOld(inbox \ {m})
          /\ UNCHANGED <<enabled, armed, session, accepted, detector, microphone, request, speech>>
     ELSE Dropped(m)

\* The synthesizer's onComplete: the conversation goes on with the next turn.
Spoken(m) ==
  /\ m.kind = "spoken"
  /\ IF m.fresh /\ session
     THEN /\ accepted' = FALSE
          /\ state' = To(state, "listening")
          /\ Listen
          /\ inbox' = AllOld(inbox \ {m})
          /\ UNCHANGED <<enabled, armed, session, detector, microphone, request, speech>>
     ELSE Dropped(m)

SpeakError(m) ==
  /\ m.kind = "ttsError"
  /\ IF m.fresh THEN Fail(inbox \ {m}) /\ UNCHANGED <<enabled, microphone>> ELSE Dropped(m)

Rearmed(m) ==
  /\ m.kind = "rearm"
  /\ IF m.fresh /\ enabled /\ ~session /\ ~armed
     THEN StartWake(inbox \ {m}) /\ UNCHANGED enabled
     ELSE Dropped(m)

Deliver(m) ==
  \/ WakeDetected(m) \/ Transcript(m) \/ SpeechError(m) \/ ConversationResult(m)
  \/ Spoken(m) \/ SpeakError(m) \/ Rearmed(m)

----------------------------------------------------------------------------
Next ==
  \/ EnableWakeListening \/ DisableWakeListening
  \/ StartVoiceSession \/ EndVoiceSession \/ Type
  \/ Detect \/ Recognized \/ Respond \/ Speak
  \/ \E a \in asks : Authorize(a) \/ AnswerPrompt(a)
  \/ \E m \in inbox : Deliver(m)

Kinds == {"wake", "words", "close", "noSpeech", "sttError", "answer", "noAnswer",
          "spoken", "ttsError", "rearm"}

\* The main actor runs every posted task; the speech framework answers, a
\* recognition and a request have time limits, and speech ends.  Nobody has to
\* answer a prompt, speak the wake phrase or use the window.
Fairness ==
  /\ \A k \in Kinds : WF_vars(\E m \in inbox : m.kind = k /\ Deliver(m))
  /\ WF_vars(\E a \in asks : Authorize(a))
  /\ WF_vars(Recognized) /\ WF_vars(Respond) /\ WF_vars(Speak)

Spec == Init /\ [][Next]_vars /\ Fairness

----------------------------------------------------------------------------
(* Properties *)

Stopped(m) == m = Nothing

\* What is heard has one owner, over stopWake and the transcriber's generation: the wake
\* detector runs only while it is armed outside a session, and a recognition that can be
\* heard belongs to the session that listens now; no words reach two of them.  A
\* recognition begun by a prompt answered too late is not covered: nobody hears it, and
\* it does run beside the detector until the next stop (AppleSpeechAdapters).
MicrophoneHasOneOwner ==
  /\ ~Stopped(detector) => armed /\ ~session /\ detector.fresh /\ ~Heard
  /\ Heard => session /\ state = "listening" /\ task.fresh

\* When a session ends, by the person, by words, by silence or by a failure, nothing of
\* it goes on: no answer is spoken or awaited, no start of the transcriber can still be
\* heard, and no callback of it can act.
ClosedIsQuiet ==
  ~session =>
    /\ Stopped(speech) /\ request.kind # "voice"
    /\ \A a \in asks : ~a.own
    /\ \A m \in inbox : m.fresh => m.kind \in {"wake", "rearm"}
    /\ state \in {"disabled", "waitingForWake", "error"}

\* With wake listening on, a session that ends is followed by the detector listening
\* again (scheduleWakeRearm), unless a failure left the error state: fail does not arm it.
WakeListeningReturns ==
  (enabled /\ ~session)
    ~> (~Stopped(detector) \/ session \/ ~enabled \/ state = "error")

\* No turn hangs: listening, thinking and speaking all end, as long as a prompt is not
\* waiting for the person and the turn is not one of the four that nobody answers (a
\* final result without words, a start refused by a recognition left over, a recognition
\* replaced by such a one, an instruction dropped while a typed request is in flight).
TurnsMoveOn ==
  \A s \in {"listening", "thinking", "speaking"} :
    state = s ~> (state # s \/ unanswered \/ \E a \in asks : a.stage = "prompt")

=============================================================================
