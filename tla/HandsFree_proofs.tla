--------------------------- MODULE HandsFree_proofs ---------------------------
(***************************************************************************)
(* Theorems about the hands-free conversation, for any number of callbacks *)
(* that wait and in every order of their delivery.  Fairness plays no part *)
(* in them.                                                                *)
(***************************************************************************)
EXTENDS HandsFree, TLAPS

USE BoundAssumption

----------------------------------------------------------------------------
(* The inductive invariant *)

States == {"disabled", "waitingForWake", "wakeDetected", "requestingSpeechPermission",
           "listening", "transcribing", "thinking", "speaking", "error"}

Closed  == {"disabled", "waitingForWake", "error"}   \* the states without a session
Message == [kind : Kinds, fresh : BOOLEAN]
Start   == [stage : {"authorize", "prompt"}, own : BOOLEAN, fresh : BOOLEAN]

\* Types.
TypeOK ==
  /\ state \in States
  /\ enabled \in BOOLEAN /\ armed \in BOOLEAN /\ session \in BOOLEAN /\ accepted \in BOOLEAN
  /\ detector \in {Nothing} \cup [kind : {"wake"}, fresh : BOOLEAN]
  /\ microphone \in {"undetermined", "granted", "denied"}
  /\ asks \in SUBSET Start
  /\ task \in {Nothing} \cup [kind : {"recognition"}, own : BOOLEAN, fresh : BOOLEAN]
  /\ request \in {Nothing} \cup [kind : {"typed", "voice"}, fresh : BOOLEAN]
  /\ speech \in {Nothing} \cup [kind : {"answer"}, fresh : BOOLEAN]
  /\ inbox \in SUBSET Message
  /\ unanswered \in BOOLEAN

\* The wake detector is armed only outside a session, and runs only while armed.
Watching ==
  /\ armed => ~session
  /\ detector # Nothing => armed /\ detector.fresh

Hearing == Heard \/ Post("words", TRUE) \in inbox \/ \E a \in asks : a.own

\* The two generations agree; a turn is asked for, then heard, then reported, one
\* after the other and only while the session listens.
OneTurn ==
  /\ \A a \in asks : a.own = a.fresh
  /\ \A a, b \in asks : a.own /\ b.own => a = b
  /\ task # Nothing => task.own = task.fresh
  /\ Post("words", TRUE) \in inbox => ~Heard
  /\ \A a \in asks : a.own => ~Heard /\ Post("words", TRUE) \notin inbox
  /\ Hearing => session /\ state = "listening"

\* An answer is spoken, or reported as spoken, only while the session speaks.
OneAnswer ==
  /\ speech # Nothing => speech.fresh /\ session /\ state = "speaking"
  /\ Post("spoken", TRUE) \in inbox => speech = Nothing /\ session /\ state = "speaking"

\* Without a session nothing waits but the wake phrase and the re-arming.
Silent ==
  ~session => /\ request.kind # "voice"
              /\ \A m \in inbox : m.fresh => m.kind \in {"wake", "rearm"}
              /\ state \in Closed

IInv == TypeOK /\ Watching /\ OneTurn /\ OneAnswer /\ Silent

----------------------------------------------------------------------------
(* The state machine and messages *)

LEMMA ToFacts ==
  /\ \A s, n \in States : To(s, n) \in {n, "error"} /\ To(s, n) \in States
  /\ \A s \in Closed : ToListening(s) = "listening"
  /\ ToListening("wakeDetected") = "listening"
  /\ To("waitingForWake", "wakeDetected") = "wakeDetected"
  /\ To("thinking", "speaking") = "speaking"
  /\ To("speaking", "listening") = "listening"
<1>1. \A s, n \in States : To(s, n) \in {n, "error"} /\ To(s, n) \in States
  BY DEF To, States
<1>2. /\ To("disabled", "disabled") = "disabled"
      /\ To("error", "disabled") = "disabled"
      /\ To("wakeDetected", "disabled") = "disabled"
      /\ To("waitingForWake", "disabled") = "disabled"
      /\ To("disabled", "requestingSpeechPermission") = "requestingSpeechPermission"
      /\ To("requestingSpeechPermission", "listening") = "listening"
      /\ To("waitingForWake", "wakeDetected") = "wakeDetected"
      /\ To("thinking", "speaking") = "speaking"
      /\ To("speaking", "listening") = "listening"
  BY DEF To, Legal
<1>. QED
  BY <1>1, <1>2 DEF ToListening, Closed

LEMMA Messages ==
  ASSUME NEW R \in SUBSET Message
  PROVE  /\ \A m \in AllOld(R) : m \in Message /\ m.fresh = FALSE
         /\ Post("words", TRUE) \notin AllOld(R)
         /\ Post("spoken", TRUE) \notin AllOld(R)
<1>1. \A m \in AllOld(R) : m \in Message /\ m.fresh = FALSE
  BY DEF AllOld, Old, Message
<1>. QED
  BY <1>1 DEF Post

LEMMA Starts ==
  ASSUME NEW R \in SUBSET Start
  PROVE  /\ {[Old(a) EXCEPT !.own = FALSE] : a \in R} \in SUBSET Start
         /\ \A a \in {[Old(b) EXCEPT !.own = FALSE] : b \in R} : a.own = FALSE /\ a.fresh = FALSE
         /\ {[a EXCEPT !.own = FALSE] : a \in R} \in SUBSET Start
         /\ \A a \in {[b EXCEPT !.own = FALSE] : b \in R} : a.own = FALSE
         /\ \A a \in {[b EXCEPT !.own = FALSE] : b \in R} : \E b \in R : a.fresh = b.fresh
  BY DEF Old, Start

LEMMA NothingFacts ==
  /\ Nothing.kind = "nothing" /\ Nothing.fresh = FALSE
  /\ \A k, f : Post(k, f).kind = k /\ Post(k, f).fresh = f
  /\ \A k \in Kinds, f \in BOOLEAN : Post(k, f) \in Message
  /\ \A k, f : k # "nothing" => Post(k, f) # Nothing
  BY DEF Nothing, Post, Message

----------------------------------------------------------------------------
(* Sessions end and begin *)

\* What every way to end a session, or to fail, leaves behind is in the invariant.
LEMMA Ended ==
  ASSUME TypeOK, NEW R \in SUBSET Message, StopVoice, session' = FALSE, accepted' = FALSE,
         state' \in {"disabled", "error"},
         inbox' = AllOld(R) \/ inbox' = AllOld(R) \cup {Post("rearm", TRUE)},
         enabled' \in BOOLEAN, armed' \in BOOLEAN,
         detector' \in {Nothing} \cup [kind : {"wake"}, fresh : BOOLEAN],
         detector' # Nothing => armed' /\ detector'.fresh,
         microphone' \in {"undetermined", "granted", "denied"}
  PROVE  IInv'
<1>1. /\ asks' \in SUBSET Start /\ \A a \in asks' : a.own = FALSE /\ a.fresh = FALSE
  BY Starts DEF StopVoice, TypeOK
<1>2. \A m \in AllOld(R) : m \in Message /\ m.fresh = FALSE
  BY Messages
<1>3. /\ inbox' \in SUBSET Message
      /\ \A m \in inbox' : m.fresh => m.kind = "rearm"
      /\ Post("words", TRUE) \notin inbox' /\ Post("spoken", TRUE) \notin inbox'
  <2>1. Post("rearm", TRUE) \in Message /\ Post("rearm", TRUE).kind = "rearm"
    BY DEF Kinds, Post, Message
  <2>2. \A m \in inbox' : m \in Message /\ (m.fresh => m.kind = "rearm")
    <3>1. CASE inbox' = AllOld(R)
      BY <1>2, <3>1
    <3>2. CASE inbox' = AllOld(R) \cup {Post("rearm", TRUE)}
      BY <1>2, <2>1, <3>2
    <3>. QED
      BY <3>1, <3>2
  <2>3. \A k \in {"words", "spoken"} : Post(k, TRUE).fresh /\ Post(k, TRUE).kind # "rearm"
    BY DEF Post
  <2>. QED
    BY <2>2, <2>3
<1>4. TypeOK'
  BY <1>1, <1>3 DEF TypeOK, StopVoice, States
<1>5. Watching'
  BY DEF Watching
<1>6. OneTurn'
  <2>1. task' = Nothing
    BY DEF StopVoice
  <2>. QED
    BY <1>1, <1>3, <2>1 DEF OneTurn, Hearing, Heard
<1>7. OneAnswer' /\ Silent'
  BY <1>3, NothingFacts DEF OneAnswer, Silent, StopVoice, Closed
<1>. QED
  BY <1>4, <1>5, <1>6, <1>7 DEF IInv

\* A turn begins to listen, in a state where nothing of another turn is left.
LEMMA Listened ==
  ASSUME TypeOK, OneTurn, ~Hearing, NEW R \in SUBSET Message, Listen,
         state' = "listening", session' = TRUE, accepted' = FALSE,
         inbox' = AllOld(R), enabled' = enabled, armed' = FALSE, detector' = Nothing,
         microphone' = microphone, request' = request, speech' = speech, speech = Nothing
  PROVE  IInv'
<1>1. /\ \A m \in inbox' : m \in Message /\ m.fresh = FALSE
      /\ Post("words", TRUE) \notin inbox' /\ Post("spoken", TRUE) \notin inbox'
  BY Messages
<1>2. /\ task' \in {Nothing} \cup [kind : {"recognition"}, own : BOOLEAN, fresh : BOOLEAN]
      /\ task' # Nothing => task'.own = FALSE /\ task'.fresh = FALSE
      /\ unanswered' \in BOOLEAN
  BY DEF Listen, Old, TypeOK, Hearing, Heard, OneTurn
<1>3. /\ asks' \in SUBSET Start
      /\ \A a \in asks' : a.own = a.fresh
      /\ \A a, b \in asks' : a.own /\ b.own => a = b
  <2>1. CASE task # Nothing
    <3>1. asks' = AllOld(asks) /\ \A a \in asks : a \in Start /\ a.own = FALSE
      BY <2>1 DEF Listen, TypeOK, Hearing, Start
    <3>2. \A a \in asks' : a \in Start /\ a.own = FALSE /\ a.fresh = FALSE
      BY <3>1 DEF AllOld, Old, Start
    <3>. QED
      BY <3>2
  <2>2. CASE task = Nothing
    <3> DEFINE new == [stage |-> "authorize", own |-> TRUE, fresh |-> TRUE]
               old == {[Old(a) EXCEPT !.own = FALSE] : a \in asks}
    <3>1. asks' = old \cup {new}
      BY <2>2 DEF Listen
    <3>2. old \in SUBSET Start /\ \A a \in old : a.own = FALSE /\ a.fresh = FALSE
      BY Starts DEF TypeOK
    <3>3. new \in Start /\ new.own = TRUE /\ new.fresh = TRUE
      BY DEF Start
    <3> HIDE DEF old, new
    <3>. QED
      BY <3>1, <3>2, <3>3
  <2>. QED
    BY <2>1, <2>2
<1>4. TypeOK'
  BY <1>1, <1>2, <1>3 DEF TypeOK, States
<1>5. OneTurn'
  BY <1>1, <1>2, <1>3 DEF OneTurn, Hearing, Heard
<1>6. Watching' /\ OneAnswer' /\ Silent'
  BY <1>1 DEF Watching, OneAnswer, Silent
<1>. QED
  BY <1>4, <1>5, <1>6 DEF IInv

\* Outside a session nobody is being heard and nothing is spoken.
LEMMA Outside ==
  ASSUME IInv, ~session
  PROVE  ~Hearing /\ speech = Nothing /\ state \in Closed
  BY DEF IInv, OneTurn, OneAnswer, Silent

\* stopWake, in the terms of the invariant.
LEMMA StopWakeFacts ==
  ASSUME IInv, StopWake
  PROVE  armed' = FALSE /\ detector' = Nothing
  BY DEF IInv, Watching, StopWake

LEMMA SessionStarts ==
  ASSUME IInv, ~session, NEW from \in Closed \cup {"wakeDetected"},
         NEW R \in SUBSET Message, StartSession(from, R)
  PROVE  IInv'
<1>1. state' = "listening"
  BY ToFacts DEF StartSession
<1>2. armed' = FALSE /\ detector' = Nothing
  BY StopWakeFacts DEF StartSession
<1>. QED
  BY <1>1, <1>2, Outside, Listened DEF StartSession, IInv

LEMMA Failed ==
  ASSUME IInv, NEW R \in SUBSET Message, Fail(R),
         enabled' \in BOOLEAN, microphone' \in {"undetermined", "granted", "denied"}
  PROVE  IInv'
<1>1. armed' = FALSE /\ detector' = Nothing
  BY StopWakeFacts DEF Fail
<1>. QED
  BY <1>1, Ended DEF Fail, IInv, TypeOK

LEMMA SessionEnds ==
  ASSUME IInv, session, NEW R \in SUBSET Message, EndSession(R)
  PROVE  IInv'
<1>1. state' \in {"disabled", "error"}
  BY ToFacts DEF EndSession, IInv, TypeOK, States
<1>2. inbox' = AllOld(R) \/ inbox' = AllOld(R) \cup {Post("rearm", TRUE)}
  BY DEF EndSession, Rearm
<1>. QED
  BY <1>1, <1>2, Ended DEF EndSession, IInv, TypeOK, Watching

LEMMA WakeStarts ==
  ASSUME IInv, ~session, NEW R \in SUBSET inbox, enabled' \in BOOLEAN, StartWake(R)
  PROVE  IInv'
<1>1. microphone' \in {"undetermined", "granted", "denied"}
  BY DEF StartWake, IInv, TypeOK
<1>2. CASE Fail(R)
  BY <1>1, <1>2, Failed DEF IInv, TypeOK
<1>3. CASE /\ armed' = TRUE /\ detector' = Post("wake", TRUE)
           /\ state' = To(state, "waitingForWake")
           /\ inbox' = R
           /\ UNCHANGED <<session, accepted, transcriber, request, speech, unanswered>>
  <2>1. state' \in Closed
    BY <1>3, ToFacts DEF Closed, IInv, TypeOK, States
  <2>2. ~Hearing /\ speech = Nothing
    BY Outside
  <2>3. TypeOK'
    BY <1>1, <1>3, <2>1 DEF IInv, TypeOK, transcriber, Post, Closed, States
  <2>4. Watching'
    BY <1>3 DEF Watching, Post
  <2>5. OneTurn'
    BY <1>3, <2>2 DEF IInv, OneTurn, Hearing, Heard, transcriber
  <2>6. OneAnswer' /\ Silent'
    BY <1>3, <2>1, <2>2 DEF IInv, OneAnswer, Silent
  <2>. QED
    BY <2>3, <2>4, <2>5, <2>6 DEF IInv
<1>. QED
  BY <1>2, <1>3 DEF StartWake

----------------------------------------------------------------------------
(* The person *)

LEMMA PersonInv ==
  ASSUME IInv,
         \/ EnableWakeListening \/ DisableWakeListening
         \/ StartVoiceSession \/ EndVoiceSession \/ Type
  PROVE  IInv'
<1>1. inbox \in SUBSET Message
  BY DEF IInv, TypeOK
<1>2. CASE EnableWakeListening
  <2>1. CASE session \/ armed
    <3>1. UNCHANGED <<state, armed, session, accepted, detector, microphone, transcriber,
                      request, speech, inbox, unanswered>> /\ enabled' = TRUE
      BY <1>2, <2>1 DEF EnableWakeListening
    <3>2. asks' = asks /\ task' = task
      BY <3>1 DEF transcriber
    <3>3. TypeOK' /\ Watching'
      BY <3>1, <3>2 DEF IInv, TypeOK, Watching
    <3>4. OneTurn'
      BY <3>1, <3>2 DEF IInv, OneTurn, Hearing, Heard
    <3>5. OneAnswer' /\ Silent'
      BY <3>1 DEF IInv, OneAnswer, Silent
    <3>. QED
      BY <3>3, <3>4, <3>5 DEF IInv
  <2>2. CASE ~(session \/ armed)
    BY <1>2, <2>2, WakeStarts DEF EnableWakeListening
  <2>. QED
    BY <2>1, <2>2
<1>3. CASE DisableWakeListening
  <2>1. state' \in {"disabled", "error"}
    BY <1>3, ToFacts DEF DisableWakeListening, IInv, TypeOK, States
  <2>2. armed' = FALSE /\ detector' = Nothing
    BY <1>3, StopWakeFacts DEF DisableWakeListening
  <2>. QED
    BY <1>1, <1>3, <2>1, <2>2, Ended DEF DisableWakeListening, IInv, TypeOK
<1>4. CASE StartVoiceSession
  BY <1>1, <1>4, Outside, SessionStarts DEF StartVoiceSession
<1>5. CASE EndVoiceSession
  BY <1>1, <1>5, SessionEnds DEF EndVoiceSession
<1>6. CASE Type
  <2>1. request' = Post("typed", TRUE)
        /\ UNCHANGED <<coordinator, detector, microphone, transcriber, speech, inbox, unanswered>>
    BY <1>6 DEF Type
  <2>2. request'.kind = "typed" /\ request' \in [kind : {"typed", "voice"}, fresh : BOOLEAN]
    BY <2>1 DEF Post
  <2>3. /\ UNCHANGED <<state, enabled, armed, session, accepted>>
        /\ asks' = asks /\ task' = task
    BY <2>1 DEF coordinator, transcriber
  <2>4. TypeOK' /\ Watching'
    BY <2>1, <2>2, <2>3 DEF IInv, TypeOK, Watching
  <2>5. OneTurn'
    BY <2>1, <2>3 DEF IInv, OneTurn, Hearing, Heard
  <2>6. OneAnswer' /\ Silent'
    BY <2>1, <2>2, <2>3 DEF IInv, OneAnswer, Silent
  <2>. QED
    BY <2>4, <2>5, <2>6 DEF IInv
<1>. QED
  BY <1>2, <1>3, <1>4, <1>5, <1>6

----------------------------------------------------------------------------
(* The components *)

\* A callback is posted, and nothing changes that it could contradict.
LEMMA Posted ==
  ASSUME IInv, NEW k \in Kinds \ {"words", "spoken"}, NEW f \in BOOLEAN,
         f /\ ~session => k = "wake",
         inbox' = inbox \cup {Post(k, f)}
  PROVE  /\ inbox' \in SUBSET Message
         /\ Post("words", TRUE) \in inbox' <=> Post("words", TRUE) \in inbox
         /\ Post("spoken", TRUE) \in inbox' <=> Post("spoken", TRUE) \in inbox
         /\ ~session => \A m \in inbox' : m.fresh => m.kind \in {"wake", "rearm"}
<1>1. Post(k, f) \in Message /\ Post(k, f).kind = k /\ Post(k, f).fresh = f
  BY DEF Post, Message
<1>2. Post(k, f) # Post("words", TRUE) /\ Post(k, f) # Post("spoken", TRUE)
  BY <1>1 DEF Post
<1>. QED
  BY <1>1, <1>2 DEF IInv, TypeOK, Silent

LEMMA DetectInv ==
  ASSUME IInv, Detect
  PROVE  IInv'
<1>1. detector.fresh \in BOOLEAN /\ inbox' = inbox \cup {Post("wake", detector.fresh)}
  BY DEF Detect, IInv, TypeOK, Watching
<1>2. /\ inbox' \in SUBSET Message
      /\ Post("words", TRUE) \in inbox' <=> Post("words", TRUE) \in inbox
      /\ Post("spoken", TRUE) \in inbox' <=> Post("spoken", TRUE) \in inbox
      /\ ~session => \A m \in inbox' : m.fresh => m.kind \in {"wake", "rearm"}
  BY <1>1, Posted DEF Kinds
<1>3. detector' = Nothing
      /\ UNCHANGED <<coordinator, microphone, transcriber, request, speech, unanswered>>
  BY DEF Detect
<1>4. TypeOK'
  BY <1>2, <1>3 DEF IInv, TypeOK, coordinator, transcriber
<1>5. OneTurn'
  BY <1>2, <1>3 DEF IInv, OneTurn, Hearing, Heard, coordinator, transcriber
<1>6. Watching' /\ OneAnswer' /\ Silent'
  BY <1>2, <1>3 DEF IInv, Watching, OneAnswer, Silent, coordinator
<1>. QED
  BY <1>4, <1>5, <1>6 DEF IInv

\* Only the starts and the recognition change, and a callback of theirs may come.
LEMMA TranscriberInv ==
  ASSUME IInv, OnlyTranscriber,
         asks' \in SUBSET Start,
         task' \in {Nothing} \cup [kind : {"recognition"}, own : BOOLEAN, fresh : BOOLEAN],
         microphone' \in {"undetermined", "granted", "denied"}, unanswered' \in BOOLEAN,
         OneTurn', OneAnswer', inbox' \in SUBSET Message,
         ~session => \A m \in inbox' : m.fresh => m.kind \in {"wake", "rearm"}
  PROVE  IInv'
  BY DEF IInv, TypeOK, Watching, Silent, OnlyTranscriber, coordinator

LEMMA RefuseInv ==
  ASSUME IInv, OnlyTranscriber, NEW a \in asks, Refuse(a),
         microphone' \in {"undetermined", "granted", "denied"}
  PROVE  IInv'
<1>1. a.fresh \in BOOLEAN /\ a.own = a.fresh /\ (a.own => session)
  BY DEF IInv, TypeOK, Start, OneTurn, Hearing
<1>2. /\ inbox' \in SUBSET Message
      /\ Post("words", TRUE) \in inbox' <=> Post("words", TRUE) \in inbox
      /\ Post("spoken", TRUE) \in inbox' <=> Post("spoken", TRUE) \in inbox
      /\ ~session => \A m \in inbox' : m.fresh => m.kind \in {"wake", "rearm"}
  BY <1>1, Posted DEF Refuse, Kinds
<1>3. OneTurn'
  BY <1>2 DEF IInv, OneTurn, Hearing, Heard, Refuse, OnlyTranscriber, coordinator
<1>4. OneAnswer'
  BY <1>2 DEF IInv, OneAnswer, OnlyTranscriber, coordinator
<1>. QED
  BY <1>2, <1>3, <1>4, TranscriberInv DEF Refuse, IInv, TypeOK

LEMMA BeginInv ==
  ASSUME IInv, OnlyTranscriber, NEW a \in asks, Begin(a),
         microphone' \in {"undetermined", "granted", "denied"}
  PROVE  IInv'
<1>1. CASE Refuse(a)
  BY <1>1, RefuseInv
<1>2. CASE /\ task' \in {Recognition(a)} \cup (IF Heard THEN {task} ELSE {})
           /\ unanswered' = (unanswered \/ (Heard /\ task' # task))
           /\ asks' = asks \ {a}
           /\ UNCHANGED inbox
  <2>1. a \in Start /\ a.own = a.fresh
    BY DEF IInv, TypeOK, OneTurn
  <2>2. /\ Recognition(a) \in [kind : {"recognition"}, own : BOOLEAN, fresh : BOOLEAN]
        /\ Recognition(a).own = a.own /\ Recognition(a).fresh = a.fresh
    BY <2>1 DEF Recognition, Start
  <2>3. task' = Recognition(a) \/ (Heard /\ task' = task)
    BY <1>2
  <2>4. Heard' => Heard \/ a.own
    BY <2>2, <2>3 DEF Heard
  <2>5. OneTurn'
    <3>1. \A b \in asks' : b \in asks /\ b # a
      BY <1>2
    <3>2. task' # Nothing => task'.own = task'.fresh
      BY <2>1, <2>2, <2>3 DEF IInv, OneTurn
    <3>3. \A b \in asks' : b.own => ~Heard'
      BY <2>4, <3>1 DEF IInv, OneTurn
    <3>4. Hearing' => Hearing
      BY <1>2, <2>4, <3>1 DEF Hearing
    <3>5. Post("words", TRUE) \in inbox' => ~Heard'
      BY <1>2, <2>4 DEF IInv, OneTurn
    <3>6. UNCHANGED <<session, state>>
      BY DEF OnlyTranscriber, coordinator
    <3>. QED
      BY <1>2, <3>1, <3>2, <3>3, <3>4, <3>5, <3>6 DEF IInv, OneTurn
  <2>6. OneAnswer'
    BY <1>2 DEF IInv, OneAnswer, OnlyTranscriber, coordinator
  <2>7. unanswered' \in BOOLEAN
    BY <1>2 DEF IInv, TypeOK
  <2>. QED
    BY <1>2, <2>2, <2>3, <2>5, <2>6, <2>7, TranscriberInv DEF IInv, TypeOK, Silent
<1>. QED
  BY <1>1, <1>2 DEF Begin

LEMMA AuthorizeInv ==
  ASSUME IInv, NEW a \in asks, Authorize(a)
  PROVE  IInv'
<1>1. OnlyTranscriber /\ microphone' \in {"undetermined", "granted", "denied"}
  BY DEF Authorize, IInv, TypeOK
<1>2. CASE ~a.own
  <2>1. asks' = asks \ {a} /\ UNCHANGED <<task, inbox, unanswered>>
    BY <1>2 DEF Authorize
  <2>2. OneTurn' /\ OneAnswer'
    BY <1>1, <2>1 DEF IInv, OneTurn, OneAnswer, Hearing, Heard, OnlyTranscriber, coordinator
  <2>. QED
    BY <1>1, <2>1, <2>2, TranscriberInv DEF IInv, TypeOK, Silent
<1>3. CASE Refuse(a)
  BY <1>1, <1>3, RefuseInv
<1>4. CASE /\ asks' = (asks \ {a}) \cup {[a EXCEPT !.stage = "prompt"]}
           /\ UNCHANGED <<task, inbox, unanswered>>
  <2> DEFINE b == [a EXCEPT !.stage = "prompt"]
  <2>1. b \in Start /\ b.own = a.own /\ b.fresh = a.fresh
    BY DEF IInv, TypeOK, Start
  <2>2. asks' = (asks \ {a}) \cup {b}
    BY <1>4
  <2> HIDE DEF b
  <2>3. /\ \A c \in asks' : c.own = c.fresh
        /\ \A c, d \in asks' : c.own /\ d.own => c = d
        /\ \A c \in asks' : c.own => \E d \in asks : d.own
    BY <2>1, <2>2 DEF IInv, OneTurn
  <2>4. OneTurn' /\ OneAnswer'
    BY <1>1, <1>4, <2>3 DEF IInv, OneTurn, OneAnswer, Hearing, Heard, OnlyTranscriber, coordinator
  <2>. QED
    BY <1>1, <1>4, <2>1, <2>2, <2>4, TranscriberInv DEF IInv, TypeOK, Silent
<1>5. CASE Begin(a)
  BY <1>1, <1>5, BeginInv
<1>. QED
  BY <1>2, <1>3, <1>4, <1>5 DEF Authorize

LEMMA AnswerPromptInv ==
  ASSUME IInv, NEW a \in asks, AnswerPrompt(a)
  PROVE  IInv'
<1>1. OnlyTranscriber /\ microphone' \in {"undetermined", "granted", "denied"}
  BY DEF AnswerPrompt, IInv, TypeOK
<1>. QED
  BY <1>1, BeginInv, RefuseInv DEF AnswerPrompt

LEMMA RecognizeInv ==
  ASSUME IInv, NEW kind \in {"words", "close", "noSpeech", "sttError", "empty"}, Recognize(kind)
  PROVE  IInv'
<1>1. /\ session /\ state = "listening" /\ task.fresh \in BOOLEAN
      /\ \A a \in asks : a.own = FALSE /\ a.fresh = FALSE
  BY DEF Recognize, IInv, TypeOK, OneTurn, Hearing, Heard, Start
<1>2. asks' \in SUBSET Start /\ \A a \in asks' : a.own = FALSE /\ a.fresh = FALSE
  <2>1. asks \in SUBSET Start /\ asks' = {[a EXCEPT !.own = FALSE] : a \in asks}
    BY DEF Recognize, IInv, TypeOK
  <2>2. /\ asks' \in SUBSET Start /\ \A a \in asks' : a.own = FALSE
        /\ \A a \in asks' : \E b \in asks : a.fresh = b.fresh
    BY <2>1, Starts
  <2>. QED
    BY <1>1, <2>2
<1>3. inbox' = inbox \/ (kind # "empty" /\ inbox' = inbox \cup {Post(kind, task.fresh)})
  BY DEF Recognize
<1>4. inbox' \in SUBSET Message
  <2>1. kind # "empty" => Post(kind, task.fresh) \in Message
    BY <1>1 DEF Post, Message, Kinds
  <2>. QED
    BY <1>3, <2>1 DEF IInv, TypeOK
<1>5. task' = Nothing /\ UNCHANGED <<coordinator, detector, microphone, request, speech>>
      /\ unanswered' \in BOOLEAN
  BY DEF Recognize, IInv, TypeOK
<1>6. OneTurn'
  BY <1>1, <1>2, <1>5 DEF OneTurn, Hearing, Heard, coordinator
<1>7. OneAnswer'
  <2>1. Post("spoken", TRUE) # Post(kind, task.fresh)
    BY DEF Post
  <2>. QED
    BY <1>3, <1>5, <2>1 DEF IInv, OneAnswer, coordinator
<1>. QED
  BY <1>1, <1>2, <1>4, <1>5, <1>6, <1>7 DEF IInv, TypeOK, Watching, Silent, coordinator

LEMMA RespondInv ==
  ASSUME IInv, Respond
  PROVE  IInv'
<1>1. request' = Nothing
      /\ UNCHANGED <<coordinator, detector, microphone, transcriber, speech, unanswered>>
  BY DEF Respond
<1>s. /\ UNCHANGED <<state, enabled, armed, session, accepted>>
      /\ asks' = asks /\ task' = task
  BY <1>1 DEF coordinator, transcriber
<1>2. CASE request.kind = "typed"
  <2>1. UNCHANGED inbox
    BY <1>2 DEF Respond
  <2>. QED
    <3>1. TypeOK' /\ Watching'
      BY <1>1, <1>s, <2>1 DEF IInv, TypeOK, Watching
    <3>2. OneTurn'
      BY <1>1, <1>s, <2>1 DEF IInv, OneTurn, Hearing, Heard
    <3>3. OneAnswer' /\ Silent'
      BY <1>1, <1>s, <2>1, NothingFacts DEF IInv, OneAnswer, Silent
    <3>. QED
      BY <3>1, <3>2, <3>3 DEF IInv
<1>3. CASE request.kind # "typed"
  <2>1. request.kind = "voice" /\ request.fresh \in BOOLEAN
    BY <1>3 DEF Respond, IInv, TypeOK
  <2>2. PICK k \in {"answer", "noAnswer"} : inbox' = inbox \cup {Post(k, request.fresh)}
    BY <1>3 DEF Respond
  <2>3. session
    BY <2>1 DEF IInv, Silent
  <2>4. /\ inbox' \in SUBSET Message
        /\ Post("words", TRUE) \in inbox' <=> Post("words", TRUE) \in inbox
        /\ Post("spoken", TRUE) \in inbox' <=> Post("spoken", TRUE) \in inbox
    BY <2>1, <2>2, <2>3, Posted DEF Kinds
  <2>. QED
    <3>1. TypeOK' /\ Watching'
      BY <1>1, <1>s, <2>4 DEF IInv, TypeOK, Watching
    <3>2. OneTurn'
      BY <1>1, <1>s, <2>4 DEF IInv, OneTurn, Hearing, Heard
    <3>3. OneAnswer' /\ Silent'
      BY <1>1, <1>s, <2>3, <2>4 DEF IInv, OneAnswer, Silent
    <3>. QED
      BY <3>1, <3>2, <3>3 DEF IInv
<1>. QED
  BY <1>2, <1>3

LEMMA SpeakInv ==
  ASSUME IInv, Speak
  PROVE  IInv'
<1>1. speech.fresh = TRUE /\ session /\ state = "speaking"
  BY DEF Speak, IInv, TypeOK, OneAnswer
<1>2. PICK k \in {"spoken", "ttsError"} : inbox' = inbox \cup {Post(k, TRUE)}
  BY <1>1 DEF Speak
<1>3. speech' = Nothing
      /\ UNCHANGED <<coordinator, detector, microphone, transcriber, request, unanswered>>
  BY DEF Speak
<1>4. Post(k, TRUE) \in Message /\ Post(k, TRUE) # Post("words", TRUE)
  BY DEF Post, Message, Kinds
<1>5. OneTurn'
  BY <1>2, <1>3, <1>4 DEF IInv, OneTurn, Hearing, Heard, coordinator, transcriber
<1>. QED
  BY <1>1, <1>2, <1>3, <1>4, <1>5 DEF IInv, TypeOK, Watching, OneAnswer, Silent, coordinator, transcriber

----------------------------------------------------------------------------
(* The callbacks *)

LEMMA DroppedInv ==
  ASSUME IInv, NEW m \in inbox, Dropped(m)
  PROVE  IInv'
<1>1. TypeOK'
  BY DEF Dropped, IInv, TypeOK, coordinator, transcriber
<1>2. OneTurn'
  BY DEF Dropped, IInv, OneTurn, Hearing, Heard, coordinator, transcriber
<1>3. Watching' /\ OneAnswer' /\ Silent'
  BY DEF Dropped, IInv, Watching, OneAnswer, Silent, coordinator
<1>. QED
  BY <1>1, <1>2, <1>3 DEF IInv

LEMMA Rest ==
  ASSUME IInv, NEW m \in inbox
  PROVE  /\ inbox \ {m} \in SUBSET Message /\ inbox \ {m} \in SUBSET inbox
         /\ m \in Message
         /\ m.fresh => m = Post(m.kind, TRUE)
  BY DEF IInv, TypeOK, Message, Post

LEMMA WakeDetectedInv ==
  ASSUME IInv, NEW m \in inbox, WakeDetected(m)
  PROVE  IInv'
<1>1. CASE m.fresh /\ enabled /\ armed /\ state = "waitingForWake" /\ ~session
  BY <1>1, Rest, ToFacts, SessionStarts DEF WakeDetected
<1>2. CASE ~(m.fresh /\ enabled /\ armed /\ state = "waitingForWake" /\ ~session)
  BY <1>2, DroppedInv DEF WakeDetected
<1>. QED
  BY <1>1, <1>2

LEMMA TranscriptInv ==
  ASSUME IInv, NEW m \in inbox, Transcript(m)
  PROVE  IInv'
<1>1. CASE ~(m.fresh /\ session /\ ~accepted)
  BY <1>1, DroppedInv DEF Transcript
<1>2. CASE m.fresh /\ session /\ m.kind = "close" /\ EndSession(inbox \ {m})
  BY <1>2, Rest, SessionEnds
<1>3. CASE /\ m.fresh /\ session /\ m.kind = "words"
           /\ accepted' = TRUE
           /\ state' = To(To(state, "transcribing"), "thinking")
           /\ Ask
           /\ inbox' = inbox \ {m}
           /\ UNCHANGED <<enabled, armed, session, detector, microphone, transcriber, speech>>
  <2>1. m = Post("words", TRUE)
    BY <1>3, Rest
  <2>2. /\ state = "listening" /\ ~Heard /\ \A a \in asks : ~a.own
        /\ Post("words", TRUE) \notin inbox'
    BY <1>3, <2>1 DEF IInv, OneTurn, Hearing
  <2>3. speech = Nothing /\ Post("spoken", TRUE) \notin inbox
    BY <2>2 DEF IInv, OneAnswer
  <2>4. state' \in States
    BY <1>3, <2>2, ToFacts DEF States
  <2>5. request' \in [kind : {"typed", "voice"}, fresh : BOOLEAN] /\ unanswered' \in BOOLEAN
    BY <1>3 DEF Ask, Post, IInv, TypeOK
  <2>6. TypeOK'
    BY <1>3, <2>4, <2>5 DEF IInv, TypeOK, transcriber
  <2>7. OneTurn'
    BY <1>3, <2>2 DEF IInv, OneTurn, Hearing, Heard, transcriber
  <2>8. Watching' /\ OneAnswer' /\ Silent'
    BY <1>3, <2>3 DEF IInv, Watching, OneAnswer, Silent
  <2>. QED
    BY <2>6, <2>7, <2>8 DEF IInv
<1>. QED
  BY <1>1, <1>2, <1>3 DEF Transcript

LEMMA SpeechErrorInv ==
  ASSUME IInv, NEW m \in inbox, SpeechError(m)
  PROVE  IInv'
<1>1. CASE Fail(inbox \ {m}) /\ UNCHANGED <<enabled, microphone>>
  BY <1>1, Rest, Failed DEF IInv, TypeOK
<1>2. CASE session /\ EndSession(inbox \ {m})
  BY <1>2, Rest, SessionEnds
<1>3. CASE Dropped(m)
  BY <1>3, DroppedInv
<1>. QED
  BY <1>1, <1>2, <1>3 DEF SpeechError

LEMMA ConversationResultInv ==
  ASSUME IInv, NEW m \in inbox, ConversationResult(m)
  PROVE  IInv'
<1>1. CASE ~(m.fresh /\ session /\ state = "thinking")
  BY <1>1, DroppedInv DEF ConversationResult
<1>2. CASE Fail(inbox \ {m}) /\ UNCHANGED <<enabled, microphone>>
  BY <1>2, Rest, Failed DEF IInv, TypeOK
<1>3. CASE /\ session /\ state = "thinking"
           /\ state' = To(state, "speaking")
           /\ IF speech = Nothing
              THEN speech' = Post("answer", TRUE) /\ inbox' = inbox \ {m}
              ELSE UNCHANGED speech
                   /\ inbox' = (inbox \ {m}) \cup {Post("ttsError", TRUE)}
           /\ UNCHANGED <<enabled, armed, session, accepted, detector, microphone,
                          transcriber, request, unanswered>>
  <2>1. speech = Nothing /\ ~Hearing /\ Post("spoken", TRUE) \notin inbox
    BY <1>3 DEF IInv, OneTurn, OneAnswer
  <2>2. /\ state' = "speaking" /\ inbox' = inbox \ {m}
        /\ speech' \in [kind : {"answer"}, fresh : BOOLEAN] /\ speech'.fresh = TRUE
    <3>1. state' = To("thinking", "speaking") /\ inbox' = inbox \ {m}
          /\ speech' = Post("answer", TRUE)
      BY <1>3, <2>1
    <3>2. /\ Post("answer", TRUE) \in [kind : {"answer"}, fresh : BOOLEAN]
          /\ Post("answer", TRUE).fresh = TRUE
      BY DEF Post
    <3>. QED
      BY <3>1, <3>2, ToFacts
  <2>3. TypeOK'
    BY <1>3, <2>2 DEF IInv, TypeOK, transcriber, States
  <2>4. OneTurn'
    BY <1>3, <2>1, <2>2 DEF IInv, OneTurn, Hearing, Heard, transcriber
  <2>5. Watching' /\ OneAnswer' /\ Silent'
    BY <1>3, <2>1, <2>2 DEF IInv, Watching, OneAnswer, Silent
  <2>. QED
    BY <2>3, <2>4, <2>5 DEF IInv
<1>. QED
  BY <1>1, <1>2, <1>3 DEF ConversationResult

LEMMA SpokenInv ==
  ASSUME IInv, NEW m \in inbox, Spoken(m)
  PROVE  IInv'
<1>1. CASE ~(m.fresh /\ session)
  BY <1>1, DroppedInv DEF Spoken
<1>2. CASE m.fresh /\ session
  <2>1. Post("spoken", TRUE) \in inbox
    BY <1>2, Rest DEF Spoken
  <2>2. state = "speaking" /\ speech = Nothing /\ ~Hearing /\ armed = FALSE /\ detector = Nothing
    BY <1>2, <2>1 DEF IInv, TypeOK, OneAnswer, OneTurn, Watching
  <2>3. state' = "listening"
    BY <1>2, <2>2, ToFacts DEF Spoken
  <2>. QED
    BY <1>2, <2>2, <2>3, Rest, Listened DEF Spoken, IInv
<1>. QED
  BY <1>1, <1>2

LEMMA SpeakErrorInv ==
  ASSUME IInv, NEW m \in inbox, SpeakError(m)
  PROVE  IInv'
  BY Rest, Failed, DroppedInv DEF SpeakError, IInv, TypeOK

LEMMA RearmedInv ==
  ASSUME IInv, NEW m \in inbox, Rearmed(m)
  PROVE  IInv'
<1>1. CASE m.fresh /\ enabled /\ ~session /\ ~armed
  BY <1>1, Rest, WakeStarts DEF Rearmed, IInv, TypeOK
<1>2. CASE ~(m.fresh /\ enabled /\ ~session /\ ~armed)
  BY <1>2, DroppedInv DEF Rearmed
<1>. QED
  BY <1>1, <1>2

----------------------------------------------------------------------------
(* Theorems *)

LEMMA InvInit == Init => IInv
<1> SUFFICES ASSUME Init  PROVE IInv
  OBVIOUS
<1>1. TypeOK
  BY DEF Init, TypeOK, States
<1>2. Watching /\ OneTurn /\ OneAnswer
  BY DEF Init, Watching, OneTurn, OneAnswer, Hearing, Heard
<1>3. Silent
  BY NothingFacts DEF Init, Silent, Closed
<1>. QED
  BY <1>1, <1>2, <1>3 DEF IInv

LEMMA InvNext == IInv /\ [Next]_vars => IInv'
<1> SUFFICES ASSUME IInv, [Next]_vars  PROVE IInv'
  OBVIOUS
<1>1. CASE \/ EnableWakeListening \/ DisableWakeListening
           \/ StartVoiceSession \/ EndVoiceSession \/ Type
  BY <1>1, PersonInv
<1>2. CASE Detect \/ Recognized \/ Respond \/ Speak
  BY <1>2, DetectInv, RecognizeInv, RespondInv, SpeakInv DEF Recognized
<1>3. CASE \E a \in asks : Authorize(a) \/ AnswerPrompt(a)
  BY <1>3, AuthorizeInv, AnswerPromptInv
<1>4. CASE \E m \in inbox : Deliver(m)
  <2>1. PICK m \in inbox : Deliver(m)
    BY <1>4
  <2>. QED
    BY <2>1, WakeDetectedInv, TranscriptInv, SpeechErrorInv, ConversationResultInv, SpokenInv,
       SpeakErrorInv, RearmedInv DEF Deliver
<1>5. CASE UNCHANGED vars
  <2>1. TypeOK'
    BY <1>5 DEF vars, coordinator, transcriber, IInv, TypeOK
  <2>2. OneTurn'
    BY <1>5 DEF vars, coordinator, transcriber, IInv, OneTurn, Hearing, Heard
  <2>3. Watching' /\ OneAnswer' /\ Silent'
    BY <1>5 DEF vars, coordinator, IInv, Watching, OneAnswer, Silent
  <2>. QED
    BY <2>1, <2>2, <2>3 DEF IInv
<1>. QED
  BY <1>1, <1>2, <1>3, <1>4, <1>5 DEF Next

\* The invariant above holds of every state of a behaviour.
THEOREM Invariant == Spec => []IInv
  BY InvInit, InvNext, PTL DEF Spec

\* Whatever is posted, and in whatever order it is delivered, the wake detector never runs
\* beside a recognition that can be heard, and each belongs to what is on.  (One that
\* nobody hears may run beside the detector.)
THEOREM MicrophoneHasOneOwnerHolds == Spec => []MicrophoneHasOneOwner
<1>1. IInv => MicrophoneHasOneOwner
  BY DEF IInv, Watching, OneTurn, Hearing, Heard, MicrophoneHasOneOwner, Stopped
<1>. QED
  BY <1>1, Invariant, PTL

\* Nothing of a session that ended speaks, listens, is awaited or can act any more.
THEOREM ClosedIsQuietHolds == Spec => []ClosedIsQuiet
<1>1. IInv => ClosedIsQuiet
  BY DEF IInv, OneTurn, OneAnswer, Silent, Hearing, Closed, ClosedIsQuiet, Stopped
<1>. QED
  BY <1>1, Invariant, PTL

=============================================================================
