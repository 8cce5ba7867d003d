---------------------------- MODULE AudioProofs ----------------------------
(***************************************************************************)
(* Invariance proofs for Audio, for any number of requests and slices and  *)
(* any capacity of the text channel.                                       *)
(***************************************************************************)
EXTENDS Audio, SequenceTheorems, TLAPS

(* RingCloses says nothing of packets on their way: while the telemetry    *)
(* thread is idle, the last amplitude the widget will show is zero.        *)
LastAmplitude == IF udp = <<>> THEN amplitude ELSE udp[Len(udp)]
RingWillClose == pacer = None => LastAmplitude = 0

Voiced == Tts \/ TtsFail
-----------------------------------------------------------------------------
(* Clips are not None, whatever their generation.                          *)
LEMMA ClipIsNotNone ==
  ASSUME NEW clip \in Clip(Nat)
  PROVE  clip # None
BY AudioAssumption

(* The clip a request stamps.                                              *)
LEMMA StampType ==
  ASSUME TypeOK, NEW r \in Requests \cup {Boot}
  PROVE  Stamp(r) \in Clip(Nat)
BY DEF TypeOK, Stamp, Clip

(* Every variable keeps its type through a step of a connection task.      *)
LEMMA RequestType ==
  ASSUME TypeOK, NEW r \in Requests,
         RaiseGeneration(r) \/ StopSink(r) \/ Speak(r) \/ Silent(r)
  PROVE  TypeOK'
<1> USE AudioAssumption
<1>1. CASE RaiseGeneration(r)
  BY <1>1 DEF TypeOK, RaiseGeneration, voice, speakers, telemetry
<1>2. CASE StopSink(r)
  BY <1>2 DEF TypeOK, StopSink, voice, telemetry
<1>3. CASE Speak(r)
  <2>1. Stamp(r) \in Clip(Nat)
    BY StampType
  <2>2. text_rx' \in Seq(Clip(Nat)) /\ Len(text_rx') <= TextCap
    BY <1>3, <2>1 DEF TypeOK, Speak, HasRoom
  <2>3. QED
    BY <1>3, <2>2 DEF TypeOK, Speak, speakers, telemetry
<1>4. CASE Silent(r)
  BY <1>4 DEF TypeOK, Silent, voice, speakers, telemetry
<1>5. QED
  BY <1>1, <1>2, <1>3, <1>4

(* Every variable keeps its type through a step of the TTS task.           *)
LEMMA TtsType ==
  ASSUME TypeOK, Voiced
  PROVE  TypeOK'
<1>1. CASE TtsBoot
  <2>1. Stamp(Boot) \in Clip(Nat)
    BY StampType
  <2>2. QED
    BY <1>1, <2>1 DEF TypeOK, TtsBoot, speakers, telemetry
<1>2. CASE TtsReceive
  <2>1. text_rx \in Seq(Clip(Nat)) /\ text_rx # <<>> /\ Len(text_rx) <= TextCap /\ TextCap \in Nat
    BY <1>2, AudioAssumption DEF TypeOK, TtsReceive
  <2>2. Head(text_rx) \in Clip(Nat) /\ Tail(text_rx) \in Seq(Clip(Nat)) /\ Len(Tail(text_rx)) <= TextCap
    BY <2>1
  <2>3. QED
    BY <1>2, <2>2 DEF TypeOK, TtsReceive, speakers, telemetry
<1>3. CASE TtsSend
  BY <1>3 DEF TypeOK, TtsSend, telemetry
<1>4. CASE TtsFail
  BY <1>4 DEF TypeOK, TtsFail, speakers, telemetry
<1>5. QED
  BY <1>1, <1>2, <1>3, <1>4 DEF Voiced, Tts

(* Every variable keeps its type through a step of the speaker thread, of  *)
(* the sound device, of the telemetry thread and of the widget.            *)
LEMMA SoundType ==
  ASSUME TypeOK, Speaker \/ PlayHead \/ Pacer \/ WidgetReceive
  PROVE  TypeOK'
<1> USE AudioAssumption
<1>1. CASE SpeakerCheck
  BY <1>1 DEF TypeOK, SpeakerCheck, voice
<1>2. CASE SpeakerAppend
  BY <1>2 DEF TypeOK, SpeakerAppend, voice, telemetry
<1>3. CASE PlayHead
  BY <1>3 DEF TypeOK, PlayHead, voice, telemetry
<1>4. CASE PacerReceive
  BY <1>4 DEF TypeOK, PacerReceive, voice, speakers
<1>5. CASE PacerSlice
  BY <1>5 DEF TypeOK, PacerSlice, voice, speakers
<1>6. CASE PacerEnd
  BY <1>6 DEF TypeOK, PacerEnd, Closing, voice, speakers
<1>7. CASE WidgetReceive
  BY <1>7 DEF TypeOK, WidgetReceive, voice, speakers
<1>8. QED
  BY <1>1, <1>2, <1>3, <1>4, <1>5, <1>6, <1>7 DEF Speaker, Pacer

(* Every variable keeps its type through every step.                       *)
LEMMA TypeStep == TypeOK /\ [Next]_vars => TypeOK'
<1> SUFFICES ASSUME TypeOK, [Next]_vars PROVE TypeOK'
  OBVIOUS
<1>1. CASE UNCHANGED vars
  BY <1>1 DEF TypeOK, vars, voice, speakers, telemetry
<1>2. CASE Next
  BY <1>2, RequestType, TtsType, SoundType DEF Next, Voiced
<1>3. QED
  BY <1>1, <1>2

(* init_audio_worker and what follows: every variable always has its type. *)
THEOREM TypeCorrect == Spec => []TypeOK
<1>1. Init => TypeOK
  BY AudioAssumption DEF Init, TypeOK, Clip
<1>2. QED
  BY <1>1, TypeStep, PTL DEF Spec
-----------------------------------------------------------------------------
(* A step that leaves the generation, the requests and the speaker's queue *)
(* alone leaves no backlog either.                                         *)
LEMMA BacklogUnchanged ==
  ASSUME NoBacklog, UNCHANGED <<GENERATION, request, speaker, sink>>
  PROVE  NoBacklog'
BY DEF NoBacklog, Stopped, Current

(* stop_speaking, the speaker's check and its append leave no backlog.     *)
LEMMA BacklogStep ==
  ASSUME TypeOK, NoBacklog, [Next]_vars
  PROVE  NoBacklog'
<1>1. ASSUME NEW r \in Requests, RaiseGeneration(r)
      PROVE  NoBacklog'
  <2>1. ~Stopped'
    BY <1>1 DEF RaiseGeneration, Stopped, TypeOK
  <2>2. QED
    BY <2>1 DEF NoBacklog
<1>2. ASSUME NEW r \in Requests, StopSink(r)
      PROVE  NoBacklog'
  BY <1>2 DEF StopSink, NoBacklog
<1>3. ASSUME NEW r \in Requests, Speak(r) \/ Silent(r)
      PROVE  NoBacklog'
  <2>1. Stopped' => Stopped
    BY <1>3 DEF Speak, Silent, Stopped, TypeOK
  <2>2. UNCHANGED <<GENERATION, speaker, sink>>
    BY <1>3 DEF Speak, Silent, speakers
  <2>3. QED
    BY <2>1, <2>2 DEF NoBacklog, Current
<1>4. CASE SpeakerCheck
  <2>1. UNCHANGED <<GENERATION, request, sink>>
    BY <1>4 DEF SpeakerCheck
  <2>2. speaker' = None \/ Current(speaker')
    BY <1>4 DEF SpeakerCheck, Playable
  <2>3. QED
    BY <2>1, <2>2 DEF NoBacklog, Stopped, Current
<1>5. CASE SpeakerAppend
  <2>1. SUFFICES ASSUME Stopped'
                 PROVE  \A i \in DOMAIN sink' : i > 1 => sink'[i].gen = GENERATION'
    BY <1>5 DEF SpeakerAppend, NoBacklog, Current
  <2>2. /\ Stopped /\ GENERATION' = GENERATION
        /\ sink' = Append(sink, speaker) /\ sink \in Seq(Clip(Nat)) /\ speaker \in Clip(Nat)
    BY <1>5, <2>1 DEF SpeakerAppend, Stopped, TypeOK
  <2>3. TAKE i \in DOMAIN sink'
  <2>4. HAVE i > 1
  <2>5. CASE i \in DOMAIN sink
    <3>1. sink'[i] = sink[i]
      BY <2>2, <2>5
    <3>2. QED
      BY <2>2, <2>4, <2>5, <3>1 DEF NoBacklog, Current
  <2>6. CASE i \notin DOMAIN sink
    <3>1. sink'[i] = speaker /\ sink # <<>>
      BY <2>2, <2>3, <2>4, <2>6
    <3>2. Current(speaker)
      BY <1>5, <2>2, <3>1 DEF NoBacklog, SpeakerAppend
    <3>3. QED
      BY <2>2, <3>1, <3>2 DEF Current
  <2>7. QED
    BY <2>5, <2>6
<1>6. CASE PlayHead
  <2>1. UNCHANGED <<GENERATION, request, speaker>> /\ sink' = Tail(sink) /\ sink # <<>>
        /\ sink \in Seq(Clip(Nat))
    BY <1>6 DEF PlayHead, TypeOK
  <2>2. \A i \in DOMAIN sink' : i + 1 \in DOMAIN sink /\ sink'[i] = sink[i + 1] /\ i \in Nat
    BY <2>1
  <2>3. QED
    BY <2>1, <2>2 DEF NoBacklog, Stopped, Current
<1>7. CASE Voiced \/ Pacer \/ WidgetReceive \/ UNCHANGED vars
  <2>1. UNCHANGED <<GENERATION, request, speaker, sink>>
    BY <1>7 DEF Voiced, Tts, TtsBoot, TtsReceive, TtsSend, TtsFail, Pacer, PacerReceive,
                PacerSlice, PacerEnd, WidgetReceive, speakers, vars
  <2>2. QED
    BY <2>1, BacklogUnchanged
<1>8. QED
  BY <1>1, <1>2, <1>3, <1>4, <1>5, <1>6, <1>7 DEF Next, Voiced, Speaker

(* stop_speaking: of what was queued before an interruption, at most the   *)
(* one clip the speaker thread was about to append is heard after it.      *)
THEOREM BargeInLeavesNoBacklog == Spec => []NoBacklog
<1>1. Init => NoBacklog
  BY DEF Init, NoBacklog
<1>2. TypeOK /\ NoBacklog /\ [Next]_vars => NoBacklog'
  BY BacklogStep
<1>3. QED
  BY <1>1, <1>2, TypeCorrect, PTL DEF Spec
-----------------------------------------------------------------------------
(* The telemetry thread sends a zero before it goes idle, and nothing      *)
(* while it is.                                                            *)
LEMMA RingStep ==
  ASSUME TypeOK, RingWillClose, [Next]_vars
  PROVE  RingWillClose'
<1>1. CASE PacerReceive
  <2>1. UNCHANGED <<udp, amplitude>> /\ (pacer' = None => pacer = None)
    BY <1>1 DEF PacerReceive
  <2>2. QED
    BY <2>1 DEF RingWillClose, LastAmplitude
<1>2. CASE PacerSlice
  BY <1>2 DEF PacerSlice, RingWillClose
<1>3. CASE PacerEnd
  <2>1. udp' = Append(udp, 0) /\ udp \in Seq({0, 1})
    BY <1>3 DEF PacerEnd, Closing, TypeOK
  <2>2. udp' # <<>> /\ udp'[Len(udp')] = 0
    BY <2>1
  <2>3. QED
    BY <2>2 DEF RingWillClose, LastAmplitude
<1>4. CASE WidgetReceive
  <2>1. /\ udp # <<>> /\ udp \in Seq({0, 1}) /\ udp' = Tail(udp)
        /\ amplitude' = Head(udp) /\ pacer' = pacer
    BY <1>4 DEF WidgetReceive, TypeOK
  <2>2. CASE Len(udp) = 1
    <3>1. udp' = <<>> /\ amplitude' = udp[Len(udp)]
      BY <2>1, <2>2
    <3>2. QED
      BY <2>1, <3>1 DEF RingWillClose, LastAmplitude
  <2>3. CASE Len(udp) # 1
    <3>1. Len(udp) \in Nat /\ Len(udp) > 1
      <4>1. Len(udp) \in Nat \ {0}
        BY <2>1, EmptySeq
      <4>2. QED
        BY <2>3, <4>1
    <3>2. /\ Len(udp') = Len(udp) - 1
          /\ \A i \in 1 .. Len(udp') : udp'[i] = udp[i + 1]
      BY <2>1, HeadTailProperties
    <3>3. udp' # <<>> /\ udp'[Len(udp')] = udp[Len(udp)]
      BY <3>1, <3>2
    <3>4. QED
      BY <2>1, <3>3 DEF RingWillClose, LastAmplitude
  <2>4. QED
    BY <2>2, <2>3
<1>5. CASE (\E r \in Requests : RaiseGeneration(r) \/ StopSink(r) \/ Speak(r) \/ Silent(r))
           \/ Voiced \/ Speaker \/ PlayHead \/ UNCHANGED vars
  <2>1. UNCHANGED <<pacer, udp, amplitude>>
    BY <1>5 DEF RaiseGeneration, StopSink, Speak, Silent, Voiced, Tts, TtsBoot, TtsReceive,
                TtsSend, TtsFail, Speaker, SpeakerCheck, SpeakerAppend, PlayHead, telemetry, vars
  <2>2. QED
    BY <2>1 DEF RingWillClose, LastAmplitude
<1>6. QED
  BY <1>1, <1>2, <1>3, <1>4, <1>5 DEF Next, Voiced, Pacer

(* The widget's ring is closed whenever nothing is being paced.            *)
THEOREM RingCorrect == Spec => []RingCloses
<1>1. Init => RingWillClose
  BY DEF Init, RingWillClose, LastAmplitude
<1>2. TypeOK /\ RingWillClose /\ [Next]_vars => RingWillClose'
  BY RingStep
<1>3. RingWillClose => RingCloses
  BY DEF RingWillClose, LastAmplitude, RingCloses
<1>4. QED
  BY <1>1, <1>2, <1>3, TypeCorrect, PTL DEF Spec
=============================================================================
