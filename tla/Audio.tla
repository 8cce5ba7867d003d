------------------------------- MODULE Audio -------------------------------
(***************************************************************************)
(* Speech and barge-in (audio.rs): requests interrupt what is being spoken *)
(* by raising GENERATION and emptying the speaker's queue; text passes     *)
(* from the connection tasks to the TTS task, the speaker thread and the   *)
(* telemetry thread, each of which drops what an interruption outdated.    *)
(* The telemetry thread drives the ring of the widget over UDP             *)
(* (aish_widget).                                                          *)
(***************************************************************************)
EXTENDS Integers, Sequences, FiniteSets

CONSTANTS
  Requests,   (* requests that are not chat-mode events                  *)
  Boot,       (* the source of "All systems online."                     *)
  Slices,     (* 20 ms slices in a clip                                  *)
  TextCap,    (* capacity of the text channel, 100 in the code           *)
  None,       (* a thread holds no clip                                  *)
  TtsMayFail  (* environment: synthesis of a text may fail               *)

(* A text or a clip, with the generation it was stamped with.              *)
Clip(g) == [req : Requests \cup {Boot}, gen : g]

ASSUME AudioAssumption ==
  /\ Boot \notin Requests /\ Slices \in Nat \ {0} /\ TextCap \in Nat \ {0}
  /\ None \notin Clip(Nat) /\ TtsMayFail \in BOOLEAN

VARIABLES
  GENERATION,
  request,      (* how far the connection task of each request is        *)
  text_rx,      (* texts for the TTS task                                *)
  booting,      (* the TTS task has still to announce itself             *)
  tts,          (* the text it is synthesizing                           *)
  audio_rx,     (* clips for the speaker thread                          *)
  speaker,      (* the clip the speaker has checked but not yet appended *)
  sink,         (* the clips of the rodio Sink, its head playing         *)
  telemetry_rx, (* clips for the telemetry thread                        *)
  pacer, left,  (* the clip it paces and the slices left of it           *)
  udp,          (* amplitudes on their way to the widget (loopback)      *)
  amplitude,    (* the widget's: 0, or 1 for any other                   *)
  played,       (* history: clips that played to their end               *)
  failed        (* history: texts whose synthesis failed                 *)

voice     == <<text_rx, booting, tts, failed>>
speakers  == <<audio_rx, speaker, sink, played>>
telemetry == <<telemetry_rx, pacer, left, udp, amplitude>>
vars      == <<GENERATION, request, voice, speakers, telemetry>>

Init ==
  /\ GENERATION = 0
  /\ request = [r \in Requests |-> "new"]
  /\ text_rx = <<>> /\ booting = TRUE /\ tts = None
  /\ audio_rx = <<>> /\ speaker = None /\ sink = <<>>
  /\ telemetry_rx = <<>> /\ pacer = None /\ left = 0
  /\ udp = <<>> /\ amplitude = 0
  /\ played = {} /\ failed = {}

Current(clip) == clip.gen = GENERATION
-----------------------------------------------------------------------------
(* Connection tasks.                                                       *)

(* stop_speaking is two steps: the generation, then the speaker's queue.   *)
RaiseGeneration(r) ==
  /\ request[r] = "new"
  /\ request' = [request EXCEPT ![r] = "stopping"]
  /\ GENERATION' = GENERATION + 1
  /\ UNCHANGED <<voice, speakers, telemetry>>

StopSink(r) ==
  /\ request[r] = "stopping"
  /\ request' = [request EXCEPT ![r] = "working"]
  /\ sink' = <<>>
  /\ UNCHANGED <<GENERATION, voice, audio_rx, speaker, played, telemetry>>

(* speak_stream, when the model has written the request's intro: the text  *)
(* takes the generation of that moment; a full channel drops it.           *)
Stamp(r) == [req |-> r, gen |-> GENERATION]

AlwaysRoom == TRUE
HasRoom    == Len(text_rx) < TextCap

Speak(r) ==
  /\ request[r] = "working"
  /\ request' = [request EXCEPT ![r] = "done"]
  /\ text_rx' = IF HasRoom THEN Append(text_rx, Stamp(r)) ELSE text_rx
  /\ UNCHANGED <<GENERATION, booting, tts, failed, speakers, telemetry>>

(* A request with no intro (an empty one, or no model) says nothing.       *)
Silent(r) ==
  /\ request[r] = "working"
  /\ request' = [request EXCEPT ![r] = "done"]
  /\ UNCHANGED <<GENERATION, voice, speakers, telemetry>>
-----------------------------------------------------------------------------
(* The TTS task.  Synthesis may fail: then the text is forgotten.          *)

TtsBoot ==
  /\ booting
  /\ booting' = FALSE
  /\ tts' = Stamp(Boot) \/ (TtsMayFail /\ tts' = None)
  /\ UNCHANGED <<GENERATION, request, text_rx, failed, speakers, telemetry>>

TtsReceive ==
  /\ ~booting /\ tts = None /\ text_rx # <<>>
  /\ text_rx' = Tail(text_rx)
  /\ tts' = IF Current(Head(text_rx)) THEN Head(text_rx) ELSE None
  /\ UNCHANGED <<GENERATION, request, booting, failed, speakers, telemetry>>

(* Synthesis takes its time; the clip is sent with the generation the text *)
(* came with.                                                              *)
TtsSend ==
  /\ tts # None
  /\ audio_rx' = Append(audio_rx, tts)
  /\ tts' = None
  /\ UNCHANGED <<GENERATION, request, text_rx, booting, failed, speaker, sink, played, telemetry>>

TtsFail ==
  /\ TtsMayFail /\ tts # None
  /\ failed' = failed \cup {tts}
  /\ tts' = None
  /\ UNCHANGED <<GENERATION, request, text_rx, booting, speakers, telemetry>>
-----------------------------------------------------------------------------
(* The speaker thread: check the generation, hand a copy to the telemetry  *)
(* thread, append to the sink.  An interruption may fall in between.       *)

Unchecked(clip) == TRUE
IfQuiet(clip)   == Current(clip) /\ sink = <<>>
Playable(clip)  == Current(clip)

SpeakerCheck ==
  /\ speaker = None /\ audio_rx # <<>>
  /\ audio_rx' = Tail(audio_rx)
  /\ speaker' = IF Playable(Head(audio_rx)) THEN Head(audio_rx) ELSE None
  /\ telemetry_rx' = IF Playable(Head(audio_rx))
                     THEN Append(telemetry_rx, Head(audio_rx)) ELSE telemetry_rx
  /\ UNCHANGED <<GENERATION, request, voice, sink, played, pacer, left, udp, amplitude>>

SpeakerAppend ==
  /\ speaker # None
  /\ sink' = Append(sink, speaker)
  /\ speaker' = None
  /\ UNCHANGED <<GENERATION, request, voice, audio_rx, played, telemetry>>

(* The head of the sink plays to its end.                                  *)
PlayHead ==
  /\ sink # <<>>
  /\ sink' = Tail(sink)
  /\ played' = played \cup {Head(sink)}
  /\ UNCHANGED <<GENERATION, request, voice, audio_rx, speaker, telemetry>>
-----------------------------------------------------------------------------
(* The telemetry thread and the widget.                                    *)

PacerReceive ==
  /\ pacer = None /\ telemetry_rx # <<>>
  /\ telemetry_rx' = Tail(telemetry_rx)
  /\ IF Current(Head(telemetry_rx))
     THEN pacer' = Head(telemetry_rx) /\ left' = Slices
     ELSE UNCHANGED <<pacer, left>>
  /\ UNCHANGED <<GENERATION, request, voice, speakers, udp, amplitude>>

PacerSlice ==
  /\ pacer # None /\ left > 0 /\ Current(pacer)
  /\ left' = left - 1
  /\ udp' = Append(udp, 1)
  /\ UNCHANGED <<GENERATION, request, voice, speakers, telemetry_rx, pacer, amplitude>>

ClosingUnlessCut == IF Current(pacer) THEN Append(udp, 0) ELSE udp
Closing          == Append(udp, 0)

(* At the end of the clip or at a barge-in, a zero closes the ring.        *)
PacerEnd ==
  /\ pacer # None /\ (left = 0 \/ ~Current(pacer))
  /\ udp' = Closing
  /\ pacer' = None /\ left' = 0
  /\ UNCHANGED <<GENERATION, request, voice, speakers, telemetry_rx, amplitude>>

WidgetReceive ==
  /\ udp # <<>>
  /\ amplitude' = Head(udp)
  /\ udp' = Tail(udp)
  /\ UNCHANGED <<GENERATION, request, voice, speakers, telemetry_rx, pacer, left>>
-----------------------------------------------------------------------------
Tts     == TtsBoot \/ TtsReceive \/ TtsSend
Speaker == SpeakerCheck \/ SpeakerAppend
Pacer   == PacerReceive \/ PacerSlice \/ PacerEnd

Next ==
  \/ \E r \in Requests : RaiseGeneration(r) \/ StopSink(r) \/ Speak(r) \/ Silent(r)
  \/ Tts \/ TtsFail \/ Speaker \/ PlayHead \/ Pacer \/ WidgetReceive

Spec == Init /\ [][Next]_vars

(* The threads and the sound device run; users and models owe nothing.     *)
FairSpec ==
  /\ Spec
  /\ WF_vars(Tts) /\ WF_vars(Speaker) /\ WF_vars(PlayHead)
  /\ WF_vars(Pacer) /\ WF_vars(WidgetReceive)
-----------------------------------------------------------------------------
(* Properties.                                                             *)

(* Every variable has its type, and the telemetry thread never paces more  *)
(* slices than a clip has.                                                 *)
TypeOK ==
  /\ GENERATION \in Nat
  /\ request \in [Requests -> {"new", "stopping", "working", "done"}]
  /\ text_rx \in Seq(Clip(Nat)) /\ Len(text_rx) <= TextCap
  /\ booting \in BOOLEAN /\ tts \in Clip(Nat) \cup {None}
  /\ audio_rx \in Seq(Clip(Nat)) /\ sink \in Seq(Clip(Nat)) /\ telemetry_rx \in Seq(Clip(Nat))
  /\ speaker \in Clip(Nat) \cup {None} /\ pacer \in Clip(Nat) \cup {None}
  /\ left \in 0 .. Slices
  /\ udp \in Seq({0, 1}) /\ amplitude \in {0, 1}
  /\ played \subseteq Clip(Nat) /\ failed \subseteq Clip(Nat)

(* No request is between the two steps of stop_speaking.                   *)
Stopped == \A r \in Requests : request[r] # "stopping"

(* An interruption leaves no backlog: once stop_speaking is over, at most  *)
(* the clip the speaker thread held across it is still heard, and it is    *)
(* the first in the queue; every other clip is of the new generation.      *)
NoBacklog ==
  Stopped =>
    /\ \A i \in DOMAIN sink : i > 1 => Current(sink[i])
    /\ (speaker # None /\ ~Current(speaker)) => sink = <<>>

(* The ring closes: when the telemetry thread is idle and its packets have *)
(* arrived, the widget shows no amplitude, also after a barge-in.          *)
RingCloses == (pacer = None /\ udp = <<>>) => amplitude = 0

(* A text that nobody interrupts is heard to its end, unless it cannot be  *)
(* synthesized.  (A text stamped between the two steps of another          *)
(* request's stop_speaking already has the new generation and may be wiped *)
(* by the second: hence Stopped.)                                          *)
UninterruptedIsHeard ==
  \A r \in Requests, g \in 0 .. Cardinality(Requests) :
    LET clip == [req |-> r, gen |-> g] IN
      (Stopped /\ GENERATION = g /\ \E i \in DOMAIN text_rx : text_rx[i] = clip)
        ~> (clip \in played \cup failed \/ GENERATION # g)
=============================================================================
