------------------------------ MODULE MCWorker ------------------------------
(***************************************************************************)
(* The threads around the reader, for TLC: three kinds of session of the   *)
(* worker, each with the calls its clients make and its bounds, one of a   *)
(* client's event stream with the cues, and one of the hotkey threads.     *)
(***************************************************************************)
EXTENDS ReaderWorker, Relay, Hotkeys

VARIABLE session

(* A binding that is free, one that another action has, and no binding.    *)
Asked == {<<"bind", "pause", "x">>, <<"bind", "flush", "up">>, <<"unbind", "restart">>, <<"reset">>}

wvars == <<vars, relayVars, keyVars, session>>

One  == [Sentences |-> <<"Prose">>, Message |-> <<"Prose">>]
Two  == [Sentences |-> <<"Prose", "Prose">>, Message |-> <<"Prose">>]
Code == [Sentences |-> <<"Start", "Line">>, Message |-> <<"Start", "Line">>]
AllTexts == {One, Two, Code}

(* A streaming engine with pauses and start holds; items that replace each *)
(* other while they are synthesized; levels and step mode over code.       *)
Session ==
  [Stream |-> [text |-> Two, streams |-> TRUE, items |-> 1, calls |-> 2,
               controls |-> {"Pause", "Play", "Previous"}],
   Cancel |-> [text |-> One, streams |-> FALSE, items |-> 3, calls |-> 1,
               controls |-> {"Skip", "Stop"}],
   Level  |-> [text |-> Code, streams |-> FALSE, items |-> 1, calls |-> 4,
               controls |-> {"Mute", "Unmute", "NextLine"}]]
Here == Session[session]

MCInit == /\ WorkerInit
          /\ RelayInit /\ KeysInit
          /\ session \in DOMAIN Session \cup {"Events", "Keys"}
          /\ synth.streams = (session = "Stream")
          /\ session # "Events" => stream.set
          /\ session # "Keys" => keymap.hint = "down"
          /\ session # "Level" => reader.volume = 60

MCClients ==
  /\ \/ \E replace, interrupt \in BOOLEAN :
          Here.items >= reader.next_id /\ ClientSpeak(Here.text, replace, interrupt)
     \/ \E c \in Here.controls : ClientControl(c)
     \/ session = "Level" /\ \E v \in Volumes : ClientVolume(v)
     \/ session = "Level" /\ \E on \in BOOLEAN : ClientCodeStep(on)
     \/ session # "Level" /\ ClientHold
  /\ calls' <= Here.calls

(* Requests come on threads that are alike: one that is free takes it.     *)
FreeSetter == {t \in Setters : setter[t] = <<>>}
NextRequest == FreeSetter # {} /\ KeyRequests(CHOOSE t \in FreeSetter : TRUE)
KeySteps == \/ \E t \in Setters : Runs(t)
            \/ \E n \in 1..Len(pumps) : KeyThreads(n)

OfWorker == session \in DOMAIN Session /\ UNCHANGED <<relayVars, keyVars, session>>
OfRelay  == session = "Events" /\ UNCHANGED <<vars, keyVars, session>>
OfKeys   == session = "Keys" /\ UNCHANGED <<vars, relayVars, session>>
MCNext ==
  \/ OfWorker /\ (MCClients \/ Worker \/ Synth \/ Device \/ DeviceLost \/ HoldOver)
  \/ OfRelay /\ RelayNext
  \/ OfKeys /\ (NextRequest \/ KeySteps \/ Keyboard \/ KeysShutdown)
MCSpec == MCInit /\ [][MCNext]_wvars

=============================================================================
